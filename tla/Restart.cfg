CONSTANTS
    j1 = j1
    j2 = j2
    j3 = j3
    w1 = w1
    w2 = w2
    None = None
    Jobs <- OneJob
    Workers <- TwoWorkers
    Branches <- OneBranch
    BranchOf <- IssueOfOne
    Request <- AskedOne
    Faults = {"stop"}
SPECIFICATION FairSpec
PROPERTY RunsSurviveRestarts
