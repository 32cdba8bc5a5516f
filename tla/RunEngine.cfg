CONSTANTS
    j1 = j1
    j2 = j2
    j3 = j3
    w1 = w1
    w2 = w2
    None = None
    Jobs <- ThreeJobs
    Workers <- TwoWorkers
    Branches <- OneBranch
    BranchOf <- IssueOf
    Request <- Asked
    Faults = {"db", "github", "agent", "stop"}
SPECIFICATION FairSpec
INVARIANTS
    TypeOK
    WorkConserved
    PrHeadIntact
    BranchAccounted
    RowTellsTruth
PROPERTIES
    AreRunOutcomes
    RunsSettle
