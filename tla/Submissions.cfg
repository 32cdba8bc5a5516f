CONSTANTS
    t1 = t1
    t2 = t2
    a1 = a1
    a2 = a2
    r1 = r1
    r2 = r2
    r3 = r3
    None = None
    Tasks <- OneTask
    Accounts <- TwoAccounts
    Reqs <- ThreeReqs
    Files <- SharedFiles
    BlockedBy <- NoBlockers
    Goal <- OneGoal
    Ops = {"claim", "submit", "block", "release", "done"}
    Surfaces = {"rest", "mcp"}
SPECIFICATION Spec
SYMMETRY WorkersAlike
INVARIANTS
    PrHeadIntact
    SubmissionAccounted
PROPERTY IsLease
