CONSTANTS
    t1 = t1
    t2 = t2
    a1 = a1
    a2 = a2
    r1 = r1
    r2 = r2
    r3 = r3
    None = None
    Tasks <- TwoTasks
    Accounts <- OneAccount
    Reqs <- TwoReqs
    Files <- SharedFiles
    BlockedBy <- Chain
    Goal <- OneGoal
    Ops = {"claim", "submit", "release", "done"}
    Surfaces = {"rest"}
SPECIFICATION Spec
PROPERTY ClaimEnforcesBlockers
