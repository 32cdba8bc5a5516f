CONSTANTS
    t1 = t1
    t2 = t2
    a1 = a1
    a2 = a2
    r1 = r1
    r2 = r2
    r3 = r3
    l1 = l1
    None = None
    Tasks <- TwoTasks
    Accounts <- OneAccount
    Reqs <- OneReq
    Lists <- OneList
    Files <- NoFiles
    BlockedBy <- ChainToNone
    Goal <- OneGoal
    Ops = {"claim", "block", "release", "done"}
    Surfaces = {"rest"}
SPECIFICATION ListingSpec
INVARIANTS
    BlockersWereDone
    ListTells
