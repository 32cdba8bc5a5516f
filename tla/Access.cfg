CONSTANTS
    w = w
    d = d
    p1 = p1
    p2 = p2
    r1 = r1
    r2 = r2
    None = None
    Accounts <- WorkerAndAdmin
    Role <- TheirRoles
    Projects <- TwoProjects
    Reqs <- TwoReqs
    MaxTokens = 2
    Joiners <- JustWorker
SPECIFICATION Spec
SYMMETRY Alike
INVARIANTS
    TypeOK
    AnswersTell
PROPERTIES
    ActsByRight
    TokensStayDead
