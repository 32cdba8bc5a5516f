CONSTANTS
    MaxIterations = 2
    RecursionLimit = 8
    RequireApproval = FALSE
    MaxCalls = 2
    Files = {f}
    Contents = {old, new}
    Base = old
    Torn = Torn
    None = None
    MaxMessages <- CoderTwice
CHECK_DEADLOCK FALSE
SPECIFICATION TurnsSpec
INVARIANTS
    TurnsOK
    CommitCovers
    HeadWhole
    ReadyPrWasReviewed
    ReadyPrWasApproved
    IterationsBounded
    FallbackFits
PROPERTIES
    ImplementsGraph
    IsRunOutcome
    Terminates
