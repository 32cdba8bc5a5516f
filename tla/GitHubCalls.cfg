CONSTANTS
    Calls = {c1, c2}
    MaxAttempts = 4
CHECK_DEADLOCK FALSE
SPECIFICATION FairSpec
INVARIANTS
    TypeOK
    EffectsBounded
PROPERTIES
    IsRemoteCall
    CallsEnd
