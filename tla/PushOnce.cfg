CONSTANTS
    Calls = {c1}
    MaxAttempts = 4
CHECK_DEADLOCK FALSE
SPECIFICATION Spec
INVARIANT PushIsRetried
