SPECIFICATION Spec
CONSTANTS
    MaxTask = 2
    Free = Free
    MaxUrl = 2
    MaxFail = 2
    MaxStart = 2
    RETRY_ATTEMPTS = 2
    SESSION_TTL = 4
    KEY_TTL = 1
    LOOKUP_TTL = 4
INVARIANTS QrResolves
CHECK_DEADLOCK FALSE
