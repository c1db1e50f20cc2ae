SPECIFICATION LiveSpec
CONSTANTS
    MaxTask = 2
    Free = Free
    MaxUrl = 2
    MaxFail = 2
    MaxStart = 2
    RETRY_ATTEMPTS = 2
    SESSION_TTL = 4
    KEY_TTL = 1
    LOOKUP_TTL = 4
INVARIANTS TypeOK NoDanglingKey
PROPERTIES Converges
CHECK_DEADLOCK FALSE
