SPECIFICATION Spec
CONSTANTS
    MaxSeq = 3
    Sizes = {1, 2}
    Capacity = 2
    ChanCap = 1
    WireCap = 2
    MaxFault = 2
    None = None
    Socket = {s1, s2}
INVARIANTS ReplayNotDuplicated
CHECK_DEADLOCK FALSE
