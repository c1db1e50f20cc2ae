SPECIFICATION WorkbenchSpec
CONSTANTS
    MaxSession = 2
    MaxRequest = 2
    NoRequest = NoRequest
    Cap = 1
    MaxSeq = 2
    Sizes = {1, 2}
    Capacity = 2
    ChanCap = 1
    WireCap = 2
    MaxFault = 1
    None = None
    Socket = {s1, s2}
INVARIANTS TypeOK NoPhantom NoOrphanRow NoGap ExitComesLast
PROPERTIES WaitersAreServed
CHECK_DEADLOCK FALSE
