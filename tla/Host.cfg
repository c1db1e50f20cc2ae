SPECIFICATION HostSpec
CONSTANTS
    MaxUrls = 3
    MaxFlips = 3
    BusCapacity = 6
    Senders = {supervisor}
    Subscribers = {tui}
    Urls = {u1, u2}
    Other = Other
    NoBusUrl = NoUrl
    Capacity = 2
    MaxLog = 6
    Process = {p1, p2, p3}
    Free = Free
    MaxFile = 2
    Device = {d1}
    MaxKey = 2
    MaxRecent = 2
    MaxUrl = 2
    ProbeCap = 2
    Sub = {s1, s2}
    Window = 2
    MaxTime = 3
    MaxEvent = 4
    BusSize = 2
    Watched = {w1, w2}
    Lit = {w1}
    MaxOutput = 2
    MaxAgent = 1
    MaxMiss = 1
INVARIANTS TypeOK Spacing ReadersInStep ServicesKeepPromises
PROPERTIES RespawnsApart EdgeRecovers WaitersAreServed
CHECK_DEADLOCK FALSE
