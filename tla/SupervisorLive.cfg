SPECIFICATION LiveSpec
CONSTANTS
    Child = {c1, c2}
    Monitor = {edge}
    Sup = Sup
    Side = Side
    None = None
    BusCapacity = 2
    DegradedAt = 2
    MaxForce = 1
    MaxDisconnect = 0
    MaxSignal = 1
    MaxLimited = 0
    MaxNoise = 0
PROPERTIES SupersededDies TunnelRecovers StopWhileWaitingReaps
CHECK_DEADLOCK FALSE
