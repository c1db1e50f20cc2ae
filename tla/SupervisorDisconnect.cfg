SPECIFICATION LiveSpec
CONSTANTS
    Child = {c1}
    Monitor = {edge}
    Sup = Sup
    Side = Side
    None = None
    BusCapacity = 4
    DegradedAt = 2
    MaxForce = 0
    MaxDisconnect = 1
    MaxSignal = 0
    MaxLimited = 0
    MaxNoise = 0
PROPERTIES DisconnectTearsDown
CHECK_DEADLOCK FALSE
