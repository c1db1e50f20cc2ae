SPECIFICATION Spec
CONSTANTS
    Child = {c1, c2}
    Monitor = {edge}
    Sup = Sup
    Side = Side
    None = None
    BusCapacity = 1
    DegradedAt = 2
    MaxForce = 1
    MaxDisconnect = 1
    MaxSignal = 1
    MaxLimited = 1
    MaxNoise = 1
INVARIANTS TypeOK NoForgottenChild RespawnsAccounted
PROPERTIES RateLimitHonoured
SYMMETRY MCSymmetry
CHECK_DEADLOCK FALSE
