SPECIFICATION MediaSpec
CONSTANTS
    Backends = {"xcap", "sck"}
    Hosts <- MCHosts
    QueueCap = 2
    Tiles = {t1, t2}
    Sinks = {"dc", "ws"}
    FrameCap = 1
    MaxRestarts = 1
    MaxFlight = 1
    Floor = 4
    Ceiling = 10
    CutPct = 30
    StepPct = 10
    ProbeInterval = 3
    AntiThrash = 3
    Hysteresis = 2
    OtherRates = {6}
    MaxFrames = 1
INVARIANTS OldTilesRepainted
PROPERTIES DecoderRecovers PipelineEnds RaiseEarned
CHECK_DEADLOCK FALSE
