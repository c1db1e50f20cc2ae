SPECIFICATION DesktopSpec
CONSTANTS
    Devices = {d}
    Sessions = {s1, s2, s3}
    None = None
    IdleTime = 5
    Compiled = {"av1", "vp9", "h264"}
    Preferences = {"auto", "jpeg", "vp9", "other"}
    Sizes = {a, b}
    Default = a
    OutCap = 7
    MaxNotices = 1
    MaxInput = 2
INVARIANTS Types OneViewer OrphanChannelClosed
PROPERTIES VideoDecides LeavesNothing
CHECK_DEADLOCK FALSE
