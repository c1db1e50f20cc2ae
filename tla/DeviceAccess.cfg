SPECIFICATION AgentSpec
CONSTANTS
    Device = {d1, d2}
    Code = {code}
    Token = {k1}
    Request = {r1, r2}
    None = None
    PAIRING_TTL = 0
    OTK_TTL = 1
    SESSION_TTL = 0
    MaxTime = 2
    MaxIssue = 1
    MaxBoot = 3
    MaxTry = 3
    Port = {p1}
    Origin = {o1, o2}
    EnvOrigin = {o2}
    MaxListReq = 3
    MaxOrigins = 1
    MaxReq = 3
    MaxSuffix = 1
    MaxSecond = 2
    MaxSize = 3
    Updater = {u1, u2}
    MaxVersion = 3
    MaxLaunch = 2
    MaxProbes = 1
    MaxBacklog = 2
    Toggle = {t1, t2}
    MaxToggle = 4
INVARIANTS TypeOK NoEntryWithoutConsent PairedInTime RevokedHoldsNoSubscription
           FilesKept BootsUsable ViewsAgree
PROPERTIES Implements
SYMMETRY MCSymmetry
CHECK_DEADLOCK FALSE
