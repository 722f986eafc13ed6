SPECIFICATION Spec
CONSTANTS
    NoFile = NoFile
    None = None
    Workers = {w1}
    Messages = {m1, m2}
    Targets = {u}
    Priorities <- MCOnePriority
    Ttl <- MCLongTtl
    Enabled = TRUE
    Mode <- MCTransport
    FlushLimits = {1}
    MaxLag = 0
    Faults = TRUE
    MaxNow = 6
    WindowSeconds = 2
    InitialCapacity = 2
    MinCapacity = 1
    MaxCapacity = 2
    QueueMaxSize = 2
    BaseBackoff = 1
    MaxBackoff = 1
    BackoffMultiplier = 2
    JitterSeconds = 0
    MaxIds = 1000
    MaxInFlight = 1000
PROPERTY
    ReleasedInLaterWindow
