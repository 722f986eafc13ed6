SPECIFICATION Spec
CONSTANTS
    NoFile = NoFile
    None = None
    Workers = {w1}
    Messages = {m1, m2, m3, m4}
    Targets = {u}
    Priorities <- MCOnePriority
    Ttl <- MCOneTtl
    Enabled = TRUE
    Mode <- MCTransport
    FlushLimits = {2}
    MaxLag = 0
    Faults = FALSE
    MaxNow = 4
    WindowSeconds = 2
    InitialCapacity = 2
    MinCapacity = 1
    MaxCapacity = 2
    QueueMaxSize = 2
    BaseBackoff = 2
    MaxBackoff = 2
    BackoffMultiplier = 2
    JitterSeconds = 0
    MaxIds = 1000
    MaxInFlight = 1000
PROPERTY
    FlushStopsAtCircuit
