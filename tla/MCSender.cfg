SPECIFICATION Spec
CONSTANTS
    NoFile = NoFile
    None = None
    Workers = {w1, w2}
    Messages = {m1, m2}
    Targets = {u}
    Priorities <- MCPriorities
    Ttl <- MCTtl
    Enabled = TRUE
    Mode <- MCTransport
    FlushLimits = {2}
    MaxLag = 1
    Faults = TRUE
    MaxNow = 4
    WindowSeconds = 2
    InitialCapacity = 2
    MinCapacity = 1
    MaxCapacity = 2
    QueueMaxSize = 1
    BaseBackoff = 1
    MaxBackoff = 2
    BackoffMultiplier = 2
    JitterSeconds = 0
    MaxIds = 1000
    MaxInFlight = 1000
SYMMETRY Interchangeable
INVARIANT
    TypeOK
    DeliveredAtMostOnce
PROPERTY
    NoSilentLoss
    RefusedOnlyWhenFull
    ReleasedUnlessMarked
    ImplementsGovernor
