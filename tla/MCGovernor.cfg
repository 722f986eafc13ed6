SPECIFICATION Spec
CONSTANTS
    NoFile = NoFile
    None = None
    Messages = {m}
    Targets = {u}
    Priorities <- MCPriorities
    Ttl <- MCTtl
    Enabled = TRUE
    Faults = TRUE
    MaxLag = 1
    MaxNow = 5
    MaxIds = 3
    MaxInFlight = 2
    WindowSeconds = 2
    InitialCapacity = 1
    MinCapacity = 1
    MaxCapacity = 2
    QueueMaxSize = 1
    BaseBackoff = 1
    MaxBackoff = 2
    BackoffMultiplier = 2
    JitterSeconds = 0
INVARIANT
    TypeOK
    StatusMirrorsQueue
    CircuitShape
    OneOwner
    BudgetBound
PROPERTY
    NothingVanishes
    GrowthIsEarned
    QuietPeriod
    AnnouncedIsKept
    QueueStaysBounded
