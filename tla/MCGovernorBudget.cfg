SPECIFICATION BudgetSpec
CONSTANTS
    NoFile = NoFile
    None = None
    Messages = {m}
    Targets = {u}
    Priorities <- MCPriorities
    Ttl <- MCTtl
    Enabled = TRUE
    Faults = FALSE
    MaxLag = 1
    MaxNow = 6
    MaxIds = 3
    MaxInFlight = 3
    WindowSeconds = 3
    InitialCapacity = 1
    MinCapacity = 1
    MaxCapacity = 1
    QueueMaxSize = 1
    BaseBackoff = 1
    MaxBackoff = 2
    BackoffMultiplier = 2
    JitterSeconds = 1
INVARIANT
    AnyStretchBudget
    ProbeMarkIsOwned
