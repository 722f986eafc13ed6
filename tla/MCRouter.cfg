SPECIFICATION Spec
CONSTANTS
    NoEntry = NoEntry
    Events = {e1, e2}
    Workers = {w1, w2}
    Ttl = 1
    Modes <- MCModes
    RetryAttempts = 2
    MaxLag = 1
    Faults = TRUE
    MaxNow = 3
SYMMETRY Alike
INVARIANT
    TypeOK
PROPERTY
    DuplicateEndedWell
    ReplayStaysOut
