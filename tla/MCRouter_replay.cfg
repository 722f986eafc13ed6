SPECIFICATION Spec
CONSTANTS
    NoEntry = NoEntry
    Events = {e1}
    Workers = {w1, w2}
    Ttl = 2
    Modes <- MCModes
    RetryAttempts = 1
    MaxLag = 0
    Faults = FALSE
    MaxNow = 2
INVARIANT
    HermesIsAskedOnce
