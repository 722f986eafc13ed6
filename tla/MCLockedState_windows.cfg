SPECIFICATION FairSpec
CONSTANTS
    NoLock = NoLock
    Nothing = Nothing
    Processes = {p1, p2}
    Operations = {a, b, c}
    StaleSeconds = 1
    TimeoutSeconds = 2
    UnlinksOpenFiles = FALSE
    Mortal = {p1}
    WritesFail = TRUE
    MaxHold = 4
    MaxNow = 5
CHECK_DEADLOCK FALSE
INVARIANT
    TypeOK
    MutualExclusion
PROPERTY
    ImplementsAtomicState
    WaitEnds
    StaleLockGoes
