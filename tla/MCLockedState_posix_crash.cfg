SPECIFICATION Spec
CONSTANTS
    NoLock = NoLock
    Nothing = Nothing
    Processes = {p1, p2, p3}
    Operations = {a, b, c, d}
    StaleSeconds = 1
    TimeoutSeconds = 2
    UnlinksOpenFiles = TRUE
    Mortal = {p1, p2, p3}
    WritesFail = FALSE
    MaxHold = 1
    MaxNow = 5
SYMMETRY Alike
CHECK_DEADLOCK FALSE
INVARIANT
    Kept
