SPECIFICATION Spec
CONSTANTS
    Threads = {t1, t2, t3}
    Lifetime = 11
    Overlap = 5
    Margin = 4
    MinCache = 1
    MaxCall = 2
    MaxNow = 14
    NoToken = NoToken
SYMMETRY Alike
CHECK_DEADLOCK FALSE
INVARIANT
    TypeOK
    TokenIsAccepted
