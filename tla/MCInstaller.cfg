SPECIFICATION Spec
CONSTANTS
    Installers = {i1, i2}
    Wrappers = {w1, w2}
SYMMETRY Alike
INVARIANT
    TypeOK
    VerifiedIsInstalled
PROPERTY
    ForeignSurvives
