SPECIFICATION Spec
CONSTANTS
    Keys = {k1}
    Procs = {p1, p2, p3}
    Limit = 2
    Window = 5
    Second = 3
    MaxTime = 6
    None = None
SYMMETRY Interchangeable
INVARIANTS
    TypeOK
    AtMostLimit
PROPERTIES
    RetryIsEnough
    DecidesOnHistory
