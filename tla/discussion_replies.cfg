SPECIFICATION Spec
CONSTANTS
    Users = {mod}
    Mods = {mod}
    MaxThread = 1
    MaxPost = 4
    MaxCount = 2
    Procs = {p1, p2}
    Kinds = {"reply", "newThread", "lock", "pin"}
    ForeignKeys = {TRUE, FALSE}
    Faults = TRUE
    None = None
SYMMETRY Interchangeable
INVARIANTS
    TypeOK
    CountersExact
    NestingBounded
