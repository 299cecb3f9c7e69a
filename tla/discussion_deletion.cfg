SPECIFICATION Spec
CONSTANTS
    Users = {mod}
    Mods = {mod}
    MaxThread = 2
    MaxPost = 2
    MaxCount = 1
    Procs = {p1, p2}
    Kinds = {"reply", "newThread", "edit", "deletePost", "deleteThread"}
    ForeignKeys = {TRUE, FALSE}
    Faults = FALSE
    None = None
SYMMETRY Interchangeable
INVARIANTS
    NoDanglingReference
    CountersNeverBehind
PROPERTY RemovedStaysRemoved
