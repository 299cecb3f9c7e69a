SPECIFICATION Spec
CONSTANTS
    MaxCat = 2
    MaxSub = 2
    MaxThreads = 1
    Procs = {p1, p2}
    Kinds = {"createCat", "editCat", "deleteCat", "moveCat", "createSub", "editSub",
             "deleteSub", "moveSub", "newThread", "deleteThread"}
    ForeignKeys = {TRUE, FALSE}
    None = None
SYMMETRY Interchangeable
INVARIANTS
    TypeOK
    NothingOrphaned
PROPERTY MovesDecideTheOrder
