SPECIFICATION Spec
\* An idle server whose keys are used up is no deadlock.
CHECK_DEADLOCK FALSE
CONSTANTS
    Users = {mod, ann}
    Mods = {mod}
    MaxThread = 1
    MaxPost = 2
    MaxRow = 2
    MaxTime = 1
    Procs = {p1, p2}
    KindSets <- Mixes
    Faults = TRUE
    ForeignKeys = {TRUE, FALSE}
    None = None
SYMMETRY Interchangeable
INVARIANTS
    TypeOK
    NothingLeftBehind
    ReviewedMeansRemoved
    NewPostsAnnounced
    DraftsAreUsedUp
    EachSideItsOwn
PROPERTY TogglesAreAtomic
