SPECIFICATION Spec
\* An idle server whose keys are used up is no deadlock.
CHECK_DEADLOCK FALSE
CONSTANTS
    Types = {png, pdf}
    Words = {spam}
    Users = {ann}
    Exts = {jpg, gif}
    MaxPost = 1
    MaxRow = 2
    Files = {f1, f2, f3}
    MaxFiles = 2
    Procs = {p1, p2}
    KindSets <- Mixes
    Faults = TRUE
    None = None
SYMMETRY Interchangeable
INVARIANTS
    TypeOK
    BlockedWordsAreHeld
    AttachmentsAreWhole
    AvatarsAreThere
