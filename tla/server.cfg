SPECIFICATION Spec
CONSTANTS
    p1 = p1
    p2 = p2
    Procs <- TwoProcs
    Roles <- ServerAndCommand
    Alone <- OnlyDown
    Versions = 2
    Size <- TwoMigrations
    Columns <- OneColumn
    Second <- OnlyFirst
    Busy = 1
    Faults = TRUE
    None = None
INVARIANTS
    TypeOK
    ServesCompleteSchema
    CleanMeansComplete
    StoreOutlivesRequests
PROPERTIES
    StartsOrEnds
    SignalStops
    FailureStops
