SPECIFICATION TemperSpec
CONSTANTS
    Bases <- MCBases
    Menu <- MCMenu
    MaxOps = 3
    MaxFailures = 1
    CleanShards = TRUE
INVARIANTS
    OntologyClosed
    SnapshotQueryable
    UndoRestores
PROPERTY
    FailureInvisible
CHECK_DEADLOCK FALSE
