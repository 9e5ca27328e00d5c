SPECIFICATION Spec
CONSTANTS
    Mentions <- MCMentions
    Kinds <- MCKinds
    NameOf <- MCNameOf
    TailOf <- MCTailOf
    Similar <- MCSimilar
    Batches <- MCBatches
    Deltas <- MCDeltas
    PivotOrders <- MCPivotOrders
    Window = 3
    MaxCycles = 3
    MaxFailures = 1
INVARIANTS
    ClustersPartition
    PivotJoinsAll
    BlockingCovers
PROPERTIES
    UrisHeld
    OthersUntouched
CHECK_DEADLOCK FALSE
