SPECIFICATION Spec
CONSTANTS
    Shapes <- SmallShapes
    MaxThreads = 2
    MaxChunks = 4
INVARIANTS
    TypeOK
    RightPlace
    NothingMissing
    ChunksPartition
    PointsFound
    VariablesAgree
CHECK_DEADLOCK FALSE
