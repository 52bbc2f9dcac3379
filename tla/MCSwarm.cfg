SPECIFICATION Spec
CONSTANTS
    NChunks = 4
    NServers = 3
    NThreads = 2
    NFiles = 1
    Ids = 2
    MaxCubes = 3
    Shared = {1}
    Unreliable = {0}
INVARIANT OwnChunks
PROPERTY LoopSpec
CHECK_DEADLOCK FALSE
