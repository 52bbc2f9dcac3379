SPECIFICATION BothSpec
CONSTANTS
    NChunks = 5
    NThreads = 3
INVARIANTS TypeOK AtMostOnce ReturnedComplete SameChunks
PROPERTIES LoopSpec SingleLoopSpec Returns
CHECK_DEADLOCK FALSE
