SPECIFICATION Spec
CONSTANTS
    k1 = k1
    k2 = k2
    NoKey = NoKey
    Handlers = {h1, h2, h3}
    Keys = {k1, k2, kBad}
    Valid = {k1, k2}
    MaxWorkers = 2
SYMMETRY RequestSymmetry
INVARIANTS TypeOK AcceptedNotLost QueuedBacked ExecutingBacked FrontExists CachedBeforeAnnounced
PROPERTIES ServicePromise
CHECK_DEADLOCK FALSE
