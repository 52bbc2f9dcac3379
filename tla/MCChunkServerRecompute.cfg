SPECIFICATION Spec
CONSTANTS
    k1 = k1
    k2 = k2
    NoKey = NoKey
    Handlers = {h1, h2, h3}
    Keys = {k1, k2}
    Valid = {k1, k2}
    MaxWorkers = 2
CHECK_DEADLOCK FALSE
INVARIANT NeverRecomputed
