SPECIFICATION Spec
CONSTANTS
    k1 = k1
    k2 = k2
    k3 = k3
    NoThread = NoThread
    NoKey = NoKey
    Size <- SizeOf
    Keys = {k1, k2, k3}
    Threads = {t1, t2, t3, t4, t5}
    Ops = {"add", "get", "remove"}
    MaxBytes = 5
    PrioMax = 4
    PrioMod = 4
SYMMETRY ThreadSymmetry
INVARIANTS TypeOK WithinLimit GetReturnsChunk ForwardBacked VictimIsOldest
CHECK_DEADLOCK FALSE
