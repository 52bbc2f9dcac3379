SPECIFICATION FairSpec
CONSTANTS
    k1 = k1
    k2 = k2
    k3 = k3
    NoThread = NoThread
    NoKey = NoKey
    Size <- SizeOf
    Keys = {k1, k2, k3}
    Threads = {t1, t2, t3}
    Ops = {"add", "get"}
    MaxBytes = 5
    PrioMax = 100
    PrioMod = 50
PROPERTIES EvictionEnds
CHECK_DEADLOCK FALSE
