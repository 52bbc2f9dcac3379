SPECIFICATION Spec
CONSTANTS
    NaN = NaN
    Unspecified = Unspecified
    Open = Open
    Failed = Failed
    SeriesLength = 4
    Threads = {t1, t2}
    Cubes <- MCCubes
    Operations <- MCOperations
INVARIANTS
    TypeOK
    ReduceAgrees
    SeriesAgrees
    BandsAgree
    OwnOutput
CHECK_DEADLOCK FALSE
