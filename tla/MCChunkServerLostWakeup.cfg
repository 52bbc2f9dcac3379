SPECIFICATION FairSpec
CONSTANTS
    k1 = k1
    k2 = k2
    NoKey = NoKey
    Handlers = {h1, h2}
    Keys = {k1}
    Valid = {k1}
    MaxWorkers = 2
CHECK_DEADLOCK FALSE
PROPERTY WaitingDownloadNotified
