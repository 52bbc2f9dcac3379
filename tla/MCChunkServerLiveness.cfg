SPECIFICATION LivenessSpec
CONSTANTS
    k1 = k1
    k2 = k2
    NoKey = NoKey
    Handlers = {1, 2, 3}
    Keys = {k1, k2}
    Valid = {k1, k2}
    MaxWorkers = 2
PROPERTIES AwakeWorkerDrains AnnouncedDownloadAnswered
CHECK_DEADLOCK FALSE
