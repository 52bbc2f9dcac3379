SPECIFICATION Spec
CONSTANTS
    NaN = NaN
    NoMatch = NoMatch
    Unparsable = Unparsable
    Temporary = Temporary
    NoFile = NoFile
    Memory = Memory
    FileNames = {f}
    Descriptors <- MCDescriptors
    FileInfo <- MCFileInfo
    BandOrder <- MCBandOrder
    Subdatasets = TRUE
    TicksPerDay = 2
    DaysPerWeek = 2
    DaysPerMonth = 2
    MonthDays <- MCMonthDays
    Lists <- MCLists
    Ranges <- MCRanges
    BandSets <- MCBandSets
    Selections <- MCSelections
    Unreadable <- MCUnreadable
    Views <- MCViews
    Durations <- MCDurations
    Counts <- MCCounts
    CellSizes <- MCCellSizes
    Settings <- MCSettings
    MaxOperations = 3
INVARIANTS
    TypeOK
    ReadsAgree
    FilterTransparent
    RemoteAgrees
    ViewCells
CHECK_DEADLOCK FALSE
