SPECIFICATION AppendsSpec
CONSTANTS
    Capacity = 2
    FlushThreshold = 2
    SyncCommits = TRUE
    PowerLoss = TRUE
    MaxAppends = 3
    MaxFaults = 1
    MaxCrashes = 1
    MaxHooks = 1
    MaxEvents = 4
    EventCapacity = 2
    Permits = 2
    MaxRetries = 2
    Threshold = 2
    none = none
    Absent = none
    Drafts <- MCDrafts
    Edits <- MCEdits
    PartOf <- MCPartOf
    Queries <- MCQueries
    ReaderQueries <- MCReaderQueries
    Chunk = 1
    FlushEvery = 2
    DedupWindow = 2
    MaxDrafts = 3
    MaxEdits = 1
    MaxReopens = 1
    MaxRegistryFaults = 1
    MaxClock = 2
INVARIANTS
    ChainAgreesWithFile
    AckKept
    PausedAfterOne
    KeptIsRemade
    AnswersAreScans
    PagesMissNothing
PROPERTIES
    FlushKept
    CallsReturn
    ImplementsAppendLog
    EveryJobEnds
CHECK_DEADLOCK FALSE
