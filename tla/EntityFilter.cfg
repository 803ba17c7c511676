SPECIFICATION MCQueriesSpec
CONSTANTS
    none = none
    Absent = none
    Drafts <- MCDrafts
    Edits <- MCEdits
    PartOf <- MCPartOf
    Queries <- MCQueries
    ReaderQueries <- MCReaderQueries
    Chunk = 1
    FlushEvery = 2
    DedupWindow = 2
    MaxDrafts = 2
    MaxEdits = 0
    MaxReopens = 0
    MaxRegistryFaults = 0
    MaxClock = 1
INVARIANTS
    EntityTypeLimits
CHECK_DEADLOCK FALSE
