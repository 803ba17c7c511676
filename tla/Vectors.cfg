SPECIFICATION BothSpec
CONSTANTS
    MaxThoughts = 4
    MaxPipelined = 2
    MaxEmbedAttempts = 2
    RepairBatch = 2
    MaxDrain = 1
    CatchUp = 1
    Poison = {3}
    MaxEmbedFaults = 1
    MaxSync = 1
    Server = server
    Operators = {op}
    a1 = a1
    a2 = a2
    b1 = b1
    Tokens = {a1, a2, b1}
    AliasOf <- MCAliasOf
    Serial = TRUE
    None = None
    MaxCalls = 5
    MaxTokenFaults = 1
    Absent = Absent
    MaxBorn = 4
    Closeness <- MCCloseness
    K = 2
    InlineLimit = 1
    ScanBatch = 2
    Chunk = 2
    SaveEvery = 2
    MaxReplay = 2
    MaxFullBuild = 3
    MaxScanFaults = 1
    MaxCloses = 1
    MaxToggles = 1
INVARIANTS
    Accounted
    UsesKept
    OverlayIsTrue
PROPERTIES
    VectorsCatchUp
    ImplementsLedger
    BacklogDrains
CHECK_DEADLOCK FALSE
