SPECIFICATION EdgeSpec
CONSTANTS
    Absent = Absent
    MaxBorn = 4
    Closeness <- MCCloseness
    K = 2
    InlineLimit = 1
    ScanBatch = 2
    Chunk = 2
    SaveEvery = 2
    MaxReplay = 3
    MaxFullBuild = 4
    MaxScanFaults = 0
    MaxCloses = 0
    MaxToggles = 0
INVARIANTS
    NoPairTwice
CHECK_DEADLOCK FALSE
