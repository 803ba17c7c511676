SPECIFICATION EngineSpec
CONSTANTS
    MaxAttempts = 2
    MaxCrashes = 1
    MaxFaults = 1
    MaxStops = 3
CHECK_DEADLOCK FALSE
INVARIANTS
    RecordsKept
