SPECIFICATION Spec
CONSTANTS
    Capacity = 2
    FlushThreshold = 2
    SyncCommits = FALSE
    PowerLoss = TRUE
    MaxAppends = 3
    MaxFaults = 1
    MaxCrashes = 1
INVARIANTS
    FlushSurvivesPowerLoss
