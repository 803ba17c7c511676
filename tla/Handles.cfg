SPECIFICATION HandlesSpec
CONSTANTS
    a = a
    b = b
    c = c
    r1 = r1
    r2 = r2
    r3 = r3
    None = None
    Keys = {a, b, c}
    Default = b
    Existing = {a, b}
    Requests = {r1, r2, r3}
    Plans <- OthersMeddle
    HasPin = FALSE
    MaxHandles = 4
    MaxLocks = 4
    MaxMishaps = 1
    MaxAttempts = 2
    MaxCrashes = 3
    MaxFaults = 1
    MaxStops = 3
INVARIANTS
    SingleFlightAlone
    AcknowledgedIsStored
    LiveIsWhole
PROPERTIES
    RequestsEnd
    GrowthKept
    Resumes
CHECK_DEADLOCK FALSE
