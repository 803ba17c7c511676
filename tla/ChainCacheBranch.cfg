SPECIFICATION CacheSpec
CONSTANTS
    a = a
    b = b
    c = c
    r1 = r1
    r2 = r2
    r3 = r3
    None = None
    Keys = {a, b}
    Default = a
    Existing = {a}
    Requests = {r1, r2, r3}
    Plans <- BranchCalls
    HasPin = FALSE
    MaxHandles = 4
    MaxLocks = 4
    MaxMishaps = 0
INVARIANT SingleFlight
CHECK_DEADLOCK FALSE
