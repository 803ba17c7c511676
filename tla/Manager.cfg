SPECIFICATION AllSpec
CONSTANTS
    Chains = {c1, c2}
    Workers = {w1, w2}
    Operators = {o1}
    MaxCommands = 1
    MaxFaults = 1
    Writers = {u, v}
    Windows <- MCWindows
    Policies <- OneTrusted
    MaxDepth = 3
    MaxVersions = 4
    MaxLinks = 1
    MaxTime = 2
    Callers = {k1, k2}
    Ids = {i1, i2}
    MaxHookFaults = 1
    MaxHookCrashes = 1
INVARIANTS
    GateIsSafe
    IdleMeansDone
    ReadersFindLive
    StoredIsAcknowledged
PROPERTIES
    PendingRuns
CHECK_DEADLOCK FALSE
