SPECIFICATION TokenSpec
CONSTANTS
    Server = server
    Operators = {op}
    a1 = a1
    a2 = a2
    b1 = b1
    Tokens = {a1, a2, b1}
    AliasOf <- MCAliasOf
    Serial = FALSE
    None = None
    MaxCalls = 5
    MaxTokenFaults = 0
INVARIANTS
    RevocationHolds
CHECK_DEADLOCK FALSE
