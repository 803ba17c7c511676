SPECIFICATION ServicesSpec
CONSTANTS
    Agents = {operator, alice}
    KeyIds = {k}
    Keys = {ko, ka}
    NoKey = none
    Operator = operator
    OperatorKeyId = k
    OperatorKey = ko
    MaxThoughts = 3
    MaxChanges = 2
    MaxFaults = 1
    MaxOpens = 2
    p1 = p1
    p2 = p2
    q1 = q1
    Proofs = {p1, p2, q1}
    SignerOf <- MCSignerOf
    Requests = {1, 2, 3}
    Window = 2
    Capacity = 2
    PerKeyLimit = 2
    MaxNow = 4
    MaxBack = 1
    Bodies = {r1, r2}
    Peers = {p1, p2}
    NoPeer = nobody
    BodiesPerPeer = 1
    MaxUnits = 3
    Pool <- MCPool
    Share <- MCShare
    Idle = 2
    MinRate = 1
    Cap = 10
    Deadline = FALSE
    MaxFrame = 3
    Holders = {h1}
    Skills = {1, 2}
    Contents = {c1, c2}
    Authors = {a1, Blank}
    Registered = {a1}
    Blank = Blank
    MaxVersions = 3
    MaxBirths = 2
    MaxWrites = 3
    MaxReady = 1
    MaxSkillCrashes = 1
    MaxSkillFaults = 1
    NoEntry = NoEntry
    NoFile = NoFile
    MaxEntries = 3
    MaxRebuilds = 1
    MaxCrashes = 1
    MaxSidecarFaults = 1
    Signers = {signer}
    None = None
    MaxImports = 2
    MaxSourceIds = 3
    MaxTargetIds = 2
    MaxBackups = 2
    MaxRestores = 2
    MaxHalts = 1
INVARIANTS
    PolicyIsReplay
    SecretsStayHidden
    VerdictsAreRight
    OperatorGoverns
    GrantedOnce
    BudgetConserved
    KeepsPace
    RegistryIsSound
    AckedIsStored
    
    BackupsAreGood
PROPERTIES
    HistoryPreserved
    LoadIsComplete
CHECK_DEADLOCK FALSE
