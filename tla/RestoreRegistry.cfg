SPECIFICATION BackupSpec
CONSTANTS
    Signers = {signer, other}
    None = None
    MaxImports = 1
    MaxSourceIds = 2
    MaxTargetIds = 1
    MaxBackups = 2
    MaxRestores = 2
    MaxHalts = 0
INVARIANTS
    RestoredVerifies
CHECK_DEADLOCK FALSE
