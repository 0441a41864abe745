CONSTANTS
    Task = {1}
    Evidence = {verified}
    NoReceipt = NoReceipt
    MaxEpoch = 6
    MaxAttempts = 2
    NestedTarget = {}
    InitialRoot = {"missing", "durable"}
    MaxFaults = 3
    MaxMigrateEpoch = 4
SPECIFICATION CPSpec
CHECK_DEADLOCK FALSE
INVARIANTS
    CPTypeOK
    SucceededIsRight
    VerifiedBytesSurvive
PROPERTIES
    UsesRuntimeCorrectly
    ExistingFinalKept
