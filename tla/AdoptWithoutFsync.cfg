CONSTANTS
    Task = {1}
    Evidence = {verified}
    NoReceipt = NoReceipt
    MaxEpoch = 5
    MaxAttempts = 2
    NestedTarget = {}
    InitialRoot = {"durable"}
    MaxFaults = 2
    MaxMigrateEpoch = 4
SPECIFICATION CPSpec
CHECK_DEADLOCK FALSE
INVARIANTS
    SucceededIsDurable
