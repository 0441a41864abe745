CONSTANTS
    Task = {1, 2, 3}
    Evidence = {verified}
    NoReceipt = NoReceipt
    MaxEpoch = 5
    MaxAttempts = 2
    NestedTarget = {3}
    InitialRoot = {"durable"}
    MaxFaults = 1
    MaxMigrateEpoch = 2
SPECIFICATION CPFairSpec
CHECK_DEADLOCK FALSE
INVARIANTS
    MigrateOwnsRunning
PROPERTIES
    RunningIsResolved
