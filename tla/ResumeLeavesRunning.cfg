CONSTANTS
    Task = {1}
    Evidence = {verified}
    NoReceipt = NoReceipt
    MaxEpoch = 4
    MaxAttempts = 2
    NestedTarget = {}
    InitialRoot = {"missing"}
    MaxFaults = 1
    MaxMigrateEpoch = 2
SPECIFICATION CPSpec
CHECK_DEADLOCK FALSE
PROPERTIES
    ResumeHandlesEveryRunning
