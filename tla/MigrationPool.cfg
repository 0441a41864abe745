CONSTANTS
    Task = {1, 2, 3, 4, 5}
    Worker = {w1, w2}
    Capacity = 2
    MaxErrors = 2
SPECIFICATION PoolFairSpec
CHECK_DEADLOCK FALSE
INVARIANTS
    PoolTypeOK
    TasksHandedOver
    SuccessMeansAllVerified
    ErrorStopsClaims
PROPERTIES
    RunEnds
