CONSTANTS
    main = main
    w1 = w1
    w2 = w2
    t1 = t1
    t2 = t2
    Client = {main, w1, w2}
    Task = {t1, t2}
    Kind = {"Claim", "CommitIntent"}
    Sends <- MCSends
    MaxBatch = 2
    MaxCalls = 3
    MaxErrors = 1
    MaxThrows = 1
SPECIFICATION WriterFairSpec
CHECK_DEADLOCK FALSE
INVARIANTS
    WriterTypeOK
    QueueIsServed
PROPERTIES
    ImplementsStore
    CallsReturn
