SPECIFICATION Spec
CONSTANTS
    o1 = o1
    o2 = o2
    i1 = i1
    i2 = i2
    Null = Null
    Object <- Clients
    Id <- OneId
    Cmd <- LifeCycle
    QueueLen = 2
    CmdQueueLen = 2
    FifoDepth = 4
    EventBits = 1
    Exclusive = TRUE
    Faults <- Loud
    MaxLate = 0
INVARIANTS SendersExclude
CHECK_DEADLOCK FALSE
