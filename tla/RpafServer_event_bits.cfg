SPECIFICATION Spec
CONSTANTS
    o1 = o1
    o2 = o2
    i1 = i1
    i2 = i2
    Null = Null
    Object <- Clients
    Id <- TwoIds
    Cmd <- LifeCycle
    QueueLen = 2
    CmdQueueLen = 2
    FifoDepth = 4
    EventBits = 1
    Exclusive = FALSE
    Faults <- NoFaults
    MaxLate = 0
INVARIANTS WaitsForUserBits
