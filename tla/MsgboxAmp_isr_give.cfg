CONSTANTS
    rpaf = rpaf
    demo = demo
    test = test
    c1 = c1
    c2 = c2
    c3 = c3
    Null = Null
    Task = {cli}
    Endpoint <- MCEndpoint
    Channel <- MCSharedChannel
    ReadCh <- MCSharedReadCh
    Static <- MCStatic
    StaleNext <- MCStaleNext
    LevelStatus = TRUE
    FifoDepth = 2
    MaxWords = 2
SPECIFICATION MCSpec
INVARIANT GivenFromIsrOnlyUnheld
CHECK_DEADLOCK FALSE
