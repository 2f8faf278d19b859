SPECIFICATION PlatformSpec
CONSTANTS
    Task = {"a", "b", "c"}
    Priority <- MCPriority
    Ops <- MCOps
    Waits = {"finite"}
    IsrOps = {"front", "receive"}
    Item = {1, 2}
    Length = 2
    LockMax = 3
    IsrBurst = 1
    PcmStreams = {"playback", "capture"}
    PcmBuffer = 4
    PcmPeriod = 2
    PcmBoundary = 12
    PcmSizes = {3}
    PcmMaxTokens = 1
    PcmMaxControl = 1
    PcmSilence = None
    SpiNrMaxChan = 2
    SpiPort = {"p"}
    SpiSound = "sound"
    SpiKinds <- MCReads
    SpiMaxFailures = 1
    None = None
PROPERTY WaitsForDone
CHECK_DEADLOCK FALSE
