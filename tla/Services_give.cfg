SPECIFICATION ServicesSpec
CONSTANTS
    Word = {"suspend", "resume"}
    Suspend = "suspend"
    Irq = {"msgbox", "tick"}
    Msgbox = "msgbox"
    Level <- MCLevel
    Freq = {"low", "high"}
    Low = "low"
    None = "none"
    FreqFails = TRUE
    CreateFails = TRUE
    Patience = {TRUE, FALSE}
    QueueLength = 2
    FifoDepth = 1
    Window = 2
    MaxWords = 3
    MmPackages <- MCPackages
    MmJunk = 0
    MmBuffers = 2
    MmIndexWords = 4
    MmFifoDepth = 2
    MmWindow = 2
    MmEarlyWords = FALSE
    MmGapAfterAbort = TRUE
    DtLengths <- MCLengths
    DtBlockLength = 2
    DtQueueSize = 3
    KmTask = {"idle", "a", "b", "c"}
    KmIdle = "idle"
    KmBase <- MCBase
    KmMutex = {"m", "n"}
    KmRecursive = {"m"}
    KmMaxDepth = 2
    KmNestedWaits = FALSE
INVARIANTS
    GiveSwitches
CHECK_DEADLOCK FALSE
