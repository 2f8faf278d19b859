SPECIFICATION Spec
CONSTANTS
    Streams = {"playback"}
    Buffer = 4
    Period = 2
    Boundary = 12
    Sizes = {3}
    MaxTokens = 1
    MaxControl = 1
    Silence = Silence
INVARIANT PauseHoldsDma
CHECK_DEADLOCK FALSE
