CONSTANTS
    Frames <- LogoutFrames
    MaxChunk = 16
    ClientPaired = TRUE
    CharSigned = TRUE
    MaxCalls = 1
    SendMayFail = FALSE
SPECIFICATION Spec
INVARIANT FramesInOrder
CHECK_DEADLOCK FALSE
