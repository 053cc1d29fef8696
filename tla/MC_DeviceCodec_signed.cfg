CONSTANTS
    Frames <- SignedFrames
    MaxChunk = 8
    ClientPaired = TRUE
    CharSigned = TRUE
    MaxCalls = 0
    SendMayFail = FALSE
SPECIFICATION Spec
INVARIANT TermDataIntegrity
CHECK_DEADLOCK FALSE
