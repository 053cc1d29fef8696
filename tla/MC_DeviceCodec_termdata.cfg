CONSTANTS
    Frames <- TermFrames
    MaxChunk = 4
    ClientPaired = TRUE
    CharSigned = TRUE
    MaxCalls = 1
    SendMayFail = TRUE
SPECIFICATION Spec
INVARIANT TypeOK
INVARIANT TermDataIntegrity
INVARIANT OutboundFramesWellFormed
CHECK_DEADLOCK FALSE
