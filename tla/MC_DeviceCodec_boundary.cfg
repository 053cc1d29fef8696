CONSTANTS
    Frames <- RegisterFrames
    MaxChunk = 4
    ClientPaired = TRUE
    CharSigned = TRUE
    MaxCalls = 1
    SendMayFail = FALSE
SPECIFICATION Spec
INVARIANT ReadBoundaryInvariant
CHECK_DEADLOCK FALSE
