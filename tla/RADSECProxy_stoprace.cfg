CONSTANTS
    MaxBreaks = 1
    MaxFailedConnects = 1
SPECIFICATION Spec
INVARIANT StopLeavesNothing
CHECK_DEADLOCK FALSE
