CONSTANTS
    MaxBreaks = 1
    MaxFailedConnects = 1
SPECIFICATION Spec
PROPERTY ReconnectAfterLoss
CHECK_DEADLOCK FALSE
