CONSTANTS
    MaxBreaks = 1
    MaxFailedConnects = 1
SPECIFICATION Spec
PROPERTY StopTerminates
\* Stop() and the reactor's Disconnect can wait for each other, leaving no
\* step to take; the property, not the deadlock check, reports it.
CHECK_DEADLOCK FALSE
