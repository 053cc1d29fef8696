CONSTANTS
    d1 = d1
    d2 = d2
    d3 = d3
    None = None
    Devices <- MCDevices
    Silent <- MCSilent
SPECIFICATION Spec
PROPERTY HandshakeReturns
CHECK_DEADLOCK FALSE
