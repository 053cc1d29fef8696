CONSTANTS
    d1 = d1
    d2 = d2
    d3 = d3
    None = None
    Devices <- MCDevices
    Silent <- MCNoSilent
SPECIFICATION Spec
INVARIANT NoLockCycle
SYMMETRY Symm
CHECK_DEADLOCK FALSE
