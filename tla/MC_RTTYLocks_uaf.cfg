CONSTANTS
    d1 = d1
    d2 = d2
    d3 = d3
    None = None
    Devices <- MCThreeDevices
    Silent <- MCNoSilent
SPECIFICATION Spec
INVARIANT NoUseAfterFree
SYMMETRY Symm3
\* The lock-order cycle that NoLockCycle reports leaves every thread waiting;
\* otherwise a state with no step left is the end of the bounded workload
\* (three devices, one registration each, one ageing of the session).
CHECK_DEADLOCK FALSE
