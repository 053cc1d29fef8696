CONSTANTS
    i1 = i1  d1 = d1  d2 = d2  c1 = c1  c2 = c2
    None = None
    Ids <- MCIds
    Devices <- MCDevices
    Clients <- MCOneClient
    MaxSessions = 1
SYMMETRY Symm
SPECIFICATION Spec
INVARIANT TypeOK
INVARIANT PairedImpliesJoined
PROPERTY SessionSpec
