CONSTANTS
    i1 = i1
    i2 = i2
    Interfaces = {i1, i2}
    Task = Task
    Nobody = Nobody
    MaxProbes = 2
    MaxHeard = 3
    MaxPackets = 1
    MaxCrashes = 1
SPECIFICATION Spec
SYMMETRY Symmetry
CHECK_DEADLOCK FALSE
INVARIANT TypeOK
INVARIANT OwnThreadUnconfirmed
INVARIANT FewRows
