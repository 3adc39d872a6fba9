CONSTANTS
    i1 = i1
    i2 = i2
    Interfaces = {i1, i2}
    Task = Task
    Nobody = Nobody
    MaxProbes = 2
    MaxHeard = 2
    MaxPackets = 1
    MaxCrashes = 0
SPECIFICATION FairSpec
CHECK_DEADLOCK FALSE
PROPERTY EveryThreadReturns
