CONSTANTS
    n1 = n1
    Nodes = {n1}
    Web = Web
    Worker = Worker
    Unloaded = Unloaded
    Tries <- TriesSent
    Top = 1
    Window = 2
    Refresh = 1
    MaxTime = 2
    MaxPackets = 4
    MaxEdits = 1
    MaxTasks = 2
    MaxCrashes = 0
SPECIFICATION Spec
CHECK_DEADLOCK FALSE
INVARIANT LimitHolds
