CONSTANTS
    n1 = n1
    Nodes = {n1}
    Web = Web
    Worker = Worker
    Unloaded = Unloaded
    Tries <- TriesSent
    Top = 2
    Window = 2
    Refresh = 2
    MaxTime = 3
    MaxPackets = 5
    MaxEdits = 2
    MaxTasks = 1
    MaxCrashes = 1
SPECIFICATION Spec
CHECK_DEADLOCK FALSE
INVARIANT TypeOK
INVARIANT LimitBetweenClears
INVARIANT SilentWhenOff
