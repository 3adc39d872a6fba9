CONSTANTS
    j1 = j1
    c1 = c1
    c2 = c2
    Scan = Scan
    NoJob = NoJob
    Jobs = {j1}
    Clients = {c1, c2}
    Periods = {1, 2}
    MinPeriod = 1
    Batch = 1
    MaxScans = 1
    MaxTime = 3
    MaxEdits = 2
    MaxSkips = 1
    MaxCrashes = 0
SPECIFICATION Spec
SYMMETRY Symmetry
CHECK_DEADLOCK FALSE
PROPERTY DeletedJobGone
