CONSTANTS
    j1 = j1
    j2 = j2
    c1 = c1
    Scan = Scan
    NoJob = NoJob
    Jobs = {j1, j2}
    Clients = {c1}
    Periods = {0, 1}
    MinPeriod = 1
    Batch = 1
    MaxScans = 1
    MaxTime = 1
    MaxEdits = 1
    MaxSkips = 1
    MaxCrashes = 1
SPECIFICATION FairSpec
CHECK_DEADLOCK FALSE
INVARIANT TypeOK
INVARIANT RunBudget
INVARIANT NoJobPassedOver
PROPERTY RunsAsScheduled
PROPERTY DueJobRuns
