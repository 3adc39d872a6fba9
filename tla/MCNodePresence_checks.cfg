CONSTANTS
    n1 = n1
    n2 = n2
    i1 = i1
    c1 = c1
    Nodes = {n1, n2}
    Readers = {i1}
    Via = i1
    Clients = {c1}
    Nothing = Nothing
    Offlines = {2, 3}
    Intervals = {1}
    MaxLag = 1
    MaxTime = 3
    MaxEdits = 2
    MaxFailures = 1
SPECIFICATION FairSpec
CHECK_DEADLOCK FALSE
INVARIANT TypeOK
INVARIANT RecordedOnceUnedited
INVARIANT NoSilenceMissed
PROPERTY CheckEnds
