CONSTANTS
    n1 = n1
    i1 = i1
    c1 = c1
    Nodes = {n1}
    Readers = {i1}
    Via = i1
    Clients = {c1}
    Nothing = Nothing
    Offlines = {2}
    Intervals = {1}
    MaxLag = 1
    MaxTime = 6
    MaxEdits = 2
    MaxFailures = 0
SPECIFICATION Spec
SYMMETRY Symmetry
CHECK_DEADLOCK FALSE
INVARIANT RecordedOnce
