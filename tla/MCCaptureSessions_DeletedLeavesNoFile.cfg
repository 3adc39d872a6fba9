CONSTANTS
    s1 = s1
    i1 = i1
    w1 = w1
    w2 = w2
    w3 = w3
    Sessions = {s1}
    Interfaces = {i1}
    Writers = {w1, w2, w3}
    Task = Task
    AnyInterface = AnyInterface
    NoWriter = NoWriter
    NoSession = NoSession
    Limit = 3
    Ops = {"stop", "delete"}
    MaxPackets = 3
    MaxRequests = 1
    MaxCrashes = 0
SPECIFICATION Spec
SYMMETRY Symmetry
CHECK_DEADLOCK FALSE
INVARIANT DeletedLeavesNoFile
