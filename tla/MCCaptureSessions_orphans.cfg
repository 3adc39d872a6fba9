CONSTANTS
    s1 = s1
    s2 = s2
    i1 = i1
    w1 = w1
    w2 = w2
    Sessions = {s1, s2}
    Interfaces = {i1}
    Writers = {w1, w2}
    Task = Task
    AnyInterface = AnyInterface
    NoWriter = NoWriter
    NoSession = NoSession
    Limit = 1
    Ops = {"delete"}
    MaxPackets = 2
    MaxRequests = 1
    MaxCrashes = 0
SPECIFICATION Spec
SYMMETRY Symmetry
CHECK_DEADLOCK FALSE
INVARIANT SizeLimitKept
INVARIANT NeverOvercounted
