CONSTANTS
    s1 = s1
    i1 = i1
    i2 = i2
    w1 = w1
    w2 = w2
    Sessions = {s1}
    Interfaces = {i1, i2}
    Writers = {w1, w2}
    Task = Task
    AnyInterface = AnyInterface
    NoWriter = NoWriter
    NoSession = NoSession
    Limit = 1
    Ops = {"stop", "cancel", "delete", "deleteAll"}
    MaxPackets = 3
    MaxRequests = 1
    MaxCrashes = 1
SPECIFICATION Spec
SYMMETRY Symmetry
CHECK_DEADLOCK FALSE
INVARIANT TypeOK
INVARIANT ActiveWriterOpen
INVARIANT SizeLimitKept
INVARIANT NeverOvercounted
PROPERTY EndedStaysEnded
