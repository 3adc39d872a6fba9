CONSTANTS
    s1 = s1
    i1 = i1
    w1 = w1
    w2 = w2
    Sessions = {s1}
    Interfaces = {i1}
    Writers = {w1, w2}
    Task = Task
    AnyInterface = AnyInterface
    NoWriter = NoWriter
    NoSession = NoSession
    Limit = 1
    Ops = {"stop", "cancel", "delete"}
    MaxPackets = 1
    MaxRequests = 2
    MaxCrashes = 1
SPECIFICATION FairSpec
CHECK_DEADLOCK FALSE
PROPERTY StopTakesEffect
PROPERTY StartAnswered
