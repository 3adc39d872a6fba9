SPECIFICATION Spec
CONSTRAINT VirtualBound
CONSTRAINT GraphBound
CONSTANTS
  LkFilters = {"f", "g"}
  Links = {"l", "m"}
  Tabs = {"c"}
  LkSlots = {1, 2}
  MaxCaptures = 2
  CpSlots = {1, 2}
  VnNodes = {"a", "b"}
  MaxKeys = 3
  VnSlots = {1, 2}
  NdNodes = {"a", "b"}
  Ports = {"p", "q"}
  Ranges = {"day"}
  Interfaces = {"i"}
  Entries = {"e"}
  MaxCommands = 2
  Start = "s"
  Goal = "t"
  Between = {"a", "b"}
  Uncounted = {"a"}
  HopLimits = {0, 1, 2}
  PathLimit = 3
  TfNodes = {"a", "b"}
  MaxEdgeHops = 2
  NsNodes = {"a", "b", "c"}
  NsForeign = {"i"}
  NsSlots = {1, 2, 3}
  NgFilters = {"f", "g"}
  NgIfaces = {1}
  NgLists = {{1}, {}}
  MaxFetches = 2
  MaxAsks = 3
  NgVersions = {1, 2}
  NmNodes = {"a", "b"}
  MaxLoads = 2
INVARIANT PanelsTypeOK
INVARIANT ShownIsChosen
INVARIANT ListsAreServers
INVARIANT GraphIsTrue
PROPERTY OneCaptureAtATime
CHECK_DEADLOCK FALSE
