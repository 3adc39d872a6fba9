SPECIFICATION FairSpec
CONSTANTS
  Names = {"v", "n"}
  Approved = {"v"}
  Ports = {"p", "q"}
  InitialPorts = {"p"}
  StoredLimits = {0, 90}
  SvcSlots = {1, 2}
  MaxJobs = 1
  PjSlots = {1, 2}
  Channels = {"a", "b"}
  Keyed = {"a"}
  MaxLooks = 1
  OsActions = {"nodeinfo", "reachability-test"}
  Nodes = {"a", "b"}
  Foreign = {"x"}
  Selectable = {"a"}
  Telling = {"a"}
  MaxSends = 1
  DnNodes = {"n", "m"}
  DnActions = {"traceroute"}
  DnTabs = {"overview", "network", "actions", "links"}
INVARIANT FormsTypeOK
INVARIANT SettledFormIsConfig
INVARIANT JobsPageIsTrue
INVARIANT SourceConsistent
PROPERTY NoTwinJobs
PROPERTY PkiRoundTrip
PROPERTY FocusGivenBackOnce
PROPERTY FormsReady
CHECK_DEADLOCK FALSE
