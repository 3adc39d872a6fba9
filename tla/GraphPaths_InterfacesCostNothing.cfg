SPECIFICATION GpSpec
CONSTANTS
  Start = "s"
  Goal = "t"
  Between = {"a", "b"}
  Uncounted = {"a"}
  HopLimits = {0, 1, 2}
  PathLimit = 3
INVARIANT InterfacesCostNothing
CHECK_DEADLOCK FALSE
