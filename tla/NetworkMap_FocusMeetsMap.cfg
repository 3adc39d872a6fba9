SPECIFICATION NmSpec
CONSTANTS
  NmNodes = {"a", "b"}
  MaxLoads = 2
PROPERTY FocusMeetsMap
CHECK_DEADLOCK FALSE
