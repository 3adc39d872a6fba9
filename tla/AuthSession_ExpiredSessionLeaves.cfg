SPECIFICATION FairSpec
CONSTANTS
  Calls = {"c1", "c2"}
  MaxSessions = 2
  MaxExpiries = 1
PROPERTY ExpiredSessionLeaves
CHECK_DEADLOCK FALSE
