SPECIFICATION FairSpec
CONSTANTS
  Calls = {"c1", "c2"}
  MaxSessions = 2
  MaxExpiries = 1
INVARIANT TypeOK
INVARIANT OwnSession
INVARIANT PerformedOnce
PROPERTY CallsEnd
CHECK_DEADLOCK FALSE
