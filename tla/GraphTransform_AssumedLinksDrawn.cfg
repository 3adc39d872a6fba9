SPECIFICATION TfSpec
CONSTANTS
  TfNodes = {"a", "b"}
  MaxEdgeHops = 2
INVARIANT AssumedLinksDrawn
CHECK_DEADLOCK FALSE
