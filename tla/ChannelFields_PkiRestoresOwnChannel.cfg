SPECIFICATION CfSpec
CONSTANTS
  Channels = {"a", "b"}
  Keyed = {"a"}
  MaxLooks = 1
PROPERTY PkiRestoresOwnChannel
CHECK_DEADLOCK FALSE
