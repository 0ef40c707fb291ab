SPECIFICATION Spec
CONSTANTS
  Writes = 2
  MaxDrops = 1
  Races = {"timeout", "giveUp", "spawnFails"}
CHECK_DEADLOCK FALSE
INVARIANT AcceptedIsTypedOnce
INVARIANT OrderIsKept
PROPERTY RequestsSettle
