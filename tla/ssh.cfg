SPECIFICATION Spec
CONSTANTS
  Hosts = {"target", "jump"}
  Jump <- TargetViaJump
  AutoReconnect = {"target"}
  Delays = 2
  MaxGen <- Bounds
CHECK_DEADLOCK FALSE
 
INVARIANT ShownIsTrue
PROPERTY DisconnectIsFinal
PROPERTY DiallingEnds
