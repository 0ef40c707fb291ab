SPECIFICATION RunnerSpec
CONSTANTS
  i1 = i1
  i2 = i2
  a = a
  b = b
  Rows = {1,2}
  Aggregate <- TwoAssignments
  Intents = {i1,i2}
  Timed = {i1}
  Off = Off
  Limit = 2
  MaxTries = 2
  Delay = 2
  MaxRestarts = 1
  Events = {"busyRows","busyIntents","throw","blocked","recovery"}
CHECK_DEADLOCK FALSE
INVARIANT OneRowAtATime
INVARIANT UnderWayIsAwaited
