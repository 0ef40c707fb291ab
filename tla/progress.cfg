SPECIFICATION RunnerSpec
CONSTANTS
  i1 = i1
  i2 = i2
  a = a
  b = b
  Rows = {1,2}
  Aggregate <- TwoAssignments
  Intents = {i1,i2}
  Timed = {i1}
  Off = Off
  Limit = 1
  MaxTries = 1
  Delay = 2
  MaxRestarts = 1
  Events = {"busyIntents","throw"}
CHECK_DEADLOCK FALSE
PROPERTY PendingIsTaken
