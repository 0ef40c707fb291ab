SPECIFICATION Spec
CONSTANTS
  a0 = a0
  a1 = a1
  a2 = a2
  Assignments = {a0,a1,a2}
  Root = a0
  None = None
  MaxAttempts = 2
  MaxTries = 1
  MaxLive = 3
  Events = {"cancel","finish","promote","revise","pause","park"}
  Targets = {a2}
  Probed = {a2}
INVARIANT CancelledMissionIsQuiet
INVARIANT SupervisionTree
INVARIANT DependencyGate
INVARIANT ReviewIsDue
INVARIANT StartIntentSurvives
