SPECIFICATION Spec
CONSTANTS
  a0 = a0
  a1 = a1
  a2 = a2
  Assignments = {a0,a1}
  Root = a0
  None = None
  MaxAttempts = 2
  MaxTries = 1
  MaxLive = 2
  Events = {"retry","reassign","startError","giveUpCrash","recovery","exit","reattach","park","pause","early","delete"}
  Targets = {a1}
  Probed = {a0,a1}
INVARIANT OneLiveAttempt
INVARIANT WaitersCanBeWoken
PROPERTY AttemptsAreALog
