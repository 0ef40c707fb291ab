SPECIFICATION Spec
CONSTANTS
  Notices <- MCNotices
  Holds = {}
  MaxEnters = 1
  Waiters = {w1}
  MaxMessages = 2
  Terminals = {t1}
  MaxRestarts = 0
  Events = {"workers","lost","silent","activate","heldUrgent"}
CHECK_DEADLOCK FALSE
INVARIANT WaitersAreTold
INVARIANT DeliveriesAreUnderWay
