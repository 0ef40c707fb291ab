SPECIFICATION Spec
CONSTANTS
  Notices <- MCNotices
  Holds = {"paused"}
  MaxEnters = 1
  Waiters = {}
  MaxMessages = 2
  Terminals = {t1}
  MaxRestarts = 1
  Events = {}
CHECK_DEADLOCK FALSE
INVARIANT UndeliveredIsRung
PROPERTY MailArrives
