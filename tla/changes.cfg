SPECIFICATION Spec
CONSTANTS
  MaxText = 3
  Races = {}
CHECK_DEADLOCK FALSE
 
INVARIANT LogTellsDisk
 
PROPERTY NoTextIsLost
PROPERTY RollbackSparesOthers
