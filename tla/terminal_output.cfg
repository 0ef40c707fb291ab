SPECIFICATION Spec
CONSTANTS
  MaxSeq = 2
  MaxDrops = 2
  Races = {"timeout", "giveUp"}
CHECK_DEADLOCK FALSE
INVARIANT OutputInOrder
INVARIANT GapsAreRepaired
INVARIANT ExitIsTrueOnce
PROPERTY NewsArrives
