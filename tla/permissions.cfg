SPECIFICATION Spec
CONSTANTS
  Tasks = {"edit", "auto"}
  Mode <- TwoModes
  Calls = {c1, c2}
  Proposals <- Commands
  Requests = {q1, q2}
CHECK_DEADLOCK FALSE
INVARIANT CardsAreTrue
INVARIANT NothingRunsUnasked
PROPERTY DenialStands
PROPERTY NothingStartsAfterStop
 
