SPECIFICATION Spec
CONSTANTS
  lead = lead
  worker = worker
  answer = answer
  report = report
  Assignments = {lead,worker}
  Root = lead
  None = None
  Kinds = {answer,report}
  Waits <- LeadWaits
  Letters <- LeadLetters
  Owners = {lead}
  MaxParks = 2
  MaxMessages = 1
  MaxAttempts = 2
  KeyReuse = TRUE
INVARIANT ArmedIsUnmet
INVARIANT WokenForAReason
INVARIANT RepeatedOnlyInDoubt
PROPERTY FinishedIsFinal
