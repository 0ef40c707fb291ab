-------------------------- MODULE MCContinuations --------------------------
(* Instances of Continuations for TLC: a Lead that waits for a worker to end   *)
(* and for a message, for either, or for the worker's success only.           *)
EXTENDS Continuations

CONSTANTS lead, worker, answer, report

Finish == [kind |-> "assignment_terminal", who |-> worker, what |-> Settled]
Success == [kind |-> "assignment_terminal", who |-> worker, what |-> {"COMPLETED"}]
Answer == [kind |-> "message", who |-> None, what |-> {answer}]
FromWorker == [kind |-> "message", who |-> worker, what |-> Kinds]

LeadWaits ==
  {[mode |-> "all", targets |-> {Success, Answer}, deadline |-> "none"],
   [mode |-> "any", targets |-> {Finish, FromWorker}, deadline |-> "ahead"]}

LeadLetters ==
  {[to |-> lead, from |-> worker, kind |-> report], [to |-> lead, from |-> None, kind |-> answer]}
=============================================================================
