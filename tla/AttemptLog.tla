----------------------------- MODULE AttemptLog -----------------------------
(***************************************************************************)
(* What the Mission ledger promises about execution Attempts, whoever       *)
(* writes it and in whatever order: the Attempts of an Assignment are an    *)
(* append-only log.  Only the newest entry may change, it moves forward     *)
(* only, and once it has ended its outcome and the runtime it is bound to   *)
(* are history.  A new entry is appended only when, or in the step that,    *)
(* the one before it ends: so at most one runtime works for an Assignment.  *)
(***************************************************************************)
EXTENDS Naturals

CONSTANTS
  Assignments,   \* the logs
  Length,        \* bound on the entries of a log
  Handles,       \* the runtimes an entry may be bound to
  NoHandle       \* bound to none yet

Phases == {"none", "planned", "working", "ended"}
Blank == [phase |-> "none", handle |-> NoHandle]
Plan == [phase |-> "planned", handle |-> NoHandle]

VARIABLE log     \* per Assignment: the position of the newest entry, and the entries

Entries == [1 .. Length -> [phase : Phases, handle : Handles \cup {NoHandle}]]
LogType == log \in [Assignments -> [newest : 1 .. Length, entry : Entries]]

(* A log begins blank, or with the entry of a runtime that was there before. *)
Init ==
  /\ LogType
  /\ \A a \in Assignments :
       /\ log[a].newest = 1
       /\ log[a].entry[1] = Blank \/ log[a].entry[1].phase = "working"
       /\ \A n \in 2 .. Length : log[a].entry[n] = Blank

(* The newest entry goes from e to f. *)
Moves(e, f) ==
  \/ e = Blank /\ f = Plan
  \/ e.phase = "planned" /\ f = [e EXCEPT !.phase = "working"]
  \/ e.phase \in {"planned", "working"} /\ f.phase = "working" /\ f.handle \in Handles
  \/ e.phase \in {"planned", "working"} /\ f = [e EXCEPT !.phase = "ended"]

Advance(old, new) ==
  /\ new.newest = old.newest
  /\ Moves(old.entry[old.newest], new.entry[old.newest])
  /\ \A n \in 1 .. Length : n # old.newest => new.entry[n] = old.entry[n]

Append(old, new) ==
  /\ old.entry[old.newest].phase # "none"
  /\ new.newest = old.newest + 1
  /\ new.entry[new.newest] = Plan
  /\ new.entry[old.newest] = [old.entry[old.newest] EXCEPT !.phase = "ended"]
  /\ \A n \in 1 .. Length : n \notin {old.newest, new.newest} => new.entry[n] = old.entry[n]

(* One transaction may advance or extend the logs of several Assignments. *)
Next ==
  /\ LogType'
  /\ \A a \in Assignments :
       log'[a] = log[a] \/ Advance(log[a], log'[a]) \/ Append(log[a], log'[a])

Spec == Init /\ [][Next]_log
-----------------------------------------------------------------------------

(* Only the newest entry of a log can be open, those before it have ended and *)
(* those after it are blank: at most one runtime at a time works, or is       *)
(* planned to, for an Assignment.                                            *)
OnlyNewestIsOpen ==
  \A a \in Assignments : \A n \in 1 .. Length :
    /\ n < log[a].newest => log[a].entry[n].phase = "ended"
    /\ n > log[a].newest => log[a].entry[n] = Blank

(* What has ended is history: neither it nor the runtime it names changes.    *)
EndedIsHistory ==
  [][\A a \in Assignments : \A n \in 1 .. Length :
       log[a].entry[n].phase = "ended" => log'[a].entry[n] = log[a].entry[n]]_log
=============================================================================
