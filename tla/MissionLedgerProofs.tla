------------------------ MODULE MissionLedgerProofs ------------------------
(***************************************************************************)
(* Theorems about MissionLedger, for any number of Assignments, Attempts    *)
(* and retries: its types, an action at a time, and its safety whatever the *)
(* environment does; what holds unless the environment does certain things  *)
(* that each theorem names; and last that it implements AttemptLog unless   *)
(* the user asks for a revision, which plans an Attempt of the Lead without *)
(* ending the one before.  The inductive invariant, IInv, adds to what is   *)
(* to be shown which parts of the tables are still empty (Founded) and what *)
(* recovery points at (Pointers): without them a handler or a late answer   *)
(* could write an Assignment nobody created.                                *)
(***************************************************************************)
EXTENDS MissionLedger, TLAPS

-----------------------------------------------------------------------------
(* Type correctness, an action at a time *)

(* What the outbox does to a row leaves it a row. *)
LEMMA RowTyped ==
  /\ NoRow \in Row /\ NewRow \in Row
  /\ \A row \in Row : Taken(row) \in Row /\ Requeued(row) \in Row
  /\ \A row \in Row, s \in RowStates : [row EXCEPT !.state = s] \in Row
  BY LedgerAssumption DEF NoRow, NewRow, Row, Taken, Requeued, RowStates

(* The first Attempt and its runtime have a name. *)
LEMMA OneTyped == 1 \in Ordinals /\ 1 \in Runtimes /\ ForeignSession \in Runtimes
  BY LedgerAssumption DEF Ordinals, Runtimes, ForeignSession

(* An Attempt's ordinal names its runtime, which is never NoSession. *)
LEMMA OrdinalsAreRuntimes == Ordinals \subseteq Runtimes /\ NoSession \notin Runtimes
  BY LedgerAssumption DEF Ordinals, Runtimes, ForeignSession, NoSession

(* Writing one cell of a table indexed by Assignment and ordinal. *)
LEMMA CellWritten ==
  ASSUME NEW Columns, NEW Values, NEW table \in [Assignments -> [Columns -> Values]],
         NEW a, NEW c, NEW v \in Values
  PROVE  [table EXCEPT ![a][c] = v] \in [Assignments -> [Columns -> Values]]
  OBVIOUS

(* Writing the state of one outbox row. *)
LEMMA RowWritten ==
  ASSUME NEW table \in [Assignments -> [Ordinals -> Row]], NEW a, NEW n, NEW s \in RowStates
  PROVE  [table EXCEPT ![a][n].state = s] \in [Assignments -> [Ordinals -> Row]]
<1> DEFINE written == [table EXCEPT ![a][n].state = s]
<1> SUFFICES ASSUME NEW b \in Assignments, NEW m \in Ordinals PROVE written[b][m] \in Row
  OBVIOUS
<1>1. written[b][m] \in {table[b][m], [table[b][m] EXCEPT !.state = s]}
  OBVIOUS
<1> QED BY <1>1, RowTyped

LEMMA InitTyped == Init => TypeOK
<1> SUFFICES ASSUME Init PROVE TypeOK
  OBVIOUS
<1>1. MissionTyped
  BY LedgerAssumption DEF Init, MissionTyped, MissionStates
<1>2. AssignmentsTyped
  BY LedgerAssumption, OneTyped DEF Init, AssignmentsTyped, AssignmentStates, TaskStates, Absent
<1>3. AttemptsTyped
  BY LedgerAssumption, OneTyped DEF Init, AttemptsTyped, AttemptStates, WorkingAttempt
<1>4. RowsTyped
  BY RowTyped DEF Init, RowsTyped
<1>5. ActorsTyped
  BY LedgerAssumption DEF Init, ActorsTyped, Handlers, Idle, NoProbe, NoDeletion, Deletions,
     ForeignSession, NoSession
<1> QED BY <1>1, <1>2, <1>3, <1>4, <1>5 DEF TypeOK

LEMMA DelegateTyped ==
  ASSUME TypeOK, NEW by \in Assignments, NEW batch \in SUBSET (Assignments \ Created),
         NEW needs \in [batch -> SUBSET (Created \cup batch)], Delegate(batch, by, needs)
  PROVE  TypeOK'
<1>1. AssignmentsTyped'
  BY DEF TypeOK, Delegate, AssignmentsTyped, AssignmentStates, TaskStates, Created
<1>2. AttemptsTyped'
  BY OneTyped DEF TypeOK, Delegate, AttemptsTyped, AttemptStates
<1>3. RowsTyped'
  BY RowTyped, OneTyped DEF TypeOK, Delegate, RowsTyped
<1> QED BY <1>1, <1>2, <1>3 DEF TypeOK, Delegate, MissionTyped, ActorsTyped, reconciling

LEMMA BeginStartTyped ==
  ASSUME TypeOK, NEW a \in Assignments, NEW n \in Ordinals, BeginStart(a, n) PROVE TypeOK'
<1>1. RowsTyped'
   BY RowTyped DEF TypeOK, BeginStart, RowsTyped
<1>2. AttemptsTyped'
   BY DEF TypeOK, BeginStart, AttemptsTyped, AttemptStates, WorkingAttempt
<1>3. ActorsTyped'
   BY LedgerAssumption DEF TypeOK, BeginStart, Handlers, Ordinals, ForeignSession, ActorsTyped,
      reconciling
<1>4. MissionTyped' /\ AssignmentsTyped'
   BY DEF TypeOK, BeginStart, MissionTyped, AssignmentsTyped
<1> QED BY <1>1, <1>2, <1>3, <1>4 DEF TypeOK

LEMMA BindTyped == ASSUME TypeOK, NEW a \in Assignments, Bind(a) PROVE TypeOK'
<1> DEFINE n == handler[a].n
<1>1. AssignmentsTyped'
  BY DEF Bind, TypeOK, AssignmentsTyped, AssignmentStates, TaskStates
<1>2. n \in Ordinals /\ attempt[a][n] \in AttemptStates \cup {Absent}
      /\ session[a][n] \in Runtimes \cup {NoSession}
  BY DEF Bind, TypeOK, AssignmentsTyped, AttemptsTyped
<1>3. Started(attempt[a][n]) \in AttemptStates \cup {Absent}
      /\ Bound(attempt[a][n], session[a][n], n) \in Runtimes \cup {NoSession}
  BY <1>2, OrdinalsAreRuntimes DEF Started, Bound, AttemptStates, WorkingAttempt
<1>4. attempt' = [attempt EXCEPT ![a][n] = Started(attempt[a][n])]
      /\ session' = [session EXCEPT ![a][n] = Bound(attempt[a][n], session[a][n], n)]
  BY DEF Bind, TypeOK, AttemptsTyped
<1>5. AttemptsTyped'
  BY <1>2, <1>3, <1>4 DEF TypeOK, AttemptsTyped
<1>6. ActorsTyped'
  BY DEF Bind, TypeOK, ActorsTyped, Handlers, reconciling
<1> QED BY <1>1, <1>5, <1>6 DEF TypeOK, Bind, MissionTyped, RowsTyped, rows

LEMMA FailAttemptTyped ==
  ASSUME TypeOK, NEW a \in Assignments, NEW n, FailAttempt(a, n),
         UNCHANGED <<deps, supervisor, active, session>>
  PROVE  AssignmentsTyped' /\ AttemptsTyped'
<1>1. AssignmentsTyped'
  BY DEF FailAttempt, TypeOK, AssignmentsTyped, AssignmentStates, TaskStates, Unparked
<1>2. "FAILED" \in AttemptStates \cup {Absent}
  BY DEF AttemptStates, TerminalAttempt
<1>3. attempt' \in [Assignments -> [Ordinals -> AttemptStates \cup {Absent}]]
  <2>1. attempt' \in {attempt, [attempt EXCEPT ![a][n] = "FAILED"]}
    BY DEF FailAttempt
  <2>2. [attempt EXCEPT ![a][n] = "FAILED"] \in [Assignments -> [Ordinals -> AttemptStates \cup {Absent}]]
    BY <1>2, CellWritten DEF TypeOK, AttemptsTyped
  <2> QED BY <2>1, <2>2 DEF TypeOK, AttemptsTyped
<1> QED BY <1>1, <1>3 DEF TypeOK, AttemptsTyped

LEMMA StartThrewTyped == ASSUME TypeOK, NEW a \in Assignments, StartThrew(a) PROVE TypeOK'
<1>1. AssignmentsTyped' /\ AttemptsTyped'
  <2>1. CASE UNCHANGED <<attempt, assignment, task, parked>>
    BY <2>1 DEF StartThrew, TypeOK, AssignmentsTyped, AttemptsTyped
  <2>2. CASE FailAttempt(a, handler[a].n)
    BY <2>2, FailAttemptTyped DEF StartThrew
  <2> QED BY <2>1, <2>2 DEF StartThrew
<1>2. PICK s \in RowStates : startRow' = [startRow EXCEPT ![a][handler[a].n].state = s]
  BY DEF StartThrew, RowStates
<1>3. RowsTyped'
  <2>1. startRow' \in [Assignments -> [Ordinals -> Row]]
    BY <1>2, RowWritten DEF TypeOK, RowsTyped
  <2> QED BY <2>1 DEF StartThrew, TypeOK, RowsTyped
<1>4. ActorsTyped'
  BY LedgerAssumption DEF StartThrew, TypeOK, ActorsTyped, reconciling, Handlers, Idle, NoSession, ForeignSession
<1> QED BY <1>1, <1>3, <1>4 DEF StartThrew, TypeOK, MissionTyped

LEMMA CompleteTyped ==
  ASSUME TypeOK, NEW a \in Assignments, NEW n \in Ordinals, NEW success \in BOOLEAN,
         Complete(a, n, success)
  PROVE  TypeOK'
<1> USE DEF Complete
<1>1. AssignmentsTyped'
  BY DEF TypeOK, AssignmentsTyped, AssignmentStates, TaskStates, Unparked
<1>2. AttemptsTyped'
  BY DEF TypeOK, AttemptsTyped, AttemptStates, TerminalAttempt, Reported
<1>3. MissionTyped'
  BY DEF TypeOK, MissionTyped, MissionStates
<1> QED BY <1>1, <1>2, <1>3 DEF TypeOK, RowsTyped, rows, ActorsTyped, reconciling

LEMMA ParkTyped == ASSUME TypeOK, NEW a \in Assignments, Park(a) \/ Consume(a) PROVE TypeOK'
<1>1. AssignmentsTyped'
  BY DEF Park, Consume, TypeOK, AssignmentsTyped, AssignmentStates, Unparked
<1>2. AttemptsTyped'
  <2>1. CASE Park(a)
    BY <2>1 DEF Park, TypeOK, AttemptsTyped, AttemptStates, WorkingAttempt
  <2>2. CASE Consume(a)
    BY <2>2, ZenonT(60) DEF Consume, TypeOK, AttemptsTyped, AttemptStates, WorkingAttempt
  <2> QED BY <2>1, <2>2
<1> QED BY <1>1, <1>2 DEF Park, Consume, TypeOK, MissionTyped, RowsTyped, rows, ActorsTyped, reconciling

LEMMA CancelEffectTyped ==
  ASSUME TypeOK, NEW S \in SUBSET Assignments, CancelEffect(S),
         UNCHANGED <<deps, supervisor, active, session, startRow>>
  PROVE  AssignmentsTyped' /\ AttemptsTyped' /\ RowsTyped'
<1>1. AssignmentsTyped'
  BY DEF CancelEffect, TypeOK, AssignmentsTyped, AssignmentStates, TaskStates
<1>2. AttemptsTyped'
  BY DEF CancelEffect, TypeOK, AttemptsTyped, AttemptStates, TerminalAttempt
<1>3. RowsTyped'
  BY RowTyped DEF CancelEffect, WithCancelRow, TypeOK, RowsTyped
<1> QED BY <1>1, <1>2, <1>3

LEMMA CancelTyped == ASSUME TypeOK, NEW a \in Assignments, Cancel(a) PROVE TypeOK'
<1>1. AssignmentsTyped' /\ AttemptsTyped' /\ RowsTyped'
  BY CancelEffectTyped DEF Cancel
<1> QED BY <1>1 DEF Cancel, TypeOK, MissionTyped, MissionStates, ActorsTyped, reconciling

LEMMA FinishTyped ==
  ASSUME TypeOK, NEW outcome \in TerminalMission, Finish(outcome) PROVE TypeOK'
<1> DEFINE S == IF outcome = "COMPLETED" THEN {}
                ELSE {a \in Created : assignment[a] \notin {"COMPLETED", "CANCELLED"}}
<1>1. S \in SUBSET Assignments /\ CancelEffect(S)
  BY DEF Finish, Created
<1>2. AssignmentsTyped' /\ AttemptsTyped' /\ RowsTyped'
  BY <1>1, CancelEffectTyped DEF Finish
<1>3. mission' \in {outcome, "CANCELLED", mission}
  BY DEF Finish
<1> QED BY <1>2, <1>3 DEF Finish, TypeOK, MissionTyped, MissionStates, TerminalMission,
           ActorsTyped, reconciling

LEMMA PlanTyped ==
  ASSUME TypeOK, NEW a \in Assignments, PlanNextAttempt(a), UNCHANGED <<deps, supervisor>>,
         NEW states \in [Assignments -> [Ordinals -> AttemptStates \cup {Absent}]],
         attempt' = Planned(a, states), task' \in [Assignments -> TaskStates \cup {Absent}],
         cancelRow' \in [Assignments -> [Ordinals -> Row]]
  PROVE  AssignmentsTyped' /\ AttemptsTyped' /\ RowsTyped'
<1>1. active[a] + 1 \in Ordinals
  BY LedgerAssumption DEF PlanNextAttempt, TypeOK, AssignmentsTyped, Ordinals
<1>2. AssignmentsTyped'
  BY <1>1 DEF PlanNextAttempt, TypeOK, AssignmentsTyped, AssignmentStates, Unparked
<1>3. AttemptsTyped'
  BY DEF PlanNextAttempt, TypeOK, AttemptsTyped, Planned, AttemptStates, FreshSession
<1>4. RowsTyped'
  BY RowTyped DEF PlanNextAttempt, TypeOK, RowsTyped
<1> QED BY <1>2, <1>3, <1>4

LEMMA RetryTyped == ASSUME TypeOK, NEW a \in Assignments, Retry(a) PROVE TypeOK'
<1>1. task' \in [Assignments -> TaskStates \cup {Absent}]
  BY DEF Retry, TypeOK, AssignmentsTyped, TaskStates
<1>2. AssignmentsTyped' /\ AttemptsTyped' /\ RowsTyped'
  BY <1>1, PlanTyped DEF Retry, TypeOK, AttemptsTyped, RowsTyped
<1> QED BY <1>2 DEF Retry, TypeOK, MissionTyped, ActorsTyped, reconciling

LEMMA ReassignTyped == ASSUME TypeOK, NEW a \in Assignments, Reassign(a) PROVE TypeOK'
<1> DEFINE states == IF Interrupted(a) THEN [attempt EXCEPT ![a][active[a]] = "STALE"] ELSE attempt
<1>1. task' \in [Assignments -> TaskStates \cup {Absent}]
  BY DEF Reassign, TypeOK, AssignmentsTyped, TaskStates
<1>2. states \in [Assignments -> [Ordinals -> AttemptStates \cup {Absent}]]
  BY DEF TypeOK, AttemptsTyped, AttemptStates, TerminalAttempt
<1>3. cancelRow' \in [Assignments -> [Ordinals -> Row]]
  BY RowTyped DEF Reassign, WithCancelRow, TypeOK, RowsTyped
<1>4. PlanNextAttempt(a) /\ attempt' = Planned(a, states) /\ UNCHANGED <<deps, supervisor>>
  BY DEF Reassign
<1>5. AssignmentsTyped' /\ AttemptsTyped' /\ RowsTyped'
  BY <1>1, <1>2, <1>3, <1>4, PlanTyped
<1> QED BY <1>5 DEF Reassign, TypeOK, MissionTyped, ActorsTyped, reconciling

LEMMA ReviseTyped == ASSUME TypeOK, Revise PROVE TypeOK'
<1>1. task' \in [Assignments -> TaskStates \cup {Absent}] /\ lead \in Assignments
  BY DEF Revise, TypeOK, AssignmentsTyped, TaskStates, MissionTyped
<1>2. AssignmentsTyped' /\ AttemptsTyped' /\ RowsTyped'
  BY <1>1, PlanTyped DEF Revise, TypeOK, AttemptsTyped, RowsTyped
<1> QED BY <1>2 DEF Revise, TypeOK, MissionTyped, MissionStates, ActorsTyped, reconciling

LEMMA PauseTyped ==
  ASSUME TypeOK, NEW a \in Assignments, NEW paused \in BOOLEAN, Pause(a, paused) PROVE TypeOK'
  BY DEF Pause, TypeOK, MissionTyped, AssignmentsTyped, AssignmentStates, AttemptsTyped, RowsTyped,
     rows, ActorsTyped, reconciling

LEMMA PromoteLeadTyped ==
  ASSUME TypeOK, NEW a \in Assignments, PromoteLead(a) PROVE TypeOK'
<1>1. MissionTyped'
  BY DEF PromoteLead, TypeOK, MissionTyped, MissionStates
<1>2. AssignmentsTyped'
  BY DEF PromoteLead, TypeOK, MissionTyped, AssignmentsTyped, Succession
<1> QED BY <1>1, <1>2 DEF PromoteLead, TypeOK, AttemptsTyped, RowsTyped, rows, ActorsTyped, reconciling

LEMMA RebindTyped ==
  ASSUME TypeOK, NEW a \in Assignments, NEW r \in Runtimes, Rebind(a, r),
         UNCHANGED <<trashed, lead, deps, supervisor, active, parked>>
  PROVE  MissionTyped' /\ AssignmentsTyped' /\ AttemptsTyped'
<1>1. MissionTyped'
  BY DEF Rebind, TypeOK, MissionTyped, MissionStates
<1>2. AssignmentsTyped'
  BY DEF Rebind, TypeOK, AssignmentsTyped, AssignmentStates, TaskStates
<1>3. attempt' \in [Assignments -> [Ordinals -> AttemptStates \cup {Absent}]]
  BY DEF Rebind, TypeOK, AttemptsTyped, AttemptStates, WorkingAttempt, Started
<1>4. session' \in [Assignments -> [Ordinals -> Runtimes \cup {NoSession}]]
  BY DEF Rebind, TypeOK, AttemptsTyped
<1> QED BY <1>1, <1>2, <1>3, <1>4 DEF AttemptsTyped

LEMMA ReattachTyped == ASSUME TypeOK, Reattach PROVE TypeOK'
<1>1. MissionTyped' /\ AssignmentsTyped' /\ AttemptsTyped'
  BY RebindTyped, OneTyped DEF Reattach, TypeOK, MissionTyped
<1>2. RowsTyped' /\ ActorsTyped'
  BY DEF Reattach, TypeOK, RowsTyped, rows, ActorsTyped, reconciling
<1> QED BY <1>1, <1>2 DEF TypeOK

LEMMA EndDeleteTyped == ASSUME TypeOK, EndDelete PROVE TypeOK'
<1>1. MissionTyped'
  BY DEF EndDelete, TypeOK, MissionTyped, MissionStates
<1>2. ActorsTyped'
  BY DEF EndDelete, TypeOK, ActorsTyped, reconciling, Deletions, NoDeletion
<1> QED BY <1>1, <1>2 DEF EndDelete, TypeOK, AssignmentsTyped, AttemptsTyped, RowsTyped, rows

LEMMA ProbeTyped ==
  ASSUME TypeOK, ProbeAlive \/ ProbeMissing PROVE TypeOK'
<1>1. probe \in Probes
  BY DEF ProbeAlive, ProbeMissing, TypeOK, ActorsTyped
<1>2. probe.a \in Assignments /\ probe.n \in Ordinals /\ probe.on \in Runtimes
  BY <1>1 DEF Probes
<1>3. MissionTyped' /\ AssignmentsTyped' /\ AttemptsTyped'
  <2>1. CASE ProbeAlive
    BY <1>2, <2>1, RebindTyped DEF ProbeAlive
  <2>2. CASE ProbeMissing /\ lead = probe.a
    <3>1. Orphan(probe.a, probe.n)
      BY <2>2 DEF ProbeMissing
    <3>2. MissionTyped'
      BY <2>2, <3>1 DEF ProbeMissing, Orphan, TypeOK, MissionTyped, MissionStates
    <3>3. AssignmentsTyped'
      BY <2>2, <3>1 DEF ProbeMissing, Orphan, TypeOK, AssignmentsTyped, AssignmentStates, Unparked
    <3>4. AttemptsTyped'
      <4>1. CASE active[probe.a] # probe.n
        BY <2>2, <3>1, <4>1 DEF ProbeMissing, Orphan, TypeOK, AttemptsTyped
      <4>2. CASE active[probe.a] = probe.n
        <5>1. Lost(attempt[probe.a][probe.n]) \in AttemptStates \cup {Absent}
          BY <1>2 DEF Lost, AttemptStates, TerminalAttempt, TypeOK, AttemptsTyped
        <5>2. attempt' = [attempt EXCEPT ![probe.a][probe.n] = Lost(attempt[probe.a][probe.n])]
          BY <1>2, <3>1, <4>2 DEF Orphan, TypeOK, AttemptsTyped
        <5> QED BY <2>2, <5>1, <5>2, CellWritten DEF ProbeMissing, TypeOK, AttemptsTyped
      <4> QED BY <4>1, <4>2
    <3> QED BY <3>2, <3>3, <3>4
  <2>3. CASE ProbeMissing /\ lead # probe.a
    <3>1. FailAttempt(probe.a, probe.n) /\ UNCHANGED mission
      BY <2>3 DEF ProbeMissing
    <3>2. AssignmentsTyped' /\ AttemptsTyped'
      BY <1>2, <2>3, <3>1, FailAttemptTyped DEF ProbeMissing
    <3> QED BY <2>3, <3>1, <3>2 DEF ProbeMissing, TypeOK, MissionTyped
  <2> QED BY <2>1, <2>2, <2>3
<1>4. RowsTyped' /\ ActorsTyped'
  <2>1. RowsTyped' /\ UNCHANGED <<sweep, handler, deletion>> /\ probe' = NoProbe
    BY DEF ProbeAlive, ProbeMissing, TypeOK, RowsTyped, rows
  <2>2. runtime' \in {runtime, [runtime EXCEPT ![probe.a][probe.on] = "gone"]}
    BY DEF ProbeAlive, ProbeMissing
  <2>3. runtime' \in [Assignments -> [Runtimes -> {"none", "live", "gone"}]]
    BY <2>2, CellWritten, SMTT(30) DEF TypeOK, ActorsTyped
  <2> QED BY <2>1, <2>3 DEF TypeOK, ActorsTyped
<1> QED BY <1>3, <1>4 DEF TypeOK

LEMMA RestartTyped ==
  ASSUME TypeOK, NEW starts \in [Assignments -> [Ordinals -> Row]], RestartWith(starts) PROVE TypeOK'
<1>1. MissionTyped'
  BY DEF RestartWith, TypeOK, MissionTyped, MissionStates
<1>2. RowsTyped'
  BY RowTyped DEF RestartWith, TypeOK, RowsTyped
<1>3. ActorsTyped'
  BY LedgerAssumption DEF RestartWith, TypeOK, ActorsTyped, Handlers, Idle, NoSession, ForeignSession,
     Deletions, NoDeletion
<1> QED BY <1>1, <1>2, <1>3 DEF RestartWith, TypeOK, AssignmentsTyped, AttemptsTyped

LEMMA DieGivingUpTyped == ASSUME TypeOK, NEW a \in Assignments, DieGivingUp(a) PROVE TypeOK'
<1>1. [startRow EXCEPT ![a][handler[a].n].state = "FAILED"] \in [Assignments -> [Ordinals -> Row]]
  BY RowTyped DEF TypeOK, RowsTyped, RowStates
<1> QED BY <1>1, RestartTyped DEF DieGivingUp

(* The steps that leave the ledger alone: the handlers' bookkeeping. *)
LEMMA QuietTyped ==
  ASSUME TypeOK, NEW a \in Assignments,
         \/ Spawn(a) \/ EndStart(a) \/ EndCancel(a) \/ CancelError(a)
         \/ \E n \in Ordinals : SkipStart(a, n) \/ BeginCancel(a, n)
  PROVE  TypeOK'
<1>1. UNCHANGED <<ledger, reconciling, deletion>>
  BY DEF Spawn, EndStart, EndCancel, CancelError, SkipStart, BeginCancel
<1>2. RowsTyped'
  <2>0. /\ startRow \in [Assignments -> [Ordinals -> Row]]
        /\ cancelRow \in [Assignments -> [Ordinals -> Row]]
        /\ "COMPLETED" \in RowStates
    BY DEF TypeOK, RowsTyped, RowStates
  <2>1. CASE Spawn(a)
    BY <2>1 DEF Spawn, TypeOK, RowsTyped, rows
  <2>2. CASE EndStart(a)
    <3>1. startRow' = [startRow EXCEPT ![a][handler[a].n].state = "COMPLETED"] /\ cancelRow' = cancelRow
      BY <2>2 DEF EndStart
    <3>2. [startRow EXCEPT ![a][handler[a].n].state = "COMPLETED"] \in [Assignments -> [Ordinals -> Row]]
      BY <2>0, RowWritten, Zenon
    <3> QED BY <2>0, <3>1, <3>2 DEF RowsTyped
  <2>5. CASE EndCancel(a) \/ CancelError(a)
    <3>1. PICK s \in RowStates :
            cancelRow' = [cancelRow EXCEPT ![a][handler[a].n].state = s] /\ startRow' = startRow
      BY <2>5 DEF EndCancel, CancelError, RowStates
    <3>2. [cancelRow EXCEPT ![a][handler[a].n].state = s] \in [Assignments -> [Ordinals -> Row]]
      BY <2>0, RowWritten, Zenon
    <3> QED BY <2>0, <3>1, <3>2 DEF RowsTyped
  <2>3. ASSUME NEW n \in Ordinals, SkipStart(a, n) PROVE RowsTyped'
    <3>1. [Taken(startRow[a][n]) EXCEPT !.state = "COMPLETED"] \in Row
      BY RowTyped DEF TypeOK, RowsTyped, RowStates
    <3> QED BY <2>3, <3>1 DEF SkipStart, TypeOK, RowsTyped
  <2>4. ASSUME NEW n \in Ordinals, BeginCancel(a, n) PROVE RowsTyped'
    BY <2>4, RowTyped DEF BeginCancel, TypeOK, RowsTyped
  <2> QED BY <2>1, <2>2, <2>3, <2>4, <2>5
<1>3. handler' \in [Assignments -> Handlers]
  <2>1. Idle \in Handlers
    BY LedgerAssumption DEF Idle, Handlers, NoSession, ForeignSession
  <2>2. \A n \in Ordinals : [op |-> "cancel", n |-> n, on |-> session[a][n]] \in Handlers
    BY LedgerAssumption DEF TypeOK, AttemptsTyped, Handlers, Ordinals, Runtimes, NoSession, ForeignSession
  <2> QED BY <2>1, <2>2 DEF Spawn, EndStart, EndCancel, CancelError, SkipStart, BeginCancel, TypeOK, ActorsTyped
<1>4. runtime' \in [Assignments -> [Runtimes -> {"none", "live", "gone"}]]
  <2>1. \E c, v : v \in {"none", "live", "gone"} /\ runtime' \in {runtime, [runtime EXCEPT ![a][c] = v]}
    BY DEF Spawn, EndStart, EndCancel, CancelError, SkipStart, BeginCancel
  <2> QED BY <2>1, CellWritten DEF TypeOK, ActorsTyped
<1> QED BY <1>1, <1>2, <1>3, <1>4 DEF TypeOK, MissionTyped, AssignmentsTyped, AttemptsTyped, ActorsTyped,
           ledger, reconciling

LEMMA SweepTyped ==
  ASSUME TypeOK,
         \/ \E S \in SUBSET Expirable : BeginSweep(S)
         \/ \E p \in sweep : Ask(p)
         \/ ProbeUnknown \/ BeginDelete
  PROVE  TypeOK'
<1>1. UNCHANGED <<ledger, rows, handler, runtime>>
  BY DEF BeginSweep, Ask, ProbeUnknown, BeginDelete
<1>2. Expirable \subseteq Probes
  BY LedgerAssumption DEF Expirable, Probes, TypeOK, AssignmentsTyped, AttemptsTyped, ActiveSession
<1>3. sweep' \subseteq Probes /\ probe' \in Probes \cup {NoProbe}
  BY <1>2 DEF BeginSweep, Ask, ProbeUnknown, BeginDelete, TypeOK, ActorsTyped, reconciling
<1>4. deletion' \in Deletions
  BY DEF BeginSweep, Ask, ProbeUnknown, BeginDelete, TypeOK, MissionTyped, ActorsTyped, Deletions
<1> QED BY <1>1, <1>3, <1>4 DEF TypeOK, MissionTyped, AssignmentsTyped, AttemptsTyped, RowsTyped, ActorsTyped,
           ledger, rows

LEMMA StepTyped == TypeOK /\ [Next]_vars => TypeOK'
<1> SUFFICES ASSUME TypeOK, [Next]_vars PROVE TypeOK'
  OBVIOUS
<1>1. CASE UNCHANGED vars
  BY <1>1 DEF vars, ledger, rows, reconciling, TypeOK, MissionTyped, AssignmentsTyped, AttemptsTyped,
     RowsTyped, ActorsTyped
<1>2. ASSUME NEW a \in Assignments, Runner(a) PROVE TypeOK'
  BY <1>2, BeginStartTyped, BindTyped, StartThrewTyped, QuietTyped DEF Runner, BindStale, StartError
<1>3. ASSUME NEW a \in Assignments, Caller(a) PROVE TypeOK'
  BY <1>3, DelegateTyped, CompleteTyped, PromoteLeadTyped DEF Caller
<1>4. ASSUME NEW a \in Targets, Control(a) PROVE TypeOK'
  BY <1>4, LedgerAssumption, ParkTyped, CancelTyped, RetryTyped, ReassignTyped,
     PauseTyped DEF Control
<1>5. ASSUME NEW outcome \in TerminalMission, Finish(outcome) PROVE TypeOK'
  BY <1>5, FinishTyped
<1>6. CASE Revise \/ Reattach \/ BeginDelete \/ EndDelete
  BY <1>6, ReviseTyped, ReattachTyped, SweepTyped, EndDeleteTyped
<1>7. CASE Recovery
  BY <1>7, SweepTyped, ProbeTyped, RestartTyped, DieGivingUpTyped
     DEF Recovery, Restart, TypeOK, RowsTyped
<1> QED BY <1>1, <1>2, <1>3, <1>4, <1>5, <1>6, <1>7 DEF Next

(* Whatever callers, the outbox runner, recovery and restarts do, in any      *)
(* order, the tables hold values their readers accept, and no handler that    *)
(* slept through it remembers anything that does not exist.                   *)
THEOREM TypeCorrect == Spec => []TypeOK
  BY InitTyped, StepTyped, PTL DEF Spec

-----------------------------------------------------------------------------
(* What the actions keep, of one Assignment and of all                        *)

(* What is promised of one Assignment *)
Sound(a) ==
  /\ \A n \in Ordinals : attempt[a][n] \in {"RUNNING", "WAITING"} => session[a][n] # NoSession
  /\ a \in Created /\ task[a] = "COMPLETED" => ActiveAttempt(a) = "SUCCEEDED"
  /\ parked[a] =>
       /\ ActiveAttempt(a) \in {"RUNNING", "WAITING"}
       /\ assignment[a] \in {"ACTIVE", "WAITING", "PAUSED"}
  /\ ActiveAttempt(a) = "WAITING" \/ assignment[a] = "WAITING" => parked[a]

(* What exists of it: an Assignment that was not created was not begun, its   *)
(* Attempts are numbered without gaps, and no handler starts it.              *)
Founded(a) ==
  /\ a \in Created => ActiveAttempt(a) # Absent
  /\ a \notin Created => active[a] = 1 /\ handler[a].op \notin {"start", "activate"}
  /\ \A n \in Ordinals :
       a \notin Created \/ n > active[a] => attempt[a][n] = Absent /\ session[a][n] = NoSession

AllSound == \A a \in Assignments : Sound(a) /\ Founded(a)

(* The Mission and the recovery service point at Assignments that exist. *)
Pointers ==
  /\ lead \in Created
  /\ \A p \in sweep : p.a \in Created
  /\ probe # NoProbe => probe.a \in Created

IInv == TypeOK /\ AllSound /\ Pointers /\ SupervisionTree

(* A step leaves an Assignment alone, or at most opens its task. *)
Keeps(a) ==
  /\ attempt'[a] = attempt[a] /\ session'[a] = session[a] /\ active'[a] = active[a]
  /\ assignment'[a] = assignment[a] /\ parked'[a] = parked[a]
  /\ task'[a] = task[a] \/ task'[a] = "READY"
  /\ handler'[a] = handler[a] \/ handler'[a].op \notin {"start", "activate"}

LEMMA UntouchedStaysSound ==
  ASSUME NEW a \in Assignments, Sound(a), Founded(a), Keeps(a)
  PROVE  Sound(a)' /\ Founded(a)'
  BY DEF Keeps, Sound, Founded, Created, ActiveAttempt

-----------------------------------------------------------------------------
(* One Assignment, a step at a time *)

LEMMA BeginStartSound ==
  ASSUME TypeOK, NEW a \in Assignments, Sound(a), Founded(a), NEW n \in Ordinals, BeginStart(a, n)
  PROVE  Sound(a)' /\ Founded(a)'
  BY DEF BeginStart, Sound, Founded, Created, ActiveAttempt, TypeOK, AssignmentsTyped, AttemptsTyped,
     ActorsTyped, Absent

LEMMA BindSound ==
  ASSUME TypeOK, NEW a \in Assignments, Sound(a), Founded(a), Bind(a)
  PROVE  Sound(a)' /\ Founded(a)'
<1>1. handler[a].n \in Ordinals /\ handler[a].n # NoSession /\ active[a] = handler[a].n
  BY LedgerAssumption DEF Bind, TypeOK, AssignmentsTyped, Ordinals, NoSession
<1>2. /\ \A n \in Ordinals \ {active[a]} : attempt'[a][n] = attempt[a][n] /\ session'[a][n] = session[a][n]
      /\ attempt'[a][active[a]] = Started(attempt[a][active[a]])
      /\ session'[a][active[a]] = Bound(attempt[a][active[a]], session[a][active[a]], active[a])
  BY <1>1 DEF Bind, TypeOK, AttemptsTyped
<1>3. /\ active'[a] = active[a] /\ parked'[a] = parked[a]
      /\ assignment'[a] = "ACTIVE" /\ task'[a] \in {task[a], "RUNNING"}
  BY DEF Bind, TypeOK, AssignmentsTyped
<1>4. a \in Created /\ a \in Created'
  BY <1>3 DEF Bind, Founded, Created, Absent
<1>5. Sound(a)'
  BY <1>1, <1>2, <1>3, <1>4 DEF Started, Bound, Sound, ActiveAttempt
<1>6. Founded(a)'
  BY <1>1, <1>2, <1>3, <1>4 DEF Started, Founded, ActiveAttempt, Absent
<1> QED BY <1>5, <1>6

LEMMA FailAttemptSound ==
  ASSUME TypeOK, NEW a \in Assignments, Sound(a), Founded(a), NEW n, FailAttempt(a, n),
         UNCHANGED <<active, session>>,
         handler'[a] = handler[a] \/ handler'[a].op \notin {"start", "activate"}
  PROVE  Sound(a)' /\ Founded(a)'
  BY DEF FailAttempt, Unparked, Sound, Founded, Created, ActiveAttempt, WorkingAttempt, TypeOK, AssignmentsTyped,
     AttemptsTyped, Absent

LEMMA CompleteSound ==
  ASSUME TypeOK, NEW a \in Assignments, Sound(a), Founded(a), NEW n \in Ordinals,
         NEW success \in BOOLEAN, Complete(a, n, success)
  PROVE  Sound(a)' /\ Founded(a)'
  BY DEF Complete, Reported, Unblocked, Unparked, Sound, Founded, Created, ActiveAttempt, WorkingAttempt,
     TypeOK, AssignmentsTyped, AttemptsTyped, Absent

LEMMA ParkSound ==
  ASSUME TypeOK, NEW a \in Assignments, Sound(a), Founded(a), Park(a) \/ Consume(a)
  PROVE  Sound(a)' /\ Founded(a)'
<1>1. CASE Park(a)
  BY <1>1 DEF Park, Sound, Founded, Created, ActiveAttempt, TypeOK, AssignmentsTyped, AttemptsTyped, Absent
<1>2. CASE Consume(a)
  BY <1>2 DEF Consume, Unparked, Sound, Founded, Created, ActiveAttempt, TypeOK, AssignmentsTyped, AttemptsTyped,
     Absent
<1> QED BY <1>1, <1>2

LEMMA CancelEffectSound ==
  ASSUME TypeOK, NEW a \in Assignments, Sound(a), Founded(a), NEW S \in SUBSET Created, CancelEffect(S),
         UNCHANGED <<active, session, handler>>
  PROVE  Sound(a)' /\ Founded(a)'
<1>1. CASE a \in S
  BY <1>1 DEF CancelEffect, Interrupted, Sound, Founded, Created, ActiveAttempt, TerminalAttempt, TypeOK,
     AssignmentsTyped, AttemptsTyped, Absent
<1>2. CASE a \notin S
  BY <1>2, UntouchedStaysSound DEF Keeps, CancelEffect, TypeOK, AssignmentsTyped, AttemptsTyped
<1> QED BY <1>1, <1>2

LEMMA PlanSound ==
  ASSUME TypeOK, NEW a \in Created, Sound(a), Founded(a), PlanNextAttempt(a),
         NEW states \in [Assignments -> [Ordinals -> AttemptStates \cup {Absent}]],
         \A n \in Ordinals : states[a][n] = attempt[a][n] \/ (n = active[a] /\ states[a][n] = "STALE"),
         attempt' = Planned(a, states), task'[a] # "COMPLETED", UNCHANGED handler
  PROVE  Sound(a)' /\ Founded(a)'
<1> DEFINE k == active[a] + 1
<1>1. k \in Ordinals /\ active[a] \in Ordinals /\ k > active[a]
  BY LedgerAssumption DEF PlanNextAttempt, TypeOK, AssignmentsTyped, Ordinals, Created
<1>2. active'[a] = k /\ assignment'[a] = "PENDING" /\ parked'[a] = FALSE
  BY DEF PlanNextAttempt, Unparked, TypeOK, AssignmentsTyped, Created
<1>3. \A n \in Ordinals : attempt'[a][n] = IF n = k THEN "PLANNED" ELSE states[a][n]
  BY <1>1 DEF Planned, Created
<1>4. \A n \in Ordinals : session'[a][n] = IF n = k THEN NoSession ELSE session[a][n]
  BY <1>1 DEF PlanNextAttempt, FreshSession, TypeOK, AttemptsTyped, Created
<1>5. Sound(a)'
  BY <1>1, <1>2, <1>3, <1>4 DEF Sound, Created, ActiveAttempt
<1>6. Founded(a)'
  BY <1>1, <1>2, <1>3, <1>4 DEF Founded, Created, ActiveAttempt, Absent, Ordinals
<1> QED BY <1>5, <1>6

LEMMA PauseSound ==
  ASSUME TypeOK, NEW a \in Assignments, Sound(a), Founded(a), NEW paused \in BOOLEAN, Pause(a, paused)
  PROVE  Sound(a)' /\ Founded(a)'
<1> DEFINE next == IF paused THEN "PAUSED" ELSE IF parked[a] THEN "WAITING" ELSE "ACTIVE"
<1>1. assignment'[a] = next /\ UNCHANGED <<active, attempt, session, parked, task, handler>>
  BY DEF Pause, TypeOK, AssignmentsTyped
<1>2. a \in Created
  BY DEF Pause, AssignmentNext, Created, Absent
<1>3. next \in {"PAUSED", "ACTIVE"} \/ (next = "WAITING" /\ parked[a])
  OBVIOUS
<1> HIDE DEF next
<1> QED BY <1>1, <1>2, <1>3 DEF Sound, Founded, Created, ActiveAttempt, Absent

LEMMA RebindSound ==
  ASSUME TypeOK, NEW a \in Created, Sound(a), Founded(a), NEW r \in Runtimes, Rebind(a, r),
         UNCHANGED <<active, parked, handler>>
  PROVE  Sound(a)' /\ Founded(a)'
<1>1. r # NoSession
  BY OrdinalsAreRuntimes
<1> QED
  BY <1>1 DEF Rebind, Interrupted, Started, Sound, Founded, Created, ActiveAttempt, TerminalAttempt, TypeOK,
     AssignmentsTyped, AttemptsTyped, Absent

LEMMA OrphanSound ==
  ASSUME TypeOK, NEW a \in Created, Sound(a), Founded(a), NEW n, Orphan(a, n),
         UNCHANGED <<active, session, handler>>
  PROVE  Sound(a)' /\ Founded(a)'
  BY DEF Orphan, Lost, Unparked, Sound, Founded, Created, ActiveAttempt, WorkingAttempt, TypeOK, AssignmentsTyped,
     AttemptsTyped, Absent

LEMMA DelegateSound ==
  ASSUME TypeOK, NEW a \in Assignments, Sound(a), Founded(a), NEW by \in Assignments,
         NEW batch \in SUBSET (Assignments \ Created),
         NEW needs \in [batch -> SUBSET (Created \cup batch)], Delegate(batch, by, needs)
  PROVE  Sound(a)' /\ Founded(a)'
<1>1. CASE a \in batch
  <2>1. a \notin Created /\ 1 \in Ordinals /\ active[a] = 1
    BY <1>1, LedgerAssumption DEF Founded, Ordinals
  <2>2. /\ assignment'[a] = "PENDING" /\ task'[a] # "COMPLETED"
        /\ \A n \in Ordinals : attempt'[a][n] = IF n = 1 THEN "PLANNED" ELSE attempt[a][n]
    BY <1>1, <2>1 DEF Delegate, TypeOK, AttemptsTyped
  <2>3. UNCHANGED <<active, session, parked, handler>>
    BY DEF Delegate
  <2>4. Sound(a)'
    BY <2>1, <2>2, <2>3 DEF Sound, Founded, Created, ActiveAttempt, Absent
  <2>5. Founded(a)'
    BY <2>1, <2>2, <2>3 DEF Founded, Created, ActiveAttempt, Absent, Ordinals
  <2> QED BY <2>4, <2>5
<1>2. CASE a \notin batch
  BY <1>2, UntouchedStaysSound DEF Keeps, Delegate, TypeOK, AssignmentsTyped, AttemptsTyped
<1> QED BY <1>1, <1>2

-----------------------------------------------------------------------------
(* All Assignments, a step at a time *)

LEMMA OneStepSound ==
  ASSUME AllSound, NEW a \in Assignments, Sound(a)' /\ Founded(a)', \A b \in Assignments \ {a} : Keeps(b)
  PROVE  AllSound'
  BY UntouchedStaysSound DEF AllSound

LEMMA RunnerSound ==
  ASSUME TypeOK, AllSound, NEW a \in Assignments, Runner(a) PROVE AllSound'
<1>1. Sound(a) /\ Founded(a)
  BY DEF AllSound
<1>2. ASSUME NEW n \in Ordinals, BeginStart(a, n) PROVE AllSound'
  <2>1. \A b \in Assignments \ {a} : Keeps(b)
    BY <1>2 DEF BeginStart, Keeps, TypeOK, AssignmentsTyped, AttemptsTyped, ActorsTyped
  <2> QED BY <1>1, <1>2, <2>1, BeginStartSound, OneStepSound
<1>3. CASE Bind(a)
  <2>1. \A b \in Assignments \ {a} : Keeps(b)
    BY <1>3 DEF Bind, Keeps, TypeOK, AssignmentsTyped, AttemptsTyped, ActorsTyped
  <2> QED BY <1>1, <1>3, <2>1, BindSound, OneStepSound
<1>4. CASE StartThrew(a)
  <2>1. handler'[a].op \notin {"start", "activate"} /\ UNCHANGED <<active, session>>
    BY <1>4 DEF StartThrew, Idle, TypeOK, ActorsTyped
  <2>2. \A b \in Assignments \ {a} : Keeps(b)
    BY <1>4 DEF StartThrew, FailAttempt, Unparked, Keeps, TypeOK, AssignmentsTyped, AttemptsTyped, ActorsTyped
  <2>3. CASE FailAttempt(a, handler[a].n)
    BY <1>1, <2>1, <2>2, <2>3, FailAttemptSound, OneStepSound
  <2>4. CASE UNCHANGED <<attempt, assignment, task, parked>>
    <3>1. Keeps(a)
      BY <2>1, <2>4 DEF Keeps
    <3> QED BY <1>1, <2>2, <3>1, UntouchedStaysSound, OneStepSound
  <2> QED BY <1>4, <2>3, <2>4 DEF StartThrew
<1>5. ASSUME NEW n \in Ordinals, SkipStart(a, n) \/ BeginCancel(a, n) PROVE AllSound'
  <2>1. \A b \in Assignments : Keeps(b)
    BY <1>5 DEF SkipStart, BeginCancel, ledger, Keeps, TypeOK, ActorsTyped
  <2> QED BY <2>1, UntouchedStaysSound DEF AllSound
<1>6. CASE Spawn(a) \/ EndStart(a) \/ EndCancel(a) \/ CancelError(a)
  <2>1. \A b \in Assignments : Keeps(b)
    BY <1>6 DEF Spawn, EndStart, EndCancel, CancelError, Idle, ledger, Keeps, TypeOK, ActorsTyped
  <2> QED BY <2>1, UntouchedStaysSound DEF AllSound
<1> QED BY <1>2, <1>3, <1>4, <1>5, <1>6 DEF Runner, BindStale, StartError

LEMMA CallerSound ==
  ASSUME TypeOK, AllSound, NEW a \in Assignments, Caller(a) PROVE AllSound'
<1>1. ASSUME NEW batch \in SUBSET (Assignments \ Created),
             NEW needs \in [batch -> SUBSET (Created \cup batch)], Delegate(batch, a, needs)
      PROVE  AllSound'
  BY <1>1, DelegateSound DEF AllSound
<1>2. ASSUME NEW n \in Ordinals, NEW success \in BOOLEAN, Complete(a, n, success) PROVE AllSound'
  <2>1. \A b \in Assignments \ {a} : Keeps(b)
    BY <1>2 DEF Complete, Unparked, Keeps, TypeOK, AssignmentsTyped, AttemptsTyped
  <2> QED BY <1>2, <2>1, CompleteSound, OneStepSound DEF AllSound
<1>3. CASE PromoteLead(a)
  <2>1. \A b \in Assignments : Keeps(b)
    BY <1>3 DEF PromoteLead, Keeps
  <2> QED BY <2>1, UntouchedStaysSound DEF AllSound
<1> QED BY <1>1, <1>2, <1>3 DEF Caller

LEMMA ControlSound ==
  ASSUME TypeOK, AllSound, NEW a \in Assignments, Control(a) PROVE AllSound'
<1>1. CASE Park(a) \/ Consume(a)
  <2>1. \A b \in Assignments \ {a} : Keeps(b)
    BY <1>1 DEF Park, Consume, Unparked, Keeps, TypeOK, AssignmentsTyped, AttemptsTyped
  <2> QED BY <1>1, <2>1, ParkSound, OneStepSound DEF AllSound
<1>2. CASE Cancel(a)
  <2>1. {a} \in SUBSET Created
    BY <1>2 DEF Cancel, AssignmentNext, Created, Absent
  <2> QED BY <1>2, <2>1, CancelEffectSound DEF Cancel, AllSound
<1>3. CASE Retry(a)
  <2>1. a \in Created /\ task'[a] # "COMPLETED"
    BY <1>3 DEF Retry, Created, TypeOK, AssignmentsTyped
  <2>2. \A b \in Assignments \ {a} : Keeps(b)
    BY <1>3 DEF Retry, PlanNextAttempt, Planned, Unparked, Keeps, TypeOK, AssignmentsTyped, AttemptsTyped
  <2>3. Sound(a)' /\ Founded(a)'
    BY <1>3, <2>1, PlanSound DEF Retry, AllSound, TypeOK, AttemptsTyped
  <2> QED BY <2>2, <2>3, OneStepSound
<1>4. CASE Reassign(a)
  <2> DEFINE states == IF Interrupted(a) THEN [attempt EXCEPT ![a][active[a]] = "STALE"] ELSE attempt
  <2>1. a \in Created /\ task'[a] # "COMPLETED"
    BY <1>4 DEF Reassign, Created, TypeOK, AssignmentsTyped
  <2>2. \A b \in Assignments \ {a} : Keeps(b)
    BY <1>4 DEF Reassign, PlanNextAttempt, Planned, Unparked, Keeps, TypeOK, AssignmentsTyped, AttemptsTyped
  <2>3. states \in [Assignments -> [Ordinals -> AttemptStates \cup {Absent}]]
    BY DEF TypeOK, AttemptsTyped, AttemptStates, TerminalAttempt
  <2>4. \A n \in Ordinals : states[a][n] = attempt[a][n] \/ (n = active[a] /\ states[a][n] = "STALE")
    BY DEF TypeOK, AttemptsTyped
  <2>5. PlanNextAttempt(a) /\ attempt' = Planned(a, states) /\ UNCHANGED handler
    BY <1>4 DEF Reassign
  <2>6. Sound(a)' /\ Founded(a)'
    BY <2>1, <2>3, <2>4, <2>5, PlanSound DEF AllSound
  <2> QED BY <2>2, <2>6, OneStepSound
<1>5. ASSUME NEW paused \in BOOLEAN, Pause(a, paused) PROVE AllSound'
  <2>1. \A b \in Assignments \ {a} : Keeps(b)
    BY <1>5 DEF Pause, Keeps, TypeOK, AssignmentsTyped
  <2> QED BY <1>5, <2>1, PauseSound, OneStepSound DEF AllSound
<1> QED BY <1>1, <1>2, <1>3, <1>4, <1>5 DEF Control

LEMMA MissionStepSound ==
  ASSUME TypeOK, AllSound, Pointers,
         \/ \E outcome \in TerminalMission : Finish(outcome)
         \/ Revise \/ Reattach \/ BeginDelete \/ EndDelete
  PROVE  AllSound'
<1>0. lead \in Created /\ lead \in Assignments
  BY DEF Pointers, Created
<1>1. ASSUME NEW outcome \in TerminalMission, Finish(outcome) PROVE AllSound'
  <2> DEFINE S == IF outcome = "COMPLETED" THEN {}
                  ELSE {a \in Created : assignment[a] \notin {"COMPLETED", "CANCELLED"}}
  <2>1. S \in SUBSET Created /\ CancelEffect(S) /\ UNCHANGED <<active, session, handler>>
    BY <1>1 DEF Finish
  <2> QED BY <2>1, CancelEffectSound DEF AllSound
<1> PICK a \in Created : a = lead
  BY <1>0
<1>2. CASE Revise
  <2>1. task'[a] # "COMPLETED" /\ PlanNextAttempt(a) /\ attempt' = Planned(a, attempt) /\ UNCHANGED handler
    BY <1>2 DEF Revise, TypeOK, AssignmentsTyped, Created
  <2>2. \A b \in Assignments \ {a} : Keeps(b)
    BY <1>2 DEF Revise, PlanNextAttempt, Planned, Unparked, Keeps, TypeOK, AssignmentsTyped, AttemptsTyped
  <2>3. attempt \in [Assignments -> [Ordinals -> AttemptStates \cup {Absent}]]
    BY DEF TypeOK, AttemptsTyped
  <2>4. Sound(a)' /\ Founded(a)'
    BY <2>1, <2>3, PlanSound DEF AllSound, Created
  <2> QED BY <2>2, <2>4, OneStepSound DEF Created
<1>3. CASE Reattach
  <2>1. Rebind(a, ForeignSession) /\ UNCHANGED <<active, parked, handler>>
    BY <1>3 DEF Reattach
  <2>2. \A b \in Assignments \ {a} : Keeps(b)
    BY <2>1 DEF Rebind, Keeps, TypeOK, AssignmentsTyped, AttemptsTyped
  <2>3. Sound(a)' /\ Founded(a)'
    BY <2>1, OneTyped, RebindSound DEF AllSound, Created
  <2> QED BY <2>2, <2>3, OneStepSound DEF Created
<1>4. CASE BeginDelete \/ EndDelete
  <2>1. \A b \in Assignments : Keeps(b)
    BY <1>4 DEF BeginDelete, EndDelete, ledger, Keeps
  <2> QED BY <2>1, UntouchedStaysSound DEF AllSound
<1> QED BY <1>1, <1>2, <1>3, <1>4

LEMMA RestartSound ==
  ASSUME TypeOK, AllSound, NEW starts, RestartWith(starts) PROVE AllSound'
<1>1. \A b \in Assignments : Keeps(b)
  BY DEF RestartWith, Idle, Keeps
<1> QED BY <1>1, UntouchedStaysSound DEF AllSound

LEMMA RecoverySound == ASSUME TypeOK, AllSound, Pointers, Recovery PROVE AllSound'
<1>1. CASE \E a \in Assignments : DieGivingUp(a)
  BY <1>1, RestartSound DEF DieGivingUp
<1>2. CASE (\E S \in SUBSET Expirable : BeginSweep(S)) \/ (\E p \in sweep : Ask(p)) \/ ProbeUnknown
  <2>1. \A b \in Assignments : Keeps(b)
    BY <1>2 DEF BeginSweep, Ask, ProbeUnknown, ledger, Keeps
  <2> QED BY <2>1, UntouchedStaysSound DEF AllSound
<1>3. ASSUME ProbeAlive \/ ProbeMissing PROVE probe.a \in Created /\ probe.on \in Runtimes
  BY <1>3 DEF ProbeAlive, ProbeMissing, Pointers, TypeOK, ActorsTyped, Probes
<1>4. CASE ProbeAlive
  <2> PICK a \in Created, r \in Runtimes : a = probe.a /\ r = probe.on
    BY <1>3, <1>4
  <2>1. Rebind(a, r) /\ UNCHANGED <<active, parked, handler>>
    BY <1>4 DEF ProbeAlive
  <2>2. \A b \in Assignments \ {a} : Keeps(b)
    BY <2>1 DEF Rebind, Keeps, TypeOK, AssignmentsTyped, AttemptsTyped
  <2>3. Sound(a)' /\ Founded(a)'
    BY <2>1, RebindSound DEF AllSound, Created
  <2> QED BY <2>2, <2>3, OneStepSound DEF Created
<1>5. CASE ProbeMissing
  <2> PICK a \in Created, n \in {probe.n} : a = probe.a
    BY <1>3, <1>5
  <2>1. (Orphan(a, n) \/ FailAttempt(a, n)) /\ UNCHANGED <<active, session, handler>>
    BY <1>5 DEF ProbeMissing
  <2>2. \A b \in Assignments \ {a} : Keeps(b)
    BY <2>1 DEF Orphan, FailAttempt, Lost, Unparked, Keeps, TypeOK, AssignmentsTyped, AttemptsTyped
  <2>3. Sound(a)' /\ Founded(a)'
    BY <2>1, OrphanSound, FailAttemptSound DEF AllSound, Created
  <2> QED BY <2>2, <2>3, OneStepSound DEF Created
<1> QED BY <1>1, <1>2, <1>4, <1>5, RestartSound DEF Recovery, Restart

LEMMA StepSound ==
  ASSUME TypeOK, AllSound, Pointers, [Next]_vars PROVE AllSound'
<1>1. CASE UNCHANGED vars
  BY <1>1, UntouchedStaysSound DEF vars, ledger, Keeps, AllSound
<1>2. CASE Next
  BY <1>2, LedgerAssumption, RunnerSound, CallerSound, ControlSound, MissionStepSound, RecoverySound DEF Next
<1> QED BY <1>1, <1>2

-----------------------------------------------------------------------------
(* What exists, and who supervises whom *)

(* Only delegation creates Assignments and none is ever removed; only a      *)
(* promotion changes the Lead.                                               *)
LEMMA CreatedStep ==
  ASSUME TypeOK, AllSound, Pointers, [Next]_vars
  PROVE  \/ \E by \in Assignments : \E batch \in SUBSET (Assignments \ Created) :
              \E needs \in [batch -> SUBSET (Created \cup batch)] : Delegate(batch, by, needs)
         \/ Created' = Created /\ ((\E a \in Assignments : PromoteLead(a)) \/ UNCHANGED <<lead, supervisor>>)
<1> DEFINE Kept == \A b \in Assignments : assignment'[b] = Absent <=> assignment[b] = Absent
<1>0. Kept => Created' = Created
  BY DEF Created
<1>1. CASE UNCHANGED vars
  BY <1>0, <1>1 DEF vars, ledger
<1>2. ASSUME NEW a \in Assignments, Runner(a) PROVE Kept /\ UNCHANGED <<lead, supervisor>>
  <2>1. CASE Bind(a) \/ StartThrew(a)
    <3>1. /\ attempt[a][active[a]] \in WorkingAttempt => assignment[a] # Absent
          /\ handler[a].op = "start" => assignment[a] # Absent
      BY DEF AllSound, Founded, WorkingAttempt, Created, Absent, TypeOK, AssignmentsTyped
    <3>2. CASE Bind(a)
      BY <3>1, <3>2 DEF Bind, TypeOK, AssignmentsTyped, Absent
    <3>3. CASE StartThrew(a)
      <4>1. CASE UNCHANGED assignment
        BY <3>3, <4>1 DEF StartThrew
      <4>2. CASE assignment' = [assignment EXCEPT ![a] = "FAILED"] /\ attempt[a][active[a]] \in WorkingAttempt
        BY <3>1, <3>3, <4>2 DEF StartThrew, TypeOK, AssignmentsTyped, Absent
      <4> QED BY <3>3, <4>1, <4>2 DEF StartThrew, FailAttempt
    <3> QED BY <2>1, <3>2, <3>3
  <2>2. CASE ~(Bind(a) \/ StartThrew(a))
    BY <1>2, <2>2 DEF Runner, BeginStart, SkipStart, Spawn, EndStart, BindStale, StartError, BeginCancel, EndCancel,
       CancelError, ledger
  <2> QED BY <2>1, <2>2
<1>3. ASSUME NEW a \in Assignments, NEW n \in Ordinals, NEW success \in BOOLEAN, Complete(a, n, success)
      PROVE  Kept /\ UNCHANGED <<lead, supervisor>>
  BY <1>3 DEF Complete, WorkingAttempt, AllSound, Founded, TypeOK, AssignmentsTyped, Created, Absent
<1>4. ASSUME NEW a \in Assignments, PromoteLead(a) PROVE Kept
  BY <1>4 DEF PromoteLead
<1>5. ASSUME NEW a \in Assignments, Control(a) PROVE Kept /\ UNCHANGED <<lead, supervisor>>
  BY <1>5 DEF Control, Park, Consume, Cancel, CancelEffect, Retry, Reassign, PlanNextAttempt, Pause, AssignmentNext,
     TypeOK, AssignmentsTyped, Absent
<1>6. CASE \E outcome \in TerminalMission : Finish(outcome)
  BY <1>0, <1>6 DEF Finish, CancelEffect, Created, TypeOK, AssignmentsTyped, Absent
<1>7. CASE Revise \/ Reattach \/ BeginDelete \/ EndDelete
  BY <1>0, <1>7 DEF Revise, PlanNextAttempt, Reattach, Rebind, BeginDelete, EndDelete, ledger, Pointers, Created, TypeOK,
     AssignmentsTyped, Absent
<1>8. CASE Recovery
  <2>1. CASE ProbeAlive \/ ProbeMissing
    BY <1>0, <2>1 DEF ProbeAlive, ProbeMissing, Rebind, Orphan, FailAttempt, Pointers, Created, TypeOK,
       AssignmentsTyped, Absent
  <2>2. CASE ~(ProbeAlive \/ ProbeMissing)
    BY <1>0, <1>8, <2>2 DEF Recovery, DieGivingUp, RestartWith, Restart, BeginSweep, Ask, ProbeUnknown, ledger
  <2> QED BY <2>1, <2>2
<1> QED BY <1>0, <1>1, <1>2, <1>3, <1>4, <1>5, <1>6, <1>7, <1>8, LedgerAssumption DEF Next, Caller

LEMMA PointersStep ==
  ASSUME TypeOK, AllSound, Pointers, [Next]_vars PROVE Pointers'
<1>1. Created \subseteq Created'
  BY CreatedStep DEF Delegate, Created, TypeOK, AssignmentsTyped, Absent
<1>2. lead' \in Created'
  <2>1. CASE \E a \in Assignments : PromoteLead(a)
    BY <2>1 DEF PromoteLead, LiveAssignment, Created, Absent
  <2>2. CASE UNCHANGED lead
    BY <1>1, <2>2 DEF Pointers
  <2> QED BY <2>1, <2>2, CreatedStep DEF Delegate
<1>3. \A p \in Expirable : p.a \in Created
  BY LedgerAssumption DEF Expirable, AllSound, Founded, TypeOK, AssignmentsTyped, ActiveAttempt, WorkingAttempt, Absent
<1>4. sweep' \subseteq sweep \cup Expirable /\ probe' \in {probe, NoProbe} \cup sweep
  <2>0. UNCHANGED reconciling => sweep' = sweep /\ probe' = probe
    BY DEF reconciling
  <2>1. CASE \E a \in Assignments : Runner(a)
    <3>1. ASSUME NEW a \in Assignments, Runner(a) PROVE UNCHANGED reconciling
      BY <3>1 DEF Runner, BeginStart, SkipStart, Spawn, Bind, EndStart, BindStale, StartError, StartThrew, BeginCancel,
         EndCancel, CancelError
    <3> QED BY <2>0, <2>1, <3>1
  <2>2. CASE \E a \in Assignments : Caller(a) \/ Control(a)
    <3>1. ASSUME NEW a \in Assignments, Caller(a) PROVE UNCHANGED reconciling
      <4>1. ASSUME NEW batch, NEW needs, Delegate(batch, a, needs) PROVE UNCHANGED reconciling
        BY <4>1 DEF Delegate
      <4>2. ASSUME NEW n, NEW success, Complete(a, n, success) PROVE UNCHANGED reconciling
        BY <4>2 DEF Complete
      <4>3. ASSUME PromoteLead(a) PROVE UNCHANGED reconciling
        BY <4>3 DEF PromoteLead
      <4> QED BY <3>1, <4>1, <4>2, <4>3 DEF Caller
    <3>2. ASSUME NEW a \in Assignments, Control(a) PROVE UNCHANGED reconciling
      BY <3>2 DEF Control, Park, Consume, Cancel, Retry, Reassign, Pause
    <3> QED BY <2>0, <2>2, <3>1, <3>2
  <2>3. CASE (\E outcome \in TerminalMission : Finish(outcome)) \/ Revise \/ Reattach \/ BeginDelete \/ EndDelete
    BY <2>3 DEF Finish, Revise, Reattach, BeginDelete, EndDelete, reconciling
  <2>4. CASE Recovery
    BY <2>4 DEF Recovery, DieGivingUp, RestartWith, Restart, BeginSweep, Ask, ProbeUnknown, ProbeAlive, ProbeMissing
  <2>5. CASE UNCHANGED vars
    BY <2>5 DEF vars, reconciling
  <2> QED BY <2>1, <2>2, <2>3, <2>4, <2>5, LedgerAssumption DEF Next
<1> QED BY <1>1, <1>2, <1>3, <1>4 DEF Pointers

(* Why promotion keeps a tree: a set that holds the former Lead is led out of *)
(* by it, to the new one; any other set was led out of before.               *)
LEMMA SupervisionStep ==
  ASSUME TypeOK, AllSound, Pointers, [Next]_vars, SupervisionTree PROVE SupervisionTree'
<1>1. ASSUME NEW by \in Assignments, NEW batch \in SUBSET (Assignments \ Created),
             NEW needs \in [batch -> SUBSET (Created \cup batch)], Delegate(batch, by, needs)
      PROVE  SupervisionTree'
  <2>1. Created' = Created \cup batch /\ lead' = lead /\ by \in Created
    BY <1>1 DEF Delegate, Created, TypeOK, AssignmentsTyped, Absent
  <2>2. \A a \in Assignments : supervisor'[a] = IF a \in batch THEN by ELSE supervisor[a]
    BY <1>1 DEF Delegate
  <2>3. supervisor'[lead'] = None
    BY <2>1, <2>2 DEF SupervisionTree, Pointers, TypeOK, MissionTyped
  <2>4. ASSUME NEW S \in SUBSET (Created' \ {lead'}), S # {}
        PROVE  \E a \in S : supervisor'[a] \in Created' \ S
    <3>1. CASE S \subseteq batch
      BY <2>1, <2>2, <2>4, <3>1
    <3>2. CASE S \cap Created # {}
      <4>1. S \cap Created \in SUBSET (Created \ {lead})
        BY <2>1, <2>4
      <4>2. PICK a \in S \cap Created : supervisor[a] \in Created \ (S \cap Created)
        BY <3>2, <4>1 DEF SupervisionTree
      <4> QED BY <2>1, <2>2, <4>2 DEF Created
    <3> QED BY <2>1, <2>4, <3>1, <3>2
  <2> QED BY <2>3, <2>4 DEF SupervisionTree
<1>2. ASSUME NEW new \in Assignments, PromoteLead(new), Created' = Created PROVE SupervisionTree'
  <2>1. /\ new \in Created /\ new # lead /\ lead' = new
        /\ supervisor'[new] = None /\ supervisor'[lead] = new
        /\ \A a \in Assignments \ {new, lead} : supervisor'[a] = supervisor[a]
    BY <1>2 DEF PromoteLead, Succession, LiveAssignment, Created, TypeOK, MissionTyped, AssignmentsTyped, Absent
  <2>2. ASSUME NEW S \in SUBSET (Created \ {new}), S # {}
        PROVE  \E a \in S : supervisor'[a] \in Created \ S
    <3>1. CASE lead \in S
      BY <2>1, <2>2, <3>1
    <3>2. CASE lead \notin S
      <4>1. S \in SUBSET (Created \ {lead})
        BY <2>2, <3>2
      <4>2. PICK a \in S : supervisor[a] \in Created \ S
        BY <2>2, <4>1 DEF SupervisionTree
      <4> QED BY <2>1, <2>2, <3>2, <4>2 DEF Created
    <3> QED BY <3>1, <3>2
  <2> QED BY <1>2, <2>1, <2>2 DEF SupervisionTree
<1>3. CASE Created' = Created /\ UNCHANGED <<lead, supervisor>>
  BY <1>3 DEF SupervisionTree
<1> QED BY <1>1, <1>2, <1>3, CreatedStep

-----------------------------------------------------------------------------
(* The theorems *)

LEMMA InitSafe == Init => IInv
<1> SUFFICES ASSUME Init PROVE IInv
  OBVIOUS
<1>1. Created = {Root} /\ lead = Root /\ TypeOK
  BY LedgerAssumption, InitTyped DEF Init, Created, Absent
<1>2. AllSound
  BY <1>1, LedgerAssumption DEF Init, AllSound, Sound, Founded, ActiveAttempt, Ordinals, NoSession, Absent, Idle
<1>3. Pointers
  BY <1>1 DEF Init, Pointers
<1>4. SupervisionTree
  BY <1>1, LedgerAssumption DEF Init, SupervisionTree
<1> QED BY <1>1, <1>2, <1>3, <1>4 DEF IInv

LEMMA StepSafe == IInv /\ [Next]_vars => IInv'
  BY StepTyped, StepSound, PointersStep, SupervisionStep DEF IInv

LEMMA InvariantSafe == Spec => []IInv
  BY InitSafe, StepSafe, PTL DEF Spec

(* No late report, orphaning, cancellation or replacement leaves a task       *)
(* COMPLETED whose active Attempt did not succeed.                            *)
THEOREM CompletionIsSuccess == Spec => []CompletedTaskSucceeded
<1>1. IInv => CompletedTaskSucceeded
  BY DEF IInv, AllSound, Sound, CompletedTaskSucceeded, Created
<1> QED BY <1>1, InvariantSafe, PTL

(* Whatever ends, replaces, pauses or loses an Attempt takes its unfinished   *)
(* continuation with it, or leaves an Attempt that can consume it; and what   *)
(* is WAITING has a continuation to resume it, and a handle to be reached by. *)
THEOREM NobodyWaitsForNothing == Spec => []WaitersCanBeWoken
<1>1. IInv => ParkedIsWorking
  BY DEF IInv, AllSound, Sound, ParkedIsWorking
<1>2. IInv => WaitingIsParked
  BY DEF IInv, AllSound, Sound, WaitingIsParked
<1>3. IInv => RunningHasSession
  BY DEF IInv, AllSound, Sound, RunningHasSession
<1>4. IInv => WaitersCanBeWoken
  BY <1>1, <1>2, <1>3 DEF WaitersCanBeWoken
<1> QED BY <1>4, InvariantSafe, PTL

(* Delegations and promotions, in any number and order and whatever else      *)
(* happens, keep the supervisors a tree whose root is the Lead.               *)
THEOREM SupervisionStaysATree == Spec => []SupervisionTree
<1>1. IInv => SupervisionTree
  BY DEF IInv
<1> QED BY <1>1, InvariantSafe, PTL

-----------------------------------------------------------------------------
(* Whatever the environment does: what a handler that awaits has begun *)

(* What a handler and the columns of one Assignment know of its active        *)
(* Attempt, whatever the environment does: a handler that awaits has begun    *)
(* it, what has ended has no live Attempt, and no task depends on itself.     *)
Begun(a) ==
  /\ handler[a].op \in {"start", "activate"} => handler[a].n <= active[a]
  /\ handler[a].op \in {"start", "activate"} /\ handler[a].n = active[a] =>
       /\ ActiveAttempt(a) # "PLANNED"
       /\ handler[a].op = "activate" => ActiveAttempt(a) # "STARTING"
  /\ assignment[a] \in {"COMPLETED", "FAILED", "CANCELLED"} => ActiveAttempt(a) \in TerminalAttempt
  /\ task[a] = Absent <=> assignment[a] = Absent
  /\ a \notin deps[a]

AllBegun == \A a \in Assignments : Begun(a)

(* A step leaves an Assignment alone, or opens its task, or its handler has   *)
(* gone.                                                                      *)
Rests(a) ==
  /\ attempt'[a] = attempt[a] /\ active'[a] = active[a] /\ assignment'[a] = assignment[a] /\ deps'[a] = deps[a]
  /\ task'[a] = task[a] \/ (task[a] = "BLOCKED" /\ task'[a] = "READY")
  /\ handler'[a] = handler[a] \/ handler'[a].op \notin {"start", "activate"}

(* What a handler does beside starting an Attempt, or around it, changes no   *)
(* Assignment.                                                               *)
LEMMA HandlersRest ==
  ASSUME TypeOK, NEW a \in Assignments,
         (\E n \in Ordinals : SkipStart(a, n) \/ BeginCancel(a, n)) \/ Spawn(a) \/ EndStart(a) \/ EndCancel(a)
           \/ CancelError(a)
  PROVE  \A b \in Assignments : Rests(b)
<1>1. UNCHANGED <<attempt, active, assignment, deps, task>>
  BY DEF SkipStart, BeginCancel, Spawn, EndStart, EndCancel, CancelError, ledger
<1>2. \A b \in Assignments : handler'[b] = handler[b] \/ handler'[b].op \notin {"start", "activate"}
  <2>1. \/ handler' = handler \/ handler' = [handler EXCEPT ![a] = Idle]
        \/ \E n \in Ordinals : handler' = [handler EXCEPT ![a] = [op |-> "cancel", n |-> n, on |-> session[a][n]]]
    BY DEF SkipStart, BeginCancel, Spawn, EndStart, EndCancel, CancelError
  <2>2. handler \in [Assignments -> Handlers]
    BY DEF TypeOK, ActorsTyped
  <2> QED BY <2>1, <2>2 DEF Idle
<1> QED BY <1>1, <1>2 DEF Rests

LEMMA RestingStaysBegun ==
  ASSUME NEW a \in Assignments, Begun(a), Rests(a) PROVE Begun(a)'
  BY DEF Rests, Begun, ActiveAttempt, Absent

LEMMA OneStepBegun ==
  ASSUME AllBegun, NEW a \in Assignments, Begun(a)', \A b \in Assignments \ {a} : Rests(b)
  PROVE  AllBegun'
  BY RestingStaysBegun DEF AllBegun

LEMMA RunnerBegun ==
  ASSUME TypeOK, AllSound, AllBegun, NEW a \in Assignments, Runner(a) PROVE AllBegun'
<1>1. Begun(a) /\ Founded(a)
  BY DEF AllBegun, AllSound
<1>2. ASSUME NEW n \in Ordinals, BeginStart(a, n) PROVE AllBegun'
  <2>1. \A b \in Assignments \ {a} : Rests(b)
    BY <1>2 DEF BeginStart, Rests, TypeOK, AssignmentsTyped, AttemptsTyped, ActorsTyped
  <2>2. /\ active'[a] = n /\ attempt'[a][n] = "STARTING" /\ UNCHANGED <<assignment, task, deps>>
        /\ handler'[a] = [op |-> "start", n |-> n, on |-> n] /\ ActiveAttempt(a) \notin TerminalAttempt
    BY <1>2 DEF BeginStart, ActiveAttempt, TerminalAttempt, TypeOK, AttemptsTyped, ActorsTyped
  <2>3. Begun(a)'
    BY <1>1, <2>2 DEF Begun, ActiveAttempt, Ordinals
  <2> QED BY <2>1, <2>3, OneStepBegun
<1>3. CASE Bind(a)
  <2>1. \A b \in Assignments \ {a} : Rests(b)
    BY <1>3 DEF Bind, Rests, TypeOK, AssignmentsTyped, AttemptsTyped, ActorsTyped
  <2>2. handler[a].n \in Ordinals /\ handler[a].n = active[a] /\ a \in Created
    BY <1>1, <1>3 DEF Bind, Founded, TypeOK, AssignmentsTyped
  <2>3. Begun(a)'
    BY <1>1, <1>3, <2>2 DEF Bind, Started, Begun, Created, ActiveAttempt, TypeOK, AssignmentsTyped, AttemptsTyped,
       ActorsTyped, Absent
  <2> QED BY <2>1, <2>3, OneStepBegun
<1>4. CASE StartThrew(a)
  <2>1. \A b \in Assignments \ {a} : Rests(b)
    BY <1>4 DEF StartThrew, FailAttempt, Rests, TypeOK, AssignmentsTyped, AttemptsTyped, ActorsTyped
  <2>2. handler'[a].op \notin {"start", "activate"} /\ UNCHANGED <<active, deps>>
    BY <1>4 DEF StartThrew, Idle, TypeOK, ActorsTyped
  <2>3. ASSUME FailAttempt(a, handler[a].n) PROVE Begun(a)'
    BY <1>1, <2>2, <2>3 DEF FailAttempt, Begun, Founded, Created, ActiveAttempt, WorkingAttempt, TerminalAttempt,
       TypeOK, AssignmentsTyped, AttemptsTyped, Absent
  <2>4. ASSUME UNCHANGED <<attempt, assignment, task, parked>> PROVE Begun(a)'
    BY <1>1, <2>2, <2>4, RestingStaysBegun DEF Rests
  <2>5. Begun(a)'
    BY <1>4, <2>3, <2>4 DEF StartThrew
  <2> QED BY <2>1, <2>5, OneStepBegun
<1>5. CASE (\E n \in Ordinals : SkipStart(a, n) \/ BeginCancel(a, n)) \/ Spawn(a) \/ EndStart(a) \/ EndCancel(a) \/ CancelError(a)
  <2>1. \A b \in Assignments : Rests(b)
    BY <1>5, HandlersRest
  <2> QED BY <2>1, RestingStaysBegun DEF AllBegun
<1> QED BY <1>2, <1>3, <1>4, <1>5 DEF Runner, BindStale, StartError

LEMMA CallerBegun ==
  ASSUME TypeOK, AllSound, AllBegun, NEW a \in Assignments, Caller(a) PROVE AllBegun'
<1>1. ASSUME NEW batch \in SUBSET (Assignments \ Created),
             NEW needs \in [batch -> SUBSET (Created \cup batch)], Delegate(batch, a, needs),
             NEW b \in Assignments
      PROVE  Begun(b)'
  <2>1. CASE b \in batch
    <3>1. active[b] = 1 /\ handler[b].op \notin {"start", "activate"} /\ UNCHANGED <<handler, active>>
      BY <1>1, <2>1 DEF AllSound, Founded, Delegate
    <3>2. assignment'[b] = "PENDING" /\ task'[b] \in {"READY", "BLOCKED"} /\ deps'[b] = needs[b]
      BY <1>1, <2>1 DEF Delegate
    <3>3. b \notin needs[b]
      <4>1. {b} \in SUBSET batch
        BY <2>1
      <4> QED BY <1>1, <4>1 DEF Delegate
    <3> QED BY <3>1, <3>2, <3>3 DEF Begun, Absent
  <2>2. CASE b \notin batch
    <3>1. Rests(b)
      BY <1>1, <2>2 DEF Delegate, Rests, TypeOK, AssignmentsTyped, AttemptsTyped
    <3> QED BY <3>1, RestingStaysBegun DEF AllBegun
  <2> QED BY <2>1, <2>2
<1>2. ASSUME NEW n \in Ordinals, NEW success \in BOOLEAN, Complete(a, n, success) PROVE AllBegun'
  <2>1. \A b \in Assignments \ {a} : Rests(b)
    BY <1>2 DEF Complete, Unblocked, Rests, TypeOK, AssignmentsTyped, AttemptsTyped
  <2>2. Begun(a)'
    BY <1>2 DEF Complete, Reported, Unblocked, AllBegun, Begun, AllSound, Founded, Created, ActiveAttempt, WorkingAttempt,
       TerminalAttempt, TypeOK, AssignmentsTyped, AttemptsTyped, Absent
  <2> QED BY <2>1, <2>2, OneStepBegun
<1>3. CASE PromoteLead(a)
  <2>1. \A b \in Assignments : Rests(b)
    BY <1>3 DEF PromoteLead, Rests
  <2> QED BY <2>1, RestingStaysBegun DEF AllBegun
<1> QED BY <1>1, <1>2, <1>3 DEF Caller, AllBegun

LEMMA CancelEffectBegun ==
  ASSUME TypeOK, AllSound, AllBegun, NEW S \in SUBSET Created, CancelEffect(S), UNCHANGED <<active, deps, handler>>
  PROVE  AllBegun'
<1> SUFFICES ASSUME NEW a \in Assignments PROVE Begun(a)'
  BY DEF AllBegun
<1>1. CASE a \in S
  BY <1>1 DEF CancelEffect, Interrupted, AllBegun, Begun, Created, ActiveAttempt, TerminalAttempt, TypeOK,
     AssignmentsTyped, AttemptsTyped, Absent
<1>2. CASE a \notin S
  BY <1>2, RestingStaysBegun DEF Rests, AllBegun, CancelEffect, TypeOK, AssignmentsTyped, AttemptsTyped
<1> QED BY <1>1, <1>2

LEMMA PlanBegun ==
  ASSUME TypeOK, AllSound, AllBegun, NEW a \in Created, PlanNextAttempt(a),
         task'[a] # Absent, UNCHANGED <<handler, deps>>, \A b \in Assignments \ {a} : Rests(b)
  PROVE  AllBegun'
<1>1. /\ active[a] \in Ordinals /\ active'[a] = active[a] + 1 /\ assignment'[a] = "PENDING"
      /\ handler[a].op \in {"start", "activate"} => handler[a].n \in 0 .. MaxAttempts
  BY DEF PlanNextAttempt, TypeOK, AssignmentsTyped, ActorsTyped, Handlers, Created
<1>2. Begun(a)'
  BY <1>1, LedgerAssumption DEF AllBegun, Begun, Created, Absent, Ordinals
<1> QED BY <1>2, OneStepBegun DEF Created

LEMMA ControlBegun ==
  ASSUME TypeOK, AllSound, AllBegun, NEW a \in Assignments, Control(a) PROVE AllBegun'
<1>1. CASE Park(a) \/ Consume(a) \/ \E paused \in BOOLEAN : Pause(a, paused)
  <2>1. \A b \in Assignments \ {a} : Rests(b)
    BY <1>1 DEF Park, Consume, Pause, Rests, TypeOK, AssignmentsTyped, AttemptsTyped
  <2>2. CASE Park(a)
    BY <2>2 DEF Park, AllBegun, Begun, ActiveAttempt, TypeOK, AssignmentsTyped, AttemptsTyped, Absent
  <2>3. CASE Consume(a)
    BY <2>3 DEF Consume, AllBegun, Begun, ActiveAttempt, TerminalAttempt, TypeOK, AssignmentsTyped, AttemptsTyped, Absent
  <2>4. CASE \E paused \in BOOLEAN : Pause(a, paused)
    BY <2>4 DEF Pause, AssignmentNext, AllBegun, Begun, ActiveAttempt, TypeOK, AssignmentsTyped, AttemptsTyped, Absent
  <2> QED BY <1>1, <2>1, <2>2, <2>3, <2>4, OneStepBegun
<1>2. CASE Cancel(a)
  <2>1. {a} \in SUBSET Created
    BY <1>2 DEF Cancel, AssignmentNext, Created, Absent
  <2> QED BY <1>2, <2>1, CancelEffectBegun DEF Cancel
<1>3. CASE Retry(a) \/ Reassign(a)
  <2>1. a \in Created /\ task'[a] # Absent /\ PlanNextAttempt(a) /\ UNCHANGED <<handler, deps>>
    BY <1>3 DEF Retry, Reassign, Created, TypeOK, AssignmentsTyped, Absent
  <2>2. \A b \in Assignments \ {a} : Rests(b)
    BY <1>3 DEF Retry, Reassign, PlanNextAttempt, Planned, Rests, TypeOK, AssignmentsTyped, AttemptsTyped
  <2> QED BY <2>1, <2>2, PlanBegun
<1> QED BY <1>1, <1>2, <1>3 DEF Control

LEMMA RebindBegun ==
  ASSUME TypeOK, AllSound, AllBegun, NEW a \in Created, NEW r, Rebind(a, r), UNCHANGED <<active, handler, deps>>
  PROVE  AllBegun'
<1>1. \A b \in Assignments \ {a} : Rests(b)
  BY DEF Rebind, Rests, TypeOK, AssignmentsTyped, AttemptsTyped
<1>2. Begun(a)'
  BY DEF Rebind, Interrupted, Started, AllBegun, Begun, Created, ActiveAttempt, TerminalAttempt, TypeOK, AssignmentsTyped,
     AttemptsTyped, Absent
<1> QED BY <1>1, <1>2, OneStepBegun DEF Created

LEMMA MissionStepBegun ==
  ASSUME TypeOK, AllSound, AllBegun, Pointers,
         \/ \E outcome \in TerminalMission : Finish(outcome)
         \/ Revise \/ Reattach \/ BeginDelete \/ EndDelete
  PROVE  AllBegun'
<1>0. lead \in Created
  BY DEF Pointers
<1>1. ASSUME NEW outcome \in TerminalMission, Finish(outcome) PROVE AllBegun'
  <2> DEFINE S == IF outcome = "COMPLETED" THEN {}
                  ELSE {a \in Created : assignment[a] \notin {"COMPLETED", "CANCELLED"}}
  <2>1. S \in SUBSET Created /\ CancelEffect(S) /\ UNCHANGED <<active, deps, handler>>
    BY <1>1 DEF Finish
  <2> QED BY <2>1, CancelEffectBegun
<1>2. CASE Revise
  <2>1. task'[lead] # Absent /\ PlanNextAttempt(lead) /\ UNCHANGED <<handler, deps>>
    BY <1>0, <1>2 DEF Revise, TypeOK, AssignmentsTyped, Created, Absent
  <2>2. \A b \in Assignments \ {lead} : Rests(b)
    BY <1>2 DEF Revise, PlanNextAttempt, Planned, Rests, TypeOK, AssignmentsTyped, AttemptsTyped
  <2> QED BY <1>0, <2>1, <2>2, PlanBegun
<1>3. CASE Reattach
  BY <1>0, <1>3, RebindBegun DEF Reattach
<1>4. CASE BeginDelete \/ EndDelete
  <2>1. \A b \in Assignments : Rests(b)
    BY <1>4 DEF BeginDelete, EndDelete, ledger, Rests
  <2> QED BY <2>1, RestingStaysBegun DEF AllBegun
<1> QED BY <1>1, <1>2, <1>3, <1>4

LEMMA RecoveryBegun ==
  ASSUME TypeOK, AllSound, AllBegun, Pointers, Recovery PROVE AllBegun'
<1>1. CASE ~(ProbeAlive \/ ProbeMissing)
  <2>1. ASSUME NEW starts, RestartWith(starts) PROVE \A b \in Assignments : Rests(b)
    BY <2>1 DEF RestartWith, Idle, Rests
  <2>2. ASSUME (\E S \in SUBSET Expirable : BeginSweep(S)) \/ (\E p \in sweep : Ask(p)) \/ ProbeUnknown
        PROVE  \A b \in Assignments : Rests(b)
    BY <2>2 DEF BeginSweep, Ask, ProbeUnknown, ledger, Rests
  <2>3. \A b \in Assignments : Rests(b)
    BY <1>1, <2>1, <2>2 DEF Recovery, DieGivingUp, Restart
  <2> QED BY <2>3, RestingStaysBegun DEF AllBegun
<1>2. CASE ProbeAlive
  BY <1>2, RebindBegun DEF ProbeAlive, Pointers
<1>3. CASE ProbeMissing
  <2> PICK a \in Created, n \in {probe.n} : a = probe.a
    BY <1>3 DEF ProbeMissing, Pointers
  <2>1. (Orphan(a, n) \/ FailAttempt(a, n)) /\ UNCHANGED <<active, deps, handler>>
    BY <1>3 DEF ProbeMissing
  <2>2. \A b \in Assignments \ {a} : Rests(b)
    BY <2>1 DEF Orphan, FailAttempt, Rests, TypeOK, AssignmentsTyped, AttemptsTyped
  <2>3. Begun(a)'
    BY <2>1 DEF Orphan, FailAttempt, Lost, AllBegun, Begun, Created, ActiveAttempt, WorkingAttempt, TerminalAttempt,
       TypeOK, AssignmentsTyped, AttemptsTyped, Absent
  <2> QED BY <2>2, <2>3, OneStepBegun DEF Created
<1> QED BY <1>1, <1>2, <1>3

(* The invariant needs no hypothesis about Events. *)
LEMMA StepBegun ==
  ASSUME TypeOK, AllSound, AllBegun, Pointers, [Next]_vars PROVE AllBegun'
<1>1. CASE UNCHANGED vars
  BY <1>1, RestingStaysBegun DEF vars, ledger, Rests, AllBegun
<1>2. CASE Next
  BY <1>2, LedgerAssumption, RunnerBegun, CallerBegun, ControlBegun, MissionStepBegun, RecoveryBegun DEF Next
<1> QED BY <1>1, <1>2

(* A step leaves the active Attempt where it is, ends it, or makes it run.    *)
GoesOn(a) ==
  /\ active'[a] = active[a]
  /\ \/ ActiveAttempt(a)' = ActiveAttempt(a)
     \/ ActiveAttempt(a)' \in TerminalAttempt
     \/ ActiveAttempt(a) \notin TerminalAttempt /\ ActiveAttempt(a)' \in {"RUNNING", "WAITING"}

LEMMA RunnerGoesOn ==
  ASSUME TypeOK, AllSound, NEW a \in Assignments, Runner(a), ~\E n \in Ordinals : BeginStart(a, n)
  PROVE  \A b \in Assignments : GoesOn(b)
<1>1. CASE Bind(a)
  <2>1. handler[a].n = active[a]
    BY <1>1 DEF Bind
  <2> QED
    BY <1>1, <2>1 DEF Bind, Started, GoesOn, ActiveAttempt, TerminalAttempt, TypeOK, AssignmentsTyped, AttemptsTyped
<1>2. CASE StartThrew(a)
  BY <1>2 DEF StartThrew, FailAttempt, GoesOn, ActiveAttempt, TerminalAttempt, TypeOK, AssignmentsTyped, AttemptsTyped
<1>3. CASE ~(Bind(a) \/ StartThrew(a))
  BY <1>3 DEF Runner, SkipStart, BeginCancel, Spawn, EndStart, EndCancel, CancelError, BindStale, StartError, ledger, GoesOn,
     ActiveAttempt
<1> QED BY <1>1, <1>2, <1>3

LEMMA CompleteGoesOn ==
  ASSUME TypeOK, NEW a \in Assignments, NEW n \in Ordinals, NEW success \in BOOLEAN, Complete(a, n, success)
  PROVE  \A b \in Assignments : GoesOn(b)
  BY DEF Complete, Reported, GoesOn, ActiveAttempt, TerminalAttempt, TypeOK, AssignmentsTyped, AttemptsTyped

LEMMA CancelEffectGoesOn ==
  ASSUME TypeOK, NEW S \in SUBSET Assignments, CancelEffect(S), UNCHANGED active
  PROVE  \A b \in Assignments : GoesOn(b)
  BY DEF CancelEffect, GoesOn, ActiveAttempt, TerminalAttempt, TypeOK, AssignmentsTyped, AttemptsTyped

LEMMA ControlGoesOn ==
  ASSUME TypeOK, AllSound, NEW a \in Assignments, Control(a), ~Retry(a), ~Reassign(a)
  PROVE  \A b \in Assignments : GoesOn(b)
<1>1. CASE Park(a) \/ Consume(a)
  <2>1. \A b \in Assignments \ {a} : GoesOn(b)
    BY <1>1 DEF Park, Consume, GoesOn, ActiveAttempt, TypeOK, AttemptsTyped
  <2>2. CASE Park(a)
    BY <2>1, <2>2 DEF Park, GoesOn, ActiveAttempt, TerminalAttempt, TypeOK, AssignmentsTyped, AttemptsTyped
  <2>3. CASE Consume(a)
    BY <2>1, <2>3 DEF Consume, GoesOn, ActiveAttempt, TerminalAttempt, TypeOK, AssignmentsTyped, AttemptsTyped
  <2> QED BY <1>1, <2>2, <2>3
<1>2. CASE Cancel(a)
  BY <1>2, CancelEffectGoesOn DEF Cancel
<1>3. CASE \E paused \in BOOLEAN : Pause(a, paused)
  BY <1>3 DEF Pause, GoesOn, ActiveAttempt
<1> QED BY <1>1, <1>2, <1>3 DEF Control

LEMMA RebindGoesOn ==
  ASSUME TypeOK, NEW a \in Assignments, NEW r, Rebind(a, r), UNCHANGED active
  PROVE  \A b \in Assignments : GoesOn(b)
  BY DEF Rebind, Interrupted, Started, GoesOn, ActiveAttempt, TerminalAttempt, TypeOK, AssignmentsTyped, AttemptsTyped

LEMMA MissionStepGoesOn ==
  ASSUME TypeOK, \/ \E outcome \in TerminalMission : Finish(outcome)
                 \/ Reattach \/ BeginDelete \/ EndDelete
  PROVE  \A b \in Assignments : GoesOn(b)
<1>1. ASSUME NEW outcome \in TerminalMission, Finish(outcome) PROVE \A b \in Assignments : GoesOn(b)
  <2> DEFINE S == IF outcome = "COMPLETED" THEN {}
                  ELSE {a \in Created : assignment[a] \notin {"COMPLETED", "CANCELLED"}}
  <2>1. S \in SUBSET Assignments /\ CancelEffect(S) /\ UNCHANGED active
    BY <1>1 DEF Finish, Created
  <2> QED BY <2>1, CancelEffectGoesOn
<1>2. CASE Reattach
  BY <1>2, RebindGoesOn DEF Reattach, TypeOK, MissionTyped
<1>3. CASE BeginDelete \/ EndDelete
  BY <1>3 DEF BeginDelete, EndDelete, ledger, GoesOn, ActiveAttempt
<1> QED BY <1>1, <1>2, <1>3

LEMMA RecoveryGoesOn ==
  ASSUME TypeOK, Pointers, Recovery PROVE \A b \in Assignments : GoesOn(b)
<1>1. ASSUME NEW starts, RestartWith(starts) PROVE \A b \in Assignments : GoesOn(b)
  BY <1>1 DEF RestartWith, GoesOn, ActiveAttempt
<1>2. CASE (\E S \in SUBSET Expirable : BeginSweep(S)) \/ (\E p \in sweep : Ask(p)) \/ ProbeUnknown
  BY <1>2 DEF BeginSweep, Ask, ProbeUnknown, ledger, GoesOn, ActiveAttempt
<1>3. CASE ProbeAlive
  BY <1>3, RebindGoesOn DEF ProbeAlive, Pointers, Created
<1>4. CASE ProbeMissing
  <2> PICK a \in Assignments, n \in {probe.n} : a = probe.a
    BY <1>4 DEF ProbeMissing, Pointers, Created
  <2>1. (Orphan(a, n) \/ FailAttempt(a, n)) /\ UNCHANGED active
    BY <1>4 DEF ProbeMissing
  <2>2. CASE Orphan(a, n)
    <3>1. UNCHANGED attempt \/ (active[a] = n /\ attempt' = [attempt EXCEPT ![a][active[a]] = Lost(@)])
      BY <2>2 DEF Orphan
    <3>2. attempt'[a][active[a]] \in {attempt[a][active[a]], Lost(attempt[a][active[a]])}
      BY <3>1 DEF TypeOK, AssignmentsTyped, AttemptsTyped
    <3>3. \A b \in Assignments \ {a} : attempt'[b] = attempt[b]
      BY <3>1 DEF TypeOK, AttemptsTyped
    <3>4. \A b \in Assignments : ActiveAttempt(b)' \in {ActiveAttempt(b), "STALE"}
      BY <2>1, <3>2, <3>3 DEF Lost, ActiveAttempt
    <3> QED BY <2>1, <3>4 DEF GoesOn, TerminalAttempt
  <2>3. CASE FailAttempt(a, n)
    BY <2>1, <2>3 DEF FailAttempt, GoesOn, ActiveAttempt, TerminalAttempt, TypeOK, AssignmentsTyped, AttemptsTyped
  <2> QED BY <2>1, <2>2, <2>3
<1> QED BY <1>1, <1>2, <1>3, <1>4 DEF Recovery, DieGivingUp, Restart

-----------------------------------------------------------------------------
(* The row that will start it *)

(* StartIntentSurvives, of one Assignment *)
Filed(a) ==
  ActiveAttempt(a) \in {"PLANNED", "STARTING"} => startRow[a][active[a]].state \in {"PENDING", "PROCESSING"}

AllFiled == \A a \in Assignments : Filed(a)

LEMMA GoingStaysFiled ==
  ASSUME NEW a \in Assignments, Filed(a), GoesOn(a), startRow'[a] = startRow[a]
  PROVE  Filed(a)'
  BY DEF Filed, GoesOn, TerminalAttempt

LEMMA RunnerFiled ==
  ASSUME TypeOK, AllSound, AllBegun, AllFiled, NEW a \in Assignments, Runner(a) PROVE AllFiled'
<1>1. ASSUME NEW n \in Ordinals, BeginStart(a, n) PROVE AllFiled'
  BY <1>1 DEF BeginStart, Taken, AllFiled, Filed, ActiveAttempt, TypeOK, RowsTyped, AttemptsTyped, Row
<1>2. CASE ~(\E n \in Ordinals : BeginStart(a, n))
  <2>0. \A b \in Assignments : GoesOn(b)
    BY <1>2, RunnerGoesOn
  <2>1. ASSUME \A b \in Assignments \ {a} : startRow'[b] = startRow[b],
               \/ startRow'[a][active[a]] = startRow[a][active[a]]
               \/ ActiveAttempt(a)' \notin {"PLANNED", "STARTING"}
               \/ startRow'[a][active[a]].state = "PENDING"
        PROVE  AllFiled'
    <3>1. Filed(a)'
      BY <2>0, <2>1 DEF AllFiled, Filed, GoesOn, TerminalAttempt
    <3> QED BY <2>0, <2>1, <3>1, GoingStaysFiled DEF AllFiled
  <2>2. ASSUME NEW n \in Ordinals, SkipStart(a, n) PROVE AllFiled'
    <3>1. \A b \in Assignments \ {a} : startRow'[b] = startRow[b]
      BY <2>2 DEF SkipStart, TypeOK, RowsTyped
    <3>2. CASE active[a] # n
      BY <2>1, <2>2, <3>1, <3>2 DEF SkipStart, TypeOK, RowsTyped, AssignmentsTyped
    <3>3. CASE active[a] = n
      BY <2>1, <2>2, <3>1, <3>3 DEF SkipStart, ledger, ActiveAttempt
    <3> QED BY <3>2, <3>3
  <2>3. ASSUME EndStart(a) \/ (StartThrew(a) /\ handler[a].op \in {"start", "activate"}) PROVE AllFiled'
    <3> DEFINE n == handler[a].n
    <3>1. \A b \in Assignments \ {a} : startRow'[b] = startRow[b]
      BY <2>3 DEF EndStart, StartThrew, TypeOK, RowsTyped
    <3>2. active[a] # n => startRow'[a][active[a]] = startRow[a][active[a]]
      BY <2>3 DEF EndStart, StartThrew, TypeOK, RowsTyped, AssignmentsTyped
    <3>3. CASE EndStart(a) /\ active[a] = n
      <4>1. ActiveAttempt(a)' = ActiveAttempt(a)
        BY <3>3 DEF EndStart, ledger, ActiveAttempt
      <4>2. ActiveAttempt(a) \notin {"PLANNED", "STARTING"}
        BY <3>3 DEF EndStart, AllBegun, Begun
      <4> QED BY <2>1, <3>1, <4>1, <4>2
    <3>4. CASE StartThrew(a) /\ active[a] = n
      <4>1. CASE startRow[a][n].tries >= MaxTries
        <5>1. FailAttempt(a, n)
          BY <3>4, <4>1 DEF StartThrew
        <5>2. ActiveAttempt(a) # "PLANNED"
          BY <2>3, <3>4 DEF EndStart, AllBegun, Begun
        <5>3. ActiveAttempt(a)' \notin {"PLANNED", "STARTING"}
          BY <3>4, <5>1, <5>2 DEF StartThrew, FailAttempt, ActiveAttempt, WorkingAttempt, TypeOK, AssignmentsTyped, AttemptsTyped
        <5> QED BY <2>1, <3>1, <5>3
      <4>2. CASE ~(startRow[a][n].tries >= MaxTries)
        BY <2>1, <3>1, <3>4, <4>2 DEF StartThrew, TypeOK, RowsTyped, AssignmentsTyped, Row
      <4> QED BY <4>1, <4>2
    <3> QED BY <2>1, <2>3, <3>1, <3>2, <3>3, <3>4
  <2>5. CASE Spawn(a) \/ Bind(a) \/ (\E n \in Ordinals : BeginCancel(a, n)) \/ EndCancel(a) \/ CancelError(a)
    <3>1. UNCHANGED startRow
      BY <2>5 DEF Spawn, Bind, BeginCancel, EndCancel, CancelError, rows
    <3> QED BY <2>0, <3>1, GoingStaysFiled DEF AllFiled
  <2> QED BY <1>2, <2>2, <2>3, <2>5 DEF Runner, BindStale, StartError
<1> QED BY <1>1, <1>2

LEMMA PlanFiled ==
  ASSUME TypeOK, AllFiled, NEW a \in Assignments, PlanNextAttempt(a),
         \A b \in Assignments \ {a} : ActiveAttempt(b)' = ActiveAttempt(b)
  PROVE  AllFiled'
<1>1. active[a] + 1 \in Ordinals /\ active' = [active EXCEPT ![a] = @ + 1]
  BY LedgerAssumption DEF PlanNextAttempt, TypeOK, AssignmentsTyped, Ordinals
<1>2. startRow'[a][active'[a]] = NewRow
  BY <1>1 DEF PlanNextAttempt, TypeOK, AssignmentsTyped, RowsTyped
<1>3. \A b \in Assignments \ {a} : startRow'[b] = startRow[b] /\ active'[b] = active[b]
  BY <1>1 DEF PlanNextAttempt, TypeOK, RowsTyped, AssignmentsTyped
<1> QED BY <1>2, <1>3 DEF AllFiled, Filed, NewRow

LEMMA StepFiled ==
  ASSUME "giveUpCrash" \notin Events
  PROVE  TypeOK /\ AllSound /\ Pointers /\ AllBegun /\ AllFiled /\ [Next]_vars => AllFiled'
<1> SUFFICES ASSUME TypeOK, AllSound, Pointers, AllBegun, AllFiled, [Next]_vars PROVE AllFiled'
  OBVIOUS
<1>0. ASSUME \A b \in Assignments : GoesOn(b), UNCHANGED startRow PROVE AllFiled'
  BY <1>0, GoingStaysFiled DEF AllFiled
<1>1. CASE UNCHANGED vars
  BY <1>0, <1>1 DEF vars, ledger, rows, GoesOn, ActiveAttempt
<1>2. ASSUME NEW a \in Assignments, Caller(a) PROVE AllFiled'
  <2>1. ASSUME NEW batch \in SUBSET (Assignments \ Created),
               NEW needs \in [batch -> SUBSET (Created \cup batch)], Delegate(batch, a, needs),
               NEW b \in Assignments
        PROVE  Filed(b)'
    <3>1. CASE b \in batch
      <4>1. active'[b] = 1 /\ 1 \in Ordinals
        BY <2>1, <3>1, OneTyped DEF Delegate, AllSound, Founded
      <4>2. startRow'[b][1] = NewRow
        BY <2>1, <3>1, <4>1 DEF Delegate, TypeOK, RowsTyped
      <4> QED BY <4>1, <4>2 DEF Filed, NewRow
    <3>2. CASE b \notin batch
      BY <2>1, <3>2 DEF Delegate, AllFiled, Filed, ActiveAttempt
    <3> QED BY <3>1, <3>2
  <2>2. ASSUME NEW n \in Ordinals, NEW success \in BOOLEAN, Complete(a, n, success) PROVE AllFiled'
    BY <1>0, <2>2, CompleteGoesOn DEF Complete, rows
  <2>3. CASE PromoteLead(a)
    BY <1>0, <2>3 DEF PromoteLead, rows, GoesOn, ActiveAttempt
  <2> QED BY <1>2, <2>1, <2>2, <2>3 DEF Caller, AllFiled
<1>3. ASSUME NEW a \in Assignments, Control(a) PROVE AllFiled'
  <2>1. CASE Retry(a) \/ Reassign(a)
    <3>1. PlanNextAttempt(a)
      BY <2>1 DEF Retry, Reassign
    <3>2. \A b \in Assignments \ {a} : ActiveAttempt(b)' = ActiveAttempt(b)
      BY <2>1 DEF Retry, Reassign, PlanNextAttempt, Planned, ActiveAttempt, TypeOK, AssignmentsTyped, AttemptsTyped
    <3> QED BY <3>1, <3>2, PlanFiled
  <2>2. CASE ~(Retry(a) \/ Reassign(a))
    <3>1. UNCHANGED startRow
      BY <1>3, <2>2 DEF Control, Park, Consume, Cancel, Pause, rows
    <3> QED BY <1>0, <1>3, <2>2, <3>1, ControlGoesOn
  <2> QED BY <2>1, <2>2
<1>4. CASE Revise
  <2>1. lead \in Assignments /\ PlanNextAttempt(lead)
    BY <1>4 DEF Revise, TypeOK, MissionTyped
  <2>2. \A b \in Assignments \ {lead} : ActiveAttempt(b)' = ActiveAttempt(b)
    BY <1>4 DEF Revise, PlanNextAttempt, Planned, ActiveAttempt, TypeOK, AssignmentsTyped, AttemptsTyped
  <2> QED BY <2>1, <2>2, PlanFiled
<1>5. CASE (\E outcome \in TerminalMission : Finish(outcome)) \/ Reattach \/ BeginDelete \/ EndDelete
  <2>1. UNCHANGED startRow
    BY <1>5 DEF Finish, Reattach, BeginDelete, EndDelete, rows
  <2> QED BY <1>0, <1>5, <2>1, MissionStepGoesOn
<1>6. CASE Recovery
  <2>1. \A b \in Assignments : GoesOn(b)
    BY <1>6, RecoveryGoesOn
  <2>2. CASE Restart
    <3>1. \A b \in Assignments, n \in Ordinals : startRow'[b][n] = Requeued(startRow[b][n])
      BY <2>2 DEF Restart, RestartWith
    <3>2. \A b \in Assignments : startRow[b][active[b]].state \in {"PENDING", "PROCESSING"}
            => startRow'[b][active[b]].state \in {"PENDING", "PROCESSING"}
      <4>1. \A row \in Row : row.state \in {"PENDING", "PROCESSING"}
                              => Requeued(row).state \in {"PENDING", "PROCESSING"}
        BY DEF Requeued, Row
      <4> QED BY <3>1, <4>1 DEF TypeOK, AssignmentsTyped, RowsTyped
    <3> QED BY <2>1, <3>2 DEF AllFiled, Filed, GoesOn, TerminalAttempt
  <2>3. CASE ~Restart
    <3>1. UNCHANGED startRow
      BY <1>6, <2>3 DEF Recovery, DieGivingUp, BeginSweep, Ask, ProbeAlive, ProbeUnknown, ProbeMissing, rows
    <3> QED BY <1>0, <2>1, <3>1
  <2> QED BY <2>2, <2>3
<1> QED BY <1>1, <1>2, <1>3, <1>4, <1>5, <1>6, LedgerAssumption, RunnerFiled DEF Next

LEMMA InitBegun == Init => AllBegun /\ AllFiled
<1> SUFFICES ASSUME Init, NEW a \in Assignments PROVE Begun(a) /\ Filed(a)
  BY DEF AllBegun, AllFiled
<1>1. active[a] = 1 /\ 1 \in Ordinals /\ handler[a].op = "idle" /\ deps[a] = {}
  BY OneTyped DEF Init, Idle
<1>2. ActiveAttempt(a) \in {"RUNNING", Absent}
  BY <1>1 DEF Init, ActiveAttempt
<1>3. assignment[a] \in {"ACTIVE", Absent} /\ (task[a] = Absent <=> assignment[a] = Absent)
  BY DEF Init, Absent
<1> QED BY <1>1, <1>2, <1>3 DEF Begun, Filed, Absent

(* A start that was planned is never forgotten: through failed starts, late    *)
(* answers, replacements and restarts the Attempt keeps an outbox row that is  *)
(* PENDING or PROCESSING, unless the process dies between giving the row up    *)
(* and failing the Attempt.                                                   *)
THEOREM StartsAreFiled ==
  ASSUME "giveUpCrash" \notin Events
  PROVE  Spec => []StartIntentSurvives
<1> DEFINE I == IInv /\ AllBegun /\ AllFiled
<1>1. Init => I
  BY InitSafe, InitBegun
<1>2. I /\ [Next]_vars => I'
  BY StepSafe, StepBegun, StepFiled DEF IInv
<1>3. I => StartIntentSurvives
  BY DEF AllFiled, Filed, StartIntentSurvives
<1> QED BY <1>1, <1>2, <1>3, PTL DEF Spec

-----------------------------------------------------------------------------
(* What is cancelled stays quiet *)

(* A Mission becomes CANCELLED only when all its Assignments have ended. *)
QuietMission == CancelledMissionIsQuiet /\ deletion = NoDeletion

LEMMA GoingStaysQuiet ==
  ASSUME CancelledMissionIsQuiet, AllBegun', \A b \in Assignments : GoesOn(b), Created' = Created,
         mission' = "CANCELLED" =>
           \/ mission = "CANCELLED"
           \/ \A b \in Created' : assignment'[b] \in {"COMPLETED", "FAILED", "CANCELLED"}
  PROVE  CancelledMissionIsQuiet'
<1> SUFFICES ASSUME mission' = "CANCELLED", NEW a \in Created' PROVE ActiveAttempt(a)' \in TerminalAttempt
  BY DEF CancelledMissionIsQuiet
<1>1. CASE mission = "CANCELLED"
  <2>1. ActiveAttempt(a) \in TerminalAttempt
    BY <1>1 DEF CancelledMissionIsQuiet
  <2> QED BY <2>1 DEF GoesOn, Created
<1>2. CASE assignment'[a] \in {"COMPLETED", "FAILED", "CANCELLED"}
  BY <1>2 DEF AllBegun, Begun, Created
<1> QED BY <1>1, <1>2

LEMMA ExhaustedHasEnded ==
  ASSUME NEW states \in [Assignments -> AssignmentStates \cup {Absent}], Exhausted(states)
  PROVE  \A b \in Assignments : states[b] # Absent => states[b] \in {"COMPLETED", "FAILED", "CANCELLED"}
  BY DEF Exhausted, LiveAssignment, AssignmentStates

LEMMA FinishQuiet ==
  ASSUME TypeOK, TypeOK', AllBegun', CancelledMissionIsQuiet, Created' = Created,
         NEW outcome \in TerminalMission, Finish(outcome)
  PROVE  CancelledMissionIsQuiet'
<1> DEFINE S == IF outcome = "COMPLETED" THEN {}
                ELSE {a \in Created : assignment[a] \notin {"COMPLETED", "CANCELLED"}}
           reached == IF S # {} /\ Exhausted(assignment') THEN "CANCELLED" ELSE mission
<1>1. CancelEffect(S) /\ mission' = IF outcome \in MissionNext(reached) THEN outcome ELSE reached
  BY DEF Finish
<1>2. \A b \in Assignments : GoesOn(b)
  BY MissionStepGoesOn
<1>3. CASE Exhausted(assignment')
  BY <1>2, <1>3, ExhaustedHasEnded, GoingStaysQuiet DEF TypeOK, AssignmentsTyped, Created
<1>4. CASE ~Exhausted(assignment') /\ outcome = "CANCELLED"
  <2>1. \A b \in Created : assignment'[b] \in {"COMPLETED", "CANCELLED"}
    BY <1>1, <1>4 DEF CancelEffect, Created
  <2> QED BY <1>2, <2>1, GoingStaysQuiet
<1>5. CASE ~Exhausted(assignment') /\ outcome # "CANCELLED"
  BY <1>1, <1>2, <1>5, GoingStaysQuiet
<1> QED BY <1>3, <1>4, <1>5

LEMMA StepQuiet ==
  ASSUME {"retry", "reassign", "delete"} \cap Events = {}
  PROVE  IInv /\ AllBegun /\ QuietMission /\ [Next]_vars => QuietMission'
<1> SUFFICES ASSUME IInv, AllBegun, QuietMission, [Next]_vars PROVE QuietMission'
  OBVIOUS
<1>0. TypeOK /\ AllSound /\ Pointers /\ TypeOK' /\ AllBegun' /\ CancelledMissionIsQuiet /\ deletion = NoDeletion
  BY StepTyped, StepBegun DEF IInv, QuietMission
<1>1. CASE UNCHANGED vars
  BY <1>0, <1>1 DEF vars, ledger, QuietMission, CancelledMissionIsQuiet, Created, ActiveAttempt
<1>2. ASSUME NEW a \in Assignments, NEW batch \in SUBSET (Assignments \ Created),
             NEW needs \in [batch -> SUBSET (Created \cup batch)], Delegate(batch, a, needs)
      PROVE  QuietMission'
  BY <1>0, <1>2 DEF Delegate, QuietMission, CancelledMissionIsQuiet
<1>3. CASE Revise
  BY <1>0, <1>3 DEF Revise, QuietMission, CancelledMissionIsQuiet
<1>4. CASE Created' = Created /\ Next /\ ~Revise
  <2>1. ASSUME NEW a \in Assignments, Runner(a) PROVE QuietMission'
    <3>1. UNCHANGED <<mission, deletion>>
      BY <2>1 DEF Runner, BeginStart, SkipStart, Spawn, Bind, EndStart, BindStale, StartError, StartThrew, BeginCancel,
         EndCancel, CancelError, ledger
    <3>2. ASSUME NEW n \in Ordinals, BeginStart(a, n) PROVE mission # "CANCELLED"
      <4>1. ActiveAttempt(a) \in {"PLANNED", "STARTING"}
        BY <3>2 DEF BeginStart, ActiveAttempt
      <4>2. a \in Created /\ ActiveAttempt(a) \notin TerminalAttempt
        BY <1>0, <4>1 DEF AllSound, Founded, TypeOK, AssignmentsTyped, ActiveAttempt, TerminalAttempt, Absent
      <4> QED BY <1>0, <4>2 DEF CancelledMissionIsQuiet
    <3>3. CASE \E n \in Ordinals : BeginStart(a, n)
      BY <1>0, <3>1, <3>2, <3>3 DEF QuietMission, CancelledMissionIsQuiet
    <3>4. CASE ~\E n \in Ordinals : BeginStart(a, n)
      BY <1>0, <1>4, <2>1, <3>1, <3>4, RunnerGoesOn, GoingStaysQuiet DEF QuietMission
    <3> QED BY <3>3, <3>4
  <2>2. ASSUME NEW a \in Assignments, NEW n \in Ordinals, NEW success \in BOOLEAN, Complete(a, n, success)
        PROVE  QuietMission'
    <3>1. deletion' = deletion /\ mission' \in {mission, "VERIFYING"}
      BY <2>2 DEF Complete
    <3> QED BY <1>0, <1>4, <2>2, <3>1, CompleteGoesOn, GoingStaysQuiet DEF QuietMission
  <2>3. ASSUME NEW a \in Assignments, PromoteLead(a) PROVE QuietMission'
    BY <1>0, <2>3 DEF PromoteLead, QuietMission, CancelledMissionIsQuiet, Created, ActiveAttempt
  <2>4. ASSUME NEW a \in Assignments, Control(a) PROVE QuietMission'
    <3>1. ~Retry(a) /\ ~Reassign(a)
      BY DEF Retry, Reassign
    <3>2. \A b \in Assignments : GoesOn(b)
      BY <1>0, <2>4, <3>1, ControlGoesOn
    <3>3. CASE Cancel(a)
      BY <1>0, <1>4, <3>2, <3>3, ExhaustedHasEnded, GoingStaysQuiet
         DEF Cancel, QuietMission, Created, TypeOK, AssignmentsTyped
    <3>4. CASE ~Cancel(a)
      <4>1. UNCHANGED <<mission, deletion>>
        BY <2>4, <3>1, <3>4 DEF Control, Park, Consume, Pause
      <4> QED BY <1>0, <1>4, <3>2, <4>1, GoingStaysQuiet DEF QuietMission
    <3> QED BY <3>3, <3>4
  <2>5. ASSUME NEW outcome \in TerminalMission, Finish(outcome) PROVE QuietMission'
    BY <1>0, <1>4, <2>5, FinishQuiet DEF Finish, QuietMission
  <2>6. CASE Reattach
    <3>1. deletion' = deletion /\ mission' \in {mission, "RUNNING"}
      BY <2>6 DEF Reattach, Rebind
    <3> QED BY <1>0, <1>4, <2>6, <3>1, MissionStepGoesOn, GoingStaysQuiet DEF QuietMission
  <2>7. CASE BeginDelete \/ EndDelete
    BY <1>0, <2>7 DEF BeginDelete, EndDelete
  <2>8. CASE Recovery
    <3>1. \A b \in Assignments : GoesOn(b)
      BY <1>0, <2>8, RecoveryGoesOn
    <3>2. ASSUME NEW starts, RestartWith(starts) PROVE QuietMission'
      <4>1. deletion' = NoDeletion /\ assignment' = assignment
            /\ mission' \in {mission, IF Exhausted(assignment) THEN "CANCELLED" ELSE mission}
        BY <3>2 DEF RestartWith
      <4> QED BY <1>0, <1>4, <3>1, <4>1, ExhaustedHasEnded, GoingStaysQuiet
              DEF QuietMission, Created, TypeOK, AssignmentsTyped
    <3>3. CASE ProbeAlive \/ ProbeMissing
      <4>1. deletion' = deletion /\ mission' \in {mission, "RUNNING", "BLOCKED"}
        BY <3>3 DEF ProbeAlive, Rebind, ProbeMissing, Orphan
      <4> QED BY <1>0, <1>4, <3>1, <4>1, GoingStaysQuiet DEF QuietMission
    <3>4. CASE (\E T \in SUBSET Expirable : BeginSweep(T)) \/ (\E p \in sweep : Ask(p)) \/ ProbeUnknown
      <4>1. UNCHANGED <<mission, deletion>>
        BY <3>4 DEF BeginSweep, Ask, ProbeUnknown, ledger
      <4> QED BY <1>0, <1>4, <3>1, <4>1, GoingStaysQuiet DEF QuietMission
    <3> QED BY <2>8, <3>2, <3>3, <3>4 DEF Recovery, DieGivingUp, Restart
  <2>9. ASSUME NEW a \in Assignments, Caller(a) PROVE QuietMission'
    BY <1>2, <2>2, <2>3, <2>9 DEF Caller
  <2> QED BY <1>4, <2>1, <2>4, <2>5, <2>6, <2>7, <2>8, <2>9, LedgerAssumption DEF Next
<1> QED BY <1>0, <1>1, <1>2, <1>3, <1>4, CreatedStep

(* Whatever starts, reports and promotions were in flight when the last        *)
(* Assignment was cancelled, nothing works for a Mission that is CANCELLED,    *)
(* as long as nothing plans an Attempt in it and no Session tree is deleted.   *)
THEOREM CancelledStaysQuiet ==
  ASSUME {"retry", "reassign", "delete"} \cap Events = {}
  PROVE  Spec => []CancelledMissionIsQuiet
<1> DEFINE I == IInv /\ AllBegun /\ QuietMission
<1>1. Init => I
  <2>1. Init => QuietMission
    BY DEF Init, QuietMission, CancelledMissionIsQuiet
  <2> QED BY <2>1, InitSafe, InitBegun
<1>2. I /\ [Next]_vars => I'
  BY StepSafe, StepBegun, StepQuiet DEF IInv
<1>3. I => CancelledMissionIsQuiet
  BY DEF QuietMission
<1> QED BY <1>1, <1>2, <1>3, PTL DEF Spec

-----------------------------------------------------------------------------
(* An undisturbed Mission: nobody reports before his start is confirmed, and   *)
(* no runtime is asked about or attached again.                               *)

(* Whose word is final: a completed task is one whose Assignment is, because  *)
(* nothing reports while a start is awaited and nothing is rebound.           *)
Worded(a) ==
  /\ task[a] = "COMPLETED" => assignment[a] = "COMPLETED"
  /\ handler[a].op = "start" /\ handler[a].n = active[a] => ActiveAttempt(a) \in {"STARTING", "CANCELLED"}

AllWorded == \A a \in Assignments : Worded(a)

Unprobed == sweep = {} /\ probe = NoProbe /\ mission # "BLOCKED"

Undisturbed == Events \cap {"early", "reattach", "recovery"} = {}

(* A step leaves an Assignment alone, or opens its task, or its handler has gone. *)
LEMMA RestingStaysWorded ==
  ASSUME NEW a \in Assignments, Worded(a), Rests(a) PROVE Worded(a)'
  BY DEF Rests, Worded, ActiveAttempt

LEMMA OneStepWorded ==
  ASSUME AllWorded, NEW a \in Assignments, Worded(a)', \A b \in Assignments \ {a} : Rests(b)
  PROVE  AllWorded'
  BY RestingStaysWorded DEF AllWorded

LEMMA RunnerWorded ==
  ASSUME TypeOK, AllSound, AllBegun, AllWorded, NEW a \in Assignments, Runner(a) PROVE AllWorded'
<1>1. Worded(a) /\ Sound(a) /\ Founded(a)
  BY DEF AllWorded, AllSound
<1>2. ASSUME NEW n \in Ordinals, BeginStart(a, n) PROVE AllWorded'
  <2>1. \A b \in Assignments \ {a} : Rests(b)
    BY <1>2 DEF BeginStart, Rests, TypeOK, AssignmentsTyped, AttemptsTyped, ActorsTyped
  <2>2. Worded(a)'
    BY <1>1, <1>2 DEF BeginStart, Worded, ActiveAttempt, TypeOK, AttemptsTyped
  <2> QED BY <2>1, <2>2, OneStepWorded
<1>3. CASE Bind(a)
  <2>1. \A b \in Assignments \ {a} : Rests(b)
    BY <1>3 DEF Bind, Rests, TypeOK, AssignmentsTyped, AttemptsTyped, ActorsTyped
  <2>2. task[a] # "COMPLETED"
    <3>1. ActiveAttempt(a) # "SUCCEEDED"
      BY <1>1, <1>3 DEF Bind, Worded
    <3>2. task[a] = "COMPLETED" => a \in Created
      BY DEF AllBegun, Begun, Created, Absent
    <3> QED BY <1>1, <3>1, <3>2 DEF Sound
  <2>3. handler'[a].op = "activate" /\ task'[a] # "COMPLETED"
    BY <1>3, <2>2 DEF Bind, TypeOK, ActorsTyped, AssignmentsTyped, Handlers
  <2> QED BY <2>1, <2>3, OneStepWorded DEF Worded
<1>4. CASE StartThrew(a)
  <2>1. \A b \in Assignments \ {a} : Rests(b)
    BY <1>4 DEF StartThrew, FailAttempt, Rests, TypeOK, AssignmentsTyped, AttemptsTyped, ActorsTyped
  <2>2. handler'[a].op # "start"
    BY <1>4 DEF StartThrew, Idle, TypeOK, ActorsTyped
  <2>3. task'[a] = "COMPLETED" => task[a] = "COMPLETED" /\ assignment'[a] = assignment[a]
    BY <1>4 DEF StartThrew, FailAttempt, TypeOK, AssignmentsTyped
  <2>4. Worded(a)'
    BY <1>1, <2>2, <2>3 DEF Worded
  <2> QED BY <2>1, <2>4, OneStepWorded
<1>5. CASE (\E n \in Ordinals : SkipStart(a, n) \/ BeginCancel(a, n)) \/ Spawn(a) \/ EndStart(a) \/ EndCancel(a) \/ CancelError(a)
  <2>1. \A b \in Assignments : Rests(b)
    BY <1>5, HandlersRest
  <2> QED BY <2>1, RestingStaysWorded DEF AllWorded
<1> QED BY <1>2, <1>3, <1>4, <1>5 DEF Runner, BindStale, StartError

LEMMA CallerWorded ==
  ASSUME Undisturbed, TypeOK, AllSound, AllBegun, AllWorded, NEW a \in Assignments, Caller(a) PROVE AllWorded'
<1>1. ASSUME NEW batch \in SUBSET (Assignments \ Created),
             NEW needs \in [batch -> SUBSET (Created \cup batch)], Delegate(batch, a, needs),
             NEW b \in Assignments
      PROVE  Worded(b)'
  <2>1. CASE b \in batch
    <3>1. handler'[b].op # "start" /\ task'[b] # "COMPLETED"
      BY <1>1, <2>1 DEF AllSound, Founded, Delegate
    <3> QED BY <3>1 DEF Worded
  <2>2. CASE b \notin batch
    <3>1. Rests(b)
      BY <1>1, <2>2 DEF Delegate, Rests, TypeOK, AssignmentsTyped, AttemptsTyped
    <3> QED BY <3>1, RestingStaysWorded DEF AllWorded
  <2> QED BY <2>1, <2>2
<1>2. ASSUME NEW n \in Ordinals, NEW success \in BOOLEAN, Complete(a, n, success) PROVE AllWorded'
  <2>1. \A b \in Assignments \ {a} : Rests(b)
    BY <1>2 DEF Complete, Unblocked, Rests, TypeOK, AssignmentsTyped, AttemptsTyped
  <2>2. ActiveAttempt(a) \in {"RUNNING", "WAITING"}
    BY <1>2 DEF Undisturbed, Complete, ActiveAttempt, WorkingAttempt
  <2>3. ~(handler'[a].op = "start" /\ handler'[a].n = active'[a])
    BY <1>2, <2>2 DEF Complete, AllWorded, Worded
  <2>4. task'[a] = "COMPLETED" => assignment'[a] = "COMPLETED"
    BY <1>2 DEF Complete, Unblocked, TypeOK, AssignmentsTyped
  <2> QED BY <2>1, <2>3, <2>4, OneStepWorded DEF Worded
<1>3. CASE PromoteLead(a)
  <2>1. \A b \in Assignments : Rests(b)
    BY <1>3 DEF PromoteLead, Rests
  <2> QED BY <2>1, RestingStaysWorded DEF AllWorded
<1> QED BY <1>1, <1>2, <1>3 DEF Caller, AllWorded

LEMMA CancelEffectWorded ==
  ASSUME TypeOK, AllWorded, NEW S \in SUBSET Created, CancelEffect(S), UNCHANGED <<active, deps, handler>>
  PROVE  AllWorded'
<1> SUFFICES ASSUME NEW a \in Assignments PROVE Worded(a)'
  BY DEF AllWorded
<1>1. CASE a \in S
  <2>1. task'[a] = "CANCELLED" /\ ActiveAttempt(a)' \in {ActiveAttempt(a), "CANCELLED"}
    BY <1>1 DEF CancelEffect, ActiveAttempt, TypeOK, AttemptsTyped, AssignmentsTyped
  <2> QED BY <2>1 DEF AllWorded, Worded
<1>2. CASE a \notin S
  BY <1>2, RestingStaysWorded DEF Rests, AllWorded, CancelEffect, TypeOK, AssignmentsTyped, AttemptsTyped
<1> QED BY <1>1, <1>2

LEMMA PlanWorded ==
  ASSUME TypeOK, AllBegun, AllWorded, NEW a \in Created, PlanNextAttempt(a),
         task'[a] # "COMPLETED", UNCHANGED handler, \A b \in Assignments \ {a} : Rests(b)
  PROVE  AllWorded'
<1>1. /\ active[a] \in Ordinals /\ active'[a] = active[a] + 1
      /\ handler[a].op \in {"start", "activate"} => handler[a].n \in 0 .. MaxAttempts
  BY DEF PlanNextAttempt, TypeOK, AssignmentsTyped, ActorsTyped, Handlers, Created
<1>2. Worded(a)'
  BY <1>1, LedgerAssumption DEF AllBegun, Begun, Worded, Created, Ordinals
<1> QED BY <1>2, OneStepWorded DEF Created

LEMMA ControlWorded ==
  ASSUME TypeOK, AllSound, AllBegun, AllWorded, NEW a \in Assignments, Control(a) PROVE AllWorded'
<1>1. CASE Park(a) \/ Consume(a) \/ \E paused \in BOOLEAN : Pause(a, paused)
  <2>1. \A b \in Assignments \ {a} : Rests(b)
    BY <1>1 DEF Park, Consume, Pause, Rests, TypeOK, AssignmentsTyped, AttemptsTyped
  <2>2. CASE Park(a)
    BY <2>1, <2>2, OneStepWorded DEF Park, AllWorded, Worded, ActiveAttempt
  <2>3. CASE Consume(a)
    <3>1. ActiveAttempt(a) \in {"RUNNING", "WAITING"} /\ assignment[a] # "COMPLETED"
      BY <2>3 DEF Consume, AllSound, Sound
    <3> QED BY <2>1, <2>3, <3>1, OneStepWorded DEF Consume, AllWorded, Worded
  <2>4. CASE \E paused \in BOOLEAN : Pause(a, paused)
    <3>1. assignment[a] # "COMPLETED"
      BY <2>4 DEF Pause, AssignmentNext
    <3> QED BY <2>1, <2>4, <3>1, OneStepWorded DEF Pause, AllWorded, Worded, ActiveAttempt
  <2> QED BY <1>1, <2>2, <2>3, <2>4
<1>2. CASE Cancel(a)
  <2>1. {a} \in SUBSET Created
    BY <1>2 DEF Cancel, AssignmentNext, Created, Absent
  <2> QED BY <1>2, <2>1, CancelEffectWorded DEF Cancel
<1>3. CASE Retry(a) \/ Reassign(a)
  <2>1. a \in Created /\ task'[a] # "COMPLETED" /\ PlanNextAttempt(a) /\ UNCHANGED handler
    BY <1>3 DEF Retry, Reassign, Created, TypeOK, AssignmentsTyped
  <2>2. \A b \in Assignments \ {a} : Rests(b)
    BY <1>3 DEF Retry, Reassign, PlanNextAttempt, Planned, Rests, TypeOK, AssignmentsTyped, AttemptsTyped
  <2> QED BY <2>1, <2>2, PlanWorded
<1> QED BY <1>1, <1>2, <1>3 DEF Control

LEMMA MissionStepWorded ==
  ASSUME Undisturbed, TypeOK, AllSound, AllBegun, AllWorded, Pointers,
         \/ \E outcome \in TerminalMission : Finish(outcome)
         \/ Revise \/ Reattach \/ BeginDelete \/ EndDelete
  PROVE  AllWorded'
<1>0. lead \in Created /\ ~Reattach
  BY DEF Pointers, Undisturbed, Reattach
<1>1. ASSUME NEW outcome \in TerminalMission, Finish(outcome) PROVE AllWorded'
  <2> DEFINE S == IF outcome = "COMPLETED" THEN {}
                  ELSE {a \in Created : assignment[a] \notin {"COMPLETED", "CANCELLED"}}
  <2>1. S \in SUBSET Created /\ CancelEffect(S) /\ UNCHANGED <<active, deps, handler>>
    BY <1>1 DEF Finish
  <2> QED BY <2>1, CancelEffectWorded
<1>2. CASE Revise
  <2>1. task'[lead] # "COMPLETED" /\ PlanNextAttempt(lead) /\ UNCHANGED handler
    BY <1>0, <1>2 DEF Revise, TypeOK, AssignmentsTyped, Created
  <2>2. \A b \in Assignments \ {lead} : Rests(b)
    BY <1>2 DEF Revise, PlanNextAttempt, Planned, Rests, TypeOK, AssignmentsTyped, AttemptsTyped
  <2> QED BY <1>0, <2>1, <2>2, PlanWorded
<1>3. CASE BeginDelete \/ EndDelete
  <2>1. \A b \in Assignments : Rests(b)
    BY <1>3 DEF BeginDelete, EndDelete, ledger, Rests
  <2> QED BY <2>1, RestingStaysWorded DEF AllWorded
<1> QED BY <1>0, <1>1, <1>2, <1>3

LEMMA StepWorded ==
  ASSUME Undisturbed, TypeOK, AllSound, AllBegun, AllWorded, Pointers, Unprobed, [Next]_vars PROVE AllWorded'
<1>1. CASE UNCHANGED vars
  BY <1>1, RestingStaysWorded DEF vars, ledger, Rests, AllWorded
<1>2. CASE Recovery
  <2>1. ASSUME NEW starts, RestartWith(starts) PROVE \A b \in Assignments : Rests(b)
    BY <2>1 DEF RestartWith, Idle, Rests
  <2>2. \E starts : RestartWith(starts)
    BY <1>2 DEF Undisturbed, Unprobed, Recovery, BeginSweep, Ask, ProbeAlive, ProbeUnknown, ProbeMissing, DieGivingUp, Restart
  <2> QED BY <2>1, <2>2, RestingStaysWorded DEF AllWorded
<1>3. CASE Next /\ ~Recovery
  BY <1>3, LedgerAssumption, RunnerWorded, CallerWorded, ControlWorded, MissionStepWorded DEF Next
<1> QED BY <1>1, <1>2, <1>3

LEMMA StepUnprobed ==
  ASSUME Undisturbed, TypeOK, Unprobed, [Next]_vars PROVE Unprobed'
<1> USE DEF Unprobed
<1>1. ASSUME NEW a \in Assignments, Runner(a) PROVE Unprobed'
  BY <1>1 DEF Runner, BeginStart, SkipStart, Spawn, Bind, EndStart, BindStale, StartError, StartThrew, BeginCancel,
     EndCancel, CancelError, ledger, reconciling
<1>2. ASSUME NEW a \in Assignments, Caller(a) PROVE Unprobed'
  <2>1. ASSUME NEW batch, NEW needs, Delegate(batch, a, needs) PROVE Unprobed'
    BY <2>1 DEF Delegate, reconciling
  <2>2. ASSUME NEW n, NEW success, Complete(a, n, success) PROVE Unprobed'
    BY <2>2 DEF Complete, reconciling
  <2>3. CASE PromoteLead(a)
    BY <2>3 DEF PromoteLead, reconciling
  <2> QED BY <1>2, <2>1, <2>2, <2>3 DEF Caller
<1>3. ASSUME NEW a \in Assignments, Control(a) PROVE Unprobed'
  BY <1>3 DEF Control, Park, Consume, Cancel, Retry, Reassign, Pause, reconciling
<1>4. CASE (\E outcome \in TerminalMission : Finish(outcome)) \/ Revise \/ Reattach \/ BeginDelete \/ EndDelete
  BY <1>4 DEF Finish, Revise, Reattach, Undisturbed, BeginDelete, EndDelete, ledger, reconciling, TerminalMission, MissionNext
<1>5. CASE Recovery
  BY <1>5 DEF Undisturbed, Recovery, DieGivingUp, Restart, RestartWith, BeginSweep, Ask, ProbeAlive, ProbeUnknown, ProbeMissing
<1>6. CASE UNCHANGED vars
  BY <1>6 DEF vars, ledger, reconciling
<1> QED BY <1>1, <1>2, <1>3, <1>4, <1>5, <1>6, LedgerAssumption DEF Next

(* What every state of an undisturbed Mission has. *)
Calm == IInv /\ AllBegun /\ AllWorded /\ Unprobed

(* Which tasks are completed, and on what they wait, is as it was. *)
TasksRest ==
  \A b \in Assignments : task'[b] = "COMPLETED" <=> task[b] = "COMPLETED"

(* Who works has not completed its task. *)
LEMMA WorkIsUnfinished ==
  ASSUME Calm, NEW a \in Assignments, ActiveAttempt(a) # "SUCCEEDED" PROVE task[a] # "COMPLETED"
<1>1. task[a] = "COMPLETED" => a \in Created
  BY DEF Calm, AllBegun, Begun, Created, Absent
<1> QED BY <1>1 DEF Calm, IInv, AllSound, Sound

(* Only a report completes a task, and only a revision opens one again. *)
LEMMA TasksStep ==
  ASSUME Undisturbed, Calm, [Next]_vars
  PROVE  \/ \E a \in Assignments, n \in Ordinals, success \in BOOLEAN : Complete(a, n, success)
         \/ Revise
         \/ TasksRest
<1>0. TypeOK /\ AllSound /\ AllBegun /\ AllWorded /\ Unprobed
  BY DEF Calm, IInv
<1>1. ASSUME UNCHANGED task PROVE TasksRest
  BY <1>1 DEF TasksRest
<1>2. ASSUME NEW a \in Assignments, Runner(a) PROVE TasksRest
  <2>1. CASE Bind(a)
    BY <1>0, <2>1 DEF Bind, TasksRest, TypeOK, AssignmentsTyped
  <2>2. CASE StartThrew(a)
    <3>1. CASE UNCHANGED task
      BY <1>1, <3>1
    <3>2. CASE ~UNCHANGED task
      <4>1. task' = [task EXCEPT ![a] = "FAILED"] /\ ActiveAttempt(a) \in WorkingAttempt
        BY <2>2, <3>2 DEF StartThrew, FailAttempt, ActiveAttempt
      <4> QED BY <1>0, <4>1, WorkIsUnfinished DEF TasksRest, WorkingAttempt, TypeOK, AssignmentsTyped
    <3> QED BY <3>1, <3>2
  <2>3. CASE ~(Bind(a) \/ StartThrew(a))
    BY <1>1, <1>2, <2>3 DEF Runner, BeginStart, SkipStart, BeginCancel, Spawn, EndStart, EndCancel, CancelError, BindStale,
       StartError, ledger
  <2> QED BY <2>1, <2>2, <2>3
<1>3. ASSUME NEW a \in Assignments, NEW batch \in SUBSET (Assignments \ Created),
             NEW needs \in [batch -> SUBSET (Created \cup batch)], Delegate(batch, a, needs)
      PROVE  TasksRest
  BY <1>0, <1>3 DEF Delegate, AllBegun, Begun, Created, Absent, TasksRest
<1>4. ASSUME NEW S \in SUBSET Created, CancelEffect(S), \A a \in S : assignment[a] # "COMPLETED" PROVE TasksRest
  BY <1>0, <1>4 DEF CancelEffect, AllWorded, Worded, TasksRest, Created
<1>5. ASSUME NEW a \in Assignments, Control(a) PROVE TasksRest
  <2>1. CASE Cancel(a)
    <3>1. {a} \in SUBSET Created /\ assignment[a] # "COMPLETED"
      BY <2>1 DEF Cancel, AssignmentNext, Created, Absent
    <3> QED BY <1>4, <2>1, <3>1 DEF Cancel
  <2>2. CASE Retry(a)
    <3>1. task[a] # "COMPLETED"
      BY <2>2, WorkIsUnfinished DEF Retry
    <3> QED BY <1>0, <2>2, <3>1 DEF Retry, TasksRest, TypeOK, AssignmentsTyped
  <2>3. CASE Reassign(a)
    BY <1>0, <2>3 DEF Reassign, AllWorded, Worded, TasksRest, TypeOK, AssignmentsTyped
  <2>4. CASE Park(a) \/ Consume(a) \/ \E paused \in BOOLEAN : Pause(a, paused)
    BY <1>1, <2>4 DEF Park, Consume, Pause
  <2> QED BY <1>5, <2>1, <2>2, <2>3, <2>4 DEF Control
<1>6. ASSUME NEW outcome \in TerminalMission, Finish(outcome) PROVE TasksRest
  <2> DEFINE S == IF outcome = "COMPLETED" THEN {}
                  ELSE {a \in Created : assignment[a] \notin {"COMPLETED", "CANCELLED"}}
  <2>1. S \in SUBSET Created /\ CancelEffect(S) /\ \A a \in S : assignment[a] # "COMPLETED"
    BY <1>6 DEF Finish
  <2> QED BY <1>4, <2>1
<1>7. CASE BeginDelete \/ EndDelete \/ UNCHANGED vars \/ \E a \in Assignments : PromoteLead(a)
  BY <1>1, <1>7 DEF BeginDelete, EndDelete, PromoteLead, vars, ledger
<1>8. CASE Recovery
  <2>1. \E starts : RestartWith(starts)
    BY <1>0, <1>8 DEF Undisturbed, Unprobed, Recovery, BeginSweep, Ask, ProbeAlive, ProbeUnknown, ProbeMissing, DieGivingUp,
       Restart
  <2> QED BY <1>1, <2>1 DEF RestartWith
<1>9. ~Reattach
  BY DEF Undisturbed, Reattach
<1> QED BY <1>2, <1>3, <1>5, <1>6, <1>7, <1>8, <1>9, LedgerAssumption DEF Next, Caller

-----------------------------------------------------------------------------
(* Review *)

(* A report, seen from the tasks *)
LEMMA CompleteTasks ==
  ASSUME Calm, NEW a \in Assignments, NEW n \in Ordinals, NEW success \in BOOLEAN, Complete(a, n, success)
  PROVE  /\ a \in Created /\ task[a] # "COMPLETED"
         /\ task'[a] = IF success THEN "COMPLETED" ELSE "FAILED"
         /\ \A b \in Assignments \ {a} :
              \/ task'[b] = task[b]
              \/ /\ task[b] = "BLOCKED" /\ task'[b] = "READY"
                 /\ \A d \in deps[b] : d = a \/ task[d] = "COMPLETED"
<1>1. ActiveAttempt(a) \in WorkingAttempt
  BY DEF Complete, ActiveAttempt
<1>2. a \in Created
  BY <1>1 DEF Calm, IInv, AllSound, Founded, TypeOK, AssignmentsTyped, ActiveAttempt, WorkingAttempt, Absent
<1>3. task[a] # "COMPLETED"
  BY <1>1, WorkIsUnfinished DEF WorkingAttempt
<1>4. task'[a] = IF success THEN "COMPLETED" ELSE "FAILED"
  BY DEF Complete, Unblocked, Calm, IInv, TypeOK, AssignmentsTyped
<1>5. \A b \in Assignments \ {a} :
        \/ task'[b] = task[b]
        \/ /\ task[b] = "BLOCKED" /\ task'[b] = "READY"
           /\ \A d \in deps[b] : d = a \/ task[d] = "COMPLETED"
  BY DEF Complete, Unblocked, Calm, IInv, TypeOK, AssignmentsTyped
<1> QED BY <1>2, <1>3, <1>4, <1>5

(* Only the last report opens a review, and only a revision ends one without  *)
(* ending the Mission.                                                        *)
LEMMA MissionMoves ==
  ASSUME Undisturbed, Calm, [Next]_vars, ~Revise,
         ~\E a \in Assignments, n \in Ordinals, success \in BOOLEAN : Complete(a, n, success)
  PROVE  /\ mission' \in {"VERIFYING", "COMPLETED"} => mission \in {"VERIFYING", "COMPLETED"}
         /\ mission' = "RUNNING" => mission = "RUNNING"
<1> DEFINE Moves == mission' \in {mission, "CANCELLED", "FAILED"} \/ (mission = "VERIFYING" /\ mission' = "COMPLETED")
<1>0. Unprobed /\ TypeOK
  BY DEF Calm, IInv
<1>1. ASSUME NEW a \in Assignments, Runner(a) PROVE Moves
  BY <1>1 DEF Runner, BeginStart, SkipStart, Spawn, Bind, EndStart, BindStale, StartError, StartThrew, BeginCancel,
     EndCancel, CancelError, ledger
<1>2. ASSUME NEW a \in Assignments, Caller(a) PROVE Moves
  BY <1>0, <1>2 DEF Caller, Delegate, PromoteLead, Unprobed
<1>3. ASSUME NEW a \in Assignments, Control(a) PROVE Moves
  BY <1>3 DEF Control, Park, Consume, Cancel, Retry, Reassign, Pause
<1>4. ASSUME NEW outcome \in TerminalMission, Finish(outcome) PROVE Moves
  BY <1>4 DEF Finish, TerminalMission, MissionNext
<1>5. ASSUME BeginDelete \/ UNCHANGED vars PROVE Moves
  BY <1>5 DEF BeginDelete, ledger, vars
<1>6. ASSUME EndDelete PROVE Moves
  BY <1>6 DEF EndDelete, TerminalMission, MissionNext
<1>7. ASSUME Recovery PROVE Moves
  <2>1. \E starts : RestartWith(starts)
    BY <1>0, <1>7 DEF Undisturbed, Unprobed, Recovery, BeginSweep, Ask, ProbeAlive, ProbeUnknown, ProbeMissing, DieGivingUp,
       Restart
  <2> QED BY <2>1 DEF RestartWith
<1>8. ~Reattach
  BY DEF Undisturbed, Reattach
<1>9. Moves
  BY <1>1, <1>2, <1>3, <1>4, <1>5, <1>6, <1>7, <1>8, LedgerAssumption DEF Next
<1> QED BY <1>9

(* The report that completes the last task is the one that opens the review.   *)
LEMMA StepReview ==
  ASSUME Undisturbed
  PROVE  Calm /\ ReviewIsDue /\ [Next]_vars => ReviewIsDue'
<1> SUFFICES ASSUME Calm, ReviewIsDue, [Next]_vars PROVE ReviewIsDue'
  OBVIOUS
<1>0. /\ TypeOK /\ AllSound /\ Pointers /\ lead \in Created /\ DoneMissionIsReviewable /\ ReviewedMissionIsDone
      /\ mission # "BLOCKED" /\ mission' # "BLOCKED"
  BY StepUnprobed DEF Calm, IInv, Unprobed, Pointers, ReviewIsDue
<1>1. ASSUME NEW a \in Assignments, NEW n \in Ordinals, NEW success \in BOOLEAN, Complete(a, n, success)
      PROVE  ReviewIsDue'
  <2> DEFINE done == [task EXCEPT ![a] = IF success THEN "COMPLETED" ELSE "FAILED"]
  <2>1. /\ a \in Created /\ task[a] # "COMPLETED" /\ task'[a] = IF success THEN "COMPLETED" ELSE "FAILED"
        /\ \A b \in Assignments \ {a} : task'[b] = "COMPLETED" <=> task[b] = "COMPLETED"
    BY <1>1, CompleteTasks
  <2>2. Created' = Created
    BY <1>1, <2>1 DEF Complete, Created, Absent, TypeOK, AssignmentsTyped
  <2>3. mission \notin {"VERIFYING", "COMPLETED"}
    BY <1>0, <2>1 DEF ReviewedMissionIsDone
  <2>4. \A b \in Assignments : done[b] = "COMPLETED" <=> task'[b] = "COMPLETED"
    BY <1>0, <2>1 DEF TypeOK, AssignmentsTyped
  <2>5. ReviewReady(done) <=> \A b \in Created' : task'[b] = "COMPLETED"
    BY <2>2, <2>4 DEF ReviewReady, Created
  <2>6. (\A b \in Created' : task'[b] = "COMPLETED") => success
    BY <2>1, <2>2
  <2>7. mission' = IF success /\ mission = "RUNNING" /\ ReviewReady(done) THEN "VERIFYING" ELSE mission
    BY <1>1 DEF Complete
  <2> QED BY <1>0, <2>3, <2>5, <2>6, <2>7 DEF ReviewIsDue, DoneMissionIsReviewable, ReviewedMissionIsDone
<1>2. CASE Revise
  <2>1. mission' = "RUNNING" /\ task'[lead] = "READY" /\ lead \in Created'
    BY <1>0, <1>2, PointersStep DEF Revise, PlanNextAttempt, TypeOK, AssignmentsTyped, Created, Absent
  <2> QED BY <2>1 DEF ReviewIsDue, DoneMissionIsReviewable, ReviewedMissionIsDone
<1>3. CASE TasksRest /\ ~Revise /\ ~\E a \in Assignments, n \in Ordinals, success \in BOOLEAN : Complete(a, n, success)
  <2>1. /\ mission' \in {"VERIFYING", "COMPLETED"} => mission \in {"VERIFYING", "COMPLETED"}
        /\ mission' = "RUNNING" => mission = "RUNNING"
    BY <1>3, MissionMoves
  <2>2. CASE Created' = Created
    BY <1>0, <1>3, <2>1, <2>2 DEF TasksRest, Created, ReviewIsDue, DoneMissionIsReviewable, ReviewedMissionIsDone
  <2>3. ASSUME NEW by \in Assignments, NEW batch \in SUBSET (Assignments \ Created),
               NEW needs \in [batch -> SUBSET (Created \cup batch)], Delegate(batch, by, needs)
        PROVE  ReviewIsDue'
    <3>1. PICK b \in batch : b \in Created'
      BY <2>3 DEF Delegate, Created, Absent
    <3>2. task'[b] # "COMPLETED" /\ mission' \in {"RUNNING", "BLOCKED"}
      BY <2>3, <3>1 DEF Delegate
    <3> QED BY <3>1, <3>2 DEF ReviewIsDue, DoneMissionIsReviewable, ReviewedMissionIsDone
  <2> QED BY <1>0, <2>2, <2>3, CreatedStep
<1> QED BY <1>1, <1>2, <1>3, TasksStep

LEMMA InitCalm == Init => Calm
<1> SUFFICES ASSUME Init PROVE Calm
  OBVIOUS
<1>1. AllWorded /\ Unprobed
  BY DEF Init, AllWorded, Worded, Unprobed, Idle, Absent
<1> QED BY <1>1, InitSafe, InitBegun DEF Calm

LEMMA StepCalm == ASSUME Undisturbed PROVE Calm /\ [Next]_vars => Calm'
  BY StepSafe, StepBegun, StepWorded, StepUnprobed DEF Calm, IInv

(* Review is offered when all tasks are completed and at no other time,        *)
(* whatever the order of reports, cancellations, replacements and revisions,   *)
(* unless a runtime is bound after its Attempt has reported.                   *)
THEOREM ReviewsAreDue ==
  ASSUME {"early", "reattach", "recovery"} \cap Events = {}
  PROVE  Spec => []ReviewIsDue
<1>0. Undisturbed
  BY DEF Undisturbed
<1>1. Init => Calm /\ ReviewIsDue
  <2>1. Init => ReviewIsDue
    BY LedgerAssumption DEF Init, ReviewIsDue, DoneMissionIsReviewable, ReviewedMissionIsDone, Created, Absent
  <2> QED BY <2>1, InitCalm
<1>2. Calm /\ ReviewIsDue /\ [Next]_vars => Calm' /\ ReviewIsDue'
  BY <1>0, StepCalm, StepReview
<1> QED BY <1>1, <1>2, PTL DEF Spec

-----------------------------------------------------------------------------
(* Dependencies *)

(* Only delegation says what a task depends on. *)
LEMMA DepsStep ==
  ASSUME [Next]_vars
  PROVE  \/ \E by \in Assignments : \E batch \in SUBSET (Assignments \ Created) :
              \E needs \in [batch -> SUBSET (Created \cup batch)] : Delegate(batch, by, needs)
         \/ UNCHANGED deps
<1>1. ASSUME NEW a \in Assignments, Runner(a) PROVE UNCHANGED deps
  BY <1>1 DEF Runner, BeginStart, SkipStart, Spawn, Bind, EndStart, BindStale, StartError, StartThrew, BeginCancel,
     EndCancel, CancelError, ledger
<1>2. ASSUME NEW a \in Assignments,
             PromoteLead(a) \/ Control(a) \/ \E n \in Ordinals, success \in BOOLEAN : Complete(a, n, success)
      PROVE  UNCHANGED deps
  BY <1>2 DEF PromoteLead, Complete, Control, Park, Consume, Cancel, Retry, Reassign, Pause
<1>3. ASSUME (\E outcome \in TerminalMission : Finish(outcome)) \/ Revise \/ Reattach \/ BeginDelete \/ EndDelete
      PROVE  UNCHANGED deps
  BY <1>3 DEF Finish, Revise, Reattach, BeginDelete, EndDelete, ledger
<1>4. ASSUME Recovery PROVE UNCHANGED deps
  BY <1>4 DEF Recovery, DieGivingUp, Restart, RestartWith, BeginSweep, Ask, ProbeAlive, ProbeUnknown, ProbeMissing, ledger
<1>5. ASSUME UNCHANGED vars PROVE UNCHANGED deps
  BY <1>5 DEF vars, ledger
<1> QED BY <1>1, <1>2, <1>3, <1>4, <1>5, LedgerAssumption DEF Next, Caller

(* A task depends on tasks that exist. *)
DepsExist == \A a \in Assignments : deps[a] \subseteq Created

LEMMA StepDepsExist ==
  ASSUME IInv, DepsExist, [Next]_vars PROVE DepsExist'
<1>0. TypeOK /\ AllSound /\ Pointers
  BY DEF IInv
<1>1. Created \subseteq Created'
  BY <1>0, CreatedStep DEF Delegate, Created, TypeOK, AssignmentsTyped, Absent
<1>2. ASSUME NEW by \in Assignments, NEW batch \in SUBSET (Assignments \ Created),
             NEW needs \in [batch -> SUBSET (Created \cup batch)], Delegate(batch, by, needs)
      PROVE  DepsExist'
  <2>1. batch \subseteq Created'
    BY <1>2 DEF Delegate, Created, Absent
  <2> QED BY <1>1, <1>2, <2>1 DEF Delegate, DepsExist
<1>3. CASE UNCHANGED deps
  BY <1>1, <1>3 DEF DepsExist
<1> QED BY <1>2, <1>3, DepsStep

(* Apart from delegation, reports, retries and revisions, only a reassignment *)
(* opens a task, and it looks at what the task depends on.                    *)
LEMMA TasksOpen ==
  ASSUME Undisturbed, "retry" \notin Events, Calm, [Next]_vars, UNCHANGED deps, ~Revise,
         ~(\E a \in Assignments, n \in Ordinals, success \in BOOLEAN : Complete(a, n, success)),
         ~(\E by \in Assignments : \E batch \in SUBSET (Assignments \ Created) :
             \E needs \in [batch -> SUBSET (Created \cup batch)] : Delegate(batch, by, needs))
  PROVE  \A b \in Assignments :
           task'[b] \in {"READY", "RUNNING"} => task[b] \in {"READY", "RUNNING"} \/ DependenciesDone(b)
<1> DEFINE Gated == \A b \in Assignments :
             task'[b] \in {"READY", "RUNNING"} => task[b] \in {"READY", "RUNNING"} \/ DependenciesDone(b)
<1>0. TypeOK /\ Unprobed
  BY DEF Calm, IInv
<1>1. ASSUME UNCHANGED task PROVE Gated
  BY <1>1
<1>2. ASSUME NEW a \in Assignments, Runner(a) PROVE Gated
  <2>1. ASSUME Bind(a) PROVE Gated
    BY <1>0, <2>1 DEF Bind, TypeOK, AssignmentsTyped
  <2>2. ASSUME StartThrew(a) PROVE Gated
    BY <1>0, <2>2 DEF StartThrew, FailAttempt, TypeOK, AssignmentsTyped
  <2>3. ASSUME ~(Bind(a) \/ StartThrew(a)) PROVE Gated
    BY <1>1, <1>2, <2>3 DEF Runner, BeginStart, SkipStart, BeginCancel, Spawn, EndStart, EndCancel, CancelError, BindStale,
       StartError, ledger
  <2> QED BY <2>1, <2>2, <2>3
<1>3. ASSUME NEW S \in SUBSET Created, CancelEffect(S) PROVE Gated
  BY <1>0, <1>3 DEF CancelEffect, TypeOK, AssignmentsTyped
<1>4. ASSUME NEW a \in Assignments, Control(a) PROVE Gated
  <2>1. ASSUME Cancel(a) PROVE Gated
    <3>1. {a} \in SUBSET Created
      BY <2>1 DEF Cancel, AssignmentNext, Created, Absent
    <3> QED BY <1>3, <2>1, <3>1 DEF Cancel
  <2>2. ASSUME Reassign(a) PROVE Gated
    BY <1>0, <2>2 DEF Reassign, TypeOK, AssignmentsTyped
  <2>3. ASSUME Park(a) \/ Consume(a) \/ \E paused \in BOOLEAN : Pause(a, paused) PROVE Gated
    BY <1>1, <2>3 DEF Park, Consume, Pause
  <2> QED BY <1>4, <2>1, <2>2, <2>3 DEF Control, Retry
<1>5. ASSUME NEW outcome \in TerminalMission, Finish(outcome) PROVE Gated
  <2> DEFINE S == IF outcome = "COMPLETED" THEN {}
                  ELSE {a \in Created : assignment[a] \notin {"COMPLETED", "CANCELLED"}}
  <2>1. S \in SUBSET Created /\ CancelEffect(S)
    BY <1>5 DEF Finish
  <2> QED BY <1>3, <2>1
<1>6. ASSUME BeginDelete \/ EndDelete \/ UNCHANGED vars \/ \E a \in Assignments : PromoteLead(a) PROVE Gated
  BY <1>1, <1>6 DEF BeginDelete, EndDelete, PromoteLead, vars, ledger
<1>7. ASSUME Recovery PROVE Gated
  <2>1. \E starts : RestartWith(starts)
    BY <1>0, <1>7 DEF Undisturbed, Unprobed, Recovery, BeginSweep, Ask, ProbeAlive, ProbeUnknown, ProbeMissing, DieGivingUp,
       Restart
  <2> QED BY <1>1, <2>1 DEF RestartWith
<1>8. ~Reattach
  BY DEF Undisturbed, Reattach
<1>9. Gated
  BY <1>2, <1>4, <1>5, <1>6, <1>7, <1>8, LedgerAssumption DEF Next, Caller
<1> QED BY <1>9

(* Delegation, the last report on a dependency and a reassignment all look at  *)
(* every dependency, and only a revision opens a completed task again, when   *)
(* nothing waits on it.                                                      *)
LEMMA StepGate ==
  ASSUME Undisturbed, "retry" \notin Events
  PROVE  Calm /\ DepsExist /\ ReviewIsDue /\ DependencyGate /\ [Next]_vars => DependencyGate'
<1> SUFFICES ASSUME Calm, DepsExist, ReviewIsDue, DependencyGate, [Next]_vars,
                    NEW a \in Created', task'[a] \in {"READY", "RUNNING"}, NEW d \in deps'[a]
             PROVE  task'[d] = "COMPLETED"
  BY DEF DependencyGate, DependenciesDone
<1>0. TypeOK /\ AllSound /\ AllBegun /\ AllWorded /\ Pointers /\ Unprobed /\ a \in Assignments
  BY DEF Calm, IInv, Created
<1>1. ASSUME NEW by \in Assignments, NEW batch \in SUBSET (Assignments \ Created),
             NEW needs \in [batch -> SUBSET (Created \cup batch)], Delegate(batch, by, needs)
      PROVE  task'[d] = "COMPLETED"
  <2>1. \A b \in batch : task[b] # "COMPLETED"
    BY <1>0 DEF AllBegun, Begun, Created, Absent
  <2>2. CASE a \in batch
    <3>1. deps'[a] = needs[a] /\ task[d] = "COMPLETED" /\ d \in Created \cup batch
      BY <1>0, <1>1, <2>2 DEF Delegate
    <3> QED BY <1>1, <2>1, <3>1 DEF Delegate, Created
  <2>3. CASE a \notin batch
    <3>1. deps'[a] = deps[a] /\ task'[a] = task[a] /\ a \in Created
      BY <1>0, <1>1, <2>3 DEF Delegate, Created
    <3>2. task[d] = "COMPLETED" /\ d \in Assignments
      BY <1>0, <3>1 DEF DependencyGate, DependenciesDone, TypeOK, AssignmentsTyped
    <3> QED BY <1>1, <2>1, <3>2 DEF Delegate
  <2> QED BY <2>2, <2>3
<1>2. ASSUME NEW c \in Assignments, NEW n \in Ordinals, NEW success \in BOOLEAN, Complete(c, n, success)
      PROVE  task'[d] = "COMPLETED"
  <2>1. /\ c \in Created /\ task[c] # "COMPLETED" /\ task'[c] = IF success THEN "COMPLETED" ELSE "FAILED"
        /\ \A b \in Assignments \ {c} :
             \/ task'[b] = task[b]
             \/ /\ task[b] = "BLOCKED" /\ task'[b] = "READY"
                /\ \A e \in deps[b] : e = c \/ task[e] = "COMPLETED"
    BY <1>2, CompleteTasks
  <2>2. deps' = deps /\ d \in Assignments /\ a # c
    BY <1>0, <1>2, <2>1 DEF Complete, TypeOK, AssignmentsTyped
  <2>3. a \in Created
    BY <1>2, <2>2, <1>0 DEF Complete, Created, TypeOK, AssignmentsTyped
  <2>4. CASE task'[a] = task[a]
    <3>1. task[d] = "COMPLETED"
      BY <2>2, <2>3, <2>4 DEF DependencyGate, DependenciesDone
    <3> QED BY <2>1, <2>2, <3>1
  <2>5. CASE task[a] = "BLOCKED" /\ task'[a] = "READY"
    <3>1. d = c \/ task[d] = "COMPLETED"
      BY <1>0, <2>1, <2>2, <2>5
    <3>2. success
      BY <1>0, <1>2, <2>2, <2>5 DEF Complete, TypeOK, AssignmentsTyped
    <3> QED BY <2>1, <2>2, <3>1, <3>2
  <2> QED BY <1>0, <2>1, <2>2, <2>4, <2>5
<1>3. CASE Revise
  <2>1. \A b \in Created : task[b] = "COMPLETED"
    BY <1>3 DEF Revise, ReviewIsDue, ReviewedMissionIsDone
  <2>2. deps' = deps /\ lead \in Created /\ task'[a] = IF a = lead THEN "READY" ELSE task[a]
    BY <1>0, <1>3 DEF Revise, PlanNextAttempt, Pointers, TypeOK, AssignmentsTyped
  <2>3. a = lead /\ d \in Created
    <3>1. a \in Created
      BY <1>0, <1>3 DEF Revise, PlanNextAttempt, Pointers, Created, Absent, TypeOK, AssignmentsTyped
    <3> QED BY <2>1, <2>2, <3>1 DEF DepsExist, Created
  <2>4. d # lead
    BY <1>0, <2>2, <2>3 DEF AllBegun, Begun
  <2> QED BY <1>0, <1>3, <2>1, <2>3, <2>4 DEF Revise, TypeOK, AssignmentsTyped, Created
<1>4. ASSUME ~Revise, ~(\E c \in Assignments, n \in Ordinals, success \in BOOLEAN : Complete(c, n, success)),
             ~(\E by \in Assignments : \E batch \in SUBSET (Assignments \ Created) :
                 \E needs \in [batch -> SUBSET (Created \cup batch)] : Delegate(batch, by, needs))
      PROVE  task'[d] = "COMPLETED"
  <2>1. TasksRest /\ UNCHANGED deps /\ Created' = Created
    BY <1>0, <1>4, TasksStep, DepsStep, CreatedStep
  <2>2. task[a] \in {"READY", "RUNNING"} \/ DependenciesDone(a)
    BY <1>0, <1>4, <2>1, TasksOpen
  <2>3. DependenciesDone(a)
    BY <2>1, <2>2 DEF DependencyGate
  <2> QED BY <1>0, <2>1, <2>3 DEF DependenciesDone, TasksRest, TypeOK, AssignmentsTyped
<1> QED BY <1>1, <1>2, <1>3, <1>4

(* A task is open, or worked on, only when all it depends on is completed,     *)
(* through delegation to any depth, reassignments and revisions; retries open  *)
(* a task without looking.                                                   *)
THEOREM DependenciesGate ==
  ASSUME {"early", "reattach", "recovery", "retry"} \cap Events = {}
  PROVE  Spec => []DependencyGate
<1> DEFINE Inv == Calm /\ DepsExist /\ ReviewIsDue /\ DependencyGate
<1>0. Undisturbed /\ "retry" \notin Events
  BY DEF Undisturbed
<1>1. Init => Inv
  <2> SUFFICES ASSUME Init PROVE Inv
    OBVIOUS
  <2>1. ReviewIsDue /\ DepsExist /\ DependencyGate
    BY LedgerAssumption DEF Init, ReviewIsDue, DoneMissionIsReviewable, ReviewedMissionIsDone, Created, Absent, DepsExist,
       DependencyGate, DependenciesDone
  <2> QED BY <2>1, InitCalm
<1>2. Inv /\ [Next]_vars => Inv'
  BY <1>0, StepCalm, StepReview, StepDepsExist, StepGate DEF Calm
<1> QED BY <1>1, <1>2, PTL DEF Spec

-----------------------------------------------------------------------------
(* Refinement: without revisions MissionLedger implements AttemptLog. *)

(* A step changes the entry of the active Attempt only, in a way AttemptLog   *)
(* allows, or leaves it alone.                                               *)
Advances(a) ==
  /\ active'[a] = active[a]
  /\ \A n \in Ordinals : n # active[a] => Entry(a, n)' = Entry(a, n)
  /\ \/ Entry(a, active[a])' = Entry(a, active[a])
     \/ Log!Moves(Entry(a, active[a]), Entry(a, active[a])')

(* A step plans the next Attempt. *)
Appends(a) ==
  /\ active'[a] = active[a] + 1
  /\ PhaseOf(attempt[a][active[a]]) # "none"
  /\ \A n \in Ordinals :
       Entry(a, n)' = IF n = active[a] + 1 THEN Log!Plan
                      ELSE IF n = active[a] THEN [Entry(a, n) EXCEPT !.phase = "ended"]
                      ELSE Entry(a, n)

LEMMA Phases ==
  /\ PhaseOf(Absent) = "none" /\ PhaseOf("PLANNED") = "planned"
  /\ \A s \in WorkingAttempt : PhaseOf(s) = "working"
  /\ \A s \in TerminalAttempt : PhaseOf(s) = "ended"
  /\ \A s \in AttemptStates \cup {Absent} : PhaseOf(s) \in {"none", "planned", "working", "ended"}
  BY DEF PhaseOf, Absent, WorkingAttempt, TerminalAttempt, AttemptStates

LEMMA LogTyped == TypeOK => Log!LogType
<1> SUFFICES ASSUME TypeOK PROVE Log!LogType
  OBVIOUS
<1>1. \A a \in Assignments, n \in Ordinals :
        Entry(a, n) \in [phase : {"none", "planned", "working", "ended"}, handle : Runtimes \cup {NoSession}]
  BY Phases DEF Entry, TypeOK, AttemptsTyped
<1>2. \A a \in Assignments : active[a] \in 1 .. MaxAttempts
  BY DEF TypeOK, AssignmentsTyped, Ordinals
<1> QED BY <1>1, <1>2 DEF Log!LogType, Log!Entries, Log!Phases, AttemptsLog, Ordinals

(* Steps of the entries are steps of the log. *)
LEMMA LogStep ==
  ASSUME TypeOK, TypeOK', \A a \in Assignments : Advances(a) \/ Appends(a)
  PROVE  Log!Next
<1>1. Log!LogType'
  <2>1. TypeOK' => Log!LogType'
    BY LogTyped, PTL
  <2> QED BY <2>1
<1>2. ASSUME NEW a \in Assignments
      PROVE  AttemptsLog'[a] = AttemptsLog[a] \/ Log!Advance(AttemptsLog[a], AttemptsLog'[a]) \/ Log!Append(AttemptsLog[a], AttemptsLog'[a])
  <2>1. /\ AttemptsLog[a].newest = active[a] /\ AttemptsLog'[a].newest = active'[a]
        /\ \A n \in Ordinals : AttemptsLog[a].entry[n] = Entry(a, n) /\ AttemptsLog'[a].entry[n] = Entry(a, n)'
        /\ active[a] \in Ordinals
    BY DEF AttemptsLog, TypeOK, AssignmentsTyped
  <2>2. CASE Advances(a) /\ Entry(a, active[a])' = Entry(a, active[a])
    <3>1. \A n \in Ordinals : Entry(a, n)' = Entry(a, n)
      BY <2>2 DEF Advances
    <3>2. [n \in Ordinals |-> Entry(a, n)'] = [n \in Ordinals |-> Entry(a, n)]
      BY <3>1
    <3> QED BY <2>2, <3>2 DEF Advances, AttemptsLog
  <2>3. CASE Advances(a) /\ Log!Moves(Entry(a, active[a]), Entry(a, active[a])')
    <3> QED BY <2>1, <2>3 DEF Advances, Log!Advance, Ordinals
  <2>4. CASE Appends(a)
    <3>1. active'[a] \in Ordinals /\ active'[a] = active[a] + 1 /\ active'[a] # active[a]
      BY <2>1, <2>4 DEF Appends, TypeOK, AssignmentsTyped, Ordinals
    <3>2. Entry(a, active[a]).phase # "none"
      BY <2>4 DEF Appends, Entry
    <3> QED BY <2>1, <2>4, <3>1, <3>2 DEF Appends, Log!Append, Ordinals
  <2> QED BY <1>2, <2>2, <2>3, <2>4 DEF Advances
<1> QED BY <1>1, <1>2 DEF Log!Next

-----------------------------------------------------------------------------
(* The entries of one Assignment, a step at a time *)

LEMMA Unmoved ==
  ASSUME NEW a \in Assignments, attempt'[a] = attempt[a], session'[a] = session[a], active'[a] = active[a]
  PROVE  Advances(a)
  BY DEF Advances, Entry

(* What may become of the active Attempt's state and handle *)
Forward(s, h, t, g) ==
  \/ PhaseOf(t) = PhaseOf(s) /\ g = h
  \/ PhaseOf(s) \in {"planned", "working"} /\ PhaseOf(t) = "working" /\ g \in Runtimes
  \/ PhaseOf(s) = "planned" /\ PhaseOf(t) = "working" /\ g = h
  \/ PhaseOf(s) \in {"planned", "working"} /\ PhaseOf(t) = "ended" /\ g = h

LEMMA CellMoved ==
  ASSUME TypeOK, NEW a \in Assignments, NEW t, NEW g, active'[a] = active[a],
         attempt'[a] = [attempt[a] EXCEPT ![active[a]] = t],
         session'[a] = [session[a] EXCEPT ![active[a]] = g],
         Forward(ActiveAttempt(a), ActiveSession(a), t, g)
  PROVE  Advances(a)
<1>1. active[a] \in Ordinals /\ attempt[a] \in [Ordinals -> AttemptStates \cup {Absent}]
      /\ session[a] \in [Ordinals -> Runtimes \cup {NoSession}]
  BY DEF TypeOK, AssignmentsTyped, AttemptsTyped
<1>2. \A n \in Ordinals : n # active[a] => Entry(a, n)' = Entry(a, n)
  BY <1>1 DEF Entry
<1>3. Entry(a, active[a])' = [phase |-> PhaseOf(t), handle |-> g]
  BY <1>1 DEF Entry
<1>4. Entry(a, active[a]) = [phase |-> PhaseOf(ActiveAttempt(a)), handle |-> ActiveSession(a)]
  BY DEF Entry, ActiveAttempt, ActiveSession
<1>5. Entry(a, active[a])' = Entry(a, active[a]) \/ Log!Moves(Entry(a, active[a]), Entry(a, active[a])')
  BY <1>3, <1>4 DEF Forward, Log!Moves
<1> QED BY <1>2, <1>5 DEF Advances

(* The handle stays. *)
LEMMA StateMoved ==
  ASSUME TypeOK, NEW a \in Assignments, NEW t, active'[a] = active[a], session'[a] = session[a],
         attempt'[a] = [attempt[a] EXCEPT ![active[a]] = t],
         Forward(ActiveAttempt(a), ActiveSession(a), t, ActiveSession(a))
  PROVE  Advances(a)
<1>1. session'[a] = [session[a] EXCEPT ![active[a]] = ActiveSession(a)]
  BY DEF ActiveSession, TypeOK, AssignmentsTyped, AttemptsTyped
<1> QED BY <1>1, CellMoved

LogMoves == \A b \in Assignments : Advances(b) \/ Appends(b)

LEMMA OneMoved ==
  ASSUME NEW a \in Assignments, Advances(a) \/ Appends(a),
         \A b \in Assignments \ {a} :
           attempt'[b] = attempt[b] /\ session'[b] = session[b] /\ active'[b] = active[b]
  PROVE  LogMoves
  BY Unmoved DEF LogMoves

LEMMA NoneMoved == ASSUME UNCHANGED <<attempt, session, active>> PROVE LogMoves
  BY Unmoved DEF LogMoves

LEMMA BeginStartMoves ==
  ASSUME TypeOK, NEW a \in Assignments, NEW n \in Ordinals, BeginStart(a, n) PROVE LogMoves
<1>1. attempt'[a] = [attempt[a] EXCEPT ![active[a]] = "STARTING"]
  BY DEF BeginStart, TypeOK, AttemptsTyped
<1>2. Forward(ActiveAttempt(a), ActiveSession(a), "STARTING", ActiveSession(a))
  BY Phases DEF BeginStart, Forward, WorkingAttempt, ActiveAttempt
<1>3. Advances(a)
  BY <1>1, <1>2, StateMoved DEF BeginStart
<1> QED BY <1>3, OneMoved DEF BeginStart, TypeOK, AttemptsTyped

LEMMA BindMoves == ASSUME TypeOK, NEW a \in Assignments, Bind(a) PROVE LogMoves
<1> DEFINE s == ActiveAttempt(a)  h == ActiveSession(a)  n == active[a]
<1>1. handler[a].n = n /\ n \in Runtimes
  BY OrdinalsAreRuntimes DEF Bind, TypeOK, AssignmentsTyped
<1>2. /\ attempt'[a] = [attempt[a] EXCEPT ![n] = Started(s)]
      /\ session'[a] = [session[a] EXCEPT ![n] = Bound(s, h, n)]
  BY <1>1 DEF Bind, ActiveAttempt, ActiveSession, TypeOK, AttemptsTyped
<1>3. Forward(s, h, Started(s), Bound(s, h, n))
  BY <1>1, Phases DEF Started, Bound, Forward, WorkingAttempt
<1>4. Advances(a)
  BY <1>2, <1>3, CellMoved DEF Bind
<1> QED BY <1>4, OneMoved DEF Bind, TypeOK, AttemptsTyped

(* An Attempt that works or was planned may end. *)
LEMMA EndingIsForward ==
  ASSUME NEW s \in {"PLANNED"} \cup WorkingAttempt, NEW t \in TerminalAttempt, NEW h
  PROVE  Forward(s, h, t, h)
  BY Phases DEF Forward

LEMMA FailAttemptMoves ==
  ASSUME TypeOK, NEW a \in Assignments, NEW n, FailAttempt(a, n), UNCHANGED <<active, session>>
  PROVE  LogMoves
<1>1. CASE UNCHANGED attempt
  BY <1>1, NoneMoved
<1>2. CASE active[a] = n /\ attempt[a][n] \in WorkingAttempt
  <2>1. attempt'[a] = [attempt[a] EXCEPT ![active[a]] = "FAILED"]
    BY <1>2 DEF FailAttempt, TypeOK, AttemptsTyped
  <2>2. Forward(ActiveAttempt(a), ActiveSession(a), "FAILED", ActiveSession(a))
    BY <1>2, EndingIsForward DEF TerminalAttempt, ActiveAttempt
  <2>3. Advances(a)
    BY <2>1, <2>2, StateMoved
  <2> QED BY <1>2, <2>3, OneMoved DEF FailAttempt, TypeOK, AttemptsTyped
<1> QED BY <1>1, <1>2 DEF FailAttempt

LEMMA RunnerMoves == ASSUME TypeOK, NEW a \in Assignments, Runner(a) PROVE LogMoves
<1>1. CASE StartThrew(a)
  BY <1>1, FailAttemptMoves, NoneMoved DEF StartThrew
<1>2. CASE (\E n \in Ordinals : SkipStart(a, n) \/ BeginCancel(a, n)) \/ Spawn(a) \/ EndStart(a) \/ EndCancel(a)
           \/ CancelError(a)
  BY <1>2, NoneMoved DEF SkipStart, BeginCancel, Spawn, EndStart, EndCancel, CancelError, ledger
<1> QED BY <1>1, <1>2, BeginStartMoves, BindMoves DEF Runner, BindStale, StartError

LEMMA CallerMoves == ASSUME TypeOK, AllSound, NEW a \in Assignments, Caller(a) PROVE LogMoves
<1>1. ASSUME NEW batch \in SUBSET (Assignments \ Created),
             NEW needs \in [batch -> SUBSET (Created \cup batch)], Delegate(batch, a, needs)
      PROVE  LogMoves
  <2>1. ASSUME NEW b \in batch PROVE Advances(b)
    <3>1. active[b] = 1 /\ Entry(b, 1) = Log!Blank
      BY OneTyped, Phases DEF AllSound, Founded, Entry, Log!Blank
    <3>2. /\ active'[b] = 1 /\ session'[b] = session[b]
          /\ attempt'[b] = [attempt[b] EXCEPT ![1] = "PLANNED"]
      BY <1>1, <3>1 DEF Delegate
    <3>3. session[b][1] = NoSession
      BY OneTyped DEF AllSound, Founded
    <3>4. Entry(b, 1)' = Log!Plan
      BY <3>2, <3>3, OneTyped, Phases DEF Entry, Log!Plan, TypeOK, AttemptsTyped
    <3>5. \A n \in Ordinals : n # 1 => Entry(b, n)' = Entry(b, n)
      BY <3>2 DEF Entry, TypeOK, AttemptsTyped
    <3> QED BY <3>1, <3>2, <3>4, <3>5 DEF Advances, Log!Moves
  <2>2. ASSUME NEW b \in Assignments \ batch PROVE Advances(b)
    BY <1>1, Unmoved DEF Delegate
  <2> QED BY <2>1, <2>2 DEF LogMoves
<1>2. ASSUME NEW n \in Ordinals, NEW success \in BOOLEAN, Complete(a, n, success) PROVE LogMoves
  <2>1. attempt'[a] = [attempt[a] EXCEPT ![active[a]] = Reported(success)]
    BY <1>2 DEF Complete, TypeOK, AttemptsTyped
  <2>2. Forward(ActiveAttempt(a), ActiveSession(a), Reported(success), ActiveSession(a))
    BY <1>2, EndingIsForward DEF Complete, Reported, TerminalAttempt, ActiveAttempt
  <2>3. Advances(a)
    BY <1>2, <2>1, <2>2, StateMoved DEF Complete
  <2> QED BY <1>2, <2>3, OneMoved DEF Complete, TypeOK, AttemptsTyped
<1>3. CASE PromoteLead(a)
  BY <1>3, NoneMoved DEF PromoteLead
<1> QED BY <1>1, <1>2, <1>3 DEF Caller

LEMMA ParkMoves == ASSUME TypeOK, NEW a \in Assignments, Park(a) \/ Consume(a) PROVE LogMoves
<1> DEFINE s == ActiveAttempt(a)
           t == IF Park(a) THEN "WAITING" ELSE IF s = "WAITING" THEN "RUNNING" ELSE s
<1>1. attempt'[a] = [attempt[a] EXCEPT ![active[a]] = t]
  BY DEF Park, Consume, ActiveAttempt, TypeOK, AttemptsTyped
<1>2. PhaseOf(t) = PhaseOf(s)
  BY Phases DEF Park, WorkingAttempt
<1>3. Forward(s, ActiveSession(a), t, ActiveSession(a))
  BY <1>2 DEF Forward
<1>4. Advances(a)
  BY <1>1, <1>3, StateMoved DEF Park, Consume
<1> QED BY <1>4, OneMoved DEF Park, Consume, TypeOK, AttemptsTyped

(* An Attempt that is interrupted works or was planned. *)
LEMMA InterruptedIsOpen ==
  ASSUME TypeOK, AllSound, NEW a \in Created, Interrupted(a)
  PROVE  ActiveAttempt(a) \in {"PLANNED"} \cup WorkingAttempt
  BY DEF Interrupted, AllSound, Founded, Created, ActiveAttempt, AttemptStates, TypeOK, AssignmentsTyped, AttemptsTyped

LEMMA CancelEffectMoves ==
  ASSUME TypeOK, AllSound, NEW S \in SUBSET Created, CancelEffect(S), UNCHANGED <<active, session>>
  PROVE  LogMoves
<1> SUFFICES ASSUME NEW a \in Assignments PROVE Advances(a)
  BY DEF LogMoves
<1>1. CASE a \in S /\ Interrupted(a)
  <2>1. attempt'[a] = [attempt[a] EXCEPT ![active[a]] = "CANCELLED"]
    BY <1>1 DEF CancelEffect
  <2>2. Forward(ActiveAttempt(a), ActiveSession(a), "CANCELLED", ActiveSession(a))
    BY <1>1, InterruptedIsOpen, EndingIsForward DEF TerminalAttempt
  <2> QED BY <2>1, <2>2, StateMoved
<1>2. CASE ~(a \in S /\ Interrupted(a))
  BY <1>2, Unmoved DEF CancelEffect
<1> QED BY <1>1, <1>2

(* Planning the next Attempt appends, when the former one has ended. *)
LEMMA PlanAppends ==
  ASSUME TypeOK, AllSound, NEW a \in Created, PlanNextAttempt(a),
         NEW states \in [Assignments -> [Ordinals -> AttemptStates \cup {Absent}]],
         \A b \in Assignments, n \in Ordinals :
           b # a \/ n # active[a] => states[b][n] = attempt[b][n],
         states[a][active[a]] \in TerminalAttempt,
         attempt' = Planned(a, states)
  PROVE  LogMoves
<1> DEFINE k == active[a] + 1
<1>1. a \in Assignments /\ k \in Ordinals /\ active[a] \in Ordinals /\ k # active[a] /\ active'[a] = k
  BY LedgerAssumption DEF PlanNextAttempt, TypeOK, AssignmentsTyped, Ordinals, Created
<1>2. \A n \in Ordinals :
        /\ attempt'[a][n] = IF n = k THEN "PLANNED" ELSE states[a][n]
        /\ session'[a][n] = IF n = k THEN NoSession ELSE session[a][n]
  BY <1>1 DEF PlanNextAttempt, FreshSession, Planned, TypeOK, AttemptsTyped
<1>3. PhaseOf(attempt[a][active[a]]) # "none"
  BY <1>1, Phases DEF AllSound, Founded, ActiveAttempt, AttemptStates, TypeOK, AttemptsTyped
<1>4. ASSUME NEW n \in Ordinals
      PROVE  Entry(a, n)' = IF n = k THEN Log!Plan
                            ELSE IF n = active[a] THEN [Entry(a, n) EXCEPT !.phase = "ended"]
                            ELSE Entry(a, n)
  <2>1. CASE n = k
    BY <1>2, <2>1, Phases DEF Entry, Log!Plan
  <2>2. CASE n = active[a]
    <3>1. PhaseOf(attempt'[a][n]) = "ended" /\ session'[a][n] = session[a][n]
      BY <1>1, <1>2, <2>2, Phases
    <3> QED BY <1>1, <2>2, <3>1 DEF Entry
  <2>3. CASE n # k /\ n # active[a]
    BY <1>1, <1>2, <2>3 DEF Entry
  <2> QED BY <2>1, <2>2, <2>3
<1>5. Appends(a)
  BY <1>1, <1>3, <1>4 DEF Appends
<1>6. ASSUME NEW b \in Assignments \ {a}
      PROVE  attempt'[b] = attempt[b] /\ session'[b] = session[b] /\ active'[b] = active[b]
  <2>1. attempt'[b] = states[b]
    BY DEF Planned
  <2>2. states[b] = attempt[b]
    BY DEF TypeOK, AttemptsTyped
  <2> QED BY <2>1, <2>2 DEF PlanNextAttempt, TypeOK, AttemptsTyped, AssignmentsTyped
<1> QED BY <1>1, <1>5, <1>6, OneMoved

LEMMA ControlMoves == ASSUME TypeOK, AllSound, NEW a \in Assignments, Control(a) PROVE LogMoves
<1>1. CASE Cancel(a)
  <2>1. {a} \in SUBSET Created
    BY <1>1 DEF Cancel, AssignmentNext, Created, Absent
  <2> QED BY <1>1, <2>1, CancelEffectMoves DEF Cancel
<1>2. CASE Retry(a)
  <2>1. a \in Created /\ attempt[a][active[a]] \in TerminalAttempt /\ PlanNextAttempt(a) /\ attempt' = Planned(a, attempt)
    BY <1>2 DEF Retry, Created, ActiveAttempt, TerminalAttempt
  <2> QED BY <2>1, PlanAppends DEF TypeOK, AttemptsTyped
<1>3. CASE Reassign(a)
  <2> DEFINE states == IF Interrupted(a) THEN [attempt EXCEPT ![a][active[a]] = "STALE"] ELSE attempt
  <2>1. a \in Created /\ PlanNextAttempt(a) /\ attempt' = Planned(a, states)
    BY <1>3 DEF Reassign, Created
  <2>2. states \in [Assignments -> [Ordinals -> AttemptStates \cup {Absent}]]
    BY DEF TypeOK, AttemptsTyped, AttemptStates, TerminalAttempt
  <2>3. \A b \in Assignments, n \in Ordinals : b # a \/ n # active[a] => states[b][n] = attempt[b][n]
    BY DEF TypeOK, AttemptsTyped
  <2>4. states[a][active[a]] \in TerminalAttempt
    BY DEF Interrupted, ActiveAttempt, TerminalAttempt, TypeOK, AssignmentsTyped, AttemptsTyped
  <2> QED BY <2>1, <2>2, <2>3, <2>4, PlanAppends
<1>4. CASE \E paused \in BOOLEAN : Pause(a, paused)
  BY <1>4, NoneMoved DEF Pause
<1> QED BY <1>1, <1>2, <1>3, <1>4, ParkMoves DEF Control

LEMMA RebindMoves ==
  ASSUME TypeOK, AllSound, NEW a \in Created, NEW r \in Runtimes, Rebind(a, r), UNCHANGED active
  PROVE  LogMoves
<1> DEFINE s == ActiveAttempt(a)
<1>1. /\ attempt'[a] = [attempt[a] EXCEPT ![active[a]] = Started(s)]
      /\ session'[a] = [session[a] EXCEPT ![active[a]] = r]
  BY DEF Rebind, ActiveAttempt, Created, TypeOK, AttemptsTyped
<1>2. Forward(s, ActiveSession(a), Started(s), r)
  BY InterruptedIsOpen, Phases DEF Rebind, Started, Forward, WorkingAttempt
<1>3. Advances(a)
  BY <1>1, <1>2, CellMoved DEF Created
<1> QED BY <1>3, OneMoved DEF Rebind, Created, TypeOK, AttemptsTyped

LEMMA OrphanMoves ==
  ASSUME TypeOK, NEW a \in Assignments, NEW n, Orphan(a, n), UNCHANGED <<active, session>>
  PROVE  LogMoves
<1> DEFINE s == ActiveAttempt(a)
<1>1. CASE UNCHANGED attempt
  BY <1>1, NoneMoved
<1>2. CASE active[a] = n
  <2>1. attempt'[a] = [attempt[a] EXCEPT ![active[a]] = Lost(s)]
    BY <1>2 DEF Orphan, ActiveAttempt, TypeOK, AttemptsTyped
  <2>2. Forward(s, ActiveSession(a), Lost(s), ActiveSession(a))
    BY EndingIsForward DEF Lost, Forward, TerminalAttempt
  <2>3. Advances(a)
    BY <2>1, <2>2, StateMoved
  <2> QED BY <1>2, <2>3, OneMoved DEF Orphan, TypeOK, AttemptsTyped
<1> QED BY <1>1, <1>2 DEF Orphan

LEMMA MissionStepMoves ==
  ASSUME TypeOK, AllSound, Pointers,
         \/ \E outcome \in TerminalMission : Finish(outcome)
         \/ Reattach \/ BeginDelete \/ EndDelete
  PROVE  LogMoves
<1>1. ASSUME NEW outcome \in TerminalMission, Finish(outcome) PROVE LogMoves
  <2> DEFINE S == IF outcome = "COMPLETED" THEN {}
                  ELSE {a \in Created : assignment[a] \notin {"COMPLETED", "CANCELLED"}}
  <2>1. S \in SUBSET Created /\ CancelEffect(S) /\ UNCHANGED <<active, session>>
    BY <1>1 DEF Finish
  <2> QED BY <2>1, CancelEffectMoves
<1>2. CASE Reattach
  <2> PICK a \in Created : a = lead
    BY DEF Pointers
  <2>1. Rebind(a, ForeignSession) /\ UNCHANGED active
    BY <1>2 DEF Reattach
  <2> QED BY <2>1, OneTyped, RebindMoves
<1>3. CASE BeginDelete \/ EndDelete
  BY <1>3, NoneMoved DEF BeginDelete, EndDelete, ledger
<1> QED BY <1>1, <1>2, <1>3

LEMMA RecoveryMoves == ASSUME TypeOK, AllSound, Pointers, Recovery PROVE LogMoves
<1>1. ASSUME ProbeAlive \/ ProbeMissing
      PROVE  probe.a \in Created /\ probe.a \in Assignments /\ probe.on \in Runtimes
  BY <1>1 DEF ProbeAlive, ProbeMissing, Pointers, Created, TypeOK, ActorsTyped, Probes
<1>2. CASE ProbeAlive
  <2> PICK a \in Created, r \in Runtimes : a = probe.a /\ r = probe.on
    BY <1>1, <1>2
  <2>1. Rebind(a, r) /\ UNCHANGED active
    BY <1>2 DEF ProbeAlive
  <2> QED BY <2>1, RebindMoves
<1>3. CASE ProbeMissing
  <2> PICK a \in Assignments, n \in {probe.n} : a = probe.a
    BY <1>1, <1>3
  <2>1. (Orphan(a, n) \/ FailAttempt(a, n)) /\ UNCHANGED <<active, session>>
    BY <1>3 DEF ProbeMissing
  <2> QED BY <2>1, OrphanMoves, FailAttemptMoves
<1>4. CASE ~(ProbeAlive \/ ProbeMissing)
  BY <1>4, NoneMoved DEF Recovery, DieGivingUp, Restart, RestartWith, BeginSweep, Ask, ProbeUnknown, ledger
<1> QED BY <1>2, <1>3, <1>4

-----------------------------------------------------------------------------
(* The theorems *)

LEMMA InitImplements == Init => Log!Init
<1> SUFFICES ASSUME Init PROVE Log!Init
  OBVIOUS
<1>1. Log!LogType
  BY InitTyped, LogTyped
<1>2. ASSUME NEW a \in Assignments
      PROVE  /\ AttemptsLog[a].newest = 1
             /\ AttemptsLog[a].entry[1] = Log!Blank \/ AttemptsLog[a].entry[1].phase = "working"
             /\ \A n \in 2 .. MaxAttempts : AttemptsLog[a].entry[n] = Log!Blank
  <2>1. active[a] = 1 /\ 1 \in Ordinals
    BY OneTyped DEF Init
  <2>2. \A n \in Ordinals :
          /\ attempt[a][n] = IF a = Root /\ n = 1 THEN "RUNNING" ELSE Absent
          /\ session[a][n] = IF a = Root /\ n = 1 THEN 1 ELSE NoSession
    BY DEF Init
  <2>3. \A n \in Ordinals :
          AttemptsLog[a].entry[n] = IF a = Root /\ n = 1 THEN [phase |-> "working", handle |-> 1] ELSE Log!Blank
    BY <2>2, Phases DEF Log!Blank, WorkingAttempt, AttemptsLog, Entry
  <2>4. AttemptsLog[a].newest = 1
    BY <2>1 DEF AttemptsLog
  <2> QED BY <2>1, <2>3, <2>4 DEF Ordinals
<1> QED BY <1>1, <1>2 DEF Log!Init

LEMMA StepImplements ==
  ASSUME "revise" \notin Events
  PROVE  IInv /\ [Next]_vars => Log!Next
<1> SUFFICES ASSUME IInv, [Next]_vars PROVE Log!Next
  OBVIOUS
<1>1. TypeOK'
  BY StepTyped DEF IInv
<1>2. LogMoves
  <2>1. CASE UNCHANGED vars
    BY <2>1, NoneMoved DEF vars, ledger
  <2>2. CASE Next
    <3>1. ~Revise
      BY DEF Revise
    <3> QED BY <2>2, <3>1, LedgerAssumption, RunnerMoves, CallerMoves, ControlMoves, MissionStepMoves, RecoveryMoves
            DEF Next, IInv
  <2> QED BY <2>1, <2>2
<1> QED BY <1>1, <1>2, LogStep DEF IInv, LogMoves

(* Unless results are sent back for revision, the Attempts of an Assignment   *)
(* are an append-only log: every interleaving of reports, starts, controls,   *)
(* recovery and crashes is a behaviour of AttemptLog.                         *)
THEOREM AttemptsImplementLog ==
  ASSUME "revise" \notin Events
  PROVE  Spec => AttemptsAreALog
  BY InitImplements, StepImplements, InvariantSafe, PTL DEF Spec, AttemptsAreALog, Log!Spec

-----------------------------------------------------------------------------
(* What follows from AttemptLog alone: AttemptsLog, the log of the tables, is *)
(* not looked into, so whatever implements AttemptLog has these properties.   *)

(* What ending an entry makes of it *)
LEMMA EntryEnded ==
  ASSUME NEW e \in [phase : Log!Phases, handle : Runtimes \cup {NoSession}]
  PROVE  /\ [e EXCEPT !.phase = "ended"].phase = "ended"
         /\ e.phase = "ended" => [e EXCEPT !.phase = "ended"] = e
  OBVIOUS

LEMMA LogInitOpen == Log!Init => Log!LogType /\ Log!OnlyNewestIsOpen
  BY DEF Log!Init, Log!LogType, Log!Entries, Log!OnlyNewestIsOpen, Log!Blank

LEMMA LogStepOpen ==
  Log!LogType /\ Log!OnlyNewestIsOpen /\ [Log!Next]_AttemptsLog => (Log!LogType /\ Log!OnlyNewestIsOpen)'
<1> SUFFICES ASSUME Log!LogType, Log!OnlyNewestIsOpen, [Log!Next]_AttemptsLog PROVE (Log!LogType /\ Log!OnlyNewestIsOpen)'
  OBVIOUS
<1>1. CASE UNCHANGED AttemptsLog
  BY <1>1 DEF Log!LogType, Log!OnlyNewestIsOpen
<1>2. CASE Log!Next
  <2>1. Log!LogType'
    BY <1>2 DEF Log!Next
  <2>2. ASSUME NEW a \in Assignments, NEW n \in 1 .. MaxAttempts
        PROVE  /\ n < AttemptsLog'[a].newest => AttemptsLog'[a].entry[n].phase = "ended"
               /\ n > AttemptsLog'[a].newest => AttemptsLog'[a].entry[n] = Log!Blank
    <3>0. AttemptsLog[a].newest \in 1 .. MaxAttempts /\ AttemptsLog[a].entry \in Log!Entries
      BY DEF Log!LogType
    <3>1. CASE AttemptsLog'[a] = AttemptsLog[a]
      BY <3>1 DEF Log!OnlyNewestIsOpen
    <3>2. CASE Log!Advance(AttemptsLog[a], AttemptsLog'[a])
      BY <3>0, <3>2 DEF Log!Advance, Log!OnlyNewestIsOpen
    <3>3. CASE Log!Append(AttemptsLog[a], AttemptsLog'[a])
      <4>1. AttemptsLog[a].entry[AttemptsLog[a].newest] \in [phase : Log!Phases, handle : Runtimes \cup {NoSession}]
        BY <3>0 DEF Log!Entries
      <4>2. AttemptsLog'[a].entry[AttemptsLog[a].newest].phase = "ended"
        BY <3>3, <4>1, EntryEnded DEF Log!Append
      <4>3. AttemptsLog'[a].newest = AttemptsLog[a].newest + 1
        BY <3>3 DEF Log!Append
      <4>4. n # AttemptsLog[a].newest /\ n # AttemptsLog'[a].newest => AttemptsLog'[a].entry[n] = AttemptsLog[a].entry[n]
        BY <3>3 DEF Log!Append
      <4> QED BY <3>0, <4>2, <4>3, <4>4 DEF Log!OnlyNewestIsOpen
    <3> QED BY <1>2, <3>1, <3>2, <3>3 DEF Log!Next
  <2> QED BY <2>1, <2>2 DEF Log!OnlyNewestIsOpen
<1> QED BY <1>1, <1>2

(* However a log advances and grows, only its newest entry can be open.       *)
THEOREM NewestIsOpen == Log!Spec => []Log!OnlyNewestIsOpen
  BY LogInitOpen, LogStepOpen, PTL DEF Log!Spec

(* What has ended stays as it is, also while entries are appended after it.   *)
THEOREM HistoryIsKept == Log!Spec => Log!EndedIsHistory
<1>1. Log!LogType /\ Log!OnlyNewestIsOpen /\ [Log!Next]_AttemptsLog =>
        [\A a \in Assignments : \A n \in 1 .. MaxAttempts :
           AttemptsLog[a].entry[n].phase = "ended" => AttemptsLog'[a].entry[n] = AttemptsLog[a].entry[n]]_AttemptsLog
  <2> SUFFICES ASSUME Log!LogType, Log!OnlyNewestIsOpen, Log!Next,
                      NEW a \in Assignments, NEW n \in 1 .. MaxAttempts, AttemptsLog[a].entry[n].phase = "ended"
               PROVE  AttemptsLog'[a].entry[n] = AttemptsLog[a].entry[n]
    BY DEF Log!LogType
  <2>0. AttemptsLog[a].newest \in 1 .. MaxAttempts /\ AttemptsLog[a].entry \in Log!Entries
    BY DEF Log!LogType
  <2>1. CASE AttemptsLog'[a] = AttemptsLog[a]
    BY <2>1
  <2>2. CASE Log!Advance(AttemptsLog[a], AttemptsLog'[a])
    <3>1. CASE n = AttemptsLog[a].newest
      <4>1. AttemptsLog[a].entry[n] # Log!Blank
        BY DEF Log!Blank
      <4>2. AttemptsLog[a].entry[n].phase \notin {"planned", "working"}
        OBVIOUS
      <4> QED BY <2>2, <3>1, <4>1, <4>2 DEF Log!Advance, Log!Moves
    <3>2. CASE n # AttemptsLog[a].newest
      BY <2>2, <3>2 DEF Log!Advance
    <3> QED BY <3>1, <3>2
  <2>3. CASE Log!Append(AttemptsLog[a], AttemptsLog'[a])
    <3>1. AttemptsLog[a].entry[AttemptsLog[a].newest] \in [phase : Log!Phases, handle : Runtimes \cup {NoSession}]
      BY <2>0 DEF Log!Entries
    <3>2. n = AttemptsLog[a].newest => AttemptsLog'[a].entry[n] = AttemptsLog[a].entry[n]
      BY <2>3, <3>1, EntryEnded DEF Log!Append
    <3>3. n # AttemptsLog'[a].newest
      BY <2>0, <2>3 DEF Log!Append, Log!OnlyNewestIsOpen, Log!Blank
    <3> QED BY <2>3, <3>2, <3>3 DEF Log!Append
  <2> QED BY <2>1, <2>2, <2>3 DEF Log!Next
<1> QED BY <1>1, LogInitOpen, LogStepOpen, PTL DEF Log!Spec, Log!EndedIsHistory

-----------------------------------------------------------------------------
(* What the ledger has from the log *)

(* Unless results are sent back for revision, no two Attempts of an            *)
(* Assignment are open at a time: what AttemptLog promises, read off the       *)
(* tables.                                                                   *)
THEOREM AtMostOneLiveAttempt ==
  ASSUME "revise" \notin Events
  PROVE  Spec => []OneLiveAttempt
<1>1. IInv /\ Log!OnlyNewestIsOpen => OneLiveAttempt
  <2> SUFFICES ASSUME IInv, Log!OnlyNewestIsOpen, NEW a \in Assignments, NEW n \in Ordinals, n # active[a]
               PROVE  attempt[a][n] \in TerminalAttempt \cup {Absent}
    BY DEF OneLiveAttempt
  <2>1. PhaseOf(attempt[a][n]) \in {"none", "ended"}
    <3>1. AttemptsLog[a].newest = active[a] /\ AttemptsLog[a].entry[n].phase = PhaseOf(attempt[a][n])
      BY DEF AttemptsLog, Entry
    <3>2. /\ n < AttemptsLog[a].newest => AttemptsLog[a].entry[n].phase = "ended"
          /\ n > AttemptsLog[a].newest => AttemptsLog[a].entry[n] = Log!Blank
      BY DEF Log!OnlyNewestIsOpen, Ordinals
    <3>3. active[a] \in Ordinals
      BY DEF IInv, TypeOK, AssignmentsTyped
    <3> QED BY <3>1, <3>2, <3>3 DEF Log!Blank, Ordinals
  <2>2. attempt[a][n] \in AttemptStates \cup {Absent}
    BY DEF IInv, TypeOK, AttemptsTyped
  <2> QED BY <2>1, <2>2, Phases DEF AttemptStates
<1> QED BY <1>1, NewestIsOpen, AttemptsImplementLog, InvariantSafe, PTL DEF AttemptsAreALog

(* Nor does an Attempt that has ended come back, or change the runtime it     *)
(* names, whatever is planned after it.                                       *)
THEOREM EndedAttemptsAreHistory ==
  ASSUME "revise" \notin Events
  PROVE  Spec => Log!EndedIsHistory
  BY HistoryIsKept, AttemptsImplementLog, PTL DEF AttemptsAreALog
=============================================================================
