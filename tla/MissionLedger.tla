--------------------------- MODULE MissionLedger ---------------------------
(***************************************************************************)
(* The durable ledger of one Mission: the tables `missions`,               *)
(* `mission_tasks`, `assignments`, `execution_attempts` and                *)
(* `orchestration_outbox` of packages/persistence/src/mission-repository.ts *)
(* and the three actors that write them concurrently:                      *)
(*   - callers (users and agents) through mission-orchestration-service.ts; *)
(*   - the outbox runner, whose handlers await a runtime adapter between    *)
(*     two transactions (orchestration-outbox-runner.ts);                   *)
(*   - the recovery service, which awaits an adapter's answer about a       *)
(*     runtime and then rebinds, orphans or fails the Attempt               *)
(*     (orchestration-recovery-service.ts).                                 *)
(* Every repository method is one SQLite transaction, hence one atomic      *)
(* step; a handler that awaits is split where it awaits.                    *)
(*                                                                         *)
(* An Assignment and its MissionTask are created together, one to one       *)
(* (createMission, delegateOne), so both tables are indexed by Assignment.  *)
(* An Attempt is named by its Assignment and its ordinal.  A runtime is     *)
(* named by the Attempt it was started for: adapters deduplicate `start`    *)
(* by Attempt (managed) or by idempotency key (terminals).                  *)
(***************************************************************************)
EXTENDS Naturals, FiniteSets

CONSTANTS
  Assignments,   \* the Assignments that may ever exist
  Root,          \* the Assignment of the Lead that createMission inserts
  None,          \* SQL NULL
  MaxAttempts,   \* bound on the ordinal of an Attempt
  MaxTries,      \* options.maxAttempts of the outbox runner
  MaxLive,       \* executionPolicy.limits.maxConcurrentAgents
  Events,        \* what the environment of this instance may do, see EventKinds
  Targets,       \* the Assignments that are controlled
  Probed         \* the Assignments whose runtimes recovery asks about

(* The operations an instance may leave out, to ask what each is to blame   *)
(* for.  Delegation, starting, binding, completing and starting again after *)
(* a crash are always there.                                                *)
EventKinds ==
  {"cancel", "retry", "reassign", "promote", "revise", "finish", "pause", "park",
   "reattach", "delete", "recovery", "exit", "startError", "early", "giveUpCrash"}

ASSUME LedgerAssumption ==
  /\ Root \in Assignments
  /\ None \notin Assignments
  /\ MaxAttempts \in Nat \ {0}
  /\ MaxTries \in Nat \ {0}
  /\ MaxLive \in Nat
  /\ Events \subseteq EventKinds
  /\ Targets \subseteq Assignments
  /\ Probed \subseteq Assignments

Ordinals == 1 .. MaxAttempts

(* A runtime is named by the ordinal of the Attempt it was started for; one  *)
(* more name stands for a CLI Session the user attaches by hand (adopt).     *)
ForeignSession == MaxAttempts + 1
Runtimes == 1 .. ForeignSession
NoSession == 0

MissionStates == {"RUNNING", "BLOCKED", "VERIFYING", "COMPLETED", "FAILED", "CANCELLED"}
TaskStates == {"BLOCKED", "READY", "RUNNING", "COMPLETED", "FAILED", "CANCELLED"}
AssignmentStates ==
  {"PENDING", "ACTIVE", "WAITING", "PAUSED", "COMPLETED", "FAILED", "CANCELLED", "ORPHANED"}
WorkingAttempt == {"STARTING", "RUNNING", "WAITING"}
TerminalAttempt == {"SUCCEEDED", "FAILED", "CANCELLED", "STALE"} \* nothing writes TIMED_OUT
AttemptStates == {"PLANNED"} \cup WorkingAttempt \cup TerminalAttempt
RowStates == {"PENDING", "PROCESSING", "COMPLETED", "FAILED"}

LiveAssignment == {"PENDING", "ACTIVE", "WAITING", "PAUSED", "ORPHANED"}
SettledAssignment == {"COMPLETED", "FAILED", "CANCELLED", "ORPHANED"}
TerminalMission == {"COMPLETED", "FAILED", "CANCELLED"}

(* ASSIGNMENT_TRANSITIONS and MISSION_TRANSITIONS *)
AssignmentNext(s) ==
  CASE s = "PENDING" -> {"ACTIVE", "CANCELLED", "FAILED"}
    [] s = "ACTIVE" -> {"WAITING", "PAUSED", "COMPLETED", "FAILED", "CANCELLED", "ORPHANED"}
    [] s = "WAITING" -> {"ACTIVE", "PAUSED", "COMPLETED", "FAILED", "CANCELLED", "ORPHANED"}
    [] s = "PAUSED" -> {"ACTIVE", "WAITING", "CANCELLED", "ORPHANED"}
    [] s = "FAILED" -> {"PENDING", "ACTIVE", "CANCELLED"}
    [] s = "ORPHANED" -> {"ACTIVE", "PAUSED", "FAILED", "CANCELLED"}
    [] OTHER -> {}

MissionNext(s) ==
  CASE s = "RUNNING" -> {"BLOCKED", "VERIFYING", "FAILED", "CANCELLED"}
    [] s = "BLOCKED" -> {"RUNNING", "FAILED", "CANCELLED"}
    [] s = "VERIFYING" -> {"RUNNING", "COMPLETED", "FAILED", "CANCELLED"}
    [] s = "FAILED" -> {"RUNNING", "CANCELLED"}
    [] OTHER -> {}

Absent == "ABSENT"
NoRow == [state |-> Absent, tries |-> 0]
NewRow == [state |-> "PENDING", tries |-> 0]
Row == [state : RowStates \cup {Absent}, tries : 0 .. MaxTries]

VARIABLES
  mission,     \* missions.state
  trashed,     \* missions.deleted_at is set
  lead,        \* missions.lead_assignment_id
  assignment,  \* assignments.state
  task,        \* mission_tasks.state of the Assignment's task
  deps,        \* mission_task_dependencies, by Assignment
  supervisor,  \* assignments.supervisor_assignment_id
  active,      \* ordinal of assignments.active_attempt_id
  attempt,     \* execution_attempts.state
  session,     \* execution_attempts.runtime_session_id
  parked,      \* the active Attempt owns a continuation that is not finished
  startRow,    \* the start-runtime outbox row of an Attempt
  cancelRow,   \* the cancel-runtime outbox row of an Attempt
  handler,     \* the outbox handler awaiting an adapter for this Assignment
  sweep,       \* Attempts the recovery service listed and has yet to ask about
  probe,       \* the one whose adapter it is awaiting
  deletion,    \* deleteSessionTree awaiting the closing of runtimes
  runtime      \* what the adapters really run

ledger == <<mission, trashed, lead, assignment, task, deps, supervisor, active, attempt,
            session, parked>>
rows == <<startRow, cancelRow>>
reconciling == <<sweep, probe>>
vars == <<ledger, rows, handler, reconciling, deletion, runtime>>

Handlers == [op : {"idle", "start", "activate", "cancel"}, n : 0 .. MaxAttempts, on : 0 .. ForeignSession]
Idle == [op |-> "idle", n |-> 0, on |-> NoSession]
Probes == [a : Assignments, n : Ordinals, on : Runtimes]
NoProbe == [a |-> None, n |-> 0, on |-> NoSession]
Deletions ==
  [mission : MissionStates \cup {Absent}, sessions : SUBSET (Assignments \X Runtimes)]
NoDeletion == [mission |-> Absent, sessions |-> {}]

-----------------------------------------------------------------------------
(* What the transactions read *)

Created == {a \in Assignments : assignment[a] # Absent}
Live == {a \in Assignments : assignment[a] \in LiveAssignment}
ActiveAttempt(a) == attempt[a][active[a]]
ActiveSession(a) == session[a][active[a]]
DependenciesDone(a) == \A d \in deps[a] : task[d] = "COMPLETED"

(* Faults: the definitions of the same parameters below, each with a mistake  *)
(* that is easy to make.  No action uses them; every property of a passing    *)
(* run is broken by one of them.                                              *)

StartedInAnyState(s) == "RUNNING"
InterruptedIfRunning(a) == ActiveAttempt(a) \in {"RUNNING", "WAITING"}
SuccessionKeepsSupervisor(a) == [supervisor EXCEPT ![lead] = a]
StillParked(a) == parked
UnblockedByOne(a, done, b) == done[b] = "BLOCKED" /\ a \in deps[b]
ReviewReadyTooLate(done) == \A b \in Created : task[b] = "COMPLETED"
ExhaustedButPending(state) ==
  /\ mission \notin TerminalMission
  /\ \A a \in Assignments : state[a] \notin LiveAssignment \ {"PENDING"}
  /\ \E a \in Assignments : state[a] = "CANCELLED"
RequeuedAsCompleted(row) ==
  IF row.state = "PROCESSING" THEN [row EXCEPT !.state = "COMPLETED"] ELSE row

-----------------------------------------------------------------------------
(* Common parts of the transactions *)

(* cancelMissionWhenAssignmentsExhausted, asked of assignments in the states  *)
(* `state`: the Mission is cancelled when none of them is live.               *)
Exhausted(state) ==
  /\ mission \notin TerminalMission
  /\ \A a \in Assignments : state[a] \notin LiveAssignment
  /\ \E a \in Assignments : state[a] = "CANCELLED"

(* failure, completion and replacement cancel what the Attempt waits for *)
Unparked(a) == [parked EXCEPT ![a] = FALSE]

(* the Attempt that a control operation interrupts *)
Interrupted(a) == ActiveAttempt(a) \notin TerminalAttempt

(* the handle a new Attempt is inserted with *)
FreshSession(a) == NoSession

(* what starting or rebinding makes of an Attempt's state and handle *)
Started(s) == IF s \in {"PLANNED", "STARTING"} THEN "RUNNING" ELSE s
Bound(s, old, new) == IF s \in {"PLANNED", "STARTING"} THEN new ELSE old

(* promoteReadyTasks and the test of reconcileMissionState, after task a was *)
(* completed and the tasks are in the states `done`.                         *)
Unblocked(a, done, b) ==
  done[b] = "BLOCKED" /\ a \in deps[b] /\ \A d \in deps[b] : done[d] = "COMPLETED"
ReviewReady(done) == \A b \in Created : done[b] = "COMPLETED"

(* The common part of createRetry, reassign and requestRevision: the next    *)
(* Attempt, planned, with the outbox row that will start it; what the former *)
(* Attempt waited for is cancelled.                                         *)
PlanNextAttempt(a) ==
  /\ active[a] < MaxAttempts
  /\ active' = [active EXCEPT ![a] = @ + 1]
  /\ session' = [session EXCEPT ![a][active[a] + 1] = FreshSession(a)]
  /\ assignment' = [assignment EXCEPT ![a] = "PENDING"]
  /\ parked' = Unparked(a)
  /\ startRow' = [startRow EXCEPT ![a][active[a] + 1] = NewRow]

Planned(a, states) == [states EXCEPT ![a][active[a] + 1] = "PLANNED"]

(* INSERT OR IGNORE of the row that will close the runtime of an Attempt *)
WithCancelRow(a, n) ==
  IF session[a][n] # NoSession /\ cancelRow[a][n] = NoRow
    THEN [cancelRow EXCEPT ![a][n] = NewRow]
    ELSE cancelRow

-----------------------------------------------------------------------------
(* Mission and delegation *)

(* createMission: the Lead is born running in the Session that asked. *)
Init ==
  /\ mission = "RUNNING"
  /\ trashed = FALSE
  /\ lead = Root
  /\ assignment = [a \in Assignments |-> IF a = Root THEN "ACTIVE" ELSE Absent]
  /\ task = [a \in Assignments |-> IF a = Root THEN "RUNNING" ELSE Absent]
  /\ deps = [a \in Assignments |-> {}]
  /\ supervisor = [a \in Assignments |-> None]
  /\ active = [a \in Assignments |-> 1]
  /\ attempt = [a \in Assignments |-> [n \in Ordinals |->
                  IF a = Root /\ n = 1 THEN "RUNNING" ELSE Absent]]
  /\ session = [a \in Assignments |-> [n \in Ordinals |->
                  IF a = Root /\ n = 1 THEN 1 ELSE NoSession]]
  /\ parked = [a \in Assignments |-> FALSE]
  /\ startRow = [a \in Assignments |-> [n \in Ordinals |-> NoRow]]
  /\ cancelRow = [a \in Assignments |-> [n \in Ordinals |-> NoRow]]
  /\ handler = [a \in Assignments |-> Idle]
  /\ sweep = {}
  /\ probe = NoProbe
  /\ deletion = NoDeletion
  /\ runtime = [a \in Assignments |-> [r \in Runtimes |->
                  IF a = Root /\ r = 1 THEN "live" ELSE "none"]]

(* delegateMany: one transaction inserts the whole batch, each member with   *)
(* dependencies inside and outside the batch; a cycle or a full Mission      *)
(* rolls everything back.  delegate is a batch of one.                       *)
Delegate(batch, by, needs) ==
  /\ mission \in {"RUNNING", "BLOCKED"}
  /\ assignment[by] \in {"ACTIVE", "WAITING", "PAUSED"}
  /\ batch # {}
  /\ \A s \in SUBSET batch : s # {} => \E b \in s : needs[b] \cap s = {}
  /\ Cardinality(Live) + Cardinality(batch) <= MaxLive
  /\ assignment' = [a \in Assignments |-> IF a \in batch THEN "PENDING" ELSE assignment[a]]
  /\ task' = [a \in Assignments |->
       IF a \notin batch THEN task[a]
       ELSE IF \A d \in needs[a] : task[d] = "COMPLETED" THEN "READY" ELSE "BLOCKED"]
  /\ deps' = [a \in Assignments |-> IF a \in batch THEN needs[a] ELSE deps[a]]
  /\ supervisor' = [a \in Assignments |-> IF a \in batch THEN by ELSE supervisor[a]]
  /\ attempt' = [a \in Assignments |->
       IF a \in batch THEN [attempt[a] EXCEPT ![1] = "PLANNED"] ELSE attempt[a]]
  /\ startRow' = [a \in Assignments |->
       IF a \in batch THEN [startRow[a] EXCEPT ![1] = NewRow] ELSE startRow[a]]
  /\ UNCHANGED <<mission, trashed, lead, active, session, parked, cancelRow, handler, reconciling,
                 deletion, runtime>>

-----------------------------------------------------------------------------
(* The outbox runner.  It drains one batch at a time and handles the rows of *)
(* one Assignment in sequence, so one handler per Assignment awaits at most; *)
(* rows come back after a delay, so they are taken up in any order.          *)

Taken(row) ==
  [state |-> "PROCESSING", tries |-> IF row.tries < MaxTries THEN row.tries + 1 ELSE MaxTries]

(* process + startRuntime up to `await adapter.start`. A BLOCKED task is     *)
(* sent back to the queue (retryOutbox), which changes nothing here.         *)
BeginStart(a, n) ==
  /\ handler[a] = Idle
  /\ startRow[a][n].state = "PENDING"
  /\ task[a] # "BLOCKED"
  /\ active[a] = n
  /\ attempt[a][n] \in {"PLANNED", "STARTING"}
  /\ startRow' = [startRow EXCEPT ![a][n] = Taken(@)]
  /\ attempt' = [attempt EXCEPT ![a][n] = "STARTING"]
  /\ handler' = [handler EXCEPT ![a] = [op |-> "start", n |-> n, on |-> n]]
  /\ UNCHANGED <<mission, trashed, lead, assignment, task, deps, supervisor, active, session,
                 parked, cancelRow, reconciling, deletion, runtime>>

(* startRuntime returns at once: the Attempt was replaced, or is past start. *)
SkipStart(a, n) ==
  /\ handler[a] = Idle
  /\ startRow[a][n].state = "PENDING"
  /\ task[a] # "BLOCKED"
  /\ active[a] # n \/ attempt[a][n] \notin {"PLANNED", "STARTING"}
  /\ startRow' = [startRow EXCEPT ![a][n] = [Taken(@) EXCEPT !.state = "COMPLETED"]]
  /\ UNCHANGED <<ledger, cancelRow, handler, reconciling, deletion, runtime>>

(* Inside adapter.start: the terminal or the managed task comes to life, and *)
(* is there even if the answer is lost.                                      *)
Spawn(a) ==
  /\ handler[a].op = "start"
  /\ runtime[a][handler[a].n] # "live"
  /\ runtime' = [runtime EXCEPT ![a][handler[a].n] = "live"]
  /\ UNCHANGED <<ledger, rows, handler, reconciling, deletion>>

(* bindRuntime after adapter.start: the Attempt keeps its state if it is no  *)
(* longer PLANNED or STARTING, the Assignment becomes ACTIVE in any case.    *)
Bind(a) ==
  LET n == handler[a].n IN
  /\ handler[a].op = "start"
  /\ runtime[a][n] = "live"
  /\ active[a] = n
  /\ attempt' = [attempt EXCEPT ![a][n] = Started(@)]
  /\ session' = [session EXCEPT ![a][n] = Bound(attempt[a][n], @, n)]
  /\ assignment' = [assignment EXCEPT ![a] = "ACTIVE"]
  /\ task' = [task EXCEPT ![a] = IF @ = "READY" THEN "RUNNING" ELSE @]
  /\ handler' = [handler EXCEPT ![a].op = "activate"]
  /\ UNCHANGED <<mission, trashed, lead, deps, supervisor, active, parked, rows, reconciling, deletion,
                 runtime>>

(* adapter.activate answered: completeOutbox. *)
EndStart(a) ==
  /\ handler[a].op = "activate"
  /\ startRow' = [startRow EXCEPT ![a][handler[a].n].state = "COMPLETED"]
  /\ handler' = [handler EXCEPT ![a] = Idle]
  /\ UNCHANGED <<ledger, cancelRow, reconciling, deletion, runtime>>

(* failAttemptFromRuntime: nothing unless the Attempt is active and working. *)
FailAttempt(a, n) ==
  IF active[a] = n /\ attempt[a][n] \in WorkingAttempt
    THEN /\ attempt' = [attempt EXCEPT ![a][n] = "FAILED"]
         /\ assignment' = [assignment EXCEPT ![a] = "FAILED"]
         /\ task' = [task EXCEPT ![a] = "FAILED"]
         /\ parked' = Unparked(a)
    ELSE UNCHANGED <<attempt, assignment, task, parked>>

(* The catch block of process: back to the queue, or give up after MaxTries. *)
StartThrew(a) ==
  LET n == handler[a].n
      lastTry == startRow[a][n].tries >= MaxTries
  IN /\ startRow' = [startRow EXCEPT ![a][n].state = IF lastTry THEN "FAILED" ELSE "PENDING"]
     /\ handler' = [handler EXCEPT ![a] = Idle]
     /\ IF lastTry THEN FailAttempt(a, n) ELSE UNCHANGED <<attempt, assignment, task, parked>>
     /\ UNCHANGED <<mission, trashed, lead, deps, supervisor, active, session, cancelRow, reconciling,
                    deletion, runtime>>

(* bindRuntime throws because the Attempt was replaced during the await. *)
BindStale(a) ==
  /\ handler[a].op = "start"
  /\ runtime[a][handler[a].n] = "live"
  /\ active[a] # handler[a].n
  /\ StartThrew(a)

(* The adapter throws, before or after it created the runtime, or while it   *)
(* activates it.                                                            *)
StartError(a) ==
  /\ "startError" \in Events
  /\ handler[a].op \in {"start", "activate"}
  /\ StartThrew(a)

(* cancelRuntime up to `await adapter.cancel`; without a Session there is    *)
(* nothing to close.                                                        *)
BeginCancel(a, n) ==
  /\ handler[a] = Idle
  /\ cancelRow[a][n].state = "PENDING"
  /\ cancelRow' = [cancelRow EXCEPT ![a][n] = Taken(@)]
  /\ handler' = [handler EXCEPT ![a] = [op |-> "cancel", n |-> n, on |-> session[a][n]]]
  /\ UNCHANGED <<ledger, startRow, reconciling, deletion, runtime>>

EndCancel(a) ==
  /\ handler[a].op = "cancel"
  /\ runtime' = [runtime EXCEPT ![a][handler[a].on] = "gone"]
  /\ cancelRow' = [cancelRow EXCEPT ![a][handler[a].n].state = "COMPLETED"]
  /\ handler' = [handler EXCEPT ![a] = Idle]
  /\ UNCHANGED <<ledger, startRow, reconciling, deletion>>

CancelError(a) ==
  /\ "startError" \in Events
  /\ handler[a].op = "cancel"
  /\ cancelRow' = [cancelRow EXCEPT ![a][handler[a].n].state =
       IF cancelRow[a][handler[a].n].tries >= MaxTries THEN "FAILED" ELSE "PENDING"]
  /\ handler' = [handler EXCEPT ![a] = Idle]
  /\ UNCHANGED <<ledger, startRow, reconciling, deletion, runtime>>

-----------------------------------------------------------------------------
(* Reports of the agents *)

Reported(success) == IF success THEN "SUCCEEDED" ELSE "FAILED"

(* completeAttempt, when lifecycleAuthority accepts the reporter: it is the  *)
(* active Attempt and it is working.  A suppressed report only leaves a      *)
(* message.  Success unblocks dependent tasks (promoteReadyTasks) and, once   *)
(* every task is done, opens the Mission for review (reconcileMissionState).  *)
Complete(a, n, success) ==
  LET done == [task EXCEPT ![a] = IF success THEN "COMPLETED" ELSE "FAILED"]
  IN /\ active[a] = n
     /\ attempt[a][n] \in WorkingAttempt
     /\ attempt[a][n] = "STARTING" => "early" \in Events /\ runtime[a][n] = "live"
     /\ attempt' = [attempt EXCEPT ![a][n] = Reported(success)]
     /\ assignment' = [assignment EXCEPT ![a] = IF success THEN "COMPLETED" ELSE "FAILED"]
     /\ task' = [b \in Assignments |-> IF success /\ Unblocked(a, done, b) THEN "READY" ELSE done[b]]
     /\ mission' =
          IF success /\ mission = "RUNNING" /\ ReviewReady(done)
            THEN "VERIFYING" ELSE mission
     /\ parked' = Unparked(a)
     /\ UNCHANGED <<trashed, lead, deps, supervisor, active, session, rows, handler, reconciling,
                    deletion, runtime>>

(* armContinuation, seen from the ledger: the Attempt waits. *)
Park(a) ==
  /\ "park" \in Events
  /\ ~parked[a]
  /\ assignment[a] \in {"ACTIVE", "WAITING"}
  /\ ActiveAttempt(a) \in {"RUNNING", "WAITING"}
  /\ parked' = [parked EXCEPT ![a] = TRUE]
  /\ assignment' = [assignment EXCEPT ![a] = "WAITING"]
  /\ attempt' = [attempt EXCEPT ![a][active[a]] = "WAITING"]
  /\ UNCHANGED <<mission, trashed, lead, task, deps, supervisor, active, session, rows, handler,
                 reconciling, deletion, runtime>>

(* consumeContinuation: the Attempt goes on; a paused Assignment stays so. *)
Consume(a) ==
  /\ parked[a]
  /\ parked' = Unparked(a)
  /\ assignment' = [assignment EXCEPT ![a] = IF @ = "WAITING" THEN "ACTIVE" ELSE @]
  /\ attempt' = [attempt EXCEPT ![a][active[a]] = IF @ = "WAITING" THEN "RUNNING" ELSE @]
  /\ UNCHANGED <<mission, trashed, lead, task, deps, supervisor, active, session, rows, handler,
                 reconciling, deletion, runtime>>

-----------------------------------------------------------------------------
(* Control by the user or a supervising agent *)

(* cancelAssignment of each Assignment of S in turn. *)
CancelEffect(S) ==
  /\ assignment' = [a \in Assignments |-> IF a \in S THEN "CANCELLED" ELSE assignment[a]]
  /\ task' = [a \in Assignments |-> IF a \in S THEN "CANCELLED" ELSE task[a]]
  /\ attempt' = [a \in Assignments |->
       IF a \in S /\ Interrupted(a)
         THEN [attempt[a] EXCEPT ![active[a]] = "CANCELLED"] ELSE attempt[a]]
  /\ cancelRow' = [a \in Assignments |->
       IF a \in S THEN WithCancelRow(a, active[a])[a] ELSE cancelRow[a]]
  /\ parked' = [a \in Assignments |-> a \notin S /\ parked[a]]

Cancel(a) ==
  /\ "cancel" \in Events
  /\ "CANCELLED" \in AssignmentNext(assignment[a])
  /\ CancelEffect({a})
  /\ mission' = IF Exhausted(assignment') THEN "CANCELLED" ELSE mission
  /\ UNCHANGED <<trashed, lead, deps, supervisor, active, session, startRow, handler, reconciling,
                 deletion, runtime>>

(* finishMission: cancelling and failing first cancel every Assignment not   *)
(* yet COMPLETED or CANCELLED; setMissionState then moves the Mission if its  *)
(* transition table lets it, and throws otherwise.                           *)
Finish(outcome) ==
  LET S == IF outcome = "COMPLETED" THEN {}
           ELSE {a \in Created : assignment[a] \notin {"COMPLETED", "CANCELLED"}}
      reached == IF S # {} /\ Exhausted(assignment') THEN "CANCELLED" ELSE mission
  IN /\ "finish" \in Events
     /\ outcome \in TerminalMission
     /\ CancelEffect(S)
     /\ mission' = IF outcome \in MissionNext(reached) THEN outcome ELSE reached
     /\ UNCHANGED <<trashed, lead, deps, supervisor, active, session, startRow, handler, reconciling,
                    deletion, runtime>>

(* createRetry: asks only that the former Attempt did not succeed and ended; *)
(* the task becomes READY whatever it depends on.                            *)
Retry(a) ==
  /\ "retry" \in Events
  /\ assignment[a] # Absent
  /\ ActiveAttempt(a) \in {"FAILED", "CANCELLED", "STALE"}
  /\ PlanNextAttempt(a)
  /\ attempt' = Planned(a, attempt)
  /\ task' = [task EXCEPT ![a] = "READY"]
  /\ UNCHANGED <<mission, trashed, lead, deps, supervisor, cancelRow, handler, reconciling, deletion,
                 runtime>>

(* reassign: a working Attempt becomes STALE and its runtime is to be closed; *)
(* the task goes back behind its dependencies.                               *)
Reassign(a) ==
  /\ "reassign" \in Events
  /\ assignment[a] \notin {Absent, "COMPLETED", "CANCELLED"}
  /\ PlanNextAttempt(a)
  /\ attempt' = Planned(a, IF Interrupted(a) THEN [attempt EXCEPT ![a][active[a]] = "STALE"] ELSE attempt)
  /\ cancelRow' = IF Interrupted(a) THEN WithCancelRow(a, active[a]) ELSE cancelRow
  /\ task' = [task EXCEPT ![a] = IF DependenciesDone(a) THEN "READY" ELSE "BLOCKED"]
  /\ UNCHANGED <<mission, trashed, lead, deps, supervisor, handler, reconciling, deletion, runtime>>

(* requestRevision: the user rejects a result under review. *)
Revise ==
  /\ "revise" \in Events
  /\ mission = "VERIFYING"
  /\ PlanNextAttempt(lead)
  /\ attempt' = Planned(lead, attempt)
  /\ task' = [task EXCEPT ![lead] = "READY"]
  /\ mission' = "RUNNING"
  /\ UNCHANGED <<trashed, lead, deps, supervisor, cancelRow, handler, reconciling, deletion, runtime>>

(* pauseAssignment, both ways; only the transition table guards it. *)
Pause(a, paused) ==
  LET next == IF paused THEN "PAUSED" ELSE IF parked[a] THEN "WAITING" ELSE "ACTIVE" IN
  /\ "pause" \in Events
  /\ next \in AssignmentNext(assignment[a])
  /\ assignment' = [assignment EXCEPT ![a] = next]
  /\ UNCHANGED <<mission, trashed, lead, task, deps, supervisor, active, attempt, session, parked,
                 rows, handler, reconciling, deletion, runtime>>

(* assignments.supervisor_assignment_id once a is the Lead *)
Succession(a) == [supervisor EXCEPT ![a] = None, ![lead] = a]

(* promoteLead: the former Lead becomes a child of the new one. *)
PromoteLead(a) ==
  /\ "promote" \in Events
  /\ assignment[a] \in LiveAssignment
  /\ a # lead
  /\ supervisor' = Succession(a)
  /\ lead' = a
  /\ mission' = IF mission = "BLOCKED" THEN "RUNNING" ELSE mission
  /\ UNCHANGED <<trashed, assignment, task, deps, active, attempt, session, parked, rows, handler,
                 reconciling, deletion, runtime>>

(* rebindActiveRuntime: whichever Attempt is active now gets the runtime. *)
Rebind(a, r) ==
  /\ Interrupted(a)
  /\ session' = [session EXCEPT ![a][active[a]] = r]
  /\ attempt' = [attempt EXCEPT ![a][active[a]] = Started(@)]
  /\ assignment' = [assignment EXCEPT ![a] =
       IF @ \in {"PENDING", "WAITING", "ORPHANED", "FAILED"}
         THEN IF parked[a] THEN "WAITING" ELSE "ACTIVE"
         ELSE @]
  /\ task' = [task EXCEPT ![a] = IF @ \in {"READY", "FAILED"} THEN "RUNNING" ELSE @]
  /\ mission' = IF a = lead /\ mission = "BLOCKED" THEN "RUNNING" ELSE mission

(* adopt, for the conversation that already has this Mission: the CLI that    *)
(* the user attached by hand becomes the runtime of the Lead.                 *)
Reattach ==
  /\ "reattach" \in Events
  /\ Rebind(lead, ForeignSession)
  /\ runtime' = [runtime EXCEPT ![lead][ForeignSession] = "live"]
  /\ UNCHANGED <<trashed, lead, deps, supervisor, active, parked, rows, handler, reconciling, deletion>>

Settled == \A a \in Created : assignment[a] \in SettledAssignment

(* deleteSessionTree: checks that everything is settled, closes the runtimes  *)
(* one await after the other, then cancels and trashes the Mission by what    *)
(* the snapshot said of it.                                                   *)
BeginDelete ==
  /\ "delete" \in Events
  /\ deletion = NoDeletion /\ ~trashed
  /\ Settled
  /\ deletion' = [mission |-> mission,
       sessions |-> {p \in Assignments \X Runtimes : \E n \in Ordinals : session[p[1]][n] = p[2]}]
  /\ UNCHANGED <<ledger, rows, handler, reconciling, runtime>>

EndDelete ==
  LET asked == IF deletion.mission \in TerminalMission THEN mission ELSE "CANCELLED"
      moved == IF asked \in MissionNext(mission) THEN asked ELSE mission
  IN /\ deletion # NoDeletion
     /\ runtime' = [a \in Assignments |-> [r \in Runtimes |->
          IF <<a, r>> \in deletion.sessions THEN "gone" ELSE runtime[a][r]]]
     /\ mission' = moved
     /\ trashed' = (moved = asked /\ moved \in TerminalMission)
     /\ deletion' = NoDeletion
     /\ UNCHANGED <<lead, assignment, task, deps, supervisor, active, attempt, session, parked, rows,
                    handler, reconciling>>

-----------------------------------------------------------------------------
(* Runtimes and recovery *)

(* reconcileExpired and reconcileAll read the list of Attempts to ask about    *)
(* once, unless a reconciliation is under way: working ones of a lease that    *)
(* ran out, or all after a start.  STARTING without a handle is left to the    *)
(* outbox; a RUNNING or WAITING one always has a handle (RunningHasSession).   *)
Expirable ==
  {[a |-> a, n |-> active[a], on |-> ActiveSession(a)] :
     a \in {b \in Probed : ActiveAttempt(b) \in WorkingAttempt /\ ActiveSession(b) # NoSession}}

BeginSweep(S) ==
  /\ "recovery" \in Events
  /\ sweep = {} /\ probe = NoProbe
  /\ S # {}
  /\ sweep' = S
  /\ UNCHANGED <<ledger, rows, handler, probe, deletion, runtime>>

(* doReconcile, up to `await adapter.reconcile`, for the next of the list: it  *)
(* looks again whether the Attempt is active, but not at its state.            *)
Ask(p) ==
  /\ probe = NoProbe
  /\ sweep' = sweep \ {p}
  /\ probe' = IF active[p.a] = p.n THEN p ELSE NoProbe
  /\ UNCHANGED <<ledger, rows, handler, deletion, runtime>>

(* The adapter found the runtime. *)
ProbeAlive ==
  /\ probe # NoProbe
  /\ runtime[probe.a][probe.on] = "live"
  /\ Rebind(probe.a, probe.on)
  /\ probe' = NoProbe
  /\ UNCHANGED <<sweep, trashed, lead, deps, supervisor, active, parked, rows, handler, deletion, runtime>>

(* The adapter does not know, threw, or rebinding threw: nothing but a log. *)
ProbeUnknown ==
  /\ probe # NoProbe
  /\ probe' = NoProbe
  /\ UNCHANGED <<sweep, ledger, rows, handler, deletion, runtime>>

Lost(s) == IF s \in WorkingAttempt THEN "STALE" ELSE s

(* orphanAttemptFromRuntime: the Assignment of the active Attempt becomes     *)
(* ORPHANED whatever state it is in; losing the Lead blocks the Mission.      *)
Orphan(a, n) ==
  IF active[a] # n
    THEN UNCHANGED <<attempt, assignment, task, mission, parked>>
    ELSE /\ attempt' = [attempt EXCEPT ![a][n] = Lost(@)]
         /\ assignment' = [assignment EXCEPT ![a] = "ORPHANED"]
         /\ mission' = IF mission = "RUNNING" THEN "BLOCKED" ELSE mission
         /\ parked' = Unparked(a)
         /\ UNCHANGED task

(* The runtime is missing, because it was closed or because it exited by      *)
(* itself (only this answer tells the ledger that it did): the Lead is        *)
(* orphaned, a worker has failed.                                             *)
ProbeMissing ==
  /\ probe # NoProbe
  /\ "exit" \in Events \/ runtime[probe.a][probe.on] # "live"
  /\ runtime' = [runtime EXCEPT ![probe.a][probe.on] = "gone"]
  /\ IF lead = probe.a THEN Orphan(probe.a, probe.n)
     ELSE FailAttempt(probe.a, probe.n) /\ UNCHANGED mission
  /\ probe' = NoProbe
  /\ UNCHANGED <<sweep, trashed, lead, deps, supervisor, active, session, rows, handler, deletion>>

Requeued(row) == IF row.state = "PROCESSING" THEN [row EXCEPT !.state = "PENDING"] ELSE row

(* The application dies and starts again: awaiting handlers are gone,         *)
(* recoverInterruptedOutbox requeues what they were doing and                 *)
(* reconcileMissionsWithoutActiveAssignments closes an exhausted Mission.     *)
RestartWith(starts) ==
  LET requeued(table) == [a \in Assignments |-> [n \in Ordinals |-> Requeued(table[a][n])]]
  IN /\ startRow' = requeued(starts)
     /\ cancelRow' = requeued(cancelRow)
     /\ handler' = [a \in Assignments |-> Idle]
     /\ sweep' = {}
     /\ probe' = NoProbe
     /\ deletion' = NoDeletion
     /\ mission' = IF ~trashed /\ Exhausted(assignment) THEN "CANCELLED" ELSE mission
     /\ UNCHANGED <<trashed, lead, assignment, task, deps, supervisor, active, attempt, session,
                    parked, runtime>>

Restart == RestartWith(startRow)

(* The process dies between failOutbox and failAttemptFromRuntime, which are  *)
(* two transactions.                                                          *)
DieGivingUp(a) ==
  /\ "giveUpCrash" \in Events
  /\ "startError" \in Events
  /\ handler[a].op \in {"start", "activate"}
  /\ startRow[a][handler[a].n].tries >= MaxTries
  /\ RestartWith([startRow EXCEPT ![a][handler[a].n].state = "FAILED"])

-----------------------------------------------------------------------------

Runner(a) ==
  \/ \E n \in Ordinals : BeginStart(a, n) \/ SkipStart(a, n) \/ BeginCancel(a, n)
  \/ Spawn(a) \/ Bind(a) \/ EndStart(a) \/ BindStale(a) \/ StartError(a)
  \/ EndCancel(a) \/ CancelError(a)

Caller(a) ==
  \/ \E batch \in SUBSET (Assignments \ Created) :
       \E needs \in [batch -> SUBSET (Created \cup batch)] : Delegate(batch, a, needs)
  \/ \E n \in Ordinals, success \in BOOLEAN : Complete(a, n, success)
  \/ PromoteLead(a)

Control(a) ==
  \/ Park(a) \/ Consume(a)
  \/ Cancel(a) \/ Retry(a) \/ Reassign(a)
  \/ \E paused \in BOOLEAN : Pause(a, paused)

Recovery ==
  \/ \E a \in Assignments : DieGivingUp(a)
  \/ \E S \in SUBSET Expirable : BeginSweep(S)
  \/ \E p \in sweep : Ask(p)
  \/ ProbeAlive \/ ProbeUnknown \/ ProbeMissing
  \/ Restart

Next ==
  \/ \E a \in Assignments : Runner(a) \/ Caller(a)
  \/ \E a \in Targets : Control(a)
  \/ \E outcome \in TerminalMission : Finish(outcome)
  \/ Revise \/ Reattach \/ BeginDelete \/ EndDelete
  \/ Recovery

Spec == Init /\ [][Next]_vars
-----------------------------------------------------------------------------
(* Properties *)

MissionTyped ==
  /\ mission \in MissionStates
  /\ trashed \in BOOLEAN
  /\ lead \in Assignments

AssignmentsTyped ==
  /\ assignment \in [Assignments -> AssignmentStates \cup {Absent}]
  /\ task \in [Assignments -> TaskStates \cup {Absent}]
  /\ deps \in [Assignments -> SUBSET Assignments]
  /\ supervisor \in [Assignments -> Assignments \cup {None}]
  /\ active \in [Assignments -> Ordinals]
  /\ parked \in [Assignments -> BOOLEAN]

AttemptsTyped ==
  /\ attempt \in [Assignments -> [Ordinals -> AttemptStates \cup {Absent}]]
  /\ session \in [Assignments -> [Ordinals -> Runtimes \cup {NoSession}]]

RowsTyped ==
  /\ startRow \in [Assignments -> [Ordinals -> Row]]
  /\ cancelRow \in [Assignments -> [Ordinals -> Row]]

ActorsTyped ==
  /\ handler \in [Assignments -> Handlers]
  /\ sweep \subseteq Probes
  /\ probe \in Probes \cup {NoProbe}
  /\ deletion \in Deletions
  /\ runtime \in [Assignments -> [Runtimes -> {"none", "live", "gone"}]]

(* The columns hold the values their readers expect (parseState of the row   *)
(* mappers), and the handlers remember Attempts that exist.                   *)
TypeOK == MissionTyped /\ AssignmentsTyped /\ AttemptsTyped /\ RowsTyped /\ ActorsTyped

(* A RUNNING or WAITING Attempt has a runtime handle, whoever set its state:  *)
(* recovery has nothing to probe and delivery nothing to talk to without it,  *)
(* and orphaning for `runtime_handle_missing` is unreachable.                 *)
RunningHasSession ==
  \A a \in Assignments, n \in Ordinals :
    attempt[a][n] \in {"RUNNING", "WAITING"} => session[a][n] # NoSession

(* An Assignment has at most one Attempt that has not ended, the active one:  *)
(* a replaced Attempt was ended by what replaced it, and no handler or        *)
(* recovery that still remembers it brings it back.                           *)
OneLiveAttempt ==
  \A a \in Assignments, n \in Ordinals :
    n # active[a] => attempt[a][n] \in TerminalAttempt \cup {Absent}

(* An Attempt that waits to be started has an outbox row that will start it,  *)
(* through failed starts and restarts: nothing else would ever start it.      *)
StartIntentSurvives ==
  \A a \in Assignments :
    ActiveAttempt(a) \in {"PLANNED", "STARTING"} =>
      startRow[a][active[a]].state \in {"PENDING", "PROCESSING"}

(* When the last task is completed the Mission leaves RUNNING for review, in  *)
(* whatever order tasks complete, Leads change and runtimes come and go.      *)
DoneMissionIsReviewable ==
  (\A a \in Created : task[a] = "COMPLETED") => mission \notin {"RUNNING", "BLOCKED"}

(* The user reviews and accepts finished work only: no task is open in a      *)
(* Mission that is VERIFYING or COMPLETED.                                    *)
ReviewedMissionIsDone ==
  mission \in {"VERIFYING", "COMPLETED"} => \A a \in Created : task[a] = "COMPLETED"

(* Review is offered exactly when the work is done.                           *)
ReviewIsDue == DoneMissionIsReviewable /\ ReviewedMissionIsDone

(* A task's COMPLETED is the word of the active Attempt, not of one that was  *)
(* replaced, lost or rejected in a revision.                                  *)
CompletedTaskSucceeded ==
  \A a \in Created : task[a] = "COMPLETED" => ActiveAttempt(a) = "SUCCEEDED"

(* A task is open for dispatch, or running, only when every task it depends   *)
(* on is completed, even after it or its dependency was started over.         *)
DependencyGate ==
  \A a \in Created : task[a] \in {"READY", "RUNNING"} => DependenciesDone(a)

(* The runtime of the Attempt that works is not the one an outbox row is      *)
(* about to close for an Attempt that was interrupted.                        *)
NoDoomedBinding ==
  \A a \in Created : Interrupted(a) =>
    \A n \in Ordinals :
      cancelRow[a][n].state \in {"PENDING", "PROCESSING"} => session[a][n] # ActiveSession(a)

(* The responsibility relation is a tree whose root is the Lead: from every   *)
(* other Assignment the supervisors lead up to it, after any promotions.      *)
SupervisionTree ==
  /\ supervisor[lead] = None
  /\ \A S \in SUBSET (Created \ {lead}) :
       S # {} => \E a \in S : supervisor[a] \in Created \ S

(* Only a working Attempt of an Assignment that can resume owns an unfinished *)
(* continuation: pausing, orphaning, failing, replacing cannot strand one.    *)
ParkedIsWorking ==
  \A a \in Assignments : parked[a] =>
    /\ ActiveAttempt(a) \in {"RUNNING", "WAITING"}
    /\ assignment[a] \in {"ACTIVE", "WAITING", "PAUSED"}

(* Nobody waits for nothing: what is WAITING, Attempt or Assignment, has an   *)
(* unfinished continuation that can resume it, also after pausing, rebinding  *)
(* to another runtime, and resuming.                                          *)
WaitingIsParked ==
  \A a \in Assignments :
    ActiveAttempt(a) = "WAITING" \/ assignment[a] = "WAITING" => parked[a]

(* Who waits can be woken: by a continuation of its own, in a runtime that    *)
(* can be reached, and nobody else is.  Every path that pauses, loses, rebinds *)
(* or replaces an Attempt has to keep the three tables in step.               *)
WaitersCanBeWoken == ParkedIsWorking /\ WaitingIsParked /\ RunningHasSession

(* Nothing works for a Mission that is CANCELLED: every current Attempt has   *)
(* ended, also those whose start was in flight.                               *)
CancelledMissionIsQuiet ==
  mission = "CANCELLED" => \A a \in Created : ActiveAttempt(a) \in TerminalAttempt

(* A Session tree in the trash is settled, although the check that it is was  *)
(* made before its runtimes were closed one by one.                           *)
TrashedIsSettled == trashed => Settled

(* A Mission with a cancelled Assignment and no live one is closed.           *)
ExhaustedIsClosed ==
  (\A a \in Assignments : assignment[a] \notin LiveAssignment)
     /\ (\E a \in Assignments : assignment[a] = "CANCELLED") => mission \in TerminalMission

(* CANCELLED has no successor in ASSIGNMENT_TRANSITIONS.                      *)
CancelledStaysCancelled ==
  [][\A a \in Assignments : assignment[a] = "CANCELLED" => assignment'[a] = "CANCELLED"]_vars

(* COMPLETED has no successor in ASSIGNMENT_TRANSITIONS.                      *)
CompletedStaysCompleted ==
  [][\A a \in Assignments : assignment[a] = "COMPLETED" => assignment'[a] = "COMPLETED"]_vars

(* When the outbox has started the runtime of an Attempt that is cancelled,   *)
(* the runtime is gone again, or a row to close it is in the outbox.          *)
CancelledRuntimeIsClosed ==
  \A a \in Assignments, n \in Ordinals :
    attempt[a][n] = "CANCELLED" /\ startRow[a][n].state = "COMPLETED" /\ runtime[a][n] = "live" =>
      cancelRow[a][n].state # Absent
-----------------------------------------------------------------------------
(* The ledger as a log of Attempts *)

PhaseOf(s) ==
  CASE s = Absent -> "none"
    [] s = "PLANNED" -> "planned"
    [] s \in WorkingAttempt -> "working"
    [] OTHER -> "ended"

Entry(a, n) == [phase |-> PhaseOf(attempt[a][n]), handle |-> session[a][n]]
AttemptsLog == [a \in Assignments |-> [newest |-> active[a], entry |-> [n \in Ordinals |-> Entry(a, n)]]]

Log == INSTANCE AttemptLog WITH
  Length <- MaxAttempts, Handles <- Runtimes, NoHandle <- NoSession, log <- AttemptsLog

(* The Attempts of each Assignment are the append-only log that AttemptLog    *)
(* promises, under callers, the runner, recovery and restarts.                *)
AttemptsAreALog == Log!Spec
=============================================================================
