---------------------------- MODULE OutboxRunner ----------------------------
(***************************************************************************)
(* The scheduling of OrchestrationOutboxRunner                              *)
(* (apps/desktop-main/src/services/orchestration-outbox-runner.ts): a       *)
(* wake-up timer, a deadline timer, one drain at a time, and the two durable *)
(* queues it serves, outbox rows and the resume intents of continuations.   *)
(* What a row does to the Mission is in MissionLedger; here rows and intents *)
(* only are pending, under way or over, and become available at some time.  *)
(* Time is what is left of a delay, in ticks.                               *)
(*                                                                         *)
(* JavaScript runs a step up to the next await without interruption, so a   *)
(* timer that fires, and the end of an awaited batch, are one step together *)
(* with everything they do synchronously; and no timer fires before a       *)
(* promise that is settled has been followed up.                            *)
(***************************************************************************)
EXTENDS Naturals, FiniteSets

CONSTANTS
  Rows,         \* the outbox rows, numbered in the order of their created_at
  Aggregate,    \* the Assignment a row belongs to
  Intents,      \* the continuations, each with the resume intent it may get
  Timed,        \* those that have a deadline
  Off,          \* no timer
  Limit,        \* rows or intents that one query returns (20 in the code)
  MaxTries,     \* options.maxAttempts
  Delay,        \* ticks before a retry, whatever the backoff makes of it
  MaxRestarts,  \* bound on restarts of the application
  Events        \* what may happen in this instance

(* "busyRows", "busyIntents": transactions about rows, or about               *)
(* continuations, commit while a drain is under way; "throw": adapters throw; *)
(* "blocked": rows of tasks that wait for others; "recovery": the recovery    *)
(* service's transactions.                                                    *)
EventKinds == {"busyRows", "busyIntents", "throw", "blocked", "recovery"}

ASSUME RunnerAssumption ==
  /\ Rows \subseteq Nat
  /\ Timed \subseteq Intents
  /\ Off \notin Nat
  /\ Limit \in Nat \ {0}
  /\ MaxTries \in Nat \ {0}
  /\ Delay \in Nat \ {0}
  /\ MaxRestarts \in Nat
  /\ Events \subseteq EventKinds

Ticks == 0 .. Delay
RowStates == {"ABSENT", "PENDING", "PROCESSING", "COMPLETED", "FAILED"}
IntentStates == {"ABSENT", "ARMED", "PENDING", "PROCESSING", "DELIVERED", "CLOSED"}

VARIABLES
  row,        \* orchestration_outbox.state
  rowDue,     \* ticks until available_at
  tries,      \* attempts
  blocked,    \* the start rows whose task is BLOCKED
  intent,     \* ARMED while the continuation is, then the state of its resume intent;
              \* CLOSED is acknowledged or cancelled
  intentDue,  \* ticks until the deadline while ARMED, then until available_at
  timer,      \* wakeTimer, wakeAt
  alarm,      \* continuationDeadlineTimer
  drain,      \* running: what doDrain has listed and awaits
  restarts

rowVars == <<row, rowDue, tries, blocked>>
intentVars == <<intent, intentDue>>
timers == <<timer, alarm>>
runnerVars == <<rowVars, intentVars, timers, drain, restarts>>

(* full: the query returned as much as it may, so there may be more *)
NotDraining == [phase |-> "idle", open |-> {}, full |-> FALSE]
Idle == drain = NotDraining
Awaiting == Idle \/ drain.open # {}

-----------------------------------------------------------------------------
(* Faults: definitions of the same parameters below, each with a mistake that *)
(* is easy to make.  No action uses them; every property of a passing run is  *)
(* broken by one of them.                                                     *)

RearmedNever(t, state) == t
NextAlarmLost(state) == Off
HeadOfQueue(r) == drain.phase = "rows" /\ r \in drain.open
RequeuedNot(state) == state

-----------------------------------------------------------------------------
(* What the queries return *)

DueRows == {r \in Rows : row[r] = "PENDING" /\ rowDue[r] = 0}
DueIntents(state) == {i \in Intents : state[i] = "PENDING" /\ intentDue[i] = 0}

ListedRows == {r \in DueRows : Cardinality({s \in DueRows : s < r}) < Limit}
Full(listed) == Cardinality(listed) = Limit

(* wake: an earlier timer stays, a later one is replaced *)
Wake(t, delay) == IF t = Off \/ t > delay THEN delay ELSE t

Dues(S) == {intentDue[i] : i \in S}
Earliest(S) == CHOOSE d \in Dues(S) : \A e \in Dues(S) : d <= e

(* the end of doDrain: the earliest pending intent gets the timer ... *)
Rearmed(t, state) ==
  LET S == {i \in Intents : state[i] = "PENDING"}
  IN IF S = {} THEN t ELSE Wake(t, Earliest(S))

(* ... and scheduleContinuationDeadline gives the alarm to the next deadline *)
NextAlarm(state) ==
  LET S == {i \in Timed : state[i] = "ARMED"}
  IN IF S = {} THEN Off ELSE Earliest(S)

(* recoverAndReconcileContinuations: deadlines that passed make intents *)
Expired(state) ==
  [i \in Intents |-> IF i \in Timed /\ state[i] = "ARMED" /\ intentDue[i] = 0
                      THEN "PENDING" ELSE state[i]]

(* readyContinuation, of the continuations in S: their intents are due now *)
Armed == {i \in Intents : intent[i] = "ARMED"}
Pending(S) ==
  /\ intent' = [i \in Intents |-> IF i \in S THEN "PENDING" ELSE intent[i]]
  /\ intentDue' = [i \in Intents |-> IF i \in S THEN 0 ELSE intentDue[i]]

-----------------------------------------------------------------------------
(* The drain *)

(* drainResumeIntents: lists what is due and starts delivering all of it;     *)
(* with nothing left the drain is over.                                      *)
ToIntents(t, state) ==
  LET due == DueIntents(state) IN
  IF due = {}
    THEN /\ drain' = NotDraining
         /\ timer' = Rearmed(t, state)
         /\ alarm' = NextAlarm(state)
         /\ intent' = state
    ELSE \E listed \in SUBSET due :
         /\ Full(listed) \/ (listed = due /\ Cardinality(due) < Limit)
         /\ drain' = [phase |-> "intents", open |-> listed, full |-> Full(listed)]
         /\ intent' = [i \in Intents |-> IF i \in listed THEN "PROCESSING" ELSE state[i]]
         /\ timer' = t
         /\ alarm' = alarm

ToRows(t, state) ==
  IF DueRows = {}
    THEN ToIntents(t, state)
    ELSE /\ drain' = [phase |-> "rows", open |-> ListedRows, full |-> Full(ListedRows)]
         /\ intent' = state
         /\ timer' = t
         /\ alarm' = alarm

(* The timer fires.  drain() of a drain under way only returns its promise.   *)
Fire ==
  /\ timer = 0 /\ Awaiting
  /\ IF Idle THEN ToRows(Off, Expired(intent)) ELSE timer' = Off /\ UNCHANGED <<drain, intent, alarm>>
  /\ UNCHANGED <<rowVars, intentDue, restarts>>

(* the deadline timer fires: wake *)
Ring ==
  /\ alarm = 0 /\ Awaiting
  /\ alarm' = Off
  /\ timer' = Wake(timer, 0)
  /\ UNCHANGED <<rowVars, intentVars, drain, restarts>>

(* The rows of an Assignment are taken one after the other. *)
Head(r) ==
  /\ drain.phase = "rows"
  /\ r \in drain.open
  /\ \A s \in drain.open : Aggregate[s] = Aggregate[r] => r <= s

Answered(r) == [drain EXCEPT !.open = @ \ {r}]

(* process sends the row of a BLOCKED task back *)
Postpone(r) ==
  /\ Head(r)
  /\ row[r] = "PENDING" /\ r \in blocked
  /\ rowDue' = [rowDue EXCEPT ![r] = Delay]
  /\ timer' = Wake(timer, Delay)
  /\ drain' = Answered(r)
  /\ UNCHANGED <<row, tries, blocked, intentVars, alarm, restarts>>

(* markOutboxProcessing, up to the await of the adapter *)
Take(r) ==
  /\ Head(r)
  /\ row[r] = "PENDING" /\ r \notin blocked
  /\ row' = [row EXCEPT ![r] = "PROCESSING"]
  /\ tries' = [tries EXCEPT ![r] = IF @ < MaxTries THEN @ + 1 ELSE @]
  /\ UNCHANGED <<rowDue, blocked, intentVars, timers, drain, restarts>>

CompleteRow(r) ==
  /\ Head(r)
  /\ row[r] = "PROCESSING"
  /\ row' = [row EXCEPT ![r] = "COMPLETED"]
  /\ drain' = Answered(r)
  /\ UNCHANGED <<rowDue, tries, blocked, intentVars, timers, restarts>>

(* the catch block: come back later, or give up after MaxTries.  Giving up    *)
(* fails the Attempt, for which a continuation may have been waiting.        *)
Throw(r) ==
  /\ "throw" \in Events
  /\ Head(r)
  /\ row[r] = "PROCESSING"
  /\ drain' = Answered(r)
  /\ IF tries[r] >= MaxTries
       THEN /\ row' = [row EXCEPT ![r] = "FAILED"]
            /\ \E S \in SUBSET Armed : Pending(S)
            /\ UNCHANGED <<rowDue, timer>>
       ELSE /\ row' = [row EXCEPT ![r] = "PENDING"]
            /\ rowDue' = [rowDue EXCEPT ![r] = Delay]
            /\ timer' = Wake(timer, Delay)
            /\ UNCHANGED intentVars
  /\ UNCHANGED <<tries, blocked, alarm, restarts>>

(* Promise.all of the listed rows: list again if there may be more. *)
RowsDone ==
  /\ drain.phase = "rows" /\ drain.open = {}
  /\ IF drain.full THEN ToRows(timer, intent) ELSE ToIntents(timer, intent)
  /\ UNCHANGED <<rowVars, intentDue, restarts>>

(* adapter.deliver returned: markResumeIntentDelivered of one still PROCESSING *)
DeliverIntent(i) ==
  /\ drain.phase = "intents" /\ i \in drain.open
  /\ intent' = [intent EXCEPT ![i] = IF @ = "PROCESSING" THEN "DELIVERED" ELSE @]
  /\ drain' = Answered(i)
  /\ UNCHANGED <<rowVars, intentDue, timers, restarts>>

(* it threw, or there is no runtime to deliver to: retryResumeIntent, wake *)
RefuseIntent(i) ==
  /\ "throw" \in Events
  /\ drain.phase = "intents" /\ i \in drain.open
  /\ intent' = [intent EXCEPT ![i] = IF @ = "PROCESSING" THEN "PENDING" ELSE @]
  /\ intentDue' = [intentDue EXCEPT ![i] = IF intent[i] = "PROCESSING" THEN Delay ELSE @]
  /\ timer' = Wake(timer, Delay)
  /\ drain' = Answered(i)
  /\ UNCHANGED <<rowVars, alarm, restarts>>

IntentsDone ==
  /\ drain.phase = "intents" /\ drain.open = {}
  /\ IF drain.full
       THEN ToIntents(timer, intent)
       ELSE /\ drain' = NotDraining
            /\ timer' = Rearmed(timer, intent)
            /\ alarm' = NextAlarm(intent)
            /\ UNCHANGED intent
  /\ UNCHANGED <<rowVars, intentDue, restarts>>

-----------------------------------------------------------------------------
(* Transactions of the service, each followed at once by outbox.wake() *)

Undisturbed(kind) == Idle \/ kind \in Events

(* a transaction inserts a row: delegation, retry, reassignment, cancellation *)
Commit(r) ==
  /\ Undisturbed("busyRows")
  /\ row[r] = "ABSENT" /\ \A s \in Rows : s < r => row[s] # "ABSENT"
  /\ row' = [row EXCEPT ![r] = "PENDING"]
  /\ blocked' \in {blocked} \cup (IF "blocked" \in Events THEN {blocked \cup {r}} ELSE {})
  /\ timer' = Wake(timer, 0)
  /\ UNCHANGED <<rowDue, tries, intentVars, alarm, drain, restarts>>

(* promoteReadyTasks makes the row of a task available that becomes READY *)
Promote(r) ==
  /\ Undisturbed("busyRows")
  /\ r \in blocked
  /\ blocked' = blocked \ {r}
  /\ rowDue' = [rowDue EXCEPT ![r] = IF row[r] = "PENDING" THEN 0 ELSE @]
  /\ timer' = Wake(timer, 0)
  /\ UNCHANGED <<row, tries, intentVars, alarm, drain, restarts>>

(* armContinuation *)
Arm(i) ==
  /\ Undisturbed("busyIntents")
  /\ intent[i] = "ABSENT"
  /\ intent' = [intent EXCEPT ![i] = "ARMED"]
  /\ intentDue' = [intentDue EXCEPT ![i] = IF i \in Timed THEN Delay ELSE 0]
  /\ timer' = Wake(timer, 0)
  /\ UNCHANGED <<rowVars, alarm, drain, restarts>>

(* a transaction brings about what continuations wait for *)
Satisfy(S) ==
  /\ Undisturbed("busyIntents")
  /\ S # {}
  /\ Pending(S)
  /\ timer' = Wake(timer, 0)
  /\ UNCHANGED <<rowVars, alarm, drain, restarts>>

(* The same in a transaction of the recovery service, which lost or failed    *)
(* the awaited Assignment: nothing wakes the runner.                         *)
SatisfyByRecovery(S) ==
  /\ "recovery" \in Events
  /\ S # {}
  /\ Pending(S)
  /\ UNCHANGED <<rowVars, timers, drain, restarts>>

(* consumeContinuation and cancelContinuation, at any time *)
Close(i) ==
  /\ intent[i] \in {"ARMED", "PENDING", "PROCESSING", "DELIVERED"}
  /\ intent' = [intent EXCEPT ![i] = "CLOSED"]
  /\ UNCHANGED <<rowVars, intentDue, timers, drain, restarts>>

-----------------------------------------------------------------------------
(* Time and restarts *)

Less(t) == IF t = 0 THEN 0 ELSE t - 1

Tick ==
  /\ Awaiting
  /\ timer \notin {Off, 0} \/ alarm \notin {Off, 0}
     \/ (\E r \in Rows : rowDue[r] > 0) \/ (\E i \in Intents : intentDue[i] > 0)
  /\ rowDue' = [r \in Rows |-> Less(rowDue[r])]
  /\ intentDue' = [i \in Intents |-> Less(intentDue[i])]
  /\ timer' = IF timer = Off THEN Off ELSE Less(timer)
  /\ alarm' = IF alarm = Off THEN Off ELSE Less(alarm)
  /\ UNCHANGED <<row, tries, blocked, intent, drain, restarts>>

Requeued(state) == IF state = "PROCESSING" THEN "PENDING" ELSE state

(* The application dies and starts: recoverInterruptedOutbox,                 *)
(* recoverAndReconcileContinuations, scheduleContinuationDeadline, wake.      *)
RestartRunner ==
  /\ restarts < MaxRestarts
  /\ restarts' = restarts + 1
  /\ row' = [r \in Rows |-> Requeued(row[r])]
  /\ intent' = Expired([i \in Intents |-> Requeued(intent[i])])
  /\ intentDue' = [i \in Intents |-> IF intent[i] = "PROCESSING" THEN 0 ELSE intentDue[i]]
  /\ timer' = 0
  /\ alarm' = NextAlarm(intent')
  /\ drain' = NotDraining
  /\ UNCHANGED <<rowDue, tries, blocked>>

RunnerInit ==
  /\ row = [r \in Rows |-> "ABSENT"]
  /\ rowDue = [r \in Rows |-> 0]
  /\ tries = [r \in Rows |-> 0]
  /\ blocked = {}
  /\ intent = [i \in Intents |-> "ABSENT"]
  /\ intentDue = [i \in Intents |-> 0]
  /\ timer = 0
  /\ alarm = Off
  /\ drain = NotDraining
  /\ restarts = 0

ServeRow(r) == Postpone(r) \/ Take(r) \/ CompleteRow(r) \/ Throw(r)
ServeIntent(i) == DeliverIntent(i) \/ RefuseIntent(i)

RunnerNext ==
  \/ Fire \/ Ring \/ RowsDone \/ IntentsDone \/ Tick \/ RestartRunner
  \/ \E r \in Rows : ServeRow(r) \/ Commit(r) \/ Promote(r)
  \/ \E i \in Intents : ServeIntent(i) \/ Arm(i) \/ Close(i)
  \/ \E S \in SUBSET Armed : Satisfy(S) \/ SatisfyByRecovery(S)

(* Time passes, a timer that is due fires, promises that can go on do, and     *)
(* adapters answer every call sooner or later.  Callers need not call.         *)
Fairness ==
  /\ WF_runnerVars(Tick) /\ WF_runnerVars(Fire) /\ WF_runnerVars(Ring) /\ WF_runnerVars(RowsDone) /\ WF_runnerVars(IntentsDone)
  /\ \A r \in Rows : WF_runnerVars(ServeRow(r))
  /\ \A i \in Intents : WF_runnerVars(ServeIntent(i))

RunnerSpec == RunnerInit /\ [][RunnerNext]_runnerVars /\ Fairness
-----------------------------------------------------------------------------
(* Properties *)

(* The queues hold what their readers accept, and the drain remembers only    *)
(* rows in its first phase and only intents in its second.                    *)
RunnerTypeOK ==
  /\ row \in [Rows -> RowStates] /\ rowDue \in [Rows -> Ticks] /\ tries \in [Rows -> 0 .. MaxTries]
  /\ blocked \subseteq Rows
  /\ intent \in [Intents -> IntentStates] /\ intentDue \in [Intents -> Ticks]
  /\ timer \in Ticks \cup {Off} /\ alarm \in Ticks \cup {Off}
  /\ \/ drain = NotDraining
     \/ drain \in [phase : {"rows"}, open : SUBSET Rows, full : BOOLEAN]
     \/ drain \in [phase : {"intents"}, open : SUBSET Intents, full : BOOLEAN]
  /\ restarts \in 0 .. MaxRestarts

(* Two rows of one Assignment are never under way at the same time, however   *)
(* wake-ups and drains overlap: its runtime is not closed while it starts.    *)
OneRowAtATime ==
  \A r, s \in Rows :
    row[r] = "PROCESSING" /\ row[s] = "PROCESSING" /\ Aggregate[r] = Aggregate[s] => r = s

(* Only a drain has calls under way: whatever is PROCESSING will be answered  *)
(* to the drain that still has it, or is requeued at the next start.          *)
UnderWayIsAwaited ==
  /\ \A r \in Rows : row[r] = "PROCESSING" => drain.phase = "rows" /\ r \in drain.open
  /\ \A i \in Intents : intent[i] = "PROCESSING" => drain.phase = "intents" /\ i \in drain.open

(* A pending intent is never left without a timer: when no drain is under way *)
(* one will fire no later than the intent becomes available, whatever other   *)
(* wake-ups replaced in between.                                             *)
IntentIsScheduled ==
  Idle => \A i \in Intents : intent[i] = "PENDING" => timer # Off /\ timer <= intentDue[i]

(* A resume intent is taken up sooner or later (ADR-0050: "cannot lose a       *)
(* wake-up"), through failed deliveries, restarts and wake-ups that fall into  *)
(* a drain.                                                                  *)
IntentIsTaken == \A i \in Intents : intent[i] = "PENDING" ~> intent[i] # "PENDING"

(* A continuation whose deadline passed is resumed or over sooner or later.    *)
DeadlineIsMet == \A i \in Timed : intent[i] = "ARMED" ~> intent[i] # "ARMED"

(* An outbox row whose task is not blocked is taken up sooner or later.        *)
RowIsTaken ==
  \A r \in Rows : (row[r] = "PENDING" /\ r \notin blocked) ~> row[r] # "PENDING"

(* Whatever is pending is taken up and whatever is due is resumed, although    *)
(* rows, intents and deadlines share one timer and one drain, which an earlier *)
(* wake-up or a running drain may use up.                                      *)
PendingIsTaken == IntentIsTaken /\ RowIsTaken /\ DeadlineIsMet
=============================================================================
