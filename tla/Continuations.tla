--------------------------- MODULE Continuations ---------------------------
(***************************************************************************)
(* Durable wake-ups (ADR-0050).  An agent that waits for others parks: it   *)
(* registers a continuation with conditions and ends its turn.  Whatever    *)
(* transaction makes the conditions true makes the continuation READY and   *)
(* files a resume intent; the outbox runner types the prompt of the intent  *)
(* into the agent's runtime, and the agent consumes the continuation.       *)
(*                                                                         *)
(* The tables orchestration_continuations, _continuation_targets,           *)
(* _resume_intents and _messages of packages/persistence, the part of the   *)
(* outbox runner that awaits a runtime between two transactions about them, *)
(* and the agent, which sleeps between its turns.  How Assignments live is  *)
(* MissionLedger's matter and when the runner works OutboxRunner's: here    *)
(* both may do at any time what they may do at some time.                   *)
(***************************************************************************)
EXTENDS Naturals

CONSTANTS
  Assignments,  \* the Assignments of the Mission
  Root,         \* the Lead's
  None,         \* SQL NULL
  Kinds,        \* what messages are told apart by: type and thread together
  Waits,        \* what agents wait for: mode, conditions, and whether up to a deadline
  Letters,      \* the messages that may be sent: receiver, sender, kind
  Owners,       \* the Assignments that may park
  MaxParks,     \* bound on continuations
  MaxMessages,  \* bound on messages
  MaxAttempts,  \* bound on the Attempts of an Assignment
  KeyReuse      \* whether agents may park with a key they used before

Settled == {"COMPLETED", "FAILED", "CANCELLED", "ORPHANED"}
AssignmentStates == {"ABSENT", "PENDING", "ACTIVE", "WAITING"} \cup Settled

(* A condition about an Assignment names terminal states, all four if the    *)
(* caller names none; one about messages names kinds and perhaps a sender.   *)
Conditions ==
  [kind : {"assignment_terminal"}, who : Assignments, what : SUBSET Settled] \cup
  [kind : {"message"}, who : Assignments \cup {None}, what : SUBSET Kinds]

ASSUME ContinuationsAssumption ==
  /\ Root \in Assignments
  /\ None \notin Assignments
  /\ Letters \subseteq [to : Assignments, from : Assignments \cup {None}, kind : Kinds]
  /\ Owners \subseteq Assignments
  /\ Waits \subseteq [mode : {"all", "any"}, targets : SUBSET Conditions \ {{}},
                    deadline : {"none", "ahead"}]
  /\ MaxParks \in Nat /\ MaxMessages \in Nat /\ MaxAttempts \in Nat \ {0}
  /\ KeyReuse \in BOOLEAN

Parks == 1 .. MaxParks
Message(seq, letter) ==
  [seq |-> seq, to |-> letter.to, from |-> letter.from, kind |-> letter.kind]
Messages == {Message(seq, letter) : seq \in 1 .. MaxMessages, letter \in Letters}

Open == {"ARMED", "READY", "DELIVERING", "DELIVERED"}
Continuation ==
  [owner : Assignments \cup {None},      \* owner_assignment_id
   attempt : 0 .. MaxAttempts,           \* owner_attempt_id, by its ordinal
   mode : {"all", "any"},
   targets : SUBSET Conditions,
   met : SUBSET Conditions,              \* targets with satisfied_at
   cursor : 0 .. MaxMessages,            \* cursor_sequence
   deadline : {"none", "ahead", "passed"},
   state : Open \cup {"ABSENT", "CONSUMED", "CANCELLED"},
   intent : {"ABSENT", "PENDING", "PROCESSING", "DELIVERED", "ACKNOWLEDGED", "CANCELLED"}]

NoContinuation ==
  [owner |-> None, attempt |-> 0, mode |-> "all", targets |-> {}, met |-> {},
   cursor |-> 0, deadline |-> "none", state |-> "ABSENT", intent |-> "ABSENT"]

VARIABLES
  assignment,  \* assignments.state; PAUSED is ACTIVE or WAITING here
  active,      \* ordinal of active_attempt_id
  attempt,     \* state of the active Attempt: to be started, at work, or ended
  sent,        \* orchestration_messages that are addressed and not suppressed
  last,        \* the last sequence number
  cont,        \* continuations, each with its targets and its resume intent
  flight,      \* how far processResumeIntent is with its adapter.deliver
  typed,       \* the prompts of a continuation typed into the runtime, less those
               \* whose delivery failed or was cut short after the typing
  asleep       \* the agent of the active Attempt ended its turn as park told it

ledger == <<assignment, active, attempt>>
mail == <<sent, last>>
delivery == <<flight, typed>>
vars == <<ledger, mail, cont, delivery, asleep>>

-----------------------------------------------------------------------------
(* Faults: mistakes that are easy to make in the definitions of the same      *)
(* parameters below; no action uses them.                                     *)

HeardFromCursor(t, c, m) ==
  /\ m.to = c.owner
  /\ m.seq >= c.cursor
  /\ t.who \in {None, m.from}
  /\ m.kind \in t.what
EnoughIsAny(c) == c.met # {}
RegisteredOnly(c, states, log) == c
ConfirmedAnyway(c) == [c EXCEPT !.intent = "DELIVERED", !.state = "DELIVERED"]
OverAlways == TRUE

-----------------------------------------------------------------------------
(* What transactions do to a continuation *)

(* the conditions of satisfyContinuationsFromMessage on one message *)
Heard(t, c, m) ==
  /\ m.to = c.owner
  /\ m.seq > c.cursor
  /\ t.who \in {None, m.from}
  /\ m.kind \in t.what

(* What reconcileContinuation finds of a target in the current state. *)
Holds(t, c, states, log) ==
  IF t.kind = "assignment_terminal"
    THEN states[t.who] \in t.what
    ELSE \E m \in log : Heard(t, c, m)

Enough(c) == IF c.mode = "all" THEN c.met = c.targets ELSE c.met # {}

(* readyContinuation: with it the one resume intent is filed. *)
Readied(c) == [c EXCEPT !.state = "READY", !.intent = "PENDING"]

Reconciled(c, states, log) ==
  LET seen == [c EXCEPT !.met = @ \cup {t \in c.targets : Holds(t, c, states, log)}]
  IN IF c.state # "ARMED" THEN c
     ELSE IF Enough(seen) \/ c.deadline = "passed" THEN Readied(seen) ELSE seen

(* armContinuation reads the current state in the transaction that registers. *)
Registered(c, states, log) == Reconciled(c, states, log)

(* cancelContinuation and cancelOwnedContinuations of the active Attempt *)
Cancelled(c) ==
  IF c.state \in Open
    THEN [c EXCEPT !.state = "CANCELLED", !.intent = IF @ = "ABSENT" THEN @ ELSE "CANCELLED"]
    ELSE c
Disowned(a) ==
  [i \in Parks |->
     IF cont[i].owner = a /\ cont[i].attempt = active[a] THEN Cancelled(cont[i]) ELSE cont[i]]

(* satisfyContinuationsFromMessage and satisfyContinuationsFromAssignment: a  *)
(* continuation with a target that the event meets is reconciled.             *)
ToldMessages(conts, posted, states, log) ==
  [i \in Parks |->
     IF /\ conts[i].state = "ARMED"
        /\ \E t \in conts[i].targets \ conts[i].met, m \in posted :
             t.kind = "message" /\ Heard(t, conts[i], m)
       THEN Reconciled(conts[i], states, log) ELSE conts[i]]
ToldEnd(conts, a, states, log) ==
  [i \in Parks |->
     IF /\ conts[i].state = "ARMED"
        /\ \E t \in conts[i].targets \ conts[i].met :
             t.kind = "assignment_terminal" /\ t.who = a /\ states[a] \in t.what
       THEN Reconciled(conts[i], states, log) ELSE conts[i]]

(* markResumeIntentDelivered and retryResumeIntent: nothing if the             *)
(* continuation was consumed or cancelled during the await.                   *)
Confirmed(c) ==
  [c EXCEPT !.intent = IF @ = "PROCESSING" THEN "DELIVERED" ELSE @,
            !.state = IF @ = "DELIVERING" THEN "DELIVERED" ELSE @]
Unconfirmed(c) ==
  [c EXCEPT !.intent = IF @ = "PROCESSING" THEN "PENDING" ELSE @,
            !.state = IF @ = "DELIVERING" THEN "READY" ELSE @]

(* recoverAndReconcileContinuations, of each continuation *)
OwnerInactive(c) ==
  \/ active[c.owner] # c.attempt
  \/ assignment[c.owner] \in Settled
  \/ attempt[c.owner] = "ENDED"
Recovered(c) ==
  IF c.state \in Open /\ OwnerInactive(c) THEN Cancelled(c)
  ELSE Reconciled(Unconfirmed(c), assignment, sent)

-----------------------------------------------------------------------------
(* Messages and the lives of Assignments *)

Init ==
  /\ assignment = [a \in Assignments |-> IF a = Root THEN "ACTIVE" ELSE "ABSENT"]
  /\ active = [a \in Assignments |-> 1]
  /\ attempt = [a \in Assignments |-> IF a = Root THEN "WORKING" ELSE "PLANNED"]
  /\ sent = {}
  /\ last = 0
  /\ cont = [i \in Parks |-> NoContinuation]
  /\ flight = [i \in Parks |-> "none"]
  /\ typed = [i \in Parks |-> 0]
  /\ asleep = [a \in Assignments |-> FALSE]

(* insertMessage of a message that is addressed to somebody; one that is not  *)
(* (the report of an Assignment without supervisor) wakes nobody.             *)
Post(posted) ==
  \/ posted = {} /\ UNCHANGED mail
  \/ \E m \in Messages :
       /\ posted = {m}
       /\ m.seq = last + 1
       /\ last' = m.seq
       /\ sent' = sent \cup posted

Say(m) ==
  /\ assignment[m.to] # "ABSENT"
  /\ m.from # None => assignment[m.from] # "ABSENT"
  /\ Post({m})
  /\ cont' = ToldMessages(cont, {m}, assignment, sent')
  /\ UNCHANGED <<ledger, delivery, asleep>>

(* delegateMany inserts the Assignment and then the message with its task. *)
Delegate(a, posted) ==
  /\ assignment[a] = "ABSENT"
  /\ \A m \in posted : m.to = a
  /\ assignment' = [assignment EXCEPT ![a] = "PENDING"]
  /\ Post(posted)
  /\ cont' = ToldMessages(cont, posted, assignment', sent')
  /\ UNCHANGED <<active, attempt, delivery, asleep>>

(* bindRuntime: the Assignment becomes ACTIVE whatever became of the Attempt *)
Bind(a) ==
  /\ assignment[a] # "ABSENT"
  /\ assignment' = [assignment EXCEPT ![a] = "ACTIVE"]
  /\ attempt' = [attempt EXCEPT ![a] = IF @ = "PLANNED" THEN "WORKING" ELSE @]
  /\ UNCHANGED <<active, mail, cont, delivery, asleep>>

(* rebindActiveRuntime: a durable wait goes on *)
Rebind(a) ==
  LET parked == \E i \in Parks : cont[i].owner = a /\ cont[i].state \in Open
  IN /\ assignment[a] # "ABSENT"
     /\ attempt[a] # "ENDED"
     /\ assignment' = [assignment EXCEPT ![a] =
          IF @ \in {"PENDING", "WAITING", "ORPHANED", "FAILED"}
            THEN IF parked THEN "WAITING" ELSE "ACTIVE" ELSE @]
     /\ attempt' = [attempt EXCEPT ![a] = "WORKING"]
     /\ UNCHANGED <<active, mail, cont, delivery, asleep>>

(* createRetry and reassign: between them an Assignment in any state but       *)
(* COMPLETED gets a new Attempt; what the former one waited for is cancelled.  *)
Replan(a) ==
  /\ active[a] < MaxAttempts
  /\ active' = [active EXCEPT ![a] = @ + 1]
  /\ attempt' = [attempt EXCEPT ![a] = "PLANNED"]
  /\ assignment' = [assignment EXCEPT ![a] = "PENDING"]
  /\ asleep' = [asleep EXCEPT ![a] = FALSE]
PlanAgain(a) ==
  /\ assignment[a] \notin {"ABSENT", "COMPLETED"}
  /\ Replan(a)
  /\ cont' = Disowned(a)
  /\ UNCHANGED <<mail, delivery>>

(* requestRevision: the user also tells the agent what to change *)
Revise(a, m) ==
  /\ assignment[a] = "COMPLETED"
  /\ m.to = a /\ m.from = None
  /\ Replan(a)
  /\ Post({m})
  /\ cont' = ToldMessages(Disowned(a), {m}, assignment', sent')
  /\ UNCHANGED delivery

(* The end of a's active Attempt, with or without a message to its supervisor *)
(* (posted, when the Assignments are in `states`): its own continuation is    *)
(* cancelled, and those that wait for a hear of it.  The code posts before it  *)
(* cancels, which is the same, for nobody is their own supervisor.            *)
End(a, posted, states) ==
  /\ assignment[a] # "ABSENT"
  /\ \A m \in posted : m.from = a /\ m.to # a
  /\ Post(posted)
  /\ attempt' = [attempt EXCEPT ![a] = "ENDED"]
  /\ asleep' = [asleep EXCEPT ![a] = FALSE]
  /\ cont' = ToldEnd(ToldMessages(Disowned(a), posted, states, sent'), a, assignment', sent')
  /\ UNCHANGED <<active, delivery>>

Becomes(a, state) == assignment' = [assignment EXCEPT ![a] = state]

(* completeAttempt: the report is posted first *)
Complete(a, success, posted) ==
  /\ attempt[a] # "ENDED"
  /\ ~asleep[a]
  /\ Becomes(a, IF success THEN "COMPLETED" ELSE "FAILED")
  /\ End(a, posted, assignment)

(* failAttemptFromRuntime *)
Fail(a) ==
  /\ attempt[a] # "ENDED"
  /\ Becomes(a, "FAILED")
  /\ End(a, {}, assignment')

(* cancelAssignment *)
Cancel(a) ==
  /\ assignment[a] \notin {"COMPLETED", "CANCELLED"}
  /\ Becomes(a, "CANCELLED")
  /\ End(a, {}, assignment')

(* orphanAttemptFromRuntime does not look at the states *)
Orphan(a, posted) ==
  /\ attempt[a] # "PLANNED"
  /\ Becomes(a, "ORPHANED")
  /\ End(a, posted, assignment')

-----------------------------------------------------------------------------
(* Parking and going on *)

Unfinished(a, n) == \E i \in Parks : cont[i].owner = a /\ cont[i].attempt = n /\ cont[i].state \in Open

(* park, armContinuation with an idempotency key that was not used before: the *)
(* agent is told to end its turn now.                                         *)
Park(i, a, wait, cursor) ==
  LET c == [owner |-> a, attempt |-> active[a], mode |-> wait.mode, targets |-> wait.targets,
            met |-> {}, cursor |-> cursor, deadline |-> wait.deadline, state |-> "ARMED",
            intent |-> "ABSENT"]
      waiting == [assignment EXCEPT ![a] = IF @ = "ACTIVE" THEN "WAITING" ELSE @]
  IN /\ ~asleep[a]
     /\ cont[i] = NoContinuation
     /\ assignment[a] \in {"ACTIVE", "WAITING"}
     /\ attempt[a] = "WORKING"
     /\ ~Unfinished(a, active[a])
     /\ \A t \in wait.targets : t.who # None => assignment[t.who] # "ABSENT"
     /\ assignment' = waiting
     /\ cont' = [cont EXCEPT ![i] = Registered(c, waiting, sent)]
     /\ asleep' = [asleep EXCEPT ![a] = TRUE]
     /\ UNCHANGED <<active, attempt, mail, delivery>>

(* A key of the same Attempt returns the continuation it has, in whatever     *)
(* state, with the same advice; a key of an older Attempt is refused.         *)
ParkAgain(i) ==
  LET a == cont[i].owner
  IN /\ KeyReuse
     /\ cont[i] # NoContinuation
     /\ cont[i].attempt = active[a]
     /\ attempt[a] = "WORKING"
     /\ ~asleep[a]
     /\ asleep' = [asleep EXCEPT ![a] = TRUE]
     /\ UNCHANGED <<ledger, mail, cont, delivery>>

(* consumeContinuation.  What it throws undoes what it wrote, so a stale       *)
(* caller changes nothing; neither does one that asks again.                  *)
Consume(i) ==
  LET a == cont[i].owner
  IN /\ cont[i].state \in {"READY", "DELIVERING", "DELIVERED"}
     /\ active[a] = cont[i].attempt
     /\ ~asleep[a]
     /\ cont' = [cont EXCEPT ![i].state = "CONSUMED", ![i].intent = "ACKNOWLEDGED"]
     /\ assignment' = [assignment EXCEPT ![a] = IF @ = "WAITING" THEN "ACTIVE" ELSE @]
     /\ UNCHANGED <<active, attempt, mail, delivery, asleep>>

(* The user types, or an urgent message rings, while the agent sleeps. *)
Rouse(a) ==
  /\ asleep[a]
  /\ asleep' = [asleep EXCEPT ![a] = FALSE]
  /\ UNCHANGED <<ledger, mail, cont, delivery>>

-----------------------------------------------------------------------------
(* The clock, the outbox runner and the process *)

Lapse(i) ==
  /\ cont[i].state = "ARMED" /\ cont[i].deadline = "ahead"
  /\ cont' = [cont EXCEPT ![i].deadline = "passed"]
  /\ UNCHANGED <<ledger, mail, delivery, asleep>>

(* A drain begins when the one before is over, that is, awaits no runtime. *)
Over == \A i \in Parks : flight[i] = "none"

Drain ==
  /\ Over
  /\ cont' = [i \in Parks |-> Recovered(cont[i])]
  /\ UNCHANGED <<ledger, mail, delivery, asleep>>

(* processResumeIntent up to `await adapter.deliver`.  By IntentFollows the    *)
(* continuation is READY and its Attempt active, so the branch that would     *)
(* recover in the middle of a drain is never taken.                           *)
Ask(i) ==
  /\ cont[i].intent = "PENDING"
  /\ cont[i].state = "READY" /\ active[cont[i].owner] = cont[i].attempt
  /\ flight[i] = "none"
  /\ cont' = [cont EXCEPT ![i].intent = "PROCESSING", ![i].state = "DELIVERING"]
  /\ flight' = [flight EXCEPT ![i] = "asked"]
  /\ UNCHANGED <<ledger, mail, typed, asleep>>

(* Inside adapter.deliver: the prompt is typed and the agent's turn starts. *)
Type(i) ==
  /\ flight[i] = "asked"
  /\ flight' = [flight EXCEPT ![i] = "typed"]
  /\ typed' = [typed EXCEPT ![i] = @ + 1]
  /\ asleep' = [asleep EXCEPT ![cont[i].owner] = IF active[cont[i].owner] = cont[i].attempt THEN FALSE ELSE @]
  /\ UNCHANGED <<ledger, mail, cont>>

Confirm(i) ==
  /\ flight[i] = "typed"
  /\ cont' = [cont EXCEPT ![i] = Confirmed(@)]
  /\ flight' = [flight EXCEPT ![i] = "none"]
  /\ UNCHANGED <<ledger, mail, typed, asleep>>

(* deliver throws: no handle, no runtime, or typed but not confirmed in time. *)
Refuse(i) ==
  /\ flight[i] # "none"
  /\ cont' = [cont EXCEPT ![i] = Unconfirmed(@)]
  /\ flight' = [flight EXCEPT ![i] = "none"]
  /\ typed' = [typed EXCEPT ![i] = IF flight[i] = "typed" THEN @ - 1 ELSE @]
  /\ UNCHANGED <<ledger, mail, asleep>>

(* A crash, and start() of the next process *)
Restart ==
  /\ ~Over
  /\ cont' = [i \in Parks |-> Recovered(cont[i])]
  /\ flight' = [i \in Parks |-> "none"]
  /\ typed' = [i \in Parks |-> IF flight[i] = "typed" THEN typed[i] - 1 ELSE typed[i]]
  /\ UNCHANGED <<ledger, mail, asleep>>

-----------------------------------------------------------------------------
Talk == \E m \in Messages : Say(m) \/ \E a \in Assignments : Revise(a, m)

Posts == {{}} \cup {{m} : m \in Messages}

Report(a) ==
  \E posted \in Posts :
    \/ \E success \in BOOLEAN : Complete(a, success, posted)
    \/ Orphan(a, posted)

Live(a) ==
  \/ \E posted \in Posts : Delegate(a, posted)
  \/ Bind(a) \/ Rebind(a) \/ PlanAgain(a) \/ Fail(a) \/ Cancel(a) \/ Rouse(a)

(* Continuations are numbered in the order they are made; a cursor is a        *)
(* sequence number the agent has seen.                                        *)
Wait(i) ==
  \/ /\ \A j \in 1 .. i - 1 : cont[j] # NoContinuation
     /\ \E a \in Owners, wait \in Waits, cursor \in 0 .. last : Park(i, a, wait, cursor)
  \/ ParkAgain(i)
  \/ Consume(i)

Deliver(i) == Lapse(i) \/ Ask(i) \/ Type(i) \/ Confirm(i) \/ Refuse(i)

Next ==
  \/ Talk
  \/ \E a \in Assignments : Live(a) \/ Report(a)
  \/ \E i \in Parks : Wait(i) \/ Deliver(i)
  \/ Drain
  \/ Restart

Spec == Init /\ [][Next]_vars

-----------------------------------------------------------------------------
TypeOK ==
  /\ assignment \in [Assignments -> AssignmentStates]
  /\ active \in [Assignments -> 1 .. MaxAttempts]
  /\ attempt \in [Assignments -> {"PLANNED", "WORKING", "ENDED"}]
  /\ sent \subseteq Messages
  /\ last \in 0 .. MaxMessages
  /\ cont \in [Parks -> Continuation]
  /\ flight \in [Parks -> {"none", "asked", "typed"}]
  /\ typed \in [Parks -> Nat]
  /\ asleep \in [Assignments -> BOOLEAN]

(* No wake-up is lost (ADR-0050: "Completion and message races cannot lose a  *)
(* wake-up"): as long as a continuation is ARMED, every condition that is true *)
(* now is known to be met, and not enough of them are.                        *)
ArmedIsUnmet ==
  \A i \in Parks : cont[i].state = "ARMED" =>
    LET c == cont[i]
        ended == {t \in c.targets : t.kind = "assignment_terminal" /\ assignment[t.who] \in t.what}
        told == {t \in c.targets : t.kind = "message" /\ \E m \in sent :
                   m.to = c.owner /\ m.seq > c.cursor /\ m.kind \in t.what
                   /\ (t.who # None => m.from = t.who)}
    IN /\ ended \cup told \subseteq c.met
       /\ IF c.mode = "all" THEN c.targets \ c.met # {} ELSE c.met = {}

(* Nobody is woken without a reason: an intent is filed only when enough       *)
(* conditions are met or the deadline is over, and a message condition only   *)
(* is met by a message the agent had not seen when it parked.                 *)
WokenForAReason ==
  \A i \in Parks : LET c == cont[i] IN
    /\ c.intent # "ABSENT" =>
         \/ c.deadline = "passed"
         \/ IF c.mode = "all" THEN c.targets \subseteq c.met ELSE c.met # {}
    /\ \A t \in c.met : t.kind = "message" =>
         \E m \in sent : m.to = c.owner /\ m.seq > c.cursor /\ m.kind \in t.what

(* A resume intent and its continuation move together, whatever happens while *)
(* the runtime is awaited; one that is pending can be delivered to the Attempt *)
(* that parked; one under way is awaited by somebody.                         *)
IntentFollows ==
  \A i \in Parks : LET c == cont[i] IN
    /\ <<c.state, c.intent>> \in
         {<<"ABSENT", "ABSENT">>, <<"ARMED", "ABSENT">>, <<"READY", "PENDING">>,
          <<"DELIVERING", "PROCESSING">>, <<"DELIVERED", "DELIVERED">>,
          <<"CONSUMED", "ACKNOWLEDGED">>, <<"CANCELLED", "ABSENT">>, <<"CANCELLED", "CANCELLED">>}
    /\ c.state \in Open => ~OwnerInactive(c)
    /\ c.state = "DELIVERING" => flight[i] # "none"

(* An Assignment waits for one thing at a time, through all its Attempts.      *)
OneWaitPerOwner ==
  \A i, j \in Parks :
    cont[i].state \in Open /\ cont[j].state \in Open /\ cont[i].owner = cont[j].owner => i = j

(* A continuation that was consumed or cancelled stays so, with its intent:    *)
(* an answer of the runtime that comes late changes nothing.                  *)
FinishedIsFinal ==
  [][\A i \in Parks : cont[i].state \in {"CONSUMED", "CANCELLED"} =>
       cont'[i].state = cont[i].state /\ cont'[i].intent = cont[i].intent]_vars

(* The prompt of a continuation is typed again only if the time before it was  *)
(* not confirmed (ADR-0050: "A crash in the write/ack gap may duplicate the   *)
(* compact prompt").                                                          *)
RepeatedOnlyInDoubt == \A i \in Parks : typed[i] <= 1

(* Whoever sleeps because park said so has a prompt coming.                    *)
SleeperIsAwaited ==
  \A a \in Assignments : asleep[a] =>
    \E i \in Parks : /\ cont[i].owner = a /\ cont[i].attempt = active[a]
                     /\ cont[i].state \in {"ARMED", "READY", "DELIVERING"}
=============================================================================
