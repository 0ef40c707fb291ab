------------------------------- MODULE Inbox -------------------------------
(***************************************************************************)
(* The inbox of one agent.  A message is a row that stays until the agent  *)
(* reads it; two things tell the agent that it is there.  While one of its *)
(* calls waits (orchestration.wait, ask, join) the message bus answers     *)
(* that call.  Otherwise the outbox runner rings: a timer per Assignment,  *)
(* one delivery at a time, and a notice into the terminal at the end of a  *)
(* turn (TurnDelivery).  Notices are held while the agent is parked, unless *)
(* a message is urgent; the prompt of a continuation (see Continuations)   *)
(* takes the same way into the terminal.                                   *)
(*                                                                         *)
(* How the Assignment lives is MissionLedger's matter: here it is PENDING  *)
(* until an Attempt is bound to a terminal, ACTIVE as long as that Attempt *)
(* works, parked or not, and ENDED, perhaps to be retried.                 *)
(***************************************************************************)
EXTENDS Naturals, Sequences, FiniteSets, TurnDelivery

CONSTANTS
    Waiters,      \* calls of the agent that may wait at the same time
    MaxMessages,  \* bound: messages sent to the agent
    Terminals,    \* bound: terminals that live, or owe an answer, at a time
    MaxRestarts,  \* bound: restarts of the application
    Events        \* what may happen in a run, of Happenings

Happenings == {"workers",     \* the agent has a worker, and may join its end
               "silent",      \* a message is committed and nobody rings
               "heldUrgent",  \* urgent news at a restart, or as an answer, while parked
               "activate",    \* activate fails after the Attempt was bound
               "lost"}        \* a worker ends without having said so

ASSUME InboxAssumption ==
    /\ Notices = {"inbox", "resume"}
    /\ MaxMessages \in Nat /\ MaxRestarts \in Nat /\ Terminals # {}
    /\ Events \subseteq Happenings

Ids == 1..MaxMessages
May(event) == event \in Events

VARIABLES
    mail,       \* the messages to this Assignment, with their deliveries
    shown,      \* up to which sequence a sync or a continue has shown them
    state,      \* PENDING, ACTIVE or ENDED
    bound,      \* the terminal of the last Attempt
    activating, \* startRuntime awaits activate
    parked,     \* the active Attempt owns an unfinished continuation
    cursor,     \* ... whose cursor is this
    prompt,     \* its prompt: none, asked (the adapter) or typed
    doorbell,   \* doorbellTimers has the Assignment
    ringing,    \* the messages deliverInbox is delivering
    waiting,    \* per call: what bus.wait waits for
    worker,     \* the worker that a join is about: working, ended or lost
    joining,    \* a join waits for its end
    terminal,   \* the terminals
    restarts    \* restarts so far

ledger == <<state, bound, activating, worker>>
letters == <<mail, shown>>
pause == <<parked, cursor, prompt>>
bell == <<doorbell, ringing>>
calls == <<waiting, joining>>
vars == <<ledger, letters, pause, bell, calls, terminal, restarts>>

Message == [urgent : BOOLEAN, read : BOOLEAN,
            delivery : {"pending", "failed", "delivered", "observed"}]
NoWait == [for |-> "nothing", after |-> 0, marks |-> FALSE]
Waits == [for : {"nothing", "unread", "any"}, after : 0..MaxMessages, marks : BOOLEAN]

-----------------------------------------------------------------------------
(* Slips, as in TurnDelivery.                                                *)

QuietEnd(box, held) == FALSE

-----------------------------------------------------------------------------
(* Messages and who is told of them                                          *)

\* listUndeliveredMessages: nobody is rung for an Assignment that has ended.
Undelivered(box) ==
    {i \in DOMAIN box : state # "ENDED" /\ box[i].delivery \in {"pending", "failed"}}

\* Whether a delivery has something to ring for, and whether it rings again.
MayRing(box, held) == \E i \in Undelivered(box) : ~held \/ box[i].urgent
RingAgain(box, held) == MayRing(box, held)

\* listInbox for a waiting call.
Found(box, call) ==
    {i \in DOMAIN box : i > call.after /\ (call.for = "any" \/ ~box[i].read)}

\* markMessagesRead, markMessagesDelivered, markMessageDeliveryFailed
Read(box, ids) ==
    [i \in DOMAIN box |-> IF i \in ids
        THEN [box[i] EXCEPT !.read = TRUE, !.delivery = "observed"] ELSE box[i]]
Delivered(box, ids) ==
    [i \in DOMAIN box |-> IF i \in ids /\ box[i].delivery # "observed"
        THEN [box[i] EXCEPT !.delivery = "delivered"] ELSE box[i]]
Failed(box, ids) ==
    [i \in DOMAIN box |-> IF i \in ids THEN [box[i] EXCEPT !.delivery = "failed"] ELSE box[i]]

\* A slip: only calls for what is unread are looked at.
UnreadTold(box) == {w \in Waiters : waiting[w].for = "unread" /\ Found(box, waiting[w]) # {}}

\* notifyAssignment: the calls that find something in the new inbox are
\* answered, all of them before the first marks anything as read.
Told(box) == {w \in Waiters : waiting[w] # NoWait /\ Found(box, waiting[w]) # {}}
MarkedBy(box, told) ==
    UNION {IF waiting[w].marks THEN Found(box, waiting[w]) ELSE {} : w \in told}

\* notifyMission, for the call that joins the worker's end.
MissionTold == joining' = (joining /\ worker' = "working")

\* A message is committed and its mission's and receiver's waiters are told.
Commit(urgent) ==
    LET box  == Append(mail, [urgent |-> urgent, read |-> FALSE, delivery |-> "pending"])
        told == Told(box)
    IN  /\ Len(mail) < MaxMessages
        /\ mail' = Read(box, MarkedBy(box, told))
        /\ waiting' = [w \in Waiters |-> IF w \in told THEN NoWait ELSE waiting[w]]
        /\ MissionTold

\* signalAssignment
Signal(rings) == doorbell' = (doorbell \/ rings)

-----------------------------------------------------------------------------
(* What others do                                                            *)

\* message, request and escalate
Send ==
    /\ UNCHANGED <<ledger, shown, pause, ringing, terminal, restarts>>
    /\ \E urgent \in BOOLEAN : Commit(urgent) /\ Signal(~parked \/ urgent)

\* resolveRequest signals whoever is not parked, urgent or not.
Answer ==
    /\ UNCHANGED <<ledger, shown, pause, ringing, terminal, restarts>>
    /\ \E urgent \in BOOLEAN :
        /\ urgent /\ parked => May("heldUrgent")
        /\ Commit(urgent) /\ Signal(~parked)

\* Delegation of overlapping work, or a pause that failed: no signal.
SendSilently ==
    /\ UNCHANGED <<ledger, shown, pause, bell, terminal, restarts>>
    /\ May("silent") /\ Commit(FALSE)

\* complete: the worker's last report, and afterLifecycle.
WorkerReports ==
    /\ May("workers") /\ worker = "working" /\ worker' = "ended"
    /\ Commit(FALSE) /\ Signal(~parked)
    /\ UNCHANGED <<state, bound, activating, shown, pause, ringing, terminal, restarts>>

\* cancel and retry of the worker tell the mission's waiters.
WorkerSteered ==
    /\ May("workers")
    /\ worker' = IF worker = "working" THEN "ended" ELSE "working"
    /\ MissionTold
    /\ UNCHANGED <<state, bound, activating, letters, pause, bell, waiting, terminal, restarts>>

\* The runner or recovery fails the worker's Attempt: nobody is told.
WorkerLost ==
    /\ May("lost") /\ worker = "working" /\ worker' = "lost"
    /\ UNCHANGED <<state, bound, activating, letters, pause, bell, calls, terminal, restarts>>

-----------------------------------------------------------------------------
(* The agent's calls                                                         *)

Cursors == {0, shown}

\* sync: the agent sees what there is, and by default marks it as read.
Sync ==
    /\ state = "ACTIVE"
    /\ \E after \in Cursors, observe \in BOOLEAN :
        mail' = IF observe THEN Read(mail, {i \in DOMAIN mail : i > after}) ELSE mail
    /\ shown' = Len(mail)
    /\ UNCHANGED <<ledger, pause, bell, calls, terminal, restarts>>

\* wait answers at once, or registers the call.  A call without afterSequence
\* asks for what is unread, one that follows a sync for what is new; for an
\* answer in a thread of its own, as ask does, is the latter.
Wait(w) ==
    /\ state = "ACTIVE" /\ waiting[w] = NoWait
    /\ \E for \in {"unread", "any"}, marks \in BOOLEAN :
        LET call  == [for |-> for, marks |-> marks,
                      after |-> IF for = "any" THEN shown ELSE 0]
            found == Found(mail, call)
        IN  /\ mail' = IF marks THEN Read(mail, found) ELSE mail
            /\ waiting' = [waiting EXCEPT ![w] = IF found = {} THEN call ELSE NoWait]
    /\ UNCHANGED <<ledger, shown, pause, bell, joining, terminal, restarts>>

TimesOut(w) ==
    /\ waiting[w] # NoWait /\ waiting' = [waiting EXCEPT ![w] = NoWait]
    /\ UNCHANGED <<ledger, letters, pause, bell, joining, terminal, restarts>>

\* join, of a worker that has not ended.
Join ==
    /\ May("workers") /\ state = "ACTIVE" /\ worker = "working" /\ joining' = TRUE
    /\ UNCHANGED <<ledger, letters, pause, bell, waiting, terminal, restarts>>

JoinTimesOut ==
    /\ joining' = FALSE
    /\ UNCHANGED <<ledger, letters, pause, bell, waiting, terminal, restarts>>

\* park and continue
Park ==
    /\ state = "ACTIVE" /\ ~parked
    /\ parked' = TRUE /\ cursor' \in Cursors /\ prompt' = "none"
    /\ UNCHANGED worker /\ MissionTold
    /\ UNCHANGED <<state, bound, activating, letters, bell, waiting, terminal, restarts>>

Consume ==
    /\ parked /\ parked' = FALSE /\ prompt' = "none" /\ cursor' = 0
    /\ mail' = Read(mail, {i \in DOMAIN mail : i > cursor})
    /\ shown' = Len(mail)
    /\ UNCHANGED worker /\ MissionTold
    /\ UNCHANGED <<state, bound, activating, bell, waiting, terminal, restarts>>

-----------------------------------------------------------------------------
(* The doorbell                                                              *)

Live == terminal[bound]
InTerminal(t) == terminal' = [terminal EXCEPT ![bound] = t]

\* deliverInbox, whose end rings again as long as something is undelivered.
Unheard ==
    /\ doorbell /\ (ringing # {} \/ state = "PENDING" \/ ~MayRing(mail, parked))
    /\ doorbell' = (ringing = {} /\ RingAgain(mail, parked))
    /\ UNCHANGED <<ledger, letters, pause, ringing, calls, terminal, restarts>>

Ring ==
    /\ doorbell /\ ringing = {} /\ state = "ACTIVE" /\ MayRing(mail, parked)
    /\ IF Live.alive
       THEN /\ ringing' = Undelivered(mail) /\ doorbell' = FALSE
            /\ InTerminal(Notified(Live, "inbox")) /\ UNCHANGED mail
       ELSE /\ mail' = Failed(mail, Undelivered(mail))
            /\ UNCHANGED <<doorbell, ringing, terminal>>
    /\ UNCHANGED <<ledger, shown, pause, calls, restarts>>

\* processResumeIntent: the conditions hold and the adapter gets the prompt.
\* One prompt at a time, the intents' order is Continuations' matter.
Prompt ==
    /\ state = "ACTIVE" /\ parked /\ prompt = "none"
    /\ Live.alive /\ "resume" \notin UnderWay(Live)
    /\ prompt' = "asked" /\ InTerminal(Notified(Live, "resume"))
    /\ UNCHANGED <<ledger, letters, parked, cursor, bell, calls, restarts>>

\* What the callers of notifyRuntime do when terminal s answers them.
Settled(s, done, failed) ==
    /\ mail' = IF "inbox" \in done THEN Delivered(mail, ringing)
               ELSE IF "inbox" \in failed THEN Failed(mail, ringing)
               ELSE mail
    /\ ringing' = IF "inbox" \in done \union failed THEN {} ELSE ringing
    /\ doorbell' = \/ doorbell \/ "inbox" \in failed
                   \/ "inbox" \in done /\ RingAgain(mail', parked)
    /\ prompt' = IF s = bound /\ prompt = "asked" /\ "resume" \in done \union failed
                 THEN IF "resume" \in done THEN "typed" ELSE "none"
                 ELSE prompt
    /\ UNCHANGED <<ledger, shown, parked, cursor, calls, restarts>>

Moves(s, t) == terminal' = [terminal EXCEPT ![s] = t]

TurnStarts(s) ==
    /\ terminal[s].alive
    /\ Moves(s, TurnStarted(terminal[s])) /\ Settled(s, Confirmed(terminal[s]), {})
TurnSettles(s) ==
    /\ terminal[s].turn
    /\ Moves(s, TurnSettled(terminal[s])) /\ Settled(s, {}, {})
Enters(s) ==
    /\ terminal[s].flight # {} /\ ~terminal[s].entered
    /\ Moves(s, Entered(terminal[s])) /\ Settled(s, {}, {})
AckMissed(s) ==
    /\ terminal[s].entered
    /\ Moves(s, Unconfirmed(terminal[s])) /\ Settled(s, {}, GivenUp(terminal[s]))
Exits(s) ==
    /\ terminal[s].alive
    /\ Moves(s, Exited(terminal[s])) /\ Settled(s, {}, Forsaken(terminal[s]))

HoldOn(s) ==
    /\ terminal[s].alive
    /\ \E h \in Holds \ terminal[s].holds :
        Moves(s, Held(terminal[s], h)) \/ Moves(s, TakenOver(terminal[s], h))
    /\ Settled(s, {}, {})
HoldOff(s) ==
    /\ \E h \in terminal[s].holds : Moves(s, Released(terminal[s], h))
    /\ Settled(s, {}, {})

-----------------------------------------------------------------------------
(* The Assignment, as far as the inbox sees it                               *)

\* startRuntime: bindRuntime, and then the terminal is activated.
Bind ==
    /\ state = "PENDING" /\ state' = "ACTIVE" /\ activating' = TRUE
    /\ bound' \in Terminals
    /\ ~terminal[bound'].alive /\ UnderWay(terminal[bound']) = {}
    /\ terminal' = [terminal EXCEPT ![bound'] = Opened]
    /\ shown' = 0
    /\ UNCHANGED <<worker, mail, pause, bell, calls, restarts>>

Activated ==
    /\ activating /\ activating' = FALSE /\ Signal(TRUE)
    /\ UNCHANGED <<state, bound, worker, letters, pause, ringing, calls, terminal, restarts>>
ActivateFails ==
    /\ May("activate") /\ activating /\ activating' = FALSE
    /\ UNCHANGED <<state, bound, worker, letters, pause, bell, calls, terminal, restarts>>

\* The Attempt ends, whatever ends it, and its continuation is cancelled.
End ==
    /\ state = "ACTIVE" /\ state' = "ENDED" /\ parked' = FALSE /\ prompt' = "none"
    /\ cursor' = 0
    /\ UNCHANGED <<bound, activating, worker, letters, bell, calls, terminal, restarts>>

Retry ==
    /\ state = "ENDED" /\ ~activating /\ state' = "PENDING"
    /\ UNCHANGED <<bound, activating, worker, letters, pause, bell, calls, terminal, restarts>>

\* The application stops and starts: terminals live on in the daemon, what
\* was only in memory is gone, and start rings for what is undelivered.
Restart ==
    /\ restarts < MaxRestarts /\ restarts' = restarts + 1
    /\ MayRing(mail, TRUE) /\ parked => May("heldUrgent")
    /\ doorbell' = (Undelivered(mail) # {} /\ ~parked)
    /\ ringing' = {} /\ activating' = FALSE
    /\ prompt' = IF prompt = "asked" THEN "none" ELSE prompt
    /\ waiting' = [w \in Waiters |-> NoWait] /\ joining' = FALSE
    /\ \E known \in BOOLEAN : terminal' = [s \in Terminals |-> Restored(terminal[s], known)]
    /\ UNCHANGED <<state, bound, worker, letters, parked, cursor>>

-----------------------------------------------------------------------------
Init ==
    /\ mail = <<>> /\ shown = 0
    /\ state = "PENDING" /\ bound \in Terminals /\ activating = FALSE
    /\ parked = FALSE /\ cursor = 0 /\ prompt = "none"
    /\ doorbell = FALSE /\ ringing = {}
    /\ waiting = [w \in Waiters |-> NoWait] /\ worker = "working" /\ joining = FALSE
    /\ terminal = [s \in Terminals |-> Unused] /\ restarts = 0

Next ==
    \/ Send \/ Answer \/ SendSilently
    \/ WorkerReports \/ WorkerSteered \/ WorkerLost
    \/ Sync \/ Join \/ JoinTimesOut \/ Park \/ Consume
    \/ \E w \in Waiters : Wait(w) \/ TimesOut(w)
    \/ Unheard \/ Ring \/ Prompt
    \/ \E s \in Terminals :
        \/ TurnStarts(s) \/ TurnSettles(s) \/ Enters(s) \/ AckMissed(s)
        \/ Exits(s) \/ HoldOn(s) \/ HoldOff(s)
    \/ Bind \/ Activated \/ ActivateFails \/ End \/ Retry \/ Restart

\* Timers fire.  Of the agent it is assumed that its turns end, and that of
\* the Enters that are sent to it not all start no turn.
Fairness ==
    /\ WF_vars(Unheard) /\ WF_vars(Ring)
    /\ \A s \in Terminals :
        /\ WF_vars(Enters(s)) /\ WF_vars(AckMissed(s)) /\ WF_vars(TurnSettles(s))
        /\ SF_vars(terminal[s].entered /\ TurnStarts(s))

Spec == Init /\ [][Next]_vars /\ Fairness

-----------------------------------------------------------------------------
(* Properties                                                                *)

TypeOK ==
    /\ mail \in Seq(Message) /\ Len(mail) <= MaxMessages /\ shown \in 0..Len(mail)
    /\ state \in {"PENDING", "ACTIVE", "ENDED"}
    /\ bound \in Terminals /\ activating \in BOOLEAN
    /\ parked \in BOOLEAN /\ cursor \in 0..MaxMessages
    /\ prompt \in {"none", "asked", "typed"}
    /\ doorbell \in BOOLEAN /\ ringing \subseteq DOMAIN mail
    /\ waiting \in [Waiters -> Waits] /\ worker \in {"working", "ended", "lost"}
    /\ joining \in BOOLEAN /\ terminal \in [Terminals -> Terminal]
    /\ restarts \in 0..MaxRestarts

\* No message is forgotten: as long as an agent at work has one that nobody
\* has brought to its terminal, that the agent has not seen either, and that
\* may be brought, a timer is armed for it or a delivery is under way.
UndeliveredIsRung ==
    state = "ACTIVE" /\ ~activating
        /\ (\E i \in Undelivered(mail) : i > shown /\ (parked => mail[i].urgent))
    => doorbell \/ ringing # {}

\* No call sleeps through what it waits for: a message that it would find, or
\* the end of the worker, unless that one was lost.
WaitersAreTold ==
    /\ \A w \in Waiters : waiting[w] # NoWait => Found(mail, waiting[w]) = {}
    /\ joining => worker # "ended"

\* Every delivery that the runner awaits is answered by a terminal: it is
\* queued or pasted there, and a queue waits for a reason that will end.
DeliveriesAreUnderWay ==
    /\ ringing # {} <=> \E s \in Terminals : "inbox" \in UnderWay(terminal[s])
    /\ prompt = "asked" => "resume" \in UnderWay(Live)
    /\ \A s \in Terminals : terminal[s].queue # {} => Blocked(terminal[s])

\* What rings is heard: unless the agent parks or stops working, or its
\* terminal dies or is held, a message that the runner is to bring gets into
\* the terminal, or is read before.
Owed(i) ==
    /\ i \in Undelivered(mail)
    /\ doorbell \/ ringing # {}
    /\ state = "ACTIVE" /\ ~parked
    /\ Live.alive /\ Live.holds = {}
MailArrives == \A i \in Ids : []<>~Owed(i)
=============================================================================
