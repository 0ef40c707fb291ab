---------------------------- MODULE InboxProofs ----------------------------
(***************************************************************************)
(* What holds of the inbox for any number of messages, calls, terminals    *)
(* and restarts: no waiting call sleeps through a message, every delivery  *)
(* that the runner awaits is under way in exactly one terminal, and, where *)
(* the code signals at all, no message is forgotten.                       *)
(***************************************************************************)
EXTENDS Inbox, SequenceTheorems, TLAPS

-----------------------------------------------------------------------------
(* Terminals, one operator at a time                                         *)

\* A terminal whose paste, Enters and notices fit together ...
Loose(t) ==
    /\ t \in Terminal
    /\ t.flight = {} => ~t.entered /\ t.enters = 0
    /\ t.flight # {} /\ ~t.entered => t.enters < MaxEnters
    /\ t.queue \intersect t.flight = {}

\* ... and whose queue waits for something.
Fit(t) == Loose(t) /\ (t.queue # {} => Blocked(t))

LEMMA FreshIsFit ==
    /\ Fit(Unused) /\ UnderWay(Unused) = {}
    /\ Fit(Opened) /\ UnderWay(Opened) = {}
  <1>1. MaxEnters \in Nat /\ MaxEnters # 0 /\ 0 \in 0..MaxEnters
    BY DeliveryAssumption
  <1>2. Unused \in Terminal
    BY <1>1 DEF Unused, Terminal
  <1>3. Unused.flight = {} /\ Unused.queue = {} /\ ~Unused.entered /\ Unused.enters = 0
    BY DEF Unused
  <1>4. /\ Opened \in Terminal
        /\ Opened.flight = {} /\ Opened.queue = {} /\ ~Opened.entered /\ Opened.enters = 0
    BY <1>2, <1>3 DEF Opened, Terminal
  <1> QED
    BY <1>2, <1>3, <1>4 DEF Fit, Loose, UnderWay

LEMMA PastedIsFit ==
    ASSUME NEW t, Loose(t), t.queue = {}, t.flight = {},
           NEW ns \in SUBSET Notices, ns # {}
    PROVE  Fit(Pasted(t, ns)) /\ UnderWay(Pasted(t, ns)) = ns
  <1> DEFINE p == Pasted(t, ns)
  <1>1. MaxEnters \in Nat /\ MaxEnters # 0 /\ 0 \in 0..MaxEnters /\ 0 < MaxEnters
    BY DeliveryAssumption
  <1>2. p \in Terminal
    BY <1>1 DEF Pasted, Loose, Terminal
  <1>3. p.flight = ns /\ p.queue = {} /\ ~p.entered /\ p.enters = 0
    BY DEF Pasted, Loose, Terminal
  <1> HIDE DEF p
  <1> QED
    BY <1>1, <1>2, <1>3 DEF Fit, Loose, UnderWay, p

LEMMA FlushedIsFit ==
    ASSUME NEW t, Loose(t)
    PROVE  Fit(Flushed(t)) /\ UnderWay(Flushed(t)) = UnderWay(t)
  <1>1. CASE Blocked(t) \/ t.queue = {}
    BY <1>1 DEF Flushed, Fit
  <1>2. CASE ~Blocked(t) /\ t.queue # {}
    <2> DEFINE u == [t EXCEPT !.queue = {}]
    <2>1. Loose(u) /\ u.queue = {} /\ u.flight = {} /\ t.flight = {}
      BY <1>2 DEF Loose, Terminal, Blocked
    <2>2. t.queue \in SUBSET Notices
      BY DEF Loose, Terminal
    <2>3. Fit(Pasted(u, t.queue)) /\ UnderWay(Pasted(u, t.queue)) = t.queue
      BY <1>2, <2>1, <2>2, PastedIsFit
    <2>4. Flushed(t) = Pasted(u, t.queue)
      BY <1>2 DEF Flushed
    <2> QED
      BY <2>1, <2>3, <2>4 DEF UnderWay
  <1> QED
    BY <1>1, <1>2

LEMMA NotifiedIsFit ==
    ASSUME NEW t, Fit(t), NEW n \in Notices, n \notin UnderWay(t)
    PROVE  Fit(Notified(t, n)) /\ UnderWay(Notified(t, n)) = UnderWay(t) \union {n}
  <1>1. CASE Blocked(t)
    BY <1>1 DEF Notified, Fit, Loose, Terminal, UnderWay, Blocked
  <1>2. CASE ~Blocked(t)
    <2>1. t.queue = {} /\ t.flight = {}
      BY <1>2 DEF Fit, Blocked
    <2>2. Fit(Pasted(t, {n})) /\ UnderWay(Pasted(t, {n})) = {n}
      BY <2>1, PastedIsFit DEF Fit
    <2> QED
      BY <1>2, <2>1, <2>2 DEF Notified, UnderWay
  <1> QED
    BY <1>1, <1>2

\* An answer for notices of the paste, all of them if it was confirmed in time.
LEMMA AnsweredIsLoose ==
    ASSUME NEW t, Loose(t), NEW ns \in {{}, t.flight},
           t.entered /\ ns = {} /\ t.flight # {} => t.enters < MaxEnters
    PROVE  /\ Loose(Answered(t, ns))
           /\ UnderWay(Answered(t, ns)) = UnderWay(t) \ ns
  <1> DEFINE u == Answered(t, ns)
  <1>1. MaxEnters \in Nat /\ 0 \in 0..MaxEnters
    BY DeliveryAssumption
  <1>2. /\ u.queue = t.queue /\ u.flight = t.flight \ ns /\ ~u.entered
        /\ u.enters = IF t.flight \ ns = {} THEN 0 ELSE t.enters
    BY DEF Answered, Loose, Terminal
  <1>3. u \in Terminal
    BY <1>1 DEF Answered, Loose, Terminal
  <1>4. u.flight # {} => u.flight = t.flight /\ ns = {} /\ u.enters = t.enters
    BY <1>2
  <1> HIDE DEF u
  <1>5. u.flight # {} => u.enters < MaxEnters
    BY <1>4 DEF Loose
  <1>6. UnderWay(u) = UnderWay(t) \ ns
    BY <1>2 DEF UnderWay, Loose
  <1> QED
    BY <1>2, <1>3, <1>5, <1>6 DEF Loose, u

LEMMA TurnStartedIsFit ==
    ASSUME NEW t, Fit(t)
    PROVE  /\ Fit(TurnStarted(t)) /\ Confirmed(t) \subseteq UnderWay(t)
           /\ UnderWay(TurnStarted(t)) = UnderWay(t) \ Confirmed(t)
  <1>1. Confirmed(t) \in {{}, t.flight} /\ (t.entered => Confirmed(t) = t.flight)
    BY DEF Confirmed
  <1>2. /\ Loose(Answered(t, Confirmed(t)))
        /\ UnderWay(Answered(t, Confirmed(t))) = UnderWay(t) \ Confirmed(t)
    BY <1>1, AnsweredIsLoose DEF Fit
  <1> QED
    BY <1>1, <1>2 DEF TurnStarted, Fit, Loose, Terminal, Blocked, UnderWay

LEMMA TurnSettledIsFit ==
    ASSUME NEW t, Fit(t)
    PROVE  Fit(TurnSettled(t)) /\ UnderWay(TurnSettled(t)) = UnderWay(t)
  <1> DEFINE u == [t EXCEPT !.turn = FALSE]
  <1>1. Loose(u) /\ UnderWay(u) = UnderWay(t)
    BY DEF Fit, Loose, Terminal, UnderWay
  <1> QED
    BY <1>1, FlushedIsFit DEF TurnSettled

LEMMA HoldsAreFit ==
    ASSUME NEW t, Fit(t), NEW h \in Holds
    PROVE  /\ Fit(Held(t, h)) /\ UnderWay(Held(t, h)) = UnderWay(t)
           /\ Fit(TakenOver(t, h)) /\ UnderWay(TakenOver(t, h)) = UnderWay(t)
           /\ Fit(Released(t, h)) /\ UnderWay(Released(t, h)) = UnderWay(t)
  <1>1. Fit(Held(t, h)) /\ UnderWay(Held(t, h)) = UnderWay(t)
    BY DEF Held, Fit, Loose, Terminal, UnderWay, Blocked
  <1>2. Fit(TakenOver(t, h)) /\ UnderWay(TakenOver(t, h)) = UnderWay(t)
    BY <1>1 DEF TakenOver, Fit, Loose, Terminal, UnderWay, Blocked
  <1> DEFINE u == [t EXCEPT !.holds = @ \ {h}]
  <1>3. Loose(u) /\ UnderWay(u) = UnderWay(t)
    BY DEF Fit, Loose, Terminal, UnderWay
  <1> QED
    BY <1>1, <1>2, <1>3, FlushedIsFit DEF Released

LEMMA EnteredIsFit ==
    ASSUME NEW t, Fit(t), t.flight # {}, ~t.entered
    PROVE  Fit(Entered(t)) /\ UnderWay(Entered(t)) = UnderWay(t)
  <1> DEFINE u == Entered(t)
  <1>1. MaxEnters \in Nat /\ t.enters \in 0..MaxEnters /\ t.enters < MaxEnters
    BY DeliveryAssumption DEF Fit, Loose, Terminal
  <1>2. t.enters + 1 \in 0..MaxEnters
    BY <1>1
  <1>3. u \in Terminal
    BY <1>2 DEF Entered, Fit, Loose, Terminal
  <1>4. u.queue = t.queue /\ u.flight = t.flight /\ u.entered
    BY DEF Entered, Fit, Loose, Terminal
  <1> HIDE DEF u
  <1> QED
    BY <1>3, <1>4 DEF Fit, Loose, UnderWay, Blocked, u

LEMMA UnconfirmedIsFit ==
    ASSUME NEW t, Fit(t), t.entered
    PROVE  /\ Fit(Unconfirmed(t)) /\ GivenUp(t) \subseteq UnderWay(t)
           /\ UnderWay(Unconfirmed(t)) = UnderWay(t) \ GivenUp(t)
  <1>1. GivenUp(t) \in {{}, t.flight} /\ (GivenUp(t) = {} /\ t.flight # {} => t.enters < MaxEnters)
    BY DeliveryAssumption DEF GivenUp, Fit, Loose, Terminal
  <1>2. /\ Loose(Answered(t, GivenUp(t)))
        /\ UnderWay(Answered(t, GivenUp(t))) = UnderWay(t) \ GivenUp(t)
    BY <1>1, AnsweredIsLoose DEF Fit
  <1> QED
    BY <1>1, <1>2, FlushedIsFit DEF Unconfirmed, UnderWay

LEMMA ExitedIsFit ==
    ASSUME NEW t, Fit(t)
    PROVE  /\ Fit(Exited(t)) /\ Forsaken(t) \subseteq UnderWay(t)
           /\ UnderWay(Exited(t)) = UnderWay(t) \ Forsaken(t)
  <1> DEFINE ns == IF t.entered THEN GivenUp(t) ELSE {}
  <1>1. ns \in {{}, t.flight} /\ (t.entered /\ ns = {} /\ t.flight # {} => t.enters < MaxEnters)
    BY DeliveryAssumption DEF GivenUp, Fit, Loose, Terminal
  <1>2. Loose(Answered(t, ns)) /\ UnderWay(Answered(t, ns)) = UnderWay(t) \ ns
    BY <1>1, AnsweredIsLoose DEF Fit
  <1>3. Answered(t, Forsaken(t)) = Answered(t, ns)
    BY DEF Answered, Forsaken, Fit, Loose, Terminal
  <1>4. Answered(t, ns).queue = t.queue
    BY DEF Answered, Fit, Loose, Terminal
  <1> HIDE DEF ns
  <1>5. Forsaken(t) = t.queue \union ns
    BY DEF Forsaken, ns
  <1> DEFINE a == Answered(t, ns)
             u == Exited(t)
  <1>6. Loose(a) /\ a.queue = t.queue /\ UnderWay(a) = UnderWay(t) \ ns
    BY <1>2, <1>4
  <1>7. u = [a EXCEPT !.alive = FALSE, !.turn = FALSE, !.holds = {}, !.queue = {}]
    BY <1>3 DEF Exited
  <1> HIDE DEF a, u
  <1>8. /\ u \in Terminal /\ u.queue = {} /\ u.flight = a.flight
        /\ u.entered = a.entered /\ u.enters = a.enters
    BY <1>6, <1>7 DEF Loose, Terminal
  <1>9. Fit(u)
    BY <1>6, <1>8 DEF Fit, Loose
  <1>10. UnderWay(u) = UnderWay(t) \ (t.queue \union ns)
    BY <1>6, <1>8 DEF UnderWay, Loose
  <1>11. t.queue \union ns \subseteq UnderWay(t)
    BY <1>1 DEF UnderWay
  <1> QED
    BY <1>5, <1>9, <1>10, <1>11 DEF u

LEMMA RestoredIsFit ==
    ASSUME NEW t, Fit(t), NEW known \in BOOLEAN
    PROVE  Fit(Restored(t, known)) /\ UnderWay(Restored(t, known)) = {}
  <1> DEFINE u == Restored(t, known)
  <1>1. /\ Unused \in Terminal
        /\ Unused.flight = {} /\ Unused.queue = {} /\ ~Unused.entered /\ Unused.enters = 0
    BY FreshIsFit DEF Fit, Loose, Unused
  <1>2. t.alive \in BOOLEAN /\ (t.turn /\ known) \in BOOLEAN
    BY DEF Fit, Loose, Terminal
  <1>3. /\ u \in Terminal
        /\ u.flight = {} /\ u.queue = {} /\ ~u.entered /\ u.enters = 0
    BY <1>1, <1>2 DEF Restored, Terminal
  <1> HIDE DEF u
  <1> QED
    BY <1>3 DEF Fit, Loose, UnderWay, u

-----------------------------------------------------------------------------
(* Messages                                                                  *)

\* A mark leaves the messages where they are; only reading makes them read.
LEMMA MarksAreTyped ==
    ASSUME NEW box \in Seq(Message), NEW ids,
           NEW new \in {Read(box, ids), Delivered(box, ids), Failed(box, ids)}
    PROVE  /\ new \in Seq(Message) /\ Len(new) = Len(box) /\ DOMAIN new = DOMAIN box
           /\ \A i \in DOMAIN box : /\ new[i].urgent = box[i].urgent
                                    /\ box[i].read => new[i].read
  <1>1. Len(box) \in Nat /\ DOMAIN box = 1..Len(box) /\ \A i \in DOMAIN box : box[i] \in Message
    BY LenProperties, ElementOfSeq
  <1>2. /\ DOMAIN new = DOMAIN box /\ new = [i \in DOMAIN box |-> new[i]]
        /\ \A i \in DOMAIN box : /\ new[i] \in Message
                                 /\ new[i].urgent = box[i].urgent
                                 /\ box[i].read => new[i].read
    <2>1. CASE new = Read(box, ids)
      BY <1>1, <2>1 DEF Read, Message
    <2>2. CASE new = Delivered(box, ids)
      BY <1>1, <2>2 DEF Delivered, Message
    <2>3. CASE new = Failed(box, ids)
      BY <1>1, <2>3 DEF Failed, Message
    <2> QED
      BY <2>1, <2>2, <2>3
  <1>3. new \in [1..Len(box) -> Message]
    BY <1>1, <1>2
  <1>4. new \in Seq(Message)
    BY <1>1, <1>3, SeqDef
  <1>5. Len(new) = Len(box)
    BY <1>1, <1>2, <1>4, LenProperties
  <1> QED
    BY <1>2, <1>4, <1>5

\* What has been read is not found any more by a call for what is unread, and
\* no mark makes a call find what it did not find before.
LEMMA MarksHideNothing ==
    ASSUME NEW box \in Seq(Message), NEW ids,
           NEW new \in {Read(box, ids), Delivered(box, ids), Failed(box, ids)},
           NEW call
    PROVE  Found(new, call) \subseteq Found(box, call)
  BY MarksAreTyped DEF Found

\* A new message is the last one.
LEMMA NewIsLast ==
    ASSUME NEW box \in Seq(Message), NEW m \in Message
    PROVE  /\ Append(box, m) \in Seq(Message) /\ Len(Append(box, m)) = Len(box) + 1
           /\ DOMAIN box \subseteq DOMAIN Append(box, m)
  BY AppendProperties, LenProperties

-----------------------------------------------------------------------------
(* The inductive invariant                                                   *)

\* A notice of the runner is under way in one terminal at most, and a prompt
\* in the terminal that it is meant for.
Ways ==
    /\ \A s \in Terminals : Fit(terminal[s])
    /\ \A s, u \in Terminals :
        "inbox" \in UnderWay(terminal[s]) /\ "inbox" \in UnderWay(terminal[u]) => s = u
    /\ ringing # {} <=> \E s \in Terminals : "inbox" \in UnderWay(terminal[s])
    /\ prompt = "asked" => "resume" \in UnderWay(Live)

\* Who does not work is not parked.
Resting == state # "ACTIVE" => ~parked /\ prompt = "none"

IInv == TypeOK /\ Ways /\ Resting

\* A terminal moves, and its callers do what it answers.
LEMMA AnswersAreHeard ==
    ASSUME IInv, NEW s \in Terminals, NEW t, Fit(t), NEW done, NEW failed,
           done \union failed \subseteq UnderWay(terminal[s]),
           UnderWay(t) = UnderWay(terminal[s]) \ (done \union failed),
           Moves(s, t), Settled(s, done, failed)
    PROVE  IInv'
  <1>1. terminal' \in [Terminals -> Terminal] /\ \A u \in Terminals : Fit(terminal'[u])
    BY DEF IInv, TypeOK, Ways, Moves, Fit, Loose
  <1>2. mail' \in Seq(Message) /\ Len(mail') = Len(mail) /\ DOMAIN mail' = DOMAIN mail
    BY MarksAreTyped DEF Settled, IInv, TypeOK
  <1>3. TypeOK'
    <2>1. ringing' \subseteq DOMAIN mail' /\ prompt' \in {"none", "asked", "typed"}
      BY <1>2 DEF Settled, IInv, TypeOK
    <2>2. doorbell' \in BOOLEAN
      BY DEF Settled, RingAgain, MayRing, IInv, TypeOK
    <2>3. UNCHANGED <<state, bound, activating, worker, shown, parked, cursor, waiting, joining, restarts>>
      BY DEF Settled, ledger, calls
    <2> QED
      BY <1>1, <1>2, <2>1, <2>2, <2>3 DEF IInv, TypeOK
  <1>4. \A u \in Terminals \ {s} : terminal'[u] = terminal[u]
    BY DEF Moves, IInv, TypeOK
  <1>5. terminal'[s] = t
    BY DEF Moves, IInv, TypeOK
  <1>6. \A u, v \in Terminals :
            "inbox" \in UnderWay(terminal'[u]) /\ "inbox" \in UnderWay(terminal'[v]) => u = v
    BY <1>4, <1>5 DEF IInv, Ways
  <1>7. ringing' # {} <=> \E u \in Terminals : "inbox" \in UnderWay(terminal'[u])
    <2>1. CASE "inbox" \in done \union failed
      <3>1. ringing' = {}
        BY <2>1 DEF Settled
      <3>2. \A u \in Terminals : "inbox" \notin UnderWay(terminal'[u])
        BY <1>4, <1>5, <2>1 DEF IInv, Ways
      <3> QED
        BY <3>1, <3>2
    <2>2. CASE "inbox" \notin done \union failed
      <3>1. ringing' = ringing
        BY <2>2 DEF Settled
      <3>2. \A u \in Terminals :
              "inbox" \in UnderWay(terminal'[u]) <=> "inbox" \in UnderWay(terminal[u])
        BY <1>4, <1>5, <2>2
      <3> QED
        BY <3>1, <3>2 DEF IInv, Ways
    <2> QED
      BY <2>1, <2>2
  <1>8. prompt' = "asked" => "resume" \in UnderWay(terminal'[bound'])
    <2>1. bound' = bound /\ bound \in Terminals
      BY DEF Settled, ledger, IInv, TypeOK
    <2> SUFFICES ASSUME prompt' = "asked" PROVE "resume" \in UnderWay(terminal'[bound])
      BY <2>1
    <2>2. prompt = "asked" /\ "resume" \in UnderWay(terminal[bound])
      BY DEF Settled, IInv, Ways, Live
    <2>3. s = bound => "resume" \notin done \union failed
      BY <2>2 DEF Settled
    <2> QED
      BY <1>4, <1>5, <2>1, <2>2, <2>3
  <1>9. Resting'
    BY DEF Settled, ledger, IInv, Resting
  <1> QED
    BY <1>1, <1>3, <1>6, <1>7, <1>8, <1>9 DEF IInv, Ways, Live

\* The other steps leave terminals and deliveries alone.
LEMMA WaysAreKept ==
    ASSUME IInv, TypeOK', Resting', UNCHANGED <<bound, ringing, terminal>>,
           prompt' \in {prompt, "none", "typed"}
    PROVE  IInv'
  <1>1. Live' = Live
    BY DEF Live
  <1>2. Ways'
    BY <1>1 DEF IInv, Ways
  <1> QED
    BY <1>2 DEF IInv

LEMMA CommitIsTyped ==
    ASSUME TypeOK, NEW urgent \in BOOLEAN, Commit(urgent)
    PROVE  /\ mail' \in Seq(Message) /\ Len(mail') = Len(mail) + 1 /\ Len(mail') <= MaxMessages
           /\ DOMAIN mail \subseteq DOMAIN mail' /\ shown \in 0..Len(mail')
           /\ waiting' \in [Waiters -> Waits] /\ joining' \in BOOLEAN
  <1> DEFINE m == [urgent |-> urgent, read |-> FALSE, delivery |-> "pending"]
             box == Append(mail, m)
  <1>1. m \in Message
    BY DEF Message
  <1>2. /\ box \in Seq(Message) /\ Len(box) = Len(mail) + 1 /\ DOMAIN mail \subseteq DOMAIN box
    BY <1>1, NewIsLast DEF TypeOK
  <1> HIDE DEF box
  <1>3. \E ids : mail' = Read(box, ids)
    BY DEF Commit, box
  <1>4. mail' \in Seq(Message) /\ Len(mail') = Len(box) /\ DOMAIN mail' = DOMAIN box
    BY <1>2, <1>3, MarksAreTyped
  <1>5. Len(mail) \in Nat /\ MaxMessages \in Nat /\ Len(mail) < MaxMessages
    BY InboxAssumption, LenProperties DEF TypeOK, Commit
  <1>6. NoWait \in Waits
    BY <1>5 DEF NoWait, Waits
  <1>7. waiting' \in [Waiters -> Waits]
    BY <1>6 DEF Commit, TypeOK
  <1>8. joining' \in BOOLEAN
    BY DEF Commit, MissionTold, TypeOK
  <1> QED
    BY <1>2, <1>4, <1>5, <1>7, <1>8 DEF TypeOK

LEMMA SendKeeps == ASSUME IInv, Send \/ Answer \/ SendSilently PROVE IInv'
  <1>1. PICK urgent \in BOOLEAN : Commit(urgent)
    BY DEF Send, Answer, SendSilently
  <1>2. UNCHANGED <<ledger, shown, pause, ringing, terminal, restarts>>
    BY DEF Send, Answer, SendSilently, bell
  <1>3. doorbell' \in BOOLEAN
    BY DEF Send, Answer, SendSilently, Signal, bell, IInv, TypeOK
  <1>4. TypeOK'
    BY <1>1, <1>2, <1>3, CommitIsTyped DEF ledger, pause, IInv, TypeOK
  <1> QED
    BY <1>2, <1>4, WaysAreKept DEF ledger, pause, IInv, Resting

LEMMA WorkerKeeps == ASSUME IInv, WorkerReports \/ WorkerSteered \/ WorkerLost PROVE IInv'
  <1>1. CASE WorkerReports
    <2>1. TypeOK'
      BY <1>1, CommitIsTyped DEF WorkerReports, Signal, pause, IInv, TypeOK
    <2> QED
      BY <1>1, <2>1, WaysAreKept DEF WorkerReports, pause, IInv, Resting
  <1>2. CASE WorkerSteered \/ WorkerLost
    <2>1. TypeOK'
      BY <1>2 DEF WorkerSteered, WorkerLost, MissionTold, letters, pause, bell, calls, IInv, TypeOK
    <2> QED
      BY <1>2, <2>1, WaysAreKept
      DEF WorkerSteered, WorkerLost, pause, bell, IInv, Resting
  <1> QED
    BY <1>1, <1>2

LEMMA CallKeeps ==
    ASSUME IInv, Sync \/ Join \/ JoinTimesOut \/ (\E w \in Waiters : Wait(w) \/ TimesOut(w))
    PROVE  IInv'
  <1>1. /\ Len(mail) \in Nat /\ MaxMessages \in Nat /\ Cursors \subseteq 0..MaxMessages
        /\ NoWait \in Waits
    BY InboxAssumption, LenProperties DEF Cursors, NoWait, Waits, IInv, TypeOK
  <1>2. CASE Sync
    <2>1. \/ mail' = mail
          \/ \E ids : mail' = Read(mail, ids)
      BY <1>2 DEF Sync
    <2>2. mail' \in Seq(Message) /\ Len(mail') = Len(mail) /\ DOMAIN mail' = DOMAIN mail
      BY <2>1, MarksAreTyped DEF IInv, TypeOK
    <2> shown' \in 0..Len(mail')
      BY <1>1, <1>2, <2>2 DEF Sync
    <2>3. TypeOK'
      BY <1>2, <2>2 DEF Sync, ledger, pause, bell, calls, IInv, TypeOK
    <2> QED
      BY <1>2, <2>3, WaysAreKept DEF Sync, ledger, pause, bell, IInv, Resting
  <1>3. CASE Join \/ JoinTimesOut
    <2>1. TypeOK'
      BY <1>3 DEF Join, JoinTimesOut, ledger, letters, pause, bell, IInv, TypeOK
    <2> QED
      BY <1>3, <2>1, WaysAreKept DEF Join, JoinTimesOut, ledger, pause, bell, IInv, Resting
  <1>4. ASSUME NEW w \in Waiters, Wait(w) PROVE IInv'
    <2>1. PICK for \in {"unread", "any"}, marks \in BOOLEAN :
            LET call  == [for |-> for, marks |-> marks,
                          after |-> IF for = "any" THEN shown ELSE 0]
                found == Found(mail, call)
            IN  /\ mail' = IF marks THEN Read(mail, found) ELSE mail
                /\ waiting' = [waiting EXCEPT ![w] = IF found = {} THEN call ELSE NoWait]
      BY <1>4 DEF Wait
    <2> DEFINE call == [for |-> for, marks |-> marks,
                        after |-> IF for = "any" THEN shown ELSE 0]
    <2>2. call \in Waits
      BY <1>1 DEF Waits, IInv, TypeOK
    <2>3. waiting' \in [Waiters -> Waits]
      BY <1>1, <2>1, <2>2 DEF IInv, TypeOK
    <2>4. mail' \in Seq(Message) /\ Len(mail') = Len(mail) /\ DOMAIN mail' = DOMAIN mail
      BY <2>1, MarksAreTyped DEF IInv, TypeOK
    <2>5. TypeOK'
      BY <1>4, <2>3, <2>4 DEF Wait, ledger, pause, bell, IInv, TypeOK
    <2> QED
      BY <1>4, <2>5, WaysAreKept DEF Wait, ledger, pause, bell, IInv, Resting
  <1>5. ASSUME NEW w \in Waiters, TimesOut(w) PROVE IInv'
    <2>1. TypeOK'
      BY <1>1, <1>5 DEF TimesOut, ledger, letters, pause, bell, IInv, TypeOK
    <2> QED
      BY <1>5, <2>1, WaysAreKept DEF TimesOut, ledger, pause, bell, IInv, Resting
  <1> QED
    BY <1>2, <1>3, <1>4, <1>5

LEMMA PauseKeeps == ASSUME IInv, Park \/ Consume PROVE IInv'
  <1>1. Len(mail) \in Nat /\ MaxMessages \in Nat /\ Cursors \subseteq 0..MaxMessages
    BY InboxAssumption, LenProperties DEF Cursors, IInv, TypeOK
  <1>2. CASE Park
    <2>1. TypeOK'
      BY <1>1, <1>2 DEF Park, MissionTold, letters, bell, IInv, TypeOK
    <2> QED
      BY <1>2, <2>1, WaysAreKept DEF Park, bell, IInv, Resting
  <1>3. CASE Consume
    <2>1. mail' \in Seq(Message) /\ Len(mail') = Len(mail) /\ DOMAIN mail' = DOMAIN mail
      BY <1>3, MarksAreTyped DEF Consume, IInv, TypeOK
    <2> shown' \in 0..Len(mail') /\ cursor' \in 0..MaxMessages
      BY <1>1, <1>3, <2>1 DEF Consume
    <2>2. TypeOK'
      BY <1>3, <2>1 DEF Consume, MissionTold, bell, IInv, TypeOK
    <2> QED
      BY <1>3, <2>2, WaysAreKept DEF Consume, bell, IInv, Resting
  <1> QED
    BY <1>2, <1>3

LEMMA UnheardKeeps == ASSUME IInv, Unheard PROVE IInv'
  <1>1. TypeOK'
    BY DEF Unheard, RingAgain, MayRing, ledger, letters, pause, calls, IInv, TypeOK
  <1> QED
    BY <1>1, WaysAreKept DEF Unheard, ledger, pause, IInv, Resting

LEMMA RingKeeps == ASSUME IInv, Ring PROVE IInv'
  <1>1. CASE Live.alive
    <2> DEFINE t == Notified(Live, "inbox")
    <2>1. bound \in Terminals /\ terminal \in [Terminals -> Terminal]
      BY DEF IInv, TypeOK
    <2>2. \A s \in Terminals : "inbox" \notin UnderWay(terminal[s])
      BY DEF Ring, IInv, Ways
    <2>3. Fit(Live) /\ "inbox" \in Notices /\ "inbox" \notin UnderWay(Live)
      BY <2>1, <2>2, InboxAssumption DEF IInv, Ways, Live
    <2>4. Fit(t) /\ UnderWay(t) = UnderWay(Live) \union {"inbox"}
      BY <2>3, NotifiedIsFit
    <2>5. /\ ringing' = Undelivered(mail) /\ ringing' # {} /\ ringing' \subseteq DOMAIN mail
          /\ terminal' = [terminal EXCEPT ![bound] = t] /\ mail' = mail /\ doorbell' = FALSE
      BY <1>1 DEF Ring, InTerminal, MayRing, Undelivered
    <2> HIDE DEF t
    <2>6. /\ terminal' \in [Terminals -> Terminal] /\ terminal'[bound] = t
          /\ \A s \in Terminals \ {bound} : terminal'[s] = terminal[s]
      BY <2>1, <2>4, <2>5 DEF Fit, Loose
    <2>7. TypeOK'
      BY <2>5, <2>6 DEF Ring, ledger, pause, calls, IInv, TypeOK
    <2>8. /\ \A s \in Terminals : Fit(terminal'[s])
          /\ \A s \in Terminals : "inbox" \in UnderWay(terminal'[s]) <=> s = bound
      BY <2>1, <2>2, <2>4, <2>6 DEF IInv, Ways
    <2>9. prompt' = "asked" => "resume" \in UnderWay(terminal'[bound])
      BY <2>4, <2>6 DEF Ring, pause, IInv, Ways
    <2>10. bound' = bound
      BY DEF Ring, ledger
    <2>11. Ways'
      BY <2>1, <2>5, <2>8, <2>9, <2>10 DEF Ways, Live
    <2>12. Resting'
      BY DEF Ring, ledger, pause, IInv, Resting
    <2> QED
      BY <2>7, <2>11, <2>12 DEF IInv
  <1>2. CASE ~Live.alive
    <2>1. mail' = Failed(mail, Undelivered(mail)) /\ UNCHANGED <<doorbell, ringing, terminal>>
      BY <1>2 DEF Ring
    <2>2. mail' \in Seq(Message) /\ Len(mail') = Len(mail) /\ DOMAIN mail' = DOMAIN mail
      BY <2>1, MarksAreTyped DEF IInv, TypeOK
    <2>3. TypeOK'
      BY <2>1, <2>2 DEF Ring, ledger, pause, calls, IInv, TypeOK
    <2> QED
      BY <2>1, <2>3, WaysAreKept DEF Ring, ledger, pause, IInv, Resting
  <1> QED
    BY <1>1, <1>2

LEMMA PromptKeeps == ASSUME IInv, Prompt PROVE IInv'
  <1> DEFINE t == Notified(Live, "resume")
  <1>1. bound \in Terminals /\ terminal \in [Terminals -> Terminal]
    BY DEF IInv, TypeOK
  <1>2. Fit(Live) /\ "resume" \in Notices /\ "resume" \notin UnderWay(Live)
    BY <1>1, InboxAssumption DEF Prompt, IInv, Ways, Live
  <1>3. Fit(t) /\ UnderWay(t) = UnderWay(Live) \union {"resume"}
    BY <1>2, NotifiedIsFit
  <1>4. /\ terminal' = [terminal EXCEPT ![bound] = t] /\ prompt' = "asked" /\ state = "ACTIVE"
        /\ UNCHANGED <<ledger, letters, parked, cursor, bell, calls, restarts>>
    BY DEF Prompt, InTerminal
  <1> HIDE DEF t
  <1>5. /\ terminal' \in [Terminals -> Terminal] /\ terminal'[bound] = t
        /\ \A s \in Terminals \ {bound} : terminal'[s] = terminal[s]
    BY <1>1, <1>3, <1>4 DEF Fit, Loose
  <1>6. TypeOK'
    BY <1>4, <1>5 DEF ledger, letters, bell, calls, IInv, TypeOK
  <1>7. /\ \A s \in Terminals : Fit(terminal'[s])
        /\ \A s \in Terminals : "inbox" \in UnderWay(terminal'[s]) <=> "inbox" \in UnderWay(terminal[s])
    BY <1>1, <1>3, <1>5 DEF IInv, Ways, Live
  <1>8. "resume" \in UnderWay(terminal'[bound])
    BY <1>3, <1>5
  <1>9. bound' = bound /\ ringing' = ringing
    BY <1>4 DEF ledger, bell
  <1>10. Ways'
    BY <1>7, <1>8, <1>9 DEF IInv, Ways, Live
  <1>11. Resting'
    BY <1>4 DEF ledger, Resting
  <1> QED
    BY <1>6, <1>10, <1>11 DEF IInv

LEMMA TerminalKeeps ==
    ASSUME IInv, NEW s \in Terminals,
           \/ TurnStarts(s) \/ TurnSettles(s) \/ Enters(s) \/ AckMissed(s)
           \/ Exits(s) \/ HoldOn(s) \/ HoldOff(s)
    PROVE  IInv'
  <1> DEFINE t == terminal[s]
  <1>1. Fit(t)
    BY DEF IInv, Ways
  <1>2. t.holds \subseteq Holds
    BY <1>1 DEF Fit, Loose, Terminal
  <1> HIDE DEF t
  <1>3. CASE TurnStarts(s)
    <2>1. /\ Fit(TurnStarted(t)) /\ Confirmed(t) \subseteq UnderWay(t)
          /\ UnderWay(TurnStarted(t)) = UnderWay(t) \ Confirmed(t)
      BY <1>1, TurnStartedIsFit
    <2>2. Confirmed(t) \union {} = Confirmed(t)
      OBVIOUS
    <2> QED
      BY <1>3, <2>1, <2>2, AnswersAreHeard DEF TurnStarts, t
  <1>4. CASE TurnSettles(s)
    BY <1>1, <1>4, TurnSettledIsFit, AnswersAreHeard DEF TurnSettles, t
  <1>5. CASE Enters(s)
    BY <1>1, <1>5, EnteredIsFit, AnswersAreHeard DEF Enters, t
  <1>6. CASE AckMissed(s)
    <2>1. {} \union GivenUp(t) = GivenUp(t)
      OBVIOUS
    <2> QED
      BY <1>1, <1>6, <2>1, UnconfirmedIsFit, AnswersAreHeard DEF AckMissed, t
  <1>7. CASE Exits(s)
    <2>1. {} \union Forsaken(t) = Forsaken(t)
      OBVIOUS
    <2> QED
      BY <1>1, <1>7, <2>1, ExitedIsFit, AnswersAreHeard DEF Exits, t
  <1>8. CASE HoldOn(s)
    <2>1. PICK h \in Holds : Moves(s, Held(t, h)) \/ Moves(s, TakenOver(t, h))
      BY <1>8 DEF HoldOn, t
    <2> QED
      BY <1>1, <1>8, <2>1, HoldsAreFit, AnswersAreHeard DEF HoldOn, t
  <1>9. CASE HoldOff(s)
    <2>1. PICK h \in Holds : Moves(s, Released(t, h))
      BY <1>2, <1>9 DEF HoldOff, t
    <2> QED
      BY <1>1, <1>9, <2>1, HoldsAreFit, AnswersAreHeard DEF HoldOff, t
  <1> QED
    BY <1>3, <1>4, <1>5, <1>6, <1>7, <1>8, <1>9

LEMMA BindKeeps == ASSUME IInv, Bind PROVE IInv'
  <1>1. /\ bound' \in Terminals /\ UnderWay(terminal[bound']) = {} /\ Opened \in Terminal
        /\ terminal' = [terminal EXCEPT ![bound'] = Opened]
        /\ terminal \in [Terminals -> Terminal] /\ prompt = "none" /\ ~parked
    BY FreshIsFit DEF Bind, IInv, TypeOK, Resting, Fit, Loose
  <1>2. /\ terminal' \in [Terminals -> Terminal] /\ terminal'[bound'] = Opened
        /\ \A s \in Terminals \ {bound'} : terminal'[s] = terminal[s]
    BY <1>1
  <1>3. \A s \in Terminals : Fit(terminal'[s]) /\ UnderWay(terminal'[s]) = UnderWay(terminal[s])
    BY <1>1, <1>2, FreshIsFit DEF IInv, Ways
  <1>4. Len(mail) \in Nat
    BY LenProperties DEF IInv, TypeOK
  <1>5. TypeOK'
    BY <1>1, <1>2, <1>4 DEF Bind, pause, bell, calls, IInv, TypeOK
  <1>6. ringing' = ringing /\ prompt' = "none"
    BY <1>1 DEF Bind, bell, pause
  <1>7. Ways'
    BY <1>3, <1>6 DEF IInv, Ways
  <1>8. Resting'
    BY DEF Bind, Resting
  <1> QED
    BY <1>5, <1>7, <1>8 DEF IInv

LEMMA RestartKeeps == ASSUME IInv, Restart PROVE IInv'
  <1>1. PICK known \in BOOLEAN : terminal' = [s \in Terminals |-> Restored(terminal[s], known)]
    BY DEF Restart
  <1>2. \A s \in Terminals : Fit(terminal'[s]) /\ UnderWay(terminal'[s]) = {}
    BY <1>1, RestoredIsFit DEF IInv, Ways
  <1>3. terminal' \in [Terminals -> Terminal]
    BY <1>1, <1>2 DEF Fit, Loose
  <1>4. MaxMessages \in Nat /\ NoWait \in Waits
    BY InboxAssumption DEF NoWait, Waits
  <1>5. restarts' \in 0..MaxRestarts
    BY InboxAssumption DEF Restart, IInv, TypeOK
  <1>6. TypeOK'
    BY <1>3, <1>4, <1>5 DEF Restart, letters, IInv, TypeOK
  <1>7. ringing' = {} /\ prompt' # "asked"
    BY DEF Restart
  <1>8. Ways'
    BY <1>2, <1>7 DEF Ways
  <1>9. Resting'
    BY DEF Restart, IInv, Resting
  <1> QED
    BY <1>6, <1>8, <1>9 DEF IInv

LEMMA LifeKeeps == ASSUME IInv, Activated \/ ActivateFails \/ End \/ Retry PROVE IInv'
  <1>1. MaxMessages \in Nat /\ 0 \in 0..MaxMessages
    BY InboxAssumption
  <1>2. TypeOK'
    BY <1>1, ZenonT(60) DEF Activated, ActivateFails, End, Retry, Signal, letters, pause, bell, calls, IInv, TypeOK
  <1>3. UNCHANGED <<bound, ringing, terminal>> /\ prompt' \in {prompt, "none"}
    BY DEF Activated, ActivateFails, End, Retry, pause, bell
  <1>4. Resting'
    BY DEF Activated, ActivateFails, End, Retry, pause, IInv, Resting
  <1> QED
    BY <1>2, <1>3, <1>4, WaysAreKept

LEMMA Begins == Init => IInv
  <1> SUFFICES ASSUME Init PROVE IInv
    OBVIOUS
  <1>1. /\ MaxMessages \in Nat /\ NoWait \in Waits /\ MaxRestarts \in Nat
        /\ Unused \in Terminal
    BY InboxAssumption, FreshIsFit DEF NoWait, Waits, Fit, Loose
  <1>2. <<>> \in Seq(Message) /\ Len(<<>>) = 0
    OBVIOUS
  <1>3. TypeOK
    <2>1. mail \in Seq(Message) /\ Len(mail) = 0 /\ shown = 0
      BY <1>2 DEF Init
    <2>2. Len(mail) <= MaxMessages /\ shown \in 0..Len(mail)
      BY <1>1, <2>1
    <2>3. /\ waiting \in [Waiters -> Waits] /\ terminal \in [Terminals -> Terminal]
          /\ ringing \subseteq DOMAIN mail /\ cursor \in 0..MaxMessages
          /\ restarts \in 0..MaxRestarts
      BY <1>1 DEF Init
    <2> QED
      BY <2>1, <2>2, <2>3 DEF Init, TypeOK
  <1>4. \A s \in Terminals : Fit(terminal[s]) /\ UnderWay(terminal[s]) = {}
    BY FreshIsFit DEF Init
  <1> QED
    BY <1>3, <1>4 DEF Init, IInv, Ways, Resting

LEMMA Keeps == IInv /\ [Next]_vars => IInv'
  <1> SUFFICES ASSUME IInv, [Next]_vars PROVE IInv'
    OBVIOUS
  <1>1. CASE UNCHANGED vars
    <2>1. TypeOK'
      BY <1>1 DEF vars, ledger, letters, pause, bell, calls, IInv, TypeOK
    <2> QED
      BY <1>1, <2>1, WaysAreKept DEF vars, ledger, pause, bell, IInv, Resting
  <1>2. CASE Next
    BY <1>2, SendKeeps, WorkerKeeps, CallKeeps, PauseKeeps, UnheardKeeps, RingKeeps,
       PromptKeeps, TerminalKeeps, BindKeeps, RestartKeeps, LifeKeeps
    DEF Next
  <1> QED
    BY <1>1, <1>2

THEOREM Invariant == Spec => []IInv
  BY Begins, Keeps, PTL DEF Spec

\* The types hold, whatever happens.
THEOREM TypeCorrect == Spec => []TypeOK
  <1>1. IInv => TypeOK
    BY DEF IInv
  <1> QED
    BY <1>1, Invariant, PTL

\* Whatever the runner awaits is queued or pasted in a terminal, and a queue
\* waits for a reason: notifyRuntime settles every promise it returned, and
\* flushRuntimeNotifications is called wherever a reason ends.
THEOREM NothingIsStranded == Spec => []DeliveriesAreUnderWay
  <1>1. IInv => DeliveriesAreUnderWay
    BY DEF IInv, Ways, Fit, DeliveriesAreUnderWay
  <1> QED
    BY <1>1, Invariant, PTL

-----------------------------------------------------------------------------
(* Nobody sleeps through what was sent                                       *)

\* Marks, answers and timeouts leave every call that goes on waiting with
\* nothing to find, and a join with nothing to learn.
LEMMA StillWaiting ==
    ASSUME TypeOK, WaitersAreTold,
           \/ mail' = mail
           \/ \E ids : mail' \in {Read(mail, ids), Delivered(mail, ids), Failed(mail, ids)},
           waiting' = waiting \/ waiting' = [w \in Waiters |-> NoWait]
              \/ \E w \in Waiters : waiting' = [waiting EXCEPT ![w] = NoWait],
           joining' => worker' # "ended"
    PROVE  WaitersAreTold'
  <1>1. \A call : Found(mail', call) \subseteq Found(mail, call)
    BY MarksHideNothing DEF TypeOK
  <1>2. \A w \in Waiters : waiting'[w] \in {waiting[w], NoWait}
    BY DEF TypeOK
  <1> QED
    BY <1>1, <1>2 DEF WaitersAreTold

LEMMA CommitTells ==
    ASSUME TypeOK, WaitersAreTold, NEW urgent \in BOOLEAN, Commit(urgent)
    PROVE  WaitersAreTold'
  <1> DEFINE m == [urgent |-> urgent, read |-> FALSE, delivery |-> "pending"]
             box == Append(mail, m)
  <1>1. box \in Seq(Message)
    BY NewIsLast DEF Message, TypeOK
  <1> HIDE DEF box
  <1>2. /\ mail' = Read(box, MarkedBy(box, Told(box)))
        /\ waiting' = [w \in Waiters |-> IF w \in Told(box) THEN NoWait ELSE waiting[w]]
        /\ joining' = (joining /\ worker' = "working")
    BY DEF Commit, MissionTold, box
  <1>3. \A call : Found(mail', call) \subseteq Found(box, call)
    BY <1>1, <1>2, MarksHideNothing
  <1>4. ASSUME NEW w \in Waiters, waiting'[w] # NoWait PROVE Found(mail', waiting'[w]) = {}
    <2>1. w \notin Told(box) /\ waiting'[w] = waiting[w]
      BY <1>2, <1>4
    <2>2. Found(box, waiting[w]) = {}
      BY <1>4, <2>1 DEF Told
    <2> QED
      BY <1>3, <2>1, <2>2
  <1> QED
    BY <1>2, <1>4 DEF WaitersAreTold

LEMMA WaitLooksFirst ==
    ASSUME TypeOK, WaitersAreTold, NEW w \in Waiters, Wait(w)
    PROVE  WaitersAreTold'
  <1>1. PICK call : \E marks \in BOOLEAN :
          /\ mail' = IF marks THEN Read(mail, Found(mail, call)) ELSE mail
          /\ waiting' = [waiting EXCEPT ![w] = IF Found(mail, call) = {} THEN call ELSE NoWait]
    BY DEF Wait
  <1>2. \A c : Found(mail', c) \subseteq Found(mail, c)
    BY <1>1, MarksHideNothing DEF TypeOK
  <1>3. waiting'[w] # NoWait => waiting'[w] = call /\ Found(mail, call) = {}
    BY <1>1 DEF TypeOK
  <1>4. \A u \in Waiters \ {w} : waiting'[u] = waiting[u]
    BY <1>1 DEF TypeOK
  <1>5. UNCHANGED <<joining, worker>>
    BY DEF Wait, ledger
  <1> QED
    BY <1>2, <1>3, <1>4, <1>5 DEF WaitersAreTold

LEMMA SettledTells ==
    ASSUME TypeOK, WaitersAreTold, NEW s, NEW done, NEW failed, Settled(s, done, failed)
    PROVE  WaitersAreTold'
  <1>1. \/ mail' = mail
        \/ \E ids : mail' \in {Read(mail, ids), Delivered(mail, ids), Failed(mail, ids)}
    BY DEF Settled
  <1>2. UNCHANGED <<waiting, joining, worker>>
    BY DEF Settled, ledger, calls
  <1> QED
    BY <1>1, <1>2, StillWaiting DEF WaitersAreTold

LEMMA StepsTell == TypeOK /\ WaitersAreTold /\ [Next]_vars => WaitersAreTold'
  <1> SUFFICES ASSUME TypeOK, WaitersAreTold, [Next]_vars PROVE WaitersAreTold'
    OBVIOUS
  <1>1. CASE UNCHANGED vars
    BY <1>1, StillWaiting DEF vars, ledger, letters, calls, WaitersAreTold
  <1>2. CASE Send \/ Answer \/ SendSilently \/ WorkerReports
    BY <1>2, CommitTells DEF Send, Answer, SendSilently, WorkerReports
  <1>3. CASE WorkerSteered \/ WorkerLost \/ Join \/ JoinTimesOut
    BY <1>3, StillWaiting
    DEF WorkerSteered, WorkerLost, Join, JoinTimesOut, MissionTold, ledger, letters, calls,
        WaitersAreTold
  <1>4. CASE Sync
    <2>1. mail' = mail \/ \E ids : mail' = Read(mail, ids)
      BY <1>4 DEF Sync
    <2> QED
      BY <1>4, <2>1, StillWaiting DEF Sync, ledger, calls, WaitersAreTold
  <1>5. CASE Park \/ Consume
    <2>1. mail' = mail \/ \E ids : mail' = Read(mail, ids)
      BY <1>5 DEF Park, Consume, letters
    <2> QED
      BY <1>5, <2>1, StillWaiting DEF Park, Consume, MissionTold, WaitersAreTold
  <1>6. CASE \E w \in Waiters : Wait(w) \/ TimesOut(w)
    <2>1. ASSUME NEW w \in Waiters, TimesOut(w) PROVE WaitersAreTold'
      <3>1. /\ mail' = mail /\ waiting' = [waiting EXCEPT ![w] = NoWait]
            /\ joining' => worker' # "ended"
        BY <2>1 DEF TimesOut, ledger, letters, WaitersAreTold
      <3> QED
        BY <3>1, StillWaiting
    <2> QED
      BY <1>6, <2>1, WaitLooksFirst
  <1>7. CASE Unheard \/ Ring \/ Prompt
    <2>1. mail' = mail \/ \E ids : mail' = Failed(mail, ids)
      BY <1>7 DEF Unheard, Ring, Prompt, letters
    <2>2. UNCHANGED <<waiting, joining, worker>>
      BY <1>7 DEF Unheard, Ring, Prompt, ledger, calls
    <2> QED
      BY <2>1, <2>2, StillWaiting DEF WaitersAreTold
  <1>8. CASE \E s \in Terminals :
               \/ TurnStarts(s) \/ TurnSettles(s) \/ Enters(s) \/ AckMissed(s)
               \/ Exits(s) \/ HoldOn(s) \/ HoldOff(s)
    BY <1>8, SettledTells
    DEF TurnStarts, TurnSettles, Enters, AckMissed, Exits, HoldOn, HoldOff
  <1>9. CASE Bind \/ Activated \/ ActivateFails \/ End \/ Retry
    <2>1. UNCHANGED <<mail, waiting, joining, worker>>
      BY <1>9 DEF Bind, Activated, ActivateFails, End, Retry, letters, calls
    <2> QED
      BY <2>1, StillWaiting DEF WaitersAreTold
  <1>10. CASE Restart
    BY <1>10, StillWaiting DEF Restart, letters
  <1> QED
    BY <1>1, <1>2, <1>3, <1>4, <1>5, <1>6, <1>7, <1>8, <1>9, <1>10 DEF Next

\* However many calls wait, with whatever filters and marks, a commit answers
\* every one that it concerns: notifyAssignment and notifyMission.
THEOREM CallsAreAnswered == Spec => []WaitersAreTold
  <1>1. Init => WaitersAreTold
    BY DEF Init, WaitersAreTold
  <1> QED
    BY <1>1, StepsTell, TypeCorrect, PTL DEF Spec

-----------------------------------------------------------------------------
(* No message is forgotten                                                   *)

\* Reading and delivering leave nothing undelivered that was not.
LEMMA MarksDeliver ==
    ASSUME NEW box \in Seq(Message), NEW ids, NEW new \in {Read(box, ids), Delivered(box, ids)}
    PROVE  /\ Undelivered(new) \subseteq Undelivered(box)
           /\ \A i \in Undelivered(new) : new[i].urgent = box[i].urgent
  <1>1. DOMAIN new = DOMAIN box /\ \A i \in DOMAIN box : new[i].urgent = box[i].urgent
    BY MarksAreTyped
  <1>2. ASSUME NEW i \in DOMAIN box, new[i].delivery \in {"pending", "failed"}
        PROVE  box[i].delivery \in {"pending", "failed"}
    <2>1. box[i] \in Message
      BY ElementOfSeq, LenProperties
    <2>2. CASE new = Read(box, ids)
      BY <1>2, <2>1, <2>2 DEF Read, Message
    <2>3. CASE new = Delivered(box, ids)
      BY <1>2, <2>1, <2>3 DEF Delivered, Message
    <2> QED
      BY <2>2, <2>3
  <1> QED
    BY <1>1, <1>2 DEF Undelivered

\* What an Assignment has to be rung for.
Due(i) == i \in Undelivered(mail) /\ i > shown /\ (parked => mail[i].urgent)

\* A step that makes nothing due, or leaves the bell armed, forgets nothing.
LEMMA NothingNew ==
    ASSUME UndeliveredIsRung,
           state' = "ACTIVE" /\ ~activating'
             => \/ doorbell' \/ ringing' # {}
                \/ \A i : ~Due(i)'
                \/ /\ state = "ACTIVE" /\ ~activating
                   /\ \A i : Due(i)' => Due(i)
                   /\ doorbell => doorbell'
                   /\ ringing # {} => ringing' # {}
    PROVE  UndeliveredIsRung'
  BY DEF UndeliveredIsRung, Due

LEMMA CommitRings ==
    ASSUME TypeOK, UndeliveredIsRung, NEW urgent \in BOOLEAN, Commit(urgent),
           UNCHANGED <<state, activating, shown, parked, ringing>>,
           doorbell => doorbell', ~parked \/ urgent => doorbell'
    PROVE  UndeliveredIsRung'
  <1> DEFINE m == [urgent |-> urgent, read |-> FALSE, delivery |-> "pending"]
             box == Append(mail, m)
  <1>1. m \in Message /\ Len(mail) \in Nat
    BY LenProperties DEF Message, TypeOK
  <1>2. /\ box \in Seq(Message) /\ Len(box) = Len(mail) + 1 /\ box[Len(mail) + 1] = m
        /\ \A i \in 1..Len(mail) : box[i] = mail[i]
        /\ DOMAIN box = 1..(Len(mail) + 1) /\ DOMAIN mail = 1..Len(mail)
    BY <1>1, AppendProperties, LenProperties DEF TypeOK
  <1>3. m.urgent = urgent
    OBVIOUS
  <1>4. PICK ids : mail' = Read(box, ids)
    BY DEF Commit
  <1> HIDE DEF m, box
  <1>5. /\ Undelivered(mail') \subseteq Undelivered(box)
        /\ \A i \in Undelivered(mail') : mail'[i].urgent = box[i].urgent
    BY <1>2, <1>4, MarksDeliver
  <1>6. \A i \in Undelivered(box) \ {Len(mail) + 1} :
            i \in Undelivered(mail) /\ box[i].urgent = mail[i].urgent
    BY <1>1, <1>2 DEF Undelivered
  <1>7. Undelivered(mail)' = Undelivered(mail')
    BY DEF Undelivered
  <1>8. CASE ~parked \/ urgent
    BY <1>8, NothingNew
  <1>9. CASE parked /\ ~urgent
    <2>1. \A i : Due(i)' => Due(i)
      BY <1>2, <1>3, <1>5, <1>6, <1>7, <1>9 DEF Due
    <2> QED
      BY <2>1, NothingNew
  <1> QED
    BY <1>8, <1>9

LEMMA SettledRings ==
    ASSUME TypeOK, UndeliveredIsRung, NEW s, NEW done, NEW failed, Settled(s, done, failed)
    PROVE  UndeliveredIsRung'
  <1>1. UNCHANGED <<state, activating, shown, parked>>
    BY DEF Settled, ledger
  <1>2. CASE "inbox" \notin done \union failed
    <2>1. mail' = mail /\ ringing' = ringing /\ (doorbell => doorbell')
      BY <1>2 DEF Settled
    <2> QED
      BY <1>1, <2>1 DEF UndeliveredIsRung, Undelivered
  <1>3. CASE "inbox" \in failed
    <2>1. doorbell'
      BY <1>3 DEF Settled
    <2> QED
      BY <2>1 DEF UndeliveredIsRung
  <1>4. CASE "inbox" \in done
    <2>1. MayRing(mail', parked) => doorbell'
      BY <1>4 DEF Settled, RingAgain
    <2> QED
      BY <1>1, <2>1 DEF UndeliveredIsRung, MayRing, Undelivered
  <1> QED
    BY <1>2, <1>3, <1>4

Loud == Events \intersect {"silent", "activate", "heldUrgent"} = {}

LEMMA StepsRing ==
    ASSUME Loud, TypeOK, UndeliveredIsRung, [Next]_vars
    PROVE  UndeliveredIsRung'
  <1>1. CASE UNCHANGED vars
    BY <1>1 DEF vars, ledger, letters, pause, bell, UndeliveredIsRung, Undelivered
  <1>2. CASE Send \/ Answer \/ SendSilently
    <2>1. UNCHANGED <<state, activating, shown, parked, ringing>>
      BY <1>2 DEF Send, Answer, SendSilently, ledger, pause, bell
    <2>2. PICK urgent \in BOOLEAN : /\ Commit(urgent) /\ (doorbell => doorbell')
                                    /\ (~parked \/ urgent => doorbell')
      BY <1>2 DEF Send, Answer, SendSilently, Signal, Loud, May
    <2> QED
      BY <2>1, <2>2, CommitRings
  <1>3. CASE WorkerReports
    BY <1>3, CommitRings DEF WorkerReports, Signal, pause
  <1>4. CASE WorkerSteered \/ WorkerLost \/ Join \/ JoinTimesOut \/ (\E w \in Waiters : TimesOut(w))
    <2>1. UNCHANGED <<state, activating, mail, shown, parked, doorbell, ringing>>
      BY <1>4
      DEF WorkerSteered, WorkerLost, Join, JoinTimesOut, TimesOut, ledger, letters, pause, bell
    <2> QED
      BY <2>1 DEF UndeliveredIsRung, Undelivered
  <1>5. CASE Sync \/ Consume
    <2>1. mail' = mail \/ \E ids : mail' = Read(mail, ids)
      BY <1>5 DEF Sync, Consume
    <2>2. Len(mail') = Len(mail) /\ mail' \in Seq(Message) /\ shown' = Len(mail)
      BY <1>5, <2>1, MarksAreTyped DEF Sync, Consume, TypeOK
    <2>3. \A i : ~Due(i)'
      BY <2>2, LenProperties DEF Due, Undelivered
    <2> QED
      BY <2>3, NothingNew
  <1>6. CASE \E w \in Waiters : Wait(w)
    <2>1. UNCHANGED <<state, activating, shown, parked, doorbell, ringing>>
      BY <1>6 DEF Wait, ledger, pause, bell
    <2>2. mail' = mail \/ \E ids : mail' = Read(mail, ids)
      BY <1>6 DEF Wait
    <2>3. \A i : Due(i)' => Due(i)
      BY <2>1, <2>2, MarksDeliver DEF Due, Undelivered, TypeOK
    <2> QED
      BY <2>1, <2>3, NothingNew
  <1>7. CASE Park
    <2>1. /\ UNCHANGED <<state, activating, mail, shown, doorbell, ringing>> /\ ~parked
      BY <1>7 DEF Park, letters, bell
    <2> QED
      BY <2>1 DEF UndeliveredIsRung, Undelivered
  <1>8. CASE Unheard
    <2>1. UNCHANGED <<state, activating, mail, shown, parked, ringing>>
      BY <1>8 DEF Unheard, ledger, letters, pause
    <2>2. state = "ACTIVE" /\ ringing = {} /\ MayRing(mail, parked) => doorbell'
      BY <1>8 DEF Unheard, RingAgain
    <2>3. MayRing(mail, parked) <=> \E i \in Undelivered(mail) : parked => mail[i].urgent
      BY DEF MayRing
    <2> QED
      BY <2>1, <2>2, <2>3 DEF UndeliveredIsRung, Undelivered
  <1>9. CASE Ring
    <2>1. ringing' # {} \/ doorbell'
      BY <1>9 DEF Ring, MayRing
    <2> QED
      BY <2>1 DEF UndeliveredIsRung
  <1>10. CASE Prompt
    BY <1>10 DEF Prompt, ledger, letters, bell, UndeliveredIsRung, Undelivered
  <1>11. CASE \E s \in Terminals :
               \/ TurnStarts(s) \/ TurnSettles(s) \/ Enters(s) \/ AckMissed(s)
               \/ Exits(s) \/ HoldOn(s) \/ HoldOff(s)
    BY <1>11, SettledRings
    DEF TurnStarts, TurnSettles, Enters, AckMissed, Exits, HoldOn, HoldOff
  <1>12. CASE Bind \/ Activated \/ ActivateFails \/ End \/ Retry
    BY <1>12
    DEF Bind, Activated, ActivateFails, End, Retry, Signal, Loud, May, UndeliveredIsRung
  <1>13. CASE Restart
    <2>1. ~(MayRing(mail, TRUE) /\ parked)
      BY <1>13 DEF Restart, Loud, May
    <2>2. Undelivered(mail) # {} /\ ~parked => doorbell'
      BY <1>13 DEF Restart
    <2>3. UNCHANGED <<mail, state, parked>>
      BY <1>13 DEF Restart, letters
    <2> QED
      BY <2>1, <2>2, <2>3 DEF UndeliveredIsRung, Undelivered, MayRing
  <1> QED
    BY <1>1, <1>2, <1>3, <1>4, <1>5, <1>6, <1>7, <1>8, <1>9, <1>10, <1>11, <1>12, <1>13
    DEF Next

\* Where the code rings at all, it forgets no message: every commit, delivery
\* and restart leaves a bell armed for what an agent at work has not been told.
\* The three kinds of step after which it does not are left out here.
THEOREM MessagesAreRung ==
    ASSUME Events \intersect {"silent", "activate", "heldUrgent"} = {}
    PROVE  Spec => []UndeliveredIsRung
  <1>1. Init => UndeliveredIsRung
    BY DEF Init, UndeliveredIsRung
  <1>2. TypeOK /\ UndeliveredIsRung /\ [Next]_vars => UndeliveredIsRung'
    BY StepsRing DEF Loud
  <1> QED
    BY <1>1, <1>2, TypeCorrect, PTL DEF Spec
=============================================================================
