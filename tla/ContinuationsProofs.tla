------------------------ MODULE ContinuationsProofs ------------------------
(* What Continuations promises, for any number of Assignments, waits, parks,  *)
(* messages and Attempts.                                                     *)
(*                                                                         *)
(* The invariant speaks of one continuation at a time: Sound says what it and  *)
(* its owner are, Unmet that an ARMED one misses nothing that is true, Flown   *)
(* how far its prompt is.  Most transactions change many continuations, but    *)
(* each of them only by reconciling or cancelling it; Tame is what these two   *)
(* have in common.                                                            *)
(*                                                                         *)
(* The last part is about the runner that delivers the prompts: safety of      *)
(* OutboxRunner, for any number of rows, intents and restarts, any length of   *)
(* delays and of batches, and every choice of events.                         *)
EXTENDS Continuations, OutboxRunner, WellFoundedInduction, TLAPS

Finished == {"CONSUMED", "CANCELLED"}

Paired(c) ==
  <<c.state, c.intent>> \in
    {<<"ABSENT", "ABSENT">>, <<"ARMED", "ABSENT">>, <<"READY", "PENDING">>,
     <<"DELIVERING", "PROCESSING">>, <<"DELIVERED", "DELIVERED">>,
     <<"CONSUMED", "ACKNOWLEDGED">>, <<"CANCELLED", "ABSENT">>, <<"CANCELLED", "CANCELLED">>}

Sound(c, act, att, log) ==
  /\ c \in Continuation
  /\ Paired(c)
  /\ c.state # "ABSENT" => c.owner \in Assignments
  /\ c.state \in Open => act[c.owner] = c.attempt /\ att[c.owner] = "WORKING"
  /\ c.met \subseteq c.targets
  /\ \A t \in c.met : t.kind = "message" => \E m \in log : Heard(t, c, m)
  /\ c.intent # "ABSENT" => c.deadline = "passed" \/ Enough(c)

Unmet(c, states, log) ==
  c.state = "ARMED" =>
    /\ ~Enough(c)
    /\ \A t \in c.targets : Holds(t, c, states, log) => t \in c.met

Flown(c, f, n) ==
  /\ c.state = "DELIVERING" => f # "none"
  /\ c.intent \in {"ABSENT", "PENDING"} => f = "none" /\ n = 0
  /\ f = "asked" => n = 0
  /\ f = "typed" => n = 1
  /\ n \in {0, 1}

Tame(c, d) ==
  /\ d.owner = c.owner /\ d.attempt = c.attempt
  /\ d.state \in Open => c.state \in Open
  /\ d.state = "DELIVERING" => c.state = "DELIVERING"
  /\ d.intent \in {"ABSENT", "PENDING"} => c.intent \in {"ABSENT", "PENDING"}
  /\ c.state \in Finished => d.state = c.state /\ d.intent = c.intent

AtWork ==
  \A a \in Assignments : attempt[a] # "ENDED" => assignment[a] \notin Settled

(* TypeOK of everything but the continuations *)
Surroundings ==
  /\ assignment \in [Assignments -> AssignmentStates]
  /\ active \in [Assignments -> 1 .. MaxAttempts]
  /\ attempt \in [Assignments -> {"PLANNED", "WORKING", "ENDED"}]
  /\ sent \subseteq Messages
  /\ last \in 0 .. MaxMessages
  /\ flight \in [Parks -> {"none", "asked", "typed"}]
  /\ typed \in [Parks -> Nat]
  /\ asleep \in [Assignments -> BOOLEAN]

(* What no step undoes *)
Final ==
  \A i \in Parks : cont[i].state \in Finished =>
    cont'[i].state = cont[i].state /\ cont'[i].intent = cont[i].intent

(* What a step does not make of an Assignment: it settles none. *)
NoneSettles ==
  \A b \in Assignments : assignment'[b] = assignment[b] \/ assignment'[b] \notin Settled

IInv ==
  /\ TypeOK
  /\ AtWork
  /\ \A i \in Parks : Sound(cont[i], active, attempt, sent)
  /\ \A i \in Parks : Unmet(cont[i], assignment, sent)
  /\ \A i \in Parks : Flown(cont[i], flight[i], typed[i])
  /\ OneWaitPerOwner

-----------------------------------------------------------------------------
(* One continuation *)

(* Reconciling keeps a continuation sound and leaves nothing true unnoticed.   *)
LEMMA ReconcileSound ==
  ASSUME NEW c, NEW act, NEW att, NEW states, NEW log, Sound(c, act, att, log)
  PROVE  LET d == Reconciled(c, states, log) IN
           /\ Sound(d, act, att, log)
           /\ Unmet(d, states, log)
           /\ Tame(c, d)
<1> DEFINE seen == [c EXCEPT !.met = @ \cup {t \in c.targets : Holds(t, c, states, log)}]
           d == Reconciled(c, states, log)
<1>1. CASE c.state # "ARMED"
  BY <1>1 DEF Reconciled, Unmet, Tame
<1>2. CASE c.state = "ARMED"
  <2>1. c \in Continuation /\ c.intent = "ABSENT"
    BY <1>2 DEF Sound, Paired
  <2>2. seen \in Continuation /\ seen.state = "ARMED" /\ seen.intent = "ABSENT"
    BY <1>2, <2>1 DEF Continuation
  <2>3. /\ seen.owner = c.owner /\ seen.attempt = c.attempt /\ seen.targets = c.targets
        /\ seen.cursor = c.cursor /\ seen.deadline = c.deadline /\ seen.mode = c.mode
        /\ seen.met = c.met \cup {t \in c.targets : Holds(t, c, states, log)}
    BY <2>1 DEF Continuation
  <2>4. seen.met \subseteq seen.targets
    BY <2>3 DEF Sound
  <2>5. \A t \in seen.met : t.kind = "message" => \E m \in log : Heard(t, seen, m)
    BY <2>3 DEF Sound, Heard, Holds
  <2>6. \A t \in seen.targets : Holds(t, seen, states, log) => t \in seen.met
    BY <2>3 DEF Heard, Holds
  <2>7. CASE Enough(seen) \/ c.deadline = "passed"
    <3>1. d = Readied(seen)
      BY <1>2, <2>7 DEF Reconciled
    <3>2. /\ d \in Continuation /\ d.state = "READY" /\ d.intent = "PENDING"
          /\ d.owner = c.owner /\ d.attempt = c.attempt /\ d.targets = seen.targets
          /\ d.met = seen.met /\ d.cursor = seen.cursor /\ d.deadline = c.deadline
          /\ d.mode = seen.mode
      BY <2>2, <2>3, <3>1, ZenonT(60) DEF Readied, Continuation, Open
    <3>3. Enough(d) <=> Enough(seen)
      BY <3>2 DEF Enough
    <3>4. \A t \in d.met : t.kind = "message" => \E m \in log : Heard(t, d, m)
      BY <2>5, <2>3, <3>2 DEF Heard
    <3>5. Sound(d, act, att, log)
      BY <1>2, <2>4, <2>7, <3>2, <3>3, <3>4 DEF Sound, Paired, Open
    <3>. QED
      BY <1>2, <2>1, <3>2, <3>5 DEF Unmet, Tame, Open, Finished
  <2>8. CASE ~(Enough(seen) \/ c.deadline = "passed")
    <3>1. d = seen
      BY <1>2, <2>8 DEF Reconciled
    <3>2. Sound(d, act, att, log)
      BY <1>2, <2>2, <2>3, <2>4, <2>5, <3>1 DEF Sound, Paired, Open
    <3>. QED
      BY <1>2, <2>1, <2>2, <2>3, <2>6, <2>8, <3>1, <3>2 DEF Unmet, Tame, Open, Finished
  <2>. QED
    BY <2>7, <2>8
<1>. QED
  BY <1>1, <1>2

(* A cancelled continuation needs no owner any more. *)
LEMMA CancelSound ==
  ASSUME NEW c, NEW act, NEW att, NEW log, Sound(c, act, att, log), NEW act2, NEW att2
  PROVE  /\ c.state \in Open => Sound(Cancelled(c), act2, att2, log)
         /\ \A states, l : c.state \in Open => Unmet(Cancelled(c), states, l)
         /\ c.state \in Open => Cancelled(c).state = "CANCELLED"
         /\ Tame(c, Cancelled(c))
<1>1. CASE c.state \in Open
  <2> DEFINE d == Cancelled(c)
  <2>1. c \in Continuation
    BY DEF Sound
  <2>2. /\ d \in Continuation /\ d.state = "CANCELLED"
        /\ d.intent = IF c.intent = "ABSENT" THEN "ABSENT" ELSE "CANCELLED"
        /\ d.owner = c.owner /\ d.attempt = c.attempt /\ d.targets = c.targets /\ d.met = c.met
        /\ d.cursor = c.cursor /\ d.deadline = c.deadline /\ d.mode = c.mode
    BY <1>1, <2>1 DEF Cancelled, Continuation
  <2>3. Enough(d) <=> Enough(c)
    BY <2>2 DEF Enough
  <2>4. \A t \in d.met : t.kind = "message" => \E m \in log : Heard(t, d, m)
    BY <2>2 DEF Sound, Heard
  <2>5. Sound(d, act2, att2, log)
    BY <1>1, <2>2, <2>3, <2>4 DEF Sound, Paired, Open
  <2>. QED
    BY <1>1, <2>2, <2>5 DEF Unmet, Tame, Open, Finished
<1>2. CASE c.state \notin Open
  BY <1>2 DEF Cancelled, Tame
<1>. QED
  BY <1>1, <1>2

LEMMA TameFlown ==
  ASSUME NEW c, NEW d, Tame(c, d), NEW f, NEW n, Flown(c, f, n)
  PROVE  Flown(d, f, n)
BY DEF Tame, Flown

(* More messages do not make a continuation less sound. *)
LEMMA SoundLater ==
  ASSUME NEW c, NEW act, NEW att, NEW log, NEW log2, log \subseteq log2, Sound(c, act, att, log)
  PROVE  Sound(c, act, att, log2)
BY DEF Sound

(* Nobody waits for an Assignment to start. *)
LEMMA UnmetUnsettled ==
  ASSUME NEW c, NEW act, NEW att, NEW log, NEW l, Sound(c, act, att, l),
         NEW states, NEW states2, Unmet(c, states, log),
         \A b \in Assignments : states2[b] = states[b] \/ states2[b] \notin Settled
  PROVE  Unmet(c, states2, log)
<1>1. c.targets \subseteq Conditions
  BY DEF Sound, Continuation
<1>2. ASSUME NEW t \in c.targets, Holds(t, c, states2, log)
      PROVE  Holds(t, c, states, log)
  <2>1. CASE t.kind = "assignment_terminal"
    <3>1. t.who \in Assignments /\ t.what \subseteq Settled
      BY <1>1, <2>1 DEF Conditions
    <3>. QED
      BY <1>2, <2>1, <3>1 DEF Holds
  <2>. QED
    BY <1>2, <2>1 DEF Holds
<1>. QED
  BY <1>2 DEF Unmet

-----------------------------------------------------------------------------
(* What transactions do to all of them, seen from one *)

(* The message is in the log when the continuations are told of it.  Some are  *)
(* reconciled, in the states of that moment; the others are as they were.     *)
LEMMA ToldMessagesKeeps ==
  ASSUME NEW conts, NEW i \in Parks, NEW act, NEW att, NEW log, NEW posted, NEW states1, NEW states2,
         Sound(conts[i], act, att, log \cup posted), Unmet(conts[i], states1, log)
  PROVE  LET d == ToldMessages(conts, posted, states2, log \cup posted)[i] IN
           /\ Sound(d, act, att, log \cup posted)
           /\ Unmet(d, states1, log \cup posted) \/ Unmet(d, states2, log \cup posted)
           /\ Tame(conts[i], d)
<1> DEFINE c == conts[i]
           d == ToldMessages(conts, posted, states2, log \cup posted)[i]
           heard == \E t \in c.targets \ c.met, m \in posted : t.kind = "message" /\ Heard(t, c, m)
<1>1. CASE c.state = "ARMED" /\ heard
  <2>1. d = Reconciled(c, states2, log \cup posted)
    BY <1>1 DEF ToldMessages
  <2>. QED
    BY <2>1, ReconcileSound
<1>2. CASE ~(c.state = "ARMED" /\ heard)
  <2>1. d = c
    BY <1>2 DEF ToldMessages
  <2>2. ASSUME c.state = "ARMED", NEW t \in c.targets, Holds(t, c, states1, log \cup posted)
        PROVE  t \in c.met
    <3>1. CASE Holds(t, c, states1, log)
      BY <2>2, <3>1 DEF Unmet
    <3>2. CASE ~Holds(t, c, states1, log)
      <4>1. PICK m \in posted : Heard(t, c, m)
        BY <2>2, <3>2 DEF Holds
      <4>2. t.kind # "assignment_terminal"
        BY <2>2, <3>2 DEF Holds
      <4>3. t.kind = "message"
        BY <4>2 DEF Sound, Continuation, Conditions
      <4>. QED
        BY <1>2, <2>2, <4>1, <4>3
    <3>. QED
      BY <3>1, <3>2
  <2>3. Unmet(c, states1, log \cup posted)
    BY <2>2 DEF Unmet
  <2>. QED
    BY <2>1, <2>3 DEF Tame
<1>. QED
  BY <1>1, <1>2

(* Then those that wait for the end of a are told of it. *)
LEMMA ToldEndKeeps ==
  ASSUME NEW conts, NEW i \in Parks, NEW a \in Assignments, NEW act, NEW att, NEW log,
         NEW states1, NEW states2, \A b \in Assignments : b # a => states2[b] = states1[b],
         Sound(conts[i], act, att, log),
         Unmet(conts[i], states1, log) \/ Unmet(conts[i], states2, log)
  PROVE  LET d == ToldEnd(conts, a, states2, log)[i] IN
           /\ Sound(d, act, att, log)
           /\ Unmet(d, states2, log)
           /\ Tame(conts[i], d)
<1> DEFINE c == conts[i]
           d == ToldEnd(conts, a, states2, log)[i]
           ended == \E t \in c.targets \ c.met :
                      t.kind = "assignment_terminal" /\ t.who = a /\ states2[a] \in t.what
<1>1. CASE c.state = "ARMED" /\ ended
  <2>1. d = Reconciled(c, states2, log)
    BY <1>1 DEF ToldEnd
  <2>. QED
    BY <2>1, ReconcileSound
<1>2. CASE ~(c.state = "ARMED" /\ ended)
  <2>1. d = c
    BY <1>2 DEF ToldEnd
  <2>2. ASSUME c.state = "ARMED", NEW t \in c.targets, Holds(t, c, states2, log), t \notin c.met
        PROVE  Holds(t, c, states1, log)
    <3>1. CASE t.kind = "assignment_terminal"
      <4>1. t.who \in Assignments /\ states2[t.who] \in t.what
        BY <2>2, <3>1 DEF Sound, Continuation, Conditions, Holds
      <4>2. t.who # a
        BY <1>2, <2>2, <3>1, <4>1
      <4>. QED
        BY <3>1, <4>1, <4>2 DEF Holds
    <3>. QED
      BY <2>2, <3>1 DEF Holds
  <2>3. Unmet(c, states2, log)
    BY <2>2 DEF Unmet
  <2>. QED
    BY <2>1, <2>3 DEF Tame
<1>. QED
  BY <1>1, <1>2

(* When the active Attempt of a ends or is replaced, what it waits for is      *)
(* cancelled; of what others wait for nothing changes.                        *)
LEMMA DisownedKeeps ==
  ASSUME NEW i \in Parks, NEW a \in Assignments, NEW act2, NEW att2,
         Sound(cont[i], active, attempt, sent), Unmet(cont[i], assignment, sent),
         \A b \in Assignments : b # a => act2[b] = active[b] /\ att2[b] = attempt[b]
  PROVE  /\ Sound(Disowned(a)[i], act2, att2, sent)
         /\ Unmet(Disowned(a)[i], assignment, sent)
         /\ Tame(cont[i], Disowned(a)[i])
<1> DEFINE c == cont[i]
           mine == c.owner = a /\ c.attempt = active[a]
<1>1. CASE mine /\ c.state \in Open
  BY <1>1, CancelSound DEF Disowned
<1>2. CASE ~(mine /\ c.state \in Open)
  <2>1. Disowned(a)[i] = c
    BY <1>2 DEF Disowned, Cancelled
  <2>2. c.state \in Open => c.owner \in Assignments /\ c.owner # a
    BY <1>2 DEF Sound, Open
  <2>3. Sound(c, act2, att2, sent)
    BY <2>2 DEF Sound
  <2>. QED
    BY <2>1, <2>3 DEF Tame
<1>. QED
  BY <1>1, <1>2

-----------------------------------------------------------------------------
(* Steps that change the continuations each in a tame way, and steps that      *)
(* change one                                                                 *)

LEMMA AllStep ==
  ASSUME IInv, Surroundings', AtWork', UNCHANGED delivery,
         cont' = [i \in Parks |-> cont'[i]],
         \A i \in Parks : /\ Sound(cont'[i], active', attempt', sent')
                          /\ Unmet(cont'[i], assignment', sent')
                          /\ Tame(cont[i], cont'[i])
  PROVE  IInv' /\ Final
<1>1. \A i \in Parks : Sound(cont'[i], active', attempt', sent') /\ Unmet(cont'[i], assignment', sent')
  OBVIOUS
<1>2. TypeOK'
  <2>1. \A i \in Parks : cont'[i] \in Continuation
    BY <1>1 DEF Sound
  <2>. QED
    BY <2>1 DEF TypeOK, Surroundings
<1>3. \A i \in Parks : Flown(cont'[i], flight'[i], typed'[i])
  BY TameFlown DEF IInv, delivery
<1>4. OneWaitPerOwner'
  BY DEF IInv, OneWaitPerOwner, Tame
<1>5. Final
  BY DEF Final, Tame
<1>. QED
  BY <1>1, <1>2, <1>3, <1>4, <1>5 DEF IInv

LEMMA OneStep ==
  ASSUME IInv, NEW i \in Parks, NEW d, NEW f \in {"none", "asked", "typed"}, NEW n,
         UNCHANGED <<active, attempt, mail>>,
         assignment' \in [Assignments -> AssignmentStates], NoneSettles,
         asleep' \in [Assignments -> BOOLEAN],
         cont' = [cont EXCEPT ![i] = d],
         flight' = [flight EXCEPT ![i] = f], typed' = [typed EXCEPT ![i] = n],
         Sound(d, active, attempt, sent), Unmet(d, assignment, sent), Flown(d, f, n),
         d.owner = cont[i].owner, d.state \in Open => cont[i].state \in Open,
         cont[i].state \in Finished => d.state = cont[i].state /\ d.intent = cont[i].intent
  PROVE  IInv' /\ Final
<1>1. TypeOK /\ AtWork
  BY DEF IInv
<1>2. \A j \in Parks : /\ cont'[j] = IF j = i THEN d ELSE cont[j]
                       /\ flight'[j] = IF j = i THEN f ELSE flight[j]
                       /\ typed'[j] = IF j = i THEN n ELSE typed[j]
  BY <1>1 DEF TypeOK
<1>3. \A j \in Parks : Sound(cont'[j], active', attempt', sent')
  BY <1>2 DEF IInv, mail
<1>4. \A j \in Parks : Unmet(cont'[j], assignment', sent')
  <2>. SUFFICES ASSUME NEW j \in Parks PROVE Unmet(cont'[j], assignment', sent')
    OBVIOUS
  <2>1. Sound(cont'[j], active', attempt', sent')
    BY <1>3
  <2>2. Unmet(cont'[j], assignment, sent')
    BY <1>2 DEF IInv, mail
  <2>. QED
    BY <2>1, <2>2, UnmetUnsettled DEF NoneSettles
<1>5. \A j \in Parks : Flown(cont'[j], flight'[j], typed'[j])
  BY <1>2 DEF IInv
<1>6. OneWaitPerOwner'
  BY <1>2 DEF IInv, OneWaitPerOwner
<1>7. Final
  BY <1>2 DEF Final
<1>8. TypeOK'
  <2>1. d \in Continuation /\ n \in Nat
    BY DEF Sound, Flown
  <2>. QED
    BY <1>1, <2>1 DEF TypeOK, mail
<1>9. AtWork'
  BY <1>1 DEF AtWork, NoneSettles
<1>. QED
  BY <1>3, <1>4, <1>5, <1>6, <1>7, <1>8, <1>9 DEF IInv

(* Steps that leave the continuations alone *)
LEMMA NoStep ==
  ASSUME IInv, Surroundings', AtWork', UNCHANGED <<active, mail, cont, delivery>>, NoneSettles,
         \A a \in Assignments : attempt[a] = "WORKING" => attempt'[a] = "WORKING"
  PROVE  IInv' /\ Final
<1>1. cont' = cont /\ sent' = sent /\ active' = active
  BY DEF mail
<1>2. cont' = [i \in Parks |-> cont'[i]]
  BY <1>1 DEF IInv, TypeOK
<1>3. ASSUME NEW i \in Parks
      PROVE  /\ Sound(cont'[i], active', attempt', sent')
             /\ Unmet(cont'[i], assignment', sent')
             /\ Tame(cont[i], cont'[i])
  <2>1. Sound(cont[i], active, attempt, sent) /\ Unmet(cont[i], assignment, sent)
    BY DEF IInv
  <2>2. cont[i].state \in Open => cont[i].owner \in Assignments
    BY <2>1 DEF Sound, Open
  <2>3. Sound(cont[i], active, attempt', sent)
    BY <2>1, <2>2 DEF Sound
  <2>4. Unmet(cont[i], assignment', sent)
    BY <2>1, UnmetUnsettled DEF NoneSettles
  <2>. QED
    BY <1>1, <2>3, <2>4 DEF Tame
<1>. QED
  BY <1>1, <1>2, <1>3, AllStep DEF delivery

-----------------------------------------------------------------------------
(* Each action keeps the invariant *)

LEMMA InitIInv == Init => IInv
<1>. SUFFICES ASSUME Init PROVE IInv
  OBVIOUS
<1>1. NoContinuation \in Continuation
  BY ContinuationsAssumption DEF NoContinuation, Continuation
<1>2. TypeOK
  BY <1>1, ContinuationsAssumption DEF Init, TypeOK, AssignmentStates
<1>3. AtWork
  BY DEF Init, AtWork, Settled
<1>4. ASSUME NEW i \in Parks
      PROVE  /\ Sound(cont[i], active, attempt, sent)
             /\ Unmet(cont[i], assignment, sent)
             /\ Flown(cont[i], flight[i], typed[i])
             /\ cont[i].state \notin Open
  <2>1. cont[i] = NoContinuation /\ flight[i] = "none" /\ typed[i] = 0
    BY DEF Init
  <2>2. NoContinuation.state = "ABSENT" /\ NoContinuation.intent = "ABSENT" /\ NoContinuation.met = {}
    BY DEF NoContinuation
  <2>. QED
    BY <1>1, <2>1, <2>2 DEF Sound, Paired, Unmet, Flown, Open
<1>. QED
  BY <1>2, <1>3, <1>4 DEF IInv, OneWaitPerOwner

LEMMA PostType ==
  ASSUME TypeOK, NEW posted, Post(posted)
  PROVE  sent' = sent \cup posted /\ sent' \subseteq Messages /\ last' \in 0 .. MaxMessages
<1>1. CASE posted = {} /\ UNCHANGED mail
  BY <1>1 DEF TypeOK, mail
<1>2. ASSUME NEW m \in Messages, posted = {m}, m.seq = last + 1, last' = m.seq, sent' = sent \cup posted
      PROVE  sent' \subseteq Messages /\ last' \in 0 .. MaxMessages
  <2>1. m.seq \in 1 .. MaxMessages
    BY DEF Messages, Message
  <2>. QED
    BY <1>2, <2>1, ContinuationsAssumption DEF TypeOK
<1>. QED
  BY <1>1, <1>2 DEF Post

LEMMA SayStep ==
  ASSUME IInv, NEW m \in Messages, Say(m)
  PROVE  IInv' /\ Final
<1>1. TypeOK /\ UNCHANGED <<ledger, delivery, asleep>> /\ Post({m})
      /\ cont' = ToldMessages(cont, {m}, assignment, sent')
  BY DEF IInv, Say
<1>2. sent' = sent \cup {m} /\ sent' \subseteq Messages /\ last' \in 0 .. MaxMessages
  BY <1>1, PostType
<1>3. cont' = [i \in Parks |-> cont'[i]]
  BY <1>1 DEF ToldMessages
<1>4. ASSUME NEW i \in Parks
      PROVE  /\ Sound(cont'[i], active', attempt', sent')
             /\ Unmet(cont'[i], assignment', sent')
             /\ Tame(cont[i], cont'[i])
  <2>1. Sound(cont[i], active, attempt, sent \cup {m}) /\ Unmet(cont[i], assignment, sent)
    BY SoundLater DEF IInv
  <2>2. cont'[i] = ToldMessages(cont, {m}, assignment, sent \cup {m})[i]
    BY <1>1, <1>2
  <2>. QED
    BY <1>1, <1>2, <2>1, <2>2, ToldMessagesKeeps DEF ledger
<1>5. Surroundings' /\ AtWork'
  BY <1>1, <1>2 DEF TypeOK, Surroundings, IInv, AtWork, ledger, delivery
<1>. QED
  BY <1>1, <1>3, <1>4, <1>5, AllStep DEF delivery

LEMMA DelegateStep ==
  ASSUME IInv, NEW a \in Assignments, NEW posted, Delegate(a, posted)
  PROVE  IInv' /\ Final
<1>1. /\ TypeOK /\ AtWork /\ UNCHANGED <<active, attempt, delivery, asleep>> /\ Post(posted)
      /\ assignment' = [assignment EXCEPT ![a] = "PENDING"]
      /\ cont' = ToldMessages(cont, posted, assignment', sent')
  BY DEF IInv, Delegate
<1>2. sent' = sent \cup posted /\ sent' \subseteq Messages /\ last' \in 0 .. MaxMessages
  BY <1>1, PostType
<1>3. Surroundings' /\ AtWork' /\ NoneSettles
  BY <1>1, <1>2 DEF TypeOK, Surroundings, AtWork, NoneSettles, AssignmentStates, Settled, delivery
<1>4. cont' = [i \in Parks |-> cont'[i]]
  BY <1>1 DEF ToldMessages
<1>5. ASSUME NEW i \in Parks
      PROVE  /\ Sound(cont'[i], active', attempt', sent')
             /\ Unmet(cont'[i], assignment', sent')
             /\ Tame(cont[i], cont'[i])
  <2>1. Sound(cont[i], active, attempt, sent) /\ Unmet(cont[i], assignment, sent)
    BY DEF IInv
  <2>2. Unmet(cont[i], assignment', sent) /\ Sound(cont[i], active, attempt, sent \cup posted)
    BY <1>3, <2>1, UnmetUnsettled, SoundLater DEF NoneSettles
  <2>3. cont'[i] = ToldMessages(cont, posted, assignment', sent \cup posted)[i]
    BY <1>1, <1>2
  <2>. QED
    BY <1>1, <1>2, <2>2, <2>3, ToldMessagesKeeps
<1>. QED
  BY <1>1, <1>3, <1>4, <1>5, AllStep DEF delivery

LEMMA LifeStep ==
  ASSUME IInv, NEW a \in Assignments, Bind(a) \/ Rebind(a) \/ Rouse(a)
  PROVE  IInv' /\ Final
<1>. TypeOK /\ AtWork
  BY DEF IInv
<1>1. CASE Bind(a)
  BY <1>1, NoStep DEF Bind, Surroundings, TypeOK, AtWork, NoneSettles, Settled, AssignmentStates,
                      mail, delivery
<1>2. CASE Rebind(a)
  BY <1>2, NoStep DEF Rebind, Surroundings, TypeOK, AtWork, NoneSettles, Settled, AssignmentStates,
                      mail, delivery
<1>3. CASE Rouse(a)
  BY <1>3, NoStep DEF Rouse, Surroundings, TypeOK, AtWork, NoneSettles, ledger, mail, delivery
<1>. QED
  BY <1>1, <1>2, <1>3

LEMMA ReplanKeeps ==
  ASSUME TypeOK, AtWork, NEW a \in Assignments, Replan(a)
  PROVE  /\ active' \in [Assignments -> 1 .. MaxAttempts]
         /\ assignment' \in [Assignments -> AssignmentStates]
         /\ attempt' \in [Assignments -> {"PLANNED", "WORKING", "ENDED"}]
         /\ asleep' \in [Assignments -> BOOLEAN]
         /\ AtWork' /\ NoneSettles
         /\ \A b \in Assignments : b # a => active'[b] = active[b] /\ attempt'[b] = attempt[b]
<1>1. active[a] + 1 \in 1 .. MaxAttempts
  BY ContinuationsAssumption DEF Replan, TypeOK
<1>2. active' \in [Assignments -> 1 .. MaxAttempts]
  BY <1>1 DEF Replan, TypeOK
<1>. QED
  BY <1>2 DEF Replan, TypeOK, AtWork, NoneSettles, AssignmentStates, Settled

LEMMA PlanAgainStep ==
  ASSUME IInv, NEW a \in Assignments, PlanAgain(a)
  PROVE  IInv' /\ Final
<1>1. TypeOK /\ AtWork /\ UNCHANGED <<mail, delivery>> /\ Replan(a) /\ cont' = Disowned(a)
  BY DEF IInv, PlanAgain
<1>2. /\ Surroundings' /\ AtWork' /\ NoneSettles
      /\ \A b \in Assignments : b # a => active'[b] = active[b] /\ attempt'[b] = attempt[b]
  BY <1>1, ReplanKeeps DEF TypeOK, Surroundings, mail, delivery
<1>3. cont' = [i \in Parks |-> cont'[i]]
  BY <1>1 DEF Disowned
<1>4. ASSUME NEW i \in Parks
      PROVE  /\ Sound(cont'[i], active', attempt', sent')
             /\ Unmet(cont'[i], assignment', sent')
             /\ Tame(cont[i], cont'[i])
  <2>1. /\ Sound(cont'[i], active', attempt', sent)
        /\ Unmet(cont'[i], assignment, sent)
        /\ Tame(cont[i], cont'[i])
    BY <1>1, <1>2, DisownedKeeps DEF IInv
  <2>2. Unmet(cont'[i], assignment', sent)
    BY <1>2, <2>1, UnmetUnsettled DEF NoneSettles
  <2>. QED
    BY <1>1, <2>1, <2>2 DEF mail
<1>. QED
  BY <1>1, <1>2, <1>3, <1>4, AllStep DEF delivery

LEMMA ReviseStep ==
  ASSUME IInv, NEW a \in Assignments, NEW m \in Messages, Revise(a, m)
  PROVE  IInv' /\ Final
<1>1. /\ TypeOK /\ AtWork /\ UNCHANGED delivery /\ Replan(a) /\ Post({m})
      /\ cont' = ToldMessages(Disowned(a), {m}, assignment', sent')
  BY DEF IInv, Revise
<1>2. sent' = sent \cup {m} /\ sent' \subseteq Messages /\ last' \in 0 .. MaxMessages
  BY <1>1, PostType
<1>3. /\ Surroundings' /\ AtWork' /\ NoneSettles
      /\ \A b \in Assignments : b # a => active'[b] = active[b] /\ attempt'[b] = attempt[b]
  BY <1>1, <1>2, ReplanKeeps DEF TypeOK, Surroundings, delivery
<1>4. cont' = [i \in Parks |-> cont'[i]]
  BY <1>1 DEF ToldMessages
<1>5. ASSUME NEW i \in Parks
      PROVE  /\ Sound(cont'[i], active', attempt', sent')
             /\ Unmet(cont'[i], assignment', sent')
             /\ Tame(cont[i], cont'[i])
  <2> DEFINE c == Disowned(a)[i]
  <2>1. /\ Sound(c, active', attempt', sent)
        /\ Unmet(c, assignment, sent)
        /\ Tame(cont[i], c)
    BY <1>3, DisownedKeeps DEF IInv
  <2>2. Unmet(c, assignment', sent) /\ Sound(c, active', attempt', sent \cup {m})
    BY <1>3, <2>1, UnmetUnsettled, SoundLater DEF NoneSettles
  <2>3. /\ Sound(cont'[i], active', attempt', sent \cup {m})
        /\ Unmet(cont'[i], assignment', sent \cup {m})
        /\ Tame(c, cont'[i])
    <3>1. cont'[i] = ToldMessages(Disowned(a), {m}, assignment', sent \cup {m})[i]
      BY <1>1, <1>2
    <3>. QED
      BY <2>2, <3>1, ToldMessagesKeeps
  <2>4. Tame(cont[i], cont'[i])
    BY <2>1, <2>3 DEF Tame
  <2>. QED
    BY <1>2, <2>3, <2>4
<1>. QED
  BY <1>1, <1>3, <1>4, <1>5, AllStep

(* The states in which the supervisor reads the message are those before or    *)
(* after the end.                                                             *)
LEMMA EndStep ==
  ASSUME IInv, NEW a \in Assignments, NEW posted, NEW states, states = assignment \/ states = assignment',
         NEW settled \in Settled, Becomes(a, settled), End(a, posted, states)
  PROVE  IInv' /\ Final
<1>1. /\ TypeOK /\ AtWork /\ UNCHANGED <<active, delivery>> /\ Post(posted)
      /\ attempt' = [attempt EXCEPT ![a] = "ENDED"]
      /\ asleep' = [asleep EXCEPT ![a] = FALSE]
      /\ cont' = ToldEnd(ToldMessages(Disowned(a), posted, states, sent'), a, assignment', sent')
  BY DEF IInv, End
<1>2. sent' = sent \cup posted /\ sent' \subseteq Messages /\ last' \in 0 .. MaxMessages
  BY <1>1, PostType
<1>3. /\ Surroundings' /\ AtWork'
      /\ \A b \in Assignments : b # a => /\ active'[b] = active[b] /\ attempt'[b] = attempt[b]
                                         /\ assignment'[b] = assignment[b]
  BY <1>1, <1>2 DEF Becomes, TypeOK, Surroundings, AtWork, AssignmentStates, delivery
<1>4. cont' = [i \in Parks |-> cont'[i]]
  BY <1>1 DEF ToldEnd
<1>5. ASSUME NEW i \in Parks
      PROVE  /\ Sound(cont'[i], active', attempt', sent')
             /\ Unmet(cont'[i], assignment', sent')
             /\ Tame(cont[i], cont'[i])
  <2> DEFINE told == ToldMessages(Disowned(a), posted, states, sent')
             c == Disowned(a)[i]
             d == told[i]
  <2>1. /\ Sound(c, active', attempt', sent)
        /\ Unmet(c, assignment, sent)
        /\ Tame(cont[i], c)
    BY <1>3, DisownedKeeps DEF IInv
  <2>2. Sound(c, active', attempt', sent')
    BY <1>2, <2>1, SoundLater
  <2>3. /\ Sound(d, active', attempt', sent')
        /\ Unmet(d, assignment, sent') \/ Unmet(d, assignment', sent')
        /\ Tame(c, d)
    BY <1>2, <2>1, <2>2, ToldMessagesKeeps
  <2>4. /\ Sound(cont'[i], active', attempt', sent')
        /\ Unmet(cont'[i], assignment', sent')
        /\ Tame(d, cont'[i])
    <3>1. cont'[i] = ToldEnd(told, a, assignment', sent')[i]
      BY <1>1
    <3>2. \A b \in Assignments : b # a => assignment'[b] = assignment[b]
      BY <1>3
    <3>. HIDE DEF told
    <3>. QED
      BY <2>3, <3>1, <3>2, ToldEndKeeps
  <2>5. Tame(cont[i], cont'[i])
    BY <2>1, <2>3, <2>4 DEF Tame
  <2>. QED
    BY <2>4, <2>5
<1>. QED
  BY <1>1, <1>3, <1>4, <1>5, AllStep DEF delivery

LEMMA ReportStep ==
  ASSUME IInv, NEW a \in Assignments, Fail(a) \/ Cancel(a) \/ Report(a)
  PROVE  IInv' /\ Final
<1>1. CASE Fail(a)
  BY <1>1, EndStep DEF Fail, Settled
<1>2. CASE Cancel(a)
  BY <1>2, EndStep DEF Cancel, Settled
<1>3. CASE \E success \in BOOLEAN, posted \in Posts : Complete(a, success, posted)
  <2>1. PICK success \in BOOLEAN, posted \in Posts : Complete(a, success, posted)
    BY <1>3
  <2>2. Becomes(a, IF success THEN "COMPLETED" ELSE "FAILED") /\ End(a, posted, assignment)
    BY <2>1 DEF Complete
  <2>3. (IF success THEN "COMPLETED" ELSE "FAILED") \in Settled
    BY DEF Settled
  <2>. QED
    BY <2>2, <2>3, EndStep
<1>4. CASE \E posted \in Posts : Orphan(a, posted)
  BY <1>4, EndStep DEF Orphan, Settled
<1>. QED
  BY <1>1, <1>2, <1>3, <1>4 DEF Report

LEMMA ParkStep ==
  ASSUME IInv, NEW i \in Parks, NEW a \in Owners, NEW wait \in Waits, NEW cursor \in 0 .. last,
         Park(i, a, wait, cursor)
  PROVE  IInv' /\ Final
<1> DEFINE c == [owner |-> a, attempt |-> active[a], mode |-> wait.mode, targets |-> wait.targets,
                 met |-> {}, cursor |-> cursor, deadline |-> wait.deadline, state |-> "ARMED",
                 intent |-> "ABSENT"]
           waiting == [assignment EXCEPT ![a] = IF @ = "ACTIVE" THEN "WAITING" ELSE @]
           d == Registered(c, waiting, sent)
<1>1. /\ TypeOK /\ AtWork /\ cont[i] = NoContinuation
      /\ assignment[a] \in {"ACTIVE", "WAITING"} /\ attempt[a] = "WORKING"
      /\ ~Unfinished(a, active[a])
      /\ assignment' = waiting /\ cont' = [cont EXCEPT ![i] = d]
      /\ asleep' = [asleep EXCEPT ![a] = TRUE]
      /\ UNCHANGED <<active, attempt, mail, delivery>>
  BY DEF IInv, Park
<1>2. a \in Assignments
  BY ContinuationsAssumption
<1>3. NoneSettles /\ assignment' \in [Assignments -> AssignmentStates] /\ asleep' \in [Assignments -> BOOLEAN]
  BY <1>1, <1>2 DEF NoneSettles, TypeOK, AssignmentStates, Settled
<1>4. c \in Continuation
  <2>1. active[a] \in 0 .. MaxAttempts /\ cursor \in 0 .. MaxMessages
    BY <1>1, <1>2, ContinuationsAssumption DEF TypeOK
  <2>2. wait.mode \in {"all", "any"} /\ wait.targets \subseteq Conditions /\ wait.deadline \in {"none", "ahead"}
    BY ContinuationsAssumption
  <2>. QED
    BY <1>2, <2>1, <2>2 DEF Continuation, Open
<1>5. Sound(c, active, attempt, sent)
  BY <1>1, <1>2, <1>4 DEF Sound, Paired
<1>6. Sound(d, active, attempt, sent) /\ Unmet(d, waiting, sent) /\ Tame(c, d)
  <2>. HIDE DEF c, waiting
  <2>. QED
    BY <1>5, ReconcileSound DEF Registered
<1>7. NoContinuation.state = "ABSENT" /\ NoContinuation.intent = "ABSENT"
  BY DEF NoContinuation
<1>8. flight[i] = "none" /\ typed[i] = 0
  BY <1>1, <1>7 DEF IInv, Flown
<1>9. /\ d.owner = a
      /\ d.state # "DELIVERING"
  BY <1>6 DEF Tame
<1>10. \A j \in Parks : cont'[j] = IF j = i THEN d ELSE cont[j]
  BY <1>1 DEF TypeOK
<1> HIDE DEF d, waiting, c
<1>11. \A j \in Parks : Sound(cont'[j], active', attempt', sent')
  BY <1>1, <1>6, <1>10 DEF IInv, mail
<1>12. \A j \in Parks : Unmet(cont'[j], assignment', sent')
  <2>. SUFFICES ASSUME NEW j \in Parks PROVE Unmet(cont'[j], assignment', sent')
    OBVIOUS
  <2>1. CASE j = i
    BY <1>1, <1>6, <1>10, <2>1 DEF mail
  <2>2. CASE j # i
    <3>1. Sound(cont[j], active, attempt, sent) /\ Unmet(cont[j], assignment, sent)
      BY DEF IInv
    <3>2. Unmet(cont[j], assignment', sent)
      BY <1>3, <3>1, UnmetUnsettled DEF NoneSettles
    <3>. QED
      BY <1>1, <1>10, <2>2, <3>2 DEF mail
  <2>. QED
    BY <2>1, <2>2
<1>13. \A j \in Parks : Flown(cont'[j], flight'[j], typed'[j])
  BY <1>1, <1>8, <1>9, <1>10 DEF IInv, Flown, delivery
<1>14. \A j \in Parks : cont[j].state \in Open => cont[j].owner # a
  BY <1>1, <1>2 DEF IInv, Sound, Unfinished
<1>15. OneWaitPerOwner'
  BY <1>9, <1>10, <1>14 DEF IInv, OneWaitPerOwner
<1>16. Final
  BY <1>1, <1>7, <1>10 DEF Final, Finished
<1>17. TypeOK'
  <2>1. d \in Continuation
    BY <1>6 DEF Sound
  <2>. QED
    BY <1>1, <1>3, <2>1 DEF TypeOK, mail, delivery
<1>18. AtWork'
  BY <1>1, <1>3 DEF AtWork, NoneSettles
<1>. QED
  BY <1>11, <1>12, <1>13, <1>15, <1>16, <1>17, <1>18 DEF IInv

LEMMA ParkAgainStep ==
  ASSUME IInv, NEW i \in Parks, ParkAgain(i)
  PROVE  IInv' /\ Final
<1>1. /\ TypeOK /\ AtWork /\ UNCHANGED <<ledger, mail, cont, delivery>>
      /\ asleep' = [asleep EXCEPT ![cont[i].owner] = TRUE]
  BY DEF IInv, ParkAgain
<1>. QED
  BY <1>1, NoStep DEF Surroundings, TypeOK, AtWork, NoneSettles, ledger, mail, delivery

LEMMA ConsumeStep ==
  ASSUME IInv, NEW i \in Parks, Consume(i)
  PROVE  IInv' /\ Final
<1> DEFINE c == cont[i]
           d == [c EXCEPT !.state = "CONSUMED", !.intent = "ACKNOWLEDGED"]
<1>1. /\ TypeOK /\ c.state \in {"READY", "DELIVERING", "DELIVERED"}
      /\ cont' = [cont EXCEPT ![i].state = "CONSUMED", ![i].intent = "ACKNOWLEDGED"]
      /\ assignment' = [assignment EXCEPT ![c.owner] = IF @ = "WAITING" THEN "ACTIVE" ELSE @]
      /\ UNCHANGED <<active, attempt, mail, delivery, asleep>>
  BY DEF IInv, Consume
<1>2. Sound(c, active, attempt, sent) /\ Flown(c, flight[i], typed[i])
  BY DEF IInv
<1>3. c \in Continuation /\ c.intent # "ABSENT"
  BY <1>1, <1>2 DEF Sound, Paired
<1>4. cont' = [cont EXCEPT ![i] = d]
  BY <1>1
<1>5. NoneSettles /\ assignment' \in [Assignments -> AssignmentStates]
  BY <1>1 DEF NoneSettles, TypeOK, AssignmentStates, Settled
<1>6. /\ d \in Continuation /\ d.state = "CONSUMED" /\ d.intent = "ACKNOWLEDGED"
      /\ d.owner = c.owner /\ d.attempt = c.attempt /\ d.targets = c.targets /\ d.met = c.met
      /\ d.cursor = c.cursor /\ d.deadline = c.deadline /\ d.mode = c.mode
  BY <1>3 DEF Continuation
<1>7. (Enough(d) <=> Enough(c)) /\ \A t \in d.met, m \in sent : Heard(t, c, m) => Heard(t, d, m)
  BY <1>6 DEF Enough, Heard
<1>8. Sound(d, active, attempt, sent) /\ Unmet(d, assignment, sent) /\ Flown(d, flight[i], typed[i])
  BY <1>1, <1>2, <1>3, <1>6, <1>7 DEF Sound, Paired, Unmet, Flown, Open
<1>9. /\ flight' = [flight EXCEPT ![i] = flight[i]] /\ typed' = [typed EXCEPT ![i] = typed[i]]
      /\ flight[i] \in {"none", "asked", "typed"} /\ asleep' \in [Assignments -> BOOLEAN]
  BY <1>1 DEF TypeOK, delivery
<1>. QED
  BY <1>1, <1>4, <1>5, <1>6, <1>8, <1>9, OneStep, ZenonT(60) DEF Open, Finished

LEMMA LapseStep ==
  ASSUME IInv, NEW i \in Parks, Lapse(i)
  PROVE  IInv' /\ Final
<1> DEFINE c == cont[i]
           d == [c EXCEPT !.deadline = "passed"]
<1>1. /\ TypeOK /\ c.state = "ARMED" /\ cont' = [cont EXCEPT ![i] = d]
      /\ UNCHANGED <<ledger, mail, delivery, asleep>>
  BY DEF IInv, Lapse
<1>2. Sound(c, active, attempt, sent) /\ Unmet(c, assignment, sent) /\ Flown(c, flight[i], typed[i])
  BY DEF IInv
<1>3. c \in Continuation
  BY <1>2 DEF Sound
<1>4. /\ d \in Continuation /\ d.state = c.state /\ d.intent = c.intent
      /\ d.owner = c.owner /\ d.attempt = c.attempt /\ d.targets = c.targets /\ d.met = c.met
      /\ d.cursor = c.cursor /\ d.deadline = "passed" /\ d.mode = c.mode
  BY <1>3 DEF Continuation
<1>5. /\ Enough(d) <=> Enough(c)
      /\ \A t, m : Heard(t, d, m) <=> Heard(t, c, m)
  BY <1>4 DEF Enough, Heard
<1>6. Sound(d, active, attempt, sent)
  BY <1>2, <1>4, <1>5 DEF Sound, Paired
<1>7. Unmet(d, assignment, sent)
  BY <1>2, <1>4, <1>5 DEF Unmet, Holds
<1>8. Flown(d, flight[i], typed[i])
  BY <1>2, <1>4 DEF Flown
<1>9. /\ flight' = [flight EXCEPT ![i] = flight[i]] /\ typed' = [typed EXCEPT ![i] = typed[i]]
      /\ flight[i] \in {"none", "asked", "typed"} /\ asleep' \in [Assignments -> BOOLEAN]
      /\ assignment' \in [Assignments -> AssignmentStates] /\ NoneSettles
      /\ UNCHANGED <<active, attempt, mail>>
  BY <1>1 DEF TypeOK, delivery, ledger, NoneSettles
<1>. QED
  BY <1>1, <1>4, <1>6, <1>7, <1>8, <1>9, OneStep

LEMMA AskStep ==
  ASSUME IInv, NEW i \in Parks, Ask(i)
  PROVE  IInv' /\ Final
<1> DEFINE c == cont[i]
           d == [c EXCEPT !.intent = "PROCESSING", !.state = "DELIVERING"]
<1>1. /\ TypeOK /\ c.intent = "PENDING" /\ c.state = "READY"
      /\ cont' = [cont EXCEPT ![i].intent = "PROCESSING", ![i].state = "DELIVERING"]
      /\ flight' = [flight EXCEPT ![i] = "asked"]
      /\ UNCHANGED <<ledger, mail, typed, asleep>>
  BY DEF IInv, Ask
<1>2. Sound(c, active, attempt, sent) /\ Flown(c, flight[i], typed[i])
  BY DEF IInv
<1>3. c \in Continuation
  BY <1>2 DEF Sound
<1>4. /\ d \in Continuation /\ d.state = "DELIVERING" /\ d.intent = "PROCESSING"
      /\ d.owner = c.owner /\ d.attempt = c.attempt /\ d.targets = c.targets /\ d.met = c.met
      /\ d.cursor = c.cursor /\ d.deadline = c.deadline /\ d.mode = c.mode
  BY <1>3 DEF Continuation, Open
<1>5. (Enough(d) <=> Enough(c)) /\ \A t, m : Heard(t, d, m) <=> Heard(t, c, m)
  BY <1>4 DEF Enough, Heard
<1>6. Sound(d, active, attempt, sent) /\ Unmet(d, assignment, sent) /\ Flown(d, "asked", typed[i])
  BY <1>1, <1>2, <1>4, <1>5 DEF Sound, Paired, Unmet, Flown, Open
<1>7. /\ typed' = [typed EXCEPT ![i] = typed[i]]
      /\ asleep' \in [Assignments -> BOOLEAN]
      /\ assignment' \in [Assignments -> AssignmentStates] /\ NoneSettles
      /\ UNCHANGED <<active, attempt, mail>> /\ cont' = [cont EXCEPT ![i] = d]
  BY <1>1 DEF TypeOK, ledger, NoneSettles
<1>. QED
  BY <1>1, <1>4, <1>6, <1>7, OneStep DEF Open, Finished

LEMMA TypeStep ==
  ASSUME IInv, NEW i \in Parks, Type(i)
  PROVE  IInv' /\ Final
<1> DEFINE c == cont[i]
<1>1. /\ TypeOK /\ flight[i] = "asked"
      /\ flight' = [flight EXCEPT ![i] = "typed"]
      /\ typed' = [typed EXCEPT ![i] = typed[i] + 1]
      /\ asleep' \in [Assignments -> BOOLEAN]
      /\ UNCHANGED <<ledger, mail, cont>>
  BY DEF IInv, Type, TypeOK
<1>2. Sound(c, active, attempt, sent) /\ Unmet(c, assignment, sent) /\ Flown(c, flight[i], typed[i])
  BY DEF IInv
<1>3. Flown(c, "typed", typed[i] + 1)
  BY <1>1, <1>2 DEF Flown
<1>4. /\ cont' = [cont EXCEPT ![i] = c]
      /\ assignment' \in [Assignments -> AssignmentStates] /\ NoneSettles
      /\ UNCHANGED <<active, attempt, mail>>
  BY <1>1 DEF TypeOK, ledger, NoneSettles
<1>. QED
  BY <1>1, <1>2, <1>3, <1>4, OneStep

(* Whatever the runtime answers, a continuation that is no longer DELIVERING   *)
(* stays what it is.                                                          *)
LEMMA AnsweredSound ==
  ASSUME NEW c, NEW act, NEW att, NEW log, Sound(c, act, att, log), NEW d \in {Confirmed(c), Unconfirmed(c)}
  PROVE  /\ Sound(d, act, att, log)
         /\ d.owner = c.owner /\ d.attempt = c.attempt
         /\ c.state # "DELIVERING" => d = c
         /\ c.state = "DELIVERING" => <<d.state, d.intent>> \in {<<"DELIVERED", "DELIVERED">>, <<"READY", "PENDING">>}
<1>1. c \in Continuation /\ (c.state = "DELIVERING" <=> c.intent = "PROCESSING")
  BY DEF Sound, Paired
<1>2. CASE c.state # "DELIVERING"
  <2>1. Confirmed(c) = c
    BY <1>1, <1>2 DEF Confirmed, Continuation
  <2>2. Unconfirmed(c) = c
    BY <1>1, <1>2 DEF Unconfirmed, Continuation
  <2>. QED
    BY <1>2, <2>1, <2>2
<1>3. CASE c.state = "DELIVERING"
  <2>1. /\ d \in Continuation
        /\ <<d.state, d.intent>> \in {<<"DELIVERED", "DELIVERED">>, <<"READY", "PENDING">>}
        /\ d.owner = c.owner /\ d.attempt = c.attempt /\ d.targets = c.targets /\ d.met = c.met
        /\ d.cursor = c.cursor /\ d.deadline = c.deadline /\ d.mode = c.mode
    <3>1. CASE d = Confirmed(c)
      BY <1>1, <1>3, <3>1 DEF Confirmed, Continuation, Open
    <3>2. CASE d = Unconfirmed(c)
      BY <1>1, <1>3, <3>2 DEF Unconfirmed, Continuation, Open
    <3>. QED
      BY <3>1, <3>2
  <2>2. (Enough(d) <=> Enough(c)) /\ \A t, m : Heard(t, d, m) <=> Heard(t, c, m)
    BY <2>1 DEF Enough, Heard
  <2>. QED
    BY <1>1, <1>3, <2>1, <2>2 DEF Sound, Paired, Open
<1>. QED
  BY <1>2, <1>3

LEMMA ConfirmStep ==
  ASSUME IInv, NEW i \in Parks, Confirm(i)
  PROVE  IInv' /\ Final
<1> DEFINE c == cont[i]
           d == Confirmed(c)
<1>1. /\ TypeOK /\ flight[i] = "typed"
      /\ cont' = [cont EXCEPT ![i] = d]
      /\ flight' = [flight EXCEPT ![i] = "none"]
      /\ UNCHANGED <<ledger, mail, typed, asleep>>
  BY DEF IInv, Confirm
<1>2. Sound(c, active, attempt, sent) /\ Unmet(c, assignment, sent) /\ Flown(c, flight[i], typed[i])
  BY DEF IInv
<1> HIDE DEF d
<1>3. /\ Sound(d, active, attempt, sent) /\ d.owner = c.owner
      /\ c.state # "DELIVERING" => d = c
      /\ c.state = "DELIVERING" => d.state = "DELIVERED" /\ d.intent = "DELIVERED"
  <2>1. c.state = "DELIVERING" => d.state = "DELIVERED"
    BY <1>2 DEF d, Confirmed, Sound, Continuation
  <2>2. d \in {Confirmed(c), Unconfirmed(c)}
    BY DEF d
  <2>. QED
    BY <1>2, <2>1, <2>2, AnsweredSound
<1>4. Unmet(d, assignment, sent) /\ Flown(d, "none", typed[i])
  BY <1>1, <1>2, <1>3 DEF Unmet, Flown
<1>5. /\ typed' = [typed EXCEPT ![i] = typed[i]]
      /\ asleep' \in [Assignments -> BOOLEAN]
      /\ assignment' \in [Assignments -> AssignmentStates] /\ NoneSettles
      /\ UNCHANGED <<active, attempt, mail>>
  BY <1>1 DEF TypeOK, ledger, NoneSettles
<1>. QED
  BY <1>1, <1>3, <1>4, <1>5, OneStep DEF Open, Finished

LEMMA RefuseStep ==
  ASSUME IInv, NEW i \in Parks, Refuse(i)
  PROVE  IInv' /\ Final
<1> DEFINE c == cont[i]
           d == Unconfirmed(c)
           n == IF flight[i] = "typed" THEN typed[i] - 1 ELSE typed[i]
<1>1. /\ TypeOK /\ flight[i] # "none"
      /\ cont' = [cont EXCEPT ![i] = d]
      /\ flight' = [flight EXCEPT ![i] = "none"]
      /\ typed' = [typed EXCEPT ![i] = n]
      /\ UNCHANGED <<ledger, mail, asleep>>
  BY DEF IInv, Refuse
<1>2. Sound(c, active, attempt, sent) /\ Unmet(c, assignment, sent) /\ Flown(c, flight[i], typed[i])
  BY DEF IInv
<1> HIDE DEF d
<1>3. /\ Sound(d, active, attempt, sent) /\ d.owner = c.owner
      /\ c.state # "DELIVERING" => d = c
      /\ c.state = "DELIVERING" => d.state = "READY" /\ d.intent = "PENDING"
  <2>1. c.state = "DELIVERING" => d.state = "READY"
    BY <1>2 DEF d, Unconfirmed, Sound, Continuation, Open
  <2>2. d \in {Confirmed(c), Unconfirmed(c)}
    BY DEF d
  <2>. QED
    BY <1>2, <2>1, <2>2, AnsweredSound
<1>4. n = 0
  BY <1>1, <1>2 DEF TypeOK, Flown
<1>5. Unmet(d, assignment, sent) /\ Flown(d, "none", n)
  BY <1>1, <1>2, <1>3, <1>4 DEF Unmet, Flown
<1>6. /\ asleep' \in [Assignments -> BOOLEAN]
      /\ assignment' \in [Assignments -> AssignmentStates] /\ NoneSettles
      /\ UNCHANGED <<active, attempt, mail>>
  BY <1>1 DEF TypeOK, ledger, NoneSettles
<1>. QED
  BY <1>1, <1>3, <1>5, <1>6, OneStep DEF Open, Finished

(* Recovery finds no wait of an inactive owner: every transaction that ends or *)
(* replaces an Attempt has cancelled what it waits for.                       *)
LEMMA RecoveredIsReconciled ==
  ASSUME IInv, NEW i \in Parks
  PROVE  Recovered(cont[i]) = Reconciled(Unconfirmed(cont[i]), assignment, sent)
<1>1. Sound(cont[i], active, attempt, sent) /\ AtWork
  BY DEF IInv
<1>2. cont[i].state \in Open => cont[i].owner \in Assignments
  BY <1>1 DEF Sound, Open
<1>3. cont[i].state \in Open => ~OwnerInactive(cont[i])
  BY <1>1, <1>2 DEF Sound, OwnerInactive, AtWork
<1>. QED
  BY <1>3 DEF Recovered

LEMMA DrainStep ==
  ASSUME IInv, Drain
  PROVE  IInv' /\ Final
<1>1. /\ TypeOK /\ AtWork /\ Over /\ cont' = [i \in Parks |-> Recovered(cont[i])]
      /\ UNCHANGED <<ledger, mail, delivery, asleep>>
  BY DEF IInv, Drain
<1>2. ASSUME NEW i \in Parks
      PROVE  /\ Sound(cont'[i], active', attempt', sent')
             /\ Unmet(cont'[i], assignment', sent')
             /\ Tame(cont[i], cont'[i])
  <2>1. Sound(cont[i], active, attempt, sent) /\ Flown(cont[i], flight[i], typed[i])
    BY DEF IInv
  <2>2. Unconfirmed(cont[i]) = cont[i]
    <3>1. cont[i].state # "DELIVERING"
      BY <1>1, <2>1 DEF Over, Flown
    <3>. QED
      BY <2>1, <3>1, AnsweredSound
  <2>3. cont'[i] = Reconciled(cont[i], assignment, sent)
    BY <1>1, <2>2, RecoveredIsReconciled
  <2>. QED
    BY <1>1, <2>1, <2>3, ReconcileSound DEF ledger, mail
<1>3. Surroundings' /\ AtWork'
  BY <1>1 DEF Surroundings, TypeOK, AtWork, ledger, mail, delivery
<1>4. cont' = [i \in Parks |-> cont'[i]]
  BY <1>1
<1>. QED
  BY <1>1, <1>2, <1>3, <1>4, AllStep

LEMMA RestartStep ==
  ASSUME IInv, Restart
  PROVE  IInv' /\ Final
<1>1. /\ TypeOK /\ AtWork
      /\ cont' = [i \in Parks |-> Recovered(cont[i])]
      /\ flight' = [i \in Parks |-> "none"]
      /\ typed' = [i \in Parks |-> IF flight[i] = "typed" THEN typed[i] - 1 ELSE typed[i]]
      /\ UNCHANGED <<ledger, mail, asleep>>
  BY DEF IInv, Restart
<1>2. ASSUME NEW i \in Parks
      PROVE  /\ Sound(cont'[i], active', attempt', sent')
             /\ Unmet(cont'[i], assignment', sent')
             /\ Flown(cont'[i], flight'[i], typed'[i])
             /\ cont'[i].owner = cont[i].owner
             /\ cont'[i].state \in Open => cont[i].state \in Open
             /\ cont[i].state \in Finished =>
                  cont'[i].state = cont[i].state /\ cont'[i].intent = cont[i].intent
  <2> DEFINE c == cont[i]
             d == Unconfirmed(c)
  <2>1. Sound(c, active, attempt, sent) /\ Flown(c, flight[i], typed[i])
    BY DEF IInv
  <2>2. /\ Sound(d, active, attempt, sent) /\ d.owner = c.owner
        /\ c.state # "DELIVERING" => d = c
        /\ c.state = "DELIVERING" => d.state = "READY" /\ d.intent = "PENDING"
    <3>1. c.state = "DELIVERING" => Unconfirmed(c).state = "READY"
      BY <2>1 DEF Unconfirmed, Sound, Continuation, Open
    <3>. QED
      BY <2>1, <3>1, AnsweredSound
  <2>3. cont'[i] = Reconciled(d, assignment, sent)
    BY <1>1, RecoveredIsReconciled
  <2> HIDE DEF d
  <2>4. /\ Sound(cont'[i], active, attempt, sent) /\ Unmet(cont'[i], assignment, sent)
        /\ Tame(d, cont'[i])
    BY <2>2, <2>3, ReconcileSound
  <2>5. /\ flight'[i] = "none"
        /\ typed'[i] = IF flight[i] = "typed" THEN typed[i] - 1 ELSE typed[i]
    BY <1>1
  <2>6. /\ typed'[i] \in {0, 1}
        /\ d.intent \in {"ABSENT", "PENDING"} => typed'[i] = 0
    BY <2>1, <2>2, <2>5, <1>1 DEF Flown, TypeOK
  <2>7. cont'[i].state # "DELIVERING"
    BY <2>2, <2>4 DEF Tame
  <2>8. Flown(cont'[i], flight'[i], typed'[i])
    BY <2>4, <2>5, <2>6, <2>7 DEF Flown, Tame
  <2>. QED
    BY <1>1, <2>2, <2>4, <2>8 DEF Tame, Open, Finished, ledger, mail
<1>3. TypeOK'
  <2>1. \A i \in Parks : cont'[i] \in Continuation /\ typed'[i] \in Nat
    BY <1>2 DEF Sound, Flown
  <2>. QED
    BY <1>1, <2>1 DEF TypeOK, ledger, mail
<1>4. AtWork'
  BY <1>1 DEF AtWork, ledger
<1>5. OneWaitPerOwner'
  BY <1>2 DEF IInv, OneWaitPerOwner
<1>. QED
  BY <1>2, <1>3, <1>4, <1>5 DEF IInv, Final

-----------------------------------------------------------------------------
(* The theorems *)

LEMMA StepIInv == IInv /\ [Next]_vars => IInv' /\ (Final \/ UNCHANGED vars)
<1>. SUFFICES ASSUME IInv, [Next]_vars PROVE IInv' /\ (Final \/ UNCHANGED vars)
  OBVIOUS
<1>1. CASE Talk
  BY <1>1, SayStep, ReviseStep DEF Talk
<1>2. ASSUME NEW a \in Assignments, Live(a) \/ Report(a) PROVE IInv' /\ Final
  BY <1>2, DelegateStep, LifeStep, PlanAgainStep, ReportStep DEF Live
<1>3. ASSUME NEW i \in Parks, Wait(i) PROVE IInv' /\ Final
  BY <1>3, ParkStep, ParkAgainStep, ConsumeStep DEF Wait
<1>4. ASSUME NEW i \in Parks, Deliver(i) PROVE IInv' /\ Final
  BY <1>4, LapseStep, AskStep, TypeStep, ConfirmStep, RefuseStep DEF Deliver
<1>5. CASE Drain
  BY <1>5, DrainStep
<1>6. CASE Restart
  BY <1>6, RestartStep
<1>7. CASE UNCHANGED vars
  <2>1. UNCHANGED <<assignment, active, attempt, sent, last, cont, flight, typed, asleep>>
    BY <1>7 DEF vars, ledger, mail, delivery
  <2>. QED
    BY <1>7, <2>1 DEF IInv, TypeOK, AtWork, OneWaitPerOwner
<1>. QED
  BY <1>1, <1>2, <1>3, <1>4, <1>5, <1>6, <1>7 DEF Next

THEOREM Invariant == Spec => []IInv
<1>1. IInv /\ [Next]_vars => IInv'
  BY StepIInv
<1>. QED
  BY InitIInv, <1>1, PTL DEF Spec

(* The tables hold what their columns allow, whatever happens. *)
THEOREM TypeCorrect == Spec => []TypeOK
<1>1. IInv => TypeOK
  BY DEF IInv
<1>. QED
  BY Invariant, <1>1, PTL

(* Completion and message races lose no wake-up: what is true is known to      *)
(* every continuation that is still ARMED, and is not enough for it.          *)
THEOREM NoWakeUpIsLost == Spec => []ArmedIsUnmet
<1>1. IInv => ArmedIsUnmet
  <2>. SUFFICES ASSUME IInv PROVE ArmedIsUnmet
    OBVIOUS
  <2>1. ASSUME NEW i \in Parks, cont[i].state = "ARMED"
        PROVE  LET c == cont[i] IN
                 /\ c.met \subseteq c.targets /\ ~Enough(c)
                 /\ \A t \in c.targets : Holds(t, c, assignment, sent) => t \in c.met
    BY <2>1 DEF IInv, Sound, Unmet
  <2>2. ASSUME NEW i \in Parks, cont[i].state = "ARMED", NEW t \in cont[i].targets, NEW m \in sent,
               t.kind = "message", m.to = cont[i].owner, m.seq > cont[i].cursor, m.kind \in t.what,
               t.who # None => m.from = t.who
        PROVE  t \in cont[i].met
    <3>1. Heard(t, cont[i], m)
      BY <2>2 DEF Heard
    <3>2. Holds(t, cont[i], assignment, sent)
      BY <2>2, <3>1 DEF Holds
    <3>. QED
      BY <2>1, <2>2, <3>2
  <2>3. ASSUME NEW i \in Parks, cont[i].state = "ARMED", NEW t \in cont[i].targets,
               t.kind = "assignment_terminal", assignment[t.who] \in t.what
        PROVE  t \in cont[i].met
    BY <2>1, <2>3 DEF Holds
  <2>4. ASSUME NEW i \in Parks, cont[i].state = "ARMED"
        PROVE  IF cont[i].mode = "all" THEN cont[i].targets \ cont[i].met # {} ELSE cont[i].met = {}
    <3>1. cont[i].met \subseteq cont[i].targets /\ ~Enough(cont[i])
      BY <2>1, <2>4
    <3>2. CASE cont[i].mode = "all"
      <4>1. cont[i].met # cont[i].targets
        BY <3>1, <3>2 DEF Enough
      <4>. QED
        BY <3>1, <3>2, <4>1
    <3>3. CASE cont[i].mode # "all"
      BY <3>1, <3>3 DEF Enough
    <3>. QED
      BY <3>2, <3>3
  <2>. QED
    BY <2>2, <2>3, <2>4 DEF ArmedIsUnmet
<1>. QED
  BY Invariant, <1>1, PTL

(* An intent is filed for met conditions or for the deadline, and messages the *)
(* agent had seen when it parked do not meet one.                             *)
THEOREM WokenWithReason == Spec => []WokenForAReason
<1>1. IInv => WokenForAReason
  BY DEF IInv, Sound, Enough, Heard, WokenForAReason
<1>. QED
  BY Invariant, <1>1, PTL

(* A continuation and its intent move together, and an open continuation       *)
(* belongs to the Attempt at work.                                            *)
THEOREM IntentAndContinuation == Spec => []IntentFollows
<1>1. IInv => IntentFollows
  <2>. SUFFICES ASSUME IInv, NEW i \in Parks
                PROVE  /\ Paired(cont[i])
                       /\ cont[i].state \in Open => ~OwnerInactive(cont[i])
                       /\ cont[i].state = "DELIVERING" => flight[i] # "none"
    BY DEF IntentFollows, Paired
  <2>1. Sound(cont[i], active, attempt, sent) /\ Flown(cont[i], flight[i], typed[i]) /\ AtWork
    BY DEF IInv
  <2>2. cont[i].state \in Open => cont[i].owner \in Assignments
    BY <2>1 DEF Sound, Open
  <2>. QED
    BY <2>1, <2>2 DEF Sound, Flown, OwnerInactive, AtWork
<1>. QED
  BY Invariant, <1>1, PTL

(* No Assignment waits twice, though armContinuation looks at one Attempt. *)
THEOREM WaitsOnce == Spec => []OneWaitPerOwner
<1>1. IInv => OneWaitPerOwner
  BY DEF IInv
<1>. QED
  BY Invariant, <1>1, PTL

(* A prompt that was confirmed is never typed again. *)
THEOREM TypedOnce == Spec => []RepeatedOnlyInDoubt
<1>1. IInv => RepeatedOnlyInDoubt
  BY DEF IInv, Flown, RepeatedOnlyInDoubt
<1>. QED
  BY Invariant, <1>1, PTL

(* Late answers of the runtime do not revive a finished continuation. *)
THEOREM FinishedStays == Spec => FinishedIsFinal
<1>1. IInv /\ [Next]_vars =>
        [\A i \in Parks : cont[i].state \in {"CONSUMED", "CANCELLED"} =>
           cont'[i].state = cont[i].state /\ cont'[i].intent = cont[i].intent]_vars
  BY StepIInv DEF Final, Finished
<1>. QED
  BY Invariant, <1>1, PTL DEF Spec, FinishedIsFinal

-----------------------------------------------------------------------------
(* If no agent parks with a key again, whoever sleeps has a prompt coming *)

Coming(c, f) == c.state \in {"ARMED", "READY", "DELIVERING"} /\ (c.state = "DELIVERING" => f = "asked")

Awaited ==
  \A a \in Assignments : asleep[a] =>
    \E i \in Parks : cont[i].owner = a /\ cont[i].attempt = active[a] /\ Coming(cont[i], flight[i])

LEMMA StillAwaited ==
  ASSUME Awaited,
         \A a \in Assignments : asleep'[a] =>
           /\ asleep[a] /\ active'[a] = active[a]
           /\ \A i \in Parks :
                cont[i].owner = a /\ cont[i].attempt = active[a] /\ Coming(cont[i], flight[i]) =>
                  /\ cont'[i].owner = a /\ cont'[i].attempt = active[a]
                  /\ Coming(cont'[i], flight'[i])
  PROVE  Awaited'
BY DEF Awaited

(* A continuation that is reconciled or told of something still has a prompt   *)
(* coming.                                                                    *)
LEMMA ReconciledComes ==
  ASSUME NEW c \in Continuation, NEW states, NEW log, NEW f
  PROVE  LET d == Reconciled(c, states, log) IN
           /\ d \in Continuation /\ d.owner = c.owner /\ d.attempt = c.attempt
           /\ Coming(c, f) => Coming(d, f)
<1> DEFINE seen == [c EXCEPT !.met = @ \cup {t \in c.targets : Holds(t, c, states, log)}]
           d == Reconciled(c, states, log)
<1>1. CASE c.state # "ARMED"
  BY <1>1 DEF Reconciled
<1>2. CASE c.state = "ARMED"
  <2>1. seen \in Continuation /\ seen.owner = c.owner /\ seen.attempt = c.attempt /\ seen.state = "ARMED"
    BY <1>2 DEF Continuation
  <2>2. /\ Readied(seen) \in Continuation
        /\ Readied(seen).owner = c.owner /\ Readied(seen).attempt = c.attempt
        /\ Readied(seen).state = "READY"
    <3>. HIDE DEF seen
    <3>. QED
      BY <2>1 DEF Readied, Continuation, Open
  <2>3. d = seen \/ d = Readied(seen)
    BY <1>2 DEF Reconciled
  <2>. QED
    BY <2>1, <2>2, <2>3 DEF Coming
<1>. QED
  BY <1>1, <1>2

LEMMA ToldComes ==
  ASSUME NEW conts, NEW i \in Parks, conts[i] \in Continuation,
         NEW posted, NEW a, NEW states, NEW log, NEW f,
         NEW d \in {ToldMessages(conts, posted, states, log)[i], ToldEnd(conts, a, states, log)[i]}
  PROVE  /\ d \in Continuation /\ d.owner = conts[i].owner /\ d.attempt = conts[i].attempt
         /\ Coming(conts[i], f) => Coming(d, f)
<1>1. d \in {conts[i], Reconciled(conts[i], states, log)}
  BY DEF ToldMessages, ToldEnd
<1>. QED
  BY <1>1, ReconciledComes

LEMMA DisownedComes ==
  ASSUME TypeOK, NEW i \in Parks, NEW a
  PROVE  /\ Disowned(a)[i] \in Continuation
         /\ cont[i].owner # a => Disowned(a)[i] = cont[i]
<1>1. Cancelled(cont[i]) \in Continuation
  <2>1. cont[i] \in Continuation
    BY DEF TypeOK
  <2>. QED
    BY <2>1 DEF Cancelled, Continuation
<1>. QED
  BY <1>1 DEF Disowned, TypeOK

LEMMA EndAwaited ==
  ASSUME IInv, Awaited, NEW a \in Assignments, NEW posted, NEW states, End(a, posted, states)
  PROVE  Awaited'
<1> DEFINE told == ToldMessages(Disowned(a), posted, states, sent')
<1>1. /\ TypeOK /\ active' = active /\ flight' = flight
      /\ asleep' = [asleep EXCEPT ![a] = FALSE]
      /\ cont' = ToldEnd(told, a, assignment', sent')
  BY DEF IInv, End, delivery
<1>2. ASSUME NEW i \in Parks, cont[i].owner # a
      PROVE  /\ cont'[i].owner = cont[i].owner /\ cont'[i].attempt = cont[i].attempt
             /\ Coming(cont[i], flight[i]) => Coming(cont'[i], flight[i])
  <2>1. Disowned(a)[i] \in Continuation /\ Disowned(a)[i] = cont[i]
    BY <1>1, <1>2, DisownedComes
  <2>2. /\ told[i] \in Continuation /\ told[i].owner = cont[i].owner /\ told[i].attempt = cont[i].attempt
        /\ Coming(cont[i], flight[i]) => Coming(told[i], flight[i])
    BY <2>1, ToldComes
  <2> HIDE DEF told
  <2>. QED
    BY <1>1, <2>2, ToldComes
<1>3. \A b \in Assignments : asleep'[b] => b # a /\ asleep[b]
  BY <1>1 DEF TypeOK
<1> HIDE DEF told
<1>. QED
  BY <1>1, <1>2, <1>3, StillAwaited

LEMMA ReplanAwaited ==
  ASSUME IInv, Awaited, NEW a \in Assignments, PlanAgain(a) \/ \E m \in Messages : Revise(a, m)
  PROVE  Awaited'
<1>1. /\ TypeOK /\ flight' = flight
      /\ active' = [active EXCEPT ![a] = @ + 1]
      /\ asleep' = [asleep EXCEPT ![a] = FALSE]
      /\ \/ cont' = Disowned(a)
         \/ \E m \in Messages : cont' = ToldMessages(Disowned(a), {m}, assignment', sent')
  BY DEF IInv, PlanAgain, Revise, Replan, delivery
<1>2. ASSUME NEW i \in Parks, cont[i].owner # a
      PROVE  /\ cont'[i].owner = cont[i].owner /\ cont'[i].attempt = cont[i].attempt
             /\ Coming(cont[i], flight[i]) => Coming(cont'[i], flight[i])
  <2>1. Disowned(a)[i] \in Continuation /\ Disowned(a)[i] = cont[i]
    BY <1>1, <1>2, DisownedComes
  <2>2. CASE cont' = Disowned(a)
    BY <2>1, <2>2
  <2>3. ASSUME NEW m \in Messages, cont' = ToldMessages(Disowned(a), {m}, assignment', sent')
        PROVE  /\ cont'[i].owner = cont[i].owner /\ cont'[i].attempt = cont[i].attempt
               /\ Coming(cont[i], flight[i]) => Coming(cont'[i], flight[i])
    BY <2>1, <2>3, ToldComes
  <2>. QED
    BY <1>1, <2>2, <2>3
<1>3. \A b \in Assignments : asleep'[b] => b # a /\ asleep[b] /\ active'[b] = active[b]
  BY <1>1 DEF TypeOK
<1>. QED
  BY <1>1, <1>2, <1>3, StillAwaited

LEMMA RecoveredAwaited ==
  ASSUME IInv, Awaited, Drain \/ Restart
  PROVE  Awaited'
<1>1. /\ TypeOK /\ active' = active /\ asleep' = asleep /\ cont' = [i \in Parks |-> Recovered(cont[i])]
  BY DEF IInv, Drain, Restart, ledger
<1>2. ASSUME NEW i \in Parks, Coming(cont[i], flight[i])
      PROVE  /\ cont'[i].owner = cont[i].owner /\ cont'[i].attempt = cont[i].attempt
             /\ Coming(cont'[i], flight'[i])
  <2> DEFINE d == Unconfirmed(cont[i])
  <2>1. d \in Continuation /\ d.owner = cont[i].owner /\ d.attempt = cont[i].attempt
        /\ d.state \in {"ARMED", "READY"}
    <3>1. cont[i] \in Continuation /\ cont[i].state \in {"ARMED", "READY", "DELIVERING"}
      BY <1>1, <1>2 DEF TypeOK, Coming
    <3>2. d.owner = cont[i].owner /\ d.attempt = cont[i].attempt
      BY <3>1 DEF Unconfirmed, Continuation
    <3>3. d.state \in {"ARMED", "READY"}
      BY <3>1 DEF Unconfirmed, Continuation
    <3>4. d \in Continuation
      BY <3>1 DEF Unconfirmed, Continuation, Open
    <3> QED BY <3>2, <3>3, <3>4
  <2>2. cont'[i] = Reconciled(d, assignment, sent)
    BY <1>1, RecoveredIsReconciled
  <2> HIDE DEF d
  <2>. QED
    BY <2>1, <2>2, ReconciledComes DEF Coming
<1>. QED
  BY <1>1, <1>2, StillAwaited

LEMMA ParkAwaited ==
  ASSUME IInv, Awaited, NEW i \in Parks, NEW a \in Owners, NEW wait \in Waits, NEW cursor \in 0 .. last,
         Park(i, a, wait, cursor)
  PROVE  Awaited'
<1> DEFINE c == [owner |-> a, attempt |-> active[a], mode |-> wait.mode, targets |-> wait.targets,
                 met |-> {}, cursor |-> cursor, deadline |-> wait.deadline, state |-> "ARMED",
                 intent |-> "ABSENT"]
           waiting == [assignment EXCEPT ![a] = IF @ = "ACTIVE" THEN "WAITING" ELSE @]
<1>1. /\ TypeOK /\ cont[i] = NoContinuation /\ active' = active /\ flight' = flight
      /\ cont' = [cont EXCEPT ![i] = Reconciled(c, waiting, sent)]
      /\ asleep' = [asleep EXCEPT ![a] = TRUE]
  BY DEF IInv, Park, Registered, delivery
<1>2. c.owner = a /\ c.attempt = active[a] /\ c.state = "ARMED"
  OBVIOUS
<1>3. c \in Continuation
  <2>1. a \in Assignments /\ active[a] \in 0 .. MaxAttempts /\ cursor \in 0 .. MaxMessages
    BY <1>1, ContinuationsAssumption DEF TypeOK
  <2>2. wait.mode \in {"all", "any"} /\ wait.targets \subseteq Conditions /\ wait.deadline \in {"none", "ahead"}
    BY ContinuationsAssumption
  <2>. QED
    BY <2>1, <2>2 DEF Continuation, Open
<1> HIDE DEF c, waiting
<1>4. cont'[i] = Reconciled(c, waiting, sent)
  BY <1>1 DEF TypeOK
<1>5. /\ cont'[i].owner = a /\ cont'[i].attempt = active[a] /\ Coming(cont'[i], flight'[i])
  BY <1>2, <1>3, <1>4, ReconciledComes DEF Coming
<1>6. \A j \in Parks : Coming(cont[j], flight[j]) => j # i
  BY <1>1 DEF NoContinuation, Coming
<1>7. \A j \in Parks : j # i => cont'[j] = cont[j]
  BY <1>1 DEF TypeOK
<1>8. \A b \in Assignments : asleep'[b] => b = a \/ asleep[b]
  BY <1>1 DEF TypeOK
<1>. QED
  BY <1>1, <1>5, <1>6, <1>7, <1>8 DEF Awaited

LEMMA AwaitedStep ==
  ASSUME ~KeyReuse, IInv, Awaited, [Next]_vars
  PROVE  Awaited'
<1>. TypeOK
  BY DEF IInv
<1>1. ASSUME \/ \E m \in Messages : Say(m)
             \/ \E a \in Assignments, posted \in Posts : Delegate(a, posted)
      PROVE  Awaited'
  <2>1. /\ active' = active /\ flight' = flight /\ asleep' = asleep
        /\ \E posted, states : cont' = ToldMessages(cont, posted, states, sent')
    BY <1>1 DEF Say, Delegate, ledger, delivery
  <2>2. \A i \in Parks : cont[i] \in Continuation
    BY DEF TypeOK
  <2>. QED
    BY <2>1, <2>2, ToldComes, StillAwaited
<1>2. ASSUME NEW a \in Assignments, Bind(a) \/ Rebind(a) \/ Rouse(a)
      PROVE  Awaited'
  <2>1. /\ active' = active /\ flight' = flight /\ cont' = cont
        /\ \A b \in Assignments : asleep'[b] => asleep[b]
    BY <1>2 DEF Bind, Rebind, Rouse, ledger, delivery, TypeOK
  <2>. QED
    BY <2>1, StillAwaited
<1>3. ASSUME NEW a \in Assignments, Fail(a) \/ Cancel(a) \/ Report(a) PROVE Awaited'
  BY <1>3, EndAwaited DEF Fail, Cancel, Report, Complete, Orphan
<1>4. ASSUME NEW i \in Parks, Consume(i) PROVE Awaited'
  <2>1. /\ ~asleep[cont[i].owner] /\ active' = active /\ asleep' = asleep /\ flight' = flight
        /\ cont' = [cont EXCEPT ![i].state = "CONSUMED", ![i].intent = "ACKNOWLEDGED"]
    BY <1>4 DEF Consume, delivery
  <2>2. \A j \in Parks : j # i => cont'[j] = cont[j]
    BY <2>1 DEF TypeOK
  <2>. QED
    BY <2>1, <2>2, StillAwaited
<1>5. ASSUME NEW i \in Parks, Lapse(i) \/ Ask(i) PROVE Awaited'
  <2>1. /\ active' = active /\ asleep' = asleep
        /\ \A j \in Parks : j # i => cont'[j] = cont[j] /\ flight'[j] = flight[j]
    BY <1>5 DEF Lapse, Ask, ledger, delivery, TypeOK
  <2>2. /\ cont'[i].owner = cont[i].owner /\ cont'[i].attempt = cont[i].attempt
        /\ Coming(cont'[i], flight'[i])
    BY <1>5 DEF Lapse, Ask, ledger, delivery, TypeOK, Continuation, Coming
  <2>. QED
    BY <2>1, <2>2, StillAwaited
<1>6. ASSUME NEW i \in Parks, Type(i) PROVE Awaited'
  <2>1. /\ active' = active /\ cont' = cont
        /\ \A b \in Assignments : asleep'[b] => asleep[b] /\ ~(cont[i].owner = b /\ cont[i].attempt = active[b])
        /\ \A j \in Parks : j # i => flight'[j] = flight[j]
    BY <1>6 DEF Type, ledger, TypeOK
  <2>. QED
    BY <2>1, StillAwaited
<1>7. ASSUME NEW i \in Parks, Confirm(i) PROVE Awaited'
  <2>1. /\ active' = active /\ asleep' = asleep /\ flight[i] = "typed"
        /\ \A j \in Parks : j # i => cont'[j] = cont[j] /\ flight'[j] = flight[j]
    BY <1>7 DEF Confirm, ledger, TypeOK
  <2>2. ~Coming(cont[i], flight[i])
    BY <2>1 DEF IInv, Flown, Sound, Paired, Coming
  <2>. QED
    BY <2>1, <2>2, StillAwaited
<1>8. ASSUME NEW i \in Parks, Refuse(i) PROVE Awaited'
  <2>1. /\ active' = active /\ asleep' = asleep /\ cont' = [cont EXCEPT ![i] = Unconfirmed(cont[i])]
        /\ \A j \in Parks : j # i => cont'[j] = cont[j] /\ flight'[j] = flight[j]
    BY <1>8 DEF Refuse, ledger, TypeOK
  <2>2. Coming(cont[i], flight[i]) =>
          /\ cont'[i].owner = cont[i].owner /\ cont'[i].attempt = cont[i].attempt
          /\ cont'[i].state \in {"ARMED", "READY"}
    BY <2>1 DEF Unconfirmed, TypeOK, Continuation, Open, Coming
  <2>. QED
    BY <2>1, <2>2, StillAwaited DEF Coming
<1>9. CASE UNCHANGED vars
  BY <1>9 DEF Awaited, vars, ledger, mail, delivery
<1>10. ASSUME NEW i \in Parks, Wait(i) PROVE Awaited'
  BY <1>4, <1>10, ParkAwaited DEF Wait, ParkAgain
<1>11. CASE Talk
  BY <1>1, <1>11, ReplanAwaited DEF Talk
<1>12. ASSUME NEW a \in Assignments, Live(a) \/ Report(a) PROVE Awaited'
  BY <1>1, <1>2, <1>3, <1>12, ReplanAwaited DEF Live
<1>13. ASSUME NEW i \in Parks, Deliver(i) PROVE Awaited'
  BY <1>5, <1>6, <1>7, <1>8, <1>13 DEF Deliver
<1>. QED
  BY <1>9, <1>10, <1>11, <1>12, <1>13, RecoveredAwaited DEF Next

(* The prompt can be relied on, as long as keys are not used twice: the only   *)
(* way to sleep for nothing is the one the run parked_again shows.            *)
THEOREM SleepersAreAwaited ==
  ASSUME ~KeyReuse
  PROVE  Spec => []SleeperIsAwaited
<1>1. Init => Awaited
  BY DEF Init, Awaited
<1>2. IInv /\ Awaited /\ [Next]_vars => Awaited'
  BY AwaitedStep
<1>3. Awaited => SleeperIsAwaited
  BY DEF Awaited, Coming, SleeperIsAwaited
<1>. QED
  BY <1>1, <1>2, <1>3, Invariant, PTL DEF Spec

-----------------------------------------------------------------------------
(* Runner: timers and delays *)

(* A set of delays has an earliest one. *)
LEMMA LeastExists ==
  ASSUME NEW D \in SUBSET Nat, D # {}
  PROVE  \E d \in D : \A e \in D : d <= e
<1>1. PICK d \in D : \A e \in D : ~ (<<e, d>> \in OpToRel(<, Nat))
  BY WFMin, NatLessThanWellFounded
<1>2. \A e \in D : e < d => <<e, d>> \in OpToRel(<, Nat)
  BY DEF OpToRel
<1>3. \A e \in D : ~ (e < d)
  BY <1>1, <1>2, Zenon
<1> QED BY <1>3

LEMMA EarliestExists ==
  ASSUME RunnerTypeOK, NEW S \in SUBSET Intents, S # {}
  PROVE  /\ Earliest(S) \in Ticks
         /\ \A i \in S : Earliest(S) <= intentDue[i]
<1>1. Dues(S) \subseteq Ticks /\ Dues(S) \in SUBSET Nat /\ Dues(S) # {}
  BY RunnerAssumption DEF Dues, RunnerTypeOK, Ticks
<1>2. \E d \in Dues(S) : \A e \in Dues(S) : d <= e
  BY <1>1, LeastExists
<1>3. Earliest(S) \in Dues(S) /\ \A e \in Dues(S) : Earliest(S) <= e
  BY <1>2 DEF Earliest
<1> QED BY <1>1, <1>3 DEF Dues

(* Waking leaves a timer that fires no later than it did, or than asked. *)
LEMMA WakeTyped ==
  ASSUME NEW t \in Ticks \cup {Off}, NEW delay \in Ticks
  PROVE  /\ Wake(t, delay) \in Ticks
         /\ Wake(t, delay) <= delay
         /\ t # Off => Wake(t, delay) <= t
  BY RunnerAssumption DEF Wake, Ticks

LEMMA DelayTyped == 0 \in Ticks /\ Delay \in Ticks
  BY RunnerAssumption DEF Ticks

(* the end of a drain *)
LEMMA RearmedTyped ==
  ASSUME RunnerTypeOK, NEW t \in Ticks \cup {Off}, NEW state \in [Intents -> IntentStates]
  PROVE  /\ Rearmed(t, state) \in Ticks \cup {Off}
         /\ NextAlarm(state) \in Ticks \cup {Off}
         /\ \A i \in Intents : state[i] = "PENDING" =>
              Rearmed(t, state) # Off /\ Rearmed(t, state) <= intentDue[i]
<1> DEFINE S == {i \in Intents : state[i] = "PENDING"}
           T == {i \in Timed : state[i] = "ARMED"}
<1>1. ASSUME NEW i \in Intents, state[i] = "PENDING"
      PROVE  Rearmed(t, state) # Off /\ Rearmed(t, state) <= intentDue[i]
  <2>1. i \in S /\ S # {}
    BY <1>1
  <2>2. Earliest(S) \in Ticks /\ Earliest(S) <= intentDue[i]
    BY <2>1, EarliestExists
  <2>3. Rearmed(t, state) = Wake(t, Earliest(S))
    BY <2>1 DEF Rearmed
  <2>4. Rearmed(t, state) \in Ticks /\ Rearmed(t, state) <= Earliest(S)
    BY <2>2, <2>3, WakeTyped
  <2> HIDE DEF S
  <2> QED BY <2>2, <2>4, RunnerAssumption DEF Ticks, RunnerTypeOK
<1>2. Rearmed(t, state) \in Ticks \cup {Off}
  <2>1. S # {} => Earliest(S) \in Ticks
    BY EarliestExists
  <2>2. Rearmed(t, state) = IF S = {} THEN t ELSE Wake(t, Earliest(S))
    BY DEF Rearmed
  <2> QED BY <2>1, <2>2, WakeTyped
<1>3. NextAlarm(state) \in Ticks \cup {Off}
  <2>1. T \in SUBSET Intents
    BY RunnerAssumption
  <2>2. T # {} => Earliest(T) \in Ticks
    BY <2>1, EarliestExists
  <2>3. NextAlarm(state) = IF T = {} THEN Off ELSE Earliest(T)
    BY DEF NextAlarm
  <2> QED BY <2>2, <2>3
<1> QED BY <1>1, <1>2, <1>3

-----------------------------------------------------------------------------
(* Runner: type correctness *)

LEMMA InitTyped == RunnerInit => RunnerTypeOK
  BY RunnerAssumption, DelayTyped DEF RunnerInit, RunnerTypeOK, RowStates, IntentStates

(* What becomes of the intents when the drain lists them, or ends. *)
LEMMA ToIntentsTyped ==
  ASSUME RunnerTypeOK, NEW t \in Ticks \cup {Off}, NEW state \in [Intents -> IntentStates], ToIntents(t, state)
  PROVE  /\ intent' \in [Intents -> IntentStates]
         /\ timer' \in Ticks \cup {Off} /\ alarm' \in Ticks \cup {Off}
         /\ drain' = NotDraining \/ drain' \in [phase : {"intents"}, open : SUBSET Intents, full : BOOLEAN]
<1>1. CASE DueIntents(state) = {}
  BY <1>1, RearmedTyped DEF ToIntents
<1>2. CASE DueIntents(state) # {}
  <2>1. PICK listed \in SUBSET DueIntents(state) :
          /\ drain' = [phase |-> "intents", open |-> listed, full |-> Full(listed)]
          /\ intent' = [i \in Intents |-> IF i \in listed THEN "PROCESSING" ELSE state[i]]
          /\ timer' = t /\ alarm' = alarm
    BY <1>2 DEF ToIntents
  <2> QED BY <2>1 DEF DueIntents, Full, IntentStates, RunnerTypeOK
<1> QED BY <1>1, <1>2

LEMMA ToRowsTyped ==
  ASSUME RunnerTypeOK, NEW t \in Ticks \cup {Off}, NEW state \in [Intents -> IntentStates], ToRows(t, state)
  PROVE  /\ intent' \in [Intents -> IntentStates]
         /\ timer' \in Ticks \cup {Off} /\ alarm' \in Ticks \cup {Off}
         /\ \/ drain' = NotDraining
            \/ drain' \in [phase : {"rows"}, open : SUBSET Rows, full : BOOLEAN]
            \/ drain' \in [phase : {"intents"}, open : SUBSET Intents, full : BOOLEAN]
<1>1. CASE DueRows = {}
  BY <1>1, ToIntentsTyped DEF ToRows
<1>2. CASE DueRows # {}
  <2>1. ListedRows \in SUBSET Rows /\ Full(ListedRows) \in BOOLEAN
    BY DEF ListedRows, DueRows, Full
  <2> QED BY <1>2, <2>1 DEF ToRows, RunnerTypeOK
<1> QED BY <1>1, <1>2

LEMMA ExpiredTyped ==
  ASSUME NEW state \in [Intents -> IntentStates] PROVE Expired(state) \in [Intents -> IntentStates]
  BY DEF Expired, IntentStates

LEMMA DrainStepTyped ==
  ASSUME RunnerTypeOK, Fire \/ RowsDone \/ IntentsDone PROVE RunnerTypeOK'
<1>1. CASE Fire
  <2>1. CASE Idle
    BY <1>1, <2>1, ToRowsTyped, ExpiredTyped DEF Fire, RunnerTypeOK, rowVars
  <2>2. CASE ~Idle
    BY <1>1, <2>2 DEF Fire, RunnerTypeOK, rowVars
  <2> QED BY <2>1, <2>2
<1>2. CASE RowsDone
  BY <1>2, ToRowsTyped, ToIntentsTyped DEF RowsDone, RunnerTypeOK, rowVars
<1>3. CASE IntentsDone
  BY <1>3, ToIntentsTyped, RearmedTyped DEF IntentsDone, RunnerTypeOK, rowVars
<1> QED BY <1>1, <1>2, <1>3

LEMMA PendingTyped ==
  ASSUME RunnerTypeOK, NEW S \in SUBSET Intents, Pending(S)
  PROVE  intent' \in [Intents -> IntentStates] /\ intentDue' \in [Intents -> Ticks]
  BY DelayTyped DEF Pending, RunnerTypeOK, IntentStates

LEMMA OverTyped ==
  ASSUME RunnerTypeOK, NEW x, drain # NotDraining, drain' = Answered(x)
  PROVE  /\ drain' \in [phase : {"rows"}, open : SUBSET Rows, full : BOOLEAN]
              \cup [phase : {"intents"}, open : SUBSET Intents, full : BOOLEAN]
         /\ drain'.phase = drain.phase /\ drain'.open = drain.open \ {x}
  BY DEF RunnerTypeOK, Answered

LEMMA ServeRowTyped == ASSUME RunnerTypeOK, NEW r \in Rows, ServeRow(r) PROVE RunnerTypeOK'
<1>0. drain # NotDraining
  BY DEF ServeRow, Postpone, Take, CompleteRow, Throw, Head, NotDraining
<1>1. CASE Postpone(r)
  BY <1>0, <1>1, OverTyped, WakeTyped, DelayTyped DEF Postpone, RunnerTypeOK, intentVars
<1>2. CASE Take(r)
  BY <1>2, RunnerAssumption DEF Take, RunnerTypeOK, RowStates, intentVars, timers
<1>3. CASE CompleteRow(r)
  BY <1>0, <1>3, OverTyped DEF CompleteRow, RunnerTypeOK, RowStates, intentVars, timers
<1>4. CASE Throw(r)
  <2>1. CASE tries[r] >= MaxTries
    <3>1. PICK S \in SUBSET Armed : Pending(S)
      BY <1>4, <2>1 DEF Throw
    <3>2. intent' \in [Intents -> IntentStates] /\ intentDue' \in [Intents -> Ticks]
      BY <3>1, PendingTyped DEF Armed
    <3> QED BY <1>0, <1>4, <2>1, <3>2, OverTyped DEF Throw, RunnerTypeOK, RowStates
  <2>2. CASE ~(tries[r] >= MaxTries)
    <3>1. /\ row' = [row EXCEPT ![r] = "PENDING"] /\ rowDue' = [rowDue EXCEPT ![r] = Delay]
          /\ timer' = Wake(timer, Delay) /\ drain' = Answered(r)
          /\ UNCHANGED <<intentVars, tries, blocked, alarm, restarts>>
      BY <1>4, <2>2 DEF Throw
    <3> QED BY <1>0, <3>1, OverTyped, WakeTyped, DelayTyped DEF RunnerTypeOK, RowStates, intentVars
  <2> QED BY <2>1, <2>2
<1> QED BY <1>1, <1>2, <1>3, <1>4 DEF ServeRow

LEMMA ServeIntentTyped == ASSUME RunnerTypeOK, NEW i \in Intents, ServeIntent(i) PROVE RunnerTypeOK'
<1>0. drain # NotDraining
  BY DEF ServeIntent, DeliverIntent, RefuseIntent, NotDraining
<1>1. CASE DeliverIntent(i)
  BY <1>0, <1>1, OverTyped DEF DeliverIntent, RunnerTypeOK, IntentStates, rowVars, timers
<1>2. CASE RefuseIntent(i)
  BY <1>0, <1>2, OverTyped, WakeTyped, DelayTyped DEF RefuseIntent, RunnerTypeOK, IntentStates, rowVars
<1> QED BY <1>1, <1>2 DEF ServeIntent

LEMMA ServiceTyped ==
  ASSUME RunnerTypeOK,
         \/ \E r \in Rows : Commit(r) \/ Promote(r)
         \/ \E i \in Intents : Arm(i) \/ Close(i)
         \/ \E S \in SUBSET Armed : Satisfy(S) \/ SatisfyByRecovery(S)
  PROVE  RunnerTypeOK'
<1>1. ASSUME NEW r \in Rows, Commit(r) PROVE RunnerTypeOK'
  BY <1>1, WakeTyped, DelayTyped DEF Commit, RunnerTypeOK, RowStates, intentVars
<1>2. ASSUME NEW r \in Rows, Promote(r) PROVE RunnerTypeOK'
  BY <1>2, WakeTyped, DelayTyped DEF Promote, RunnerTypeOK, intentVars
<1>3. ASSUME NEW i \in Intents, Arm(i) PROVE RunnerTypeOK'
  BY <1>3, WakeTyped, DelayTyped DEF Arm, RunnerTypeOK, IntentStates, rowVars
<1>4. ASSUME NEW i \in Intents, Close(i) PROVE RunnerTypeOK'
  BY <1>4 DEF Close, RunnerTypeOK, IntentStates, rowVars, timers
<1>5. ASSUME NEW S \in SUBSET Armed, Satisfy(S) \/ SatisfyByRecovery(S) PROVE RunnerTypeOK'
  <2>1. S \in SUBSET Intents /\ Pending(S)
    BY <1>5 DEF Satisfy, SatisfyByRecovery, Armed
  <2>2. intent' \in [Intents -> IntentStates] /\ intentDue' \in [Intents -> Ticks]
    BY <2>1, PendingTyped
  <2>3. timer' \in Ticks \cup {Off}
    <3>1. timer \in Ticks \cup {Off} /\ Wake(timer, 0) \in Ticks
      BY WakeTyped, DelayTyped DEF RunnerTypeOK
    <3>2. timer' = Wake(timer, 0) \/ timer' = timer
      BY <1>5 DEF Satisfy, SatisfyByRecovery, timers
    <3> QED BY <3>1, <3>2
  <2>4. UNCHANGED <<rowVars, alarm, drain, restarts>>
    BY <1>5 DEF Satisfy, SatisfyByRecovery, timers
  <2> QED BY <2>2, <2>3, <2>4 DEF RunnerTypeOK, rowVars
<1> QED BY <1>1, <1>2, <1>3, <1>4, <1>5

LEMMA LessTyped == \A t \in Ticks : Less(t) \in Ticks /\ Less(t) <= t
  BY RunnerAssumption DEF Less, Ticks

LEMMA TimeTyped == ASSUME RunnerTypeOK, Ring \/ Tick \/ RestartRunner PROVE RunnerTypeOK'
<1>1. CASE Ring
  BY <1>1, WakeTyped, DelayTyped DEF Ring, RunnerTypeOK, rowVars, intentVars
<1>2. CASE Tick
  BY <1>2, LessTyped DEF Tick, RunnerTypeOK
<1>3. CASE RestartRunner
  <2>1. intent' \in [Intents -> IntentStates] /\ intentDue' \in [Intents -> Ticks]
    BY <1>3, ExpiredTyped, DelayTyped DEF RestartRunner, Requeued, RunnerTypeOK, IntentStates
  <2>2. alarm' \in Ticks \cup {Off}
    BY <1>3, <2>1, RearmedTyped DEF RestartRunner
  <2> QED BY <1>3, <2>1, <2>2, RunnerAssumption, DelayTyped DEF RestartRunner, Requeued, RunnerTypeOK, RowStates
<1> QED BY <1>1, <1>2, <1>3

LEMMA StepTyped == RunnerTypeOK /\ [RunnerNext]_runnerVars => RunnerTypeOK'
<1> SUFFICES ASSUME RunnerTypeOK, [RunnerNext]_runnerVars PROVE RunnerTypeOK'
  OBVIOUS
<1>1. CASE UNCHANGED runnerVars
  BY <1>1 DEF runnerVars, rowVars, intentVars, timers, RunnerTypeOK
<1>2. CASE RunnerNext
  BY <1>2, DrainStepTyped, ServeRowTyped, ServeIntentTyped, ServiceTyped, TimeTyped DEF RunnerNext
<1> QED BY <1>1, <1>2

(* However timers, drains, transactions and restarts interleave, the queues   *)
(* hold what their readers accept and the drain what its phase lists.         *)
THEOREM RunnerTypeCorrect == RunnerSpec => []RunnerTypeOK
  BY InitTyped, StepTyped, PTL DEF RunnerSpec

-----------------------------------------------------------------------------
(* Runner: what is under way *)

(* Only the first listed row of an Assignment is under way, and only what the *)
(* drain still awaits.                                                       *)
HeadsWork ==
  /\ \A r \in Rows : row[r] = "PROCESSING" => Head(r)
  /\ \A i \in Intents : intent[i] = "PROCESSING" => drain.phase = "intents" /\ i \in drain.open

Quiet == (\A r \in Rows : row[r] # "PROCESSING") /\ (\A i \in Intents : intent[i] # "PROCESSING")

LEMMA QuietBetween ==
  ASSUME RunnerTypeOK, HeadsWork, Idle \/ drain.open = {} PROVE Quiet
  BY DEF HeadsWork, Quiet, Head, Idle, NotDraining, RunnerTypeOK

LEMMA ToRowsWork ==
  ASSUME RunnerTypeOK, Quiet, UNCHANGED row, NEW t, NEW state \in [Intents -> IntentStates],
         \A i \in Intents : state[i] # "PROCESSING",
         ToRows(t, state) \/ ToIntents(t, state)
  PROVE  HeadsWork'
<1>1. \A r \in Rows : row'[r] # "PROCESSING"
  BY DEF Quiet
<1>2. CASE intent' = state
  BY <1>1, <1>2 DEF HeadsWork
<1>3. CASE intent' # state
  <2>1. ToIntents(t, state) /\ DueIntents(state) # {}
    BY <1>3 DEF ToRows, ToIntents
  <2>2. PICK listed \in SUBSET DueIntents(state) :
          /\ drain' = [phase |-> "intents", open |-> listed, full |-> Full(listed)]
          /\ intent' = [i \in Intents |-> IF i \in listed THEN "PROCESSING" ELSE state[i]]
    BY <2>1 DEF ToIntents
  <2>3. drain'.phase = "intents" /\ drain'.open = listed
    BY <2>2
  <2>4. \A i \in Intents : intent'[i] = "PROCESSING" => i \in listed
    BY <2>2
  <2> QED BY <1>1, <2>3, <2>4 DEF HeadsWork
<1> QED BY <1>2, <1>3

LEMMA DrainStepWorks ==
  ASSUME RunnerTypeOK, HeadsWork, Fire \/ RowsDone \/ IntentsDone PROVE HeadsWork'
<1>1. CASE Fire /\ Idle
  <2>1. Quiet
    BY <1>1, QuietBetween
  <2>2. \A i \in Intents : Expired(intent)[i] # "PROCESSING"
    BY <2>1 DEF Expired, Quiet
  <2>3. UNCHANGED row /\ ToRows(Off, Expired(intent)) /\ Expired(intent) \in [Intents -> IntentStates]
    BY <1>1, ExpiredTyped DEF Fire, rowVars, RunnerTypeOK
  <2> QED BY <2>1, <2>2, <2>3, ToRowsWork
<1>2. CASE Fire /\ ~Idle
  BY <1>2 DEF Fire, rowVars, HeadsWork, Head
<1>3. CASE RowsDone
  <2>1. Quiet /\ UNCHANGED row /\ (ToRows(timer, intent) \/ ToIntents(timer, intent))
    BY <1>3, QuietBetween DEF RowsDone, rowVars
  <2> QED BY <2>1, ToRowsWork DEF RunnerTypeOK, Quiet
<1>4. CASE IntentsDone
  <2>1. Quiet /\ UNCHANGED row
    BY <1>4, QuietBetween DEF IntentsDone, rowVars
  <2>2. CASE ToIntents(timer, intent)
    BY <2>1, <2>2, ToRowsWork DEF RunnerTypeOK, Quiet
  <2>3. CASE UNCHANGED intent
    BY <2>1, <2>3 DEF Quiet, HeadsWork
  <2> QED BY <1>4, <2>2, <2>3 DEF IntentsDone
<1> QED BY <1>1, <1>2, <1>3, <1>4

LEMMA ServeRowWorks == ASSUME RunnerTypeOK, HeadsWork, NEW r \in Rows, ServeRow(r) PROVE HeadsWork'
<1>0. drain # NotDraining /\ drain.phase = "rows"
  BY DEF ServeRow, Postpone, Take, CompleteRow, Throw, Head, NotDraining
<1>1. \A i \in Intents : intent[i] # "PROCESSING"
  BY <1>0 DEF HeadsWork
<1>2. \A i \in Intents : intent'[i] # "PROCESSING"
  <2>1. ServeRow(r) => UNCHANGED intent \/ \E S \in SUBSET Armed : Pending(S)
    BY DEF ServeRow, Postpone, Take, CompleteRow, Throw, intentVars
  <2> QED BY <1>1, <2>1 DEF Pending
<1>3. CASE Take(r)
  BY <1>2, <1>3 DEF Take, HeadsWork, Head, RunnerTypeOK
<1>4. CASE ~Take(r)
  <2>1. drain' = Answered(r) /\ row'[r] # "PROCESSING" /\ \A s \in Rows \ {r} : row'[s] = row[s]
    BY <1>4 DEF ServeRow, Postpone, CompleteRow, Throw, RunnerTypeOK
  <2>2. drain'.phase = "rows" /\ drain'.open = drain.open \ {r}
    BY <1>0, <2>1, OverTyped
  <2> QED BY <1>2, <2>1, <2>2 DEF HeadsWork, Head
<1> QED BY <1>3, <1>4

LEMMA ServeIntentWorks == ASSUME RunnerTypeOK, HeadsWork, NEW i \in Intents, ServeIntent(i) PROVE HeadsWork'
<1>1. drain # NotDraining /\ drain.phase = "intents" /\ drain' = Answered(i) /\ UNCHANGED row
  BY DEF ServeIntent, DeliverIntent, RefuseIntent, NotDraining, rowVars
<1>2. drain'.phase = "intents" /\ drain'.open = drain.open \ {i}
  BY <1>1, OverTyped
<1>3. intent'[i] # "PROCESSING" /\ \A j \in Intents \ {i} : intent'[j] = intent[j]
  BY DEF ServeIntent, DeliverIntent, RefuseIntent, RunnerTypeOK
<1> QED BY <1>1, <1>2, <1>3 DEF HeadsWork, Head

LEMMA OtherStepWorks ==
  ASSUME RunnerTypeOK, HeadsWork,
         \/ Ring \/ Tick
         \/ \E r \in Rows : Commit(r) \/ Promote(r)
         \/ \E i \in Intents : Arm(i) \/ Close(i)
         \/ \E S \in SUBSET Armed : Satisfy(S) \/ SatisfyByRecovery(S)
         \/ UNCHANGED runnerVars
  PROVE  HeadsWork'
<1>1. UNCHANGED drain
  BY DEF Ring, Tick, Commit, Promote, Arm, Close, Satisfy, SatisfyByRecovery, runnerVars
<1>2. \A r \in Rows : row'[r] = "PROCESSING" => row[r] = "PROCESSING"
  BY DEF Ring, Tick, Commit, Promote, Arm, Close, Satisfy, SatisfyByRecovery, runnerVars, rowVars, RunnerTypeOK
<1>3. \A i \in Intents : intent'[i] = "PROCESSING" => intent[i] = "PROCESSING"
  BY DEF Ring, Tick, Commit, Promote, Arm, Close, Satisfy, SatisfyByRecovery, Pending, runnerVars, intentVars, RunnerTypeOK
<1> QED BY <1>1, <1>2, <1>3 DEF HeadsWork, Head

LEMMA RestartWorks == ASSUME RunnerTypeOK, RestartRunner PROVE HeadsWork'
<1>1. \A r \in Rows : row'[r] # "PROCESSING"
  BY DEF RestartRunner, Requeued
<1>2. \A i \in Intents : intent'[i] # "PROCESSING"
  BY DEF RestartRunner, Requeued, Expired
<1> QED BY <1>1, <1>2 DEF HeadsWork

LEMMA StepWorks == RunnerTypeOK /\ HeadsWork /\ [RunnerNext]_runnerVars => HeadsWork'
  BY DrainStepWorks, ServeRowWorks, ServeIntentWorks, OtherStepWorks, RestartWorks DEF RunnerNext

LEMMA InvariantWorks == RunnerSpec => [](RunnerTypeOK /\ HeadsWork)
<1>1. RunnerInit => HeadsWork
  BY DEF RunnerInit, HeadsWork
<1> QED BY <1>1, InitTyped, StepTyped, StepWorks, PTL DEF RunnerSpec

(* However wake-ups, drains, retries and restarts overlap, two operations on  *)
(* the runtime of one Assignment are never under way together.                *)
THEOREM RowsAreSerial == RunnerSpec => []OneRowAtATime
<1>1. Rows \subseteq Nat
  BY RunnerAssumption
<1>2. RunnerTypeOK /\ HeadsWork => OneRowAtATime
  BY <1>1 DEF HeadsWork, Head, OneRowAtATime
<1> QED BY <1>2, InvariantWorks, PTL

(* Nothing is under way that no drain awaits: a crash is the only way to lose *)
(* an answer, and the next start requeues what waited for it.                 *)
THEOREM NothingIsForgotten == RunnerSpec => []UnderWayIsAwaited
<1>1. HeadsWork => UnderWayIsAwaited
  BY DEF HeadsWork, Head, UnderWayIsAwaited
<1> QED BY <1>1, InvariantWorks, PTL

-----------------------------------------------------------------------------
(* Runner: the timer of a pending intent *)

LEMMA WakeNow == ASSUME NEW t \in Ticks \cup {Off} PROVE Wake(t, 0) = 0
  BY RunnerAssumption DEF Wake, Ticks

(* A timer that is due is early enough for every intent. *)
LEMMA DueTimerServes == ASSUME RunnerTypeOK', timer' = 0 PROVE IntentIsScheduled'
<1>1. Off # 0
  BY RunnerAssumption
<1>2. \A i \in Intents : timer' <= intentDue'[i]
  BY DEF RunnerTypeOK, Ticks
<1> QED BY <1>1, <1>2 DEF IntentIsScheduled

LEMMA DrainLeavesTimer ==
  ASSUME RunnerTypeOK, Fire \/ RowsDone \/ IntentsDone, drain' = NotDraining PROVE IntentIsScheduled'
<1>1. intentDue' = intentDue
  BY DEF Fire, RowsDone, IntentsDone
<1>2. ASSUME NEW t \in Ticks \cup {Off}, NEW state \in [Intents -> IntentStates],
             timer' = Rearmed(t, state), intent' = state
      PROVE  IntentIsScheduled'
  <2>1. \A i \in Intents : state[i] = "PENDING" =>
          Rearmed(t, state) # Off /\ Rearmed(t, state) <= intentDue[i]
    BY <1>2, RearmedTyped
  <2> QED BY <1>1, <1>2, <2>1 DEF IntentIsScheduled
<1>3. ASSUME NEW t \in Ticks \cup {Off}, NEW state \in [Intents -> IntentStates],
             ToRows(t, state) \/ ToIntents(t, state)
      PROVE  IntentIsScheduled'
  <2>1. timer' = Rearmed(t, state) /\ intent' = state
    BY <1>3 DEF ToRows, ToIntents, NotDraining
  <2> QED BY <1>2, <2>1
<1>4. Off \in Ticks \cup {Off} /\ timer \in Ticks \cup {Off} /\ intent \in [Intents -> IntentStates]
  BY DEF RunnerTypeOK
<1>5. CASE Fire /\ Idle
  BY <1>3, <1>4, <1>5, ExpiredTyped DEF Fire
<1>6. CASE Fire /\ ~Idle
  BY <1>6 DEF Fire, Idle
<1>7. CASE RowsDone
  BY <1>3, <1>4, <1>7 DEF RowsDone
<1>8. CASE IntentsDone
  BY <1>2, <1>3, <1>4, <1>8 DEF IntentsDone
<1> QED BY <1>5, <1>6, <1>7, <1>8

LEMMA ServiceLeavesTimer ==
  ASSUME RunnerTypeOK, RunnerTypeOK', IntentIsScheduled, "recovery" \notin Events,
         \/ Ring \/ RestartRunner
         \/ \E r \in Rows : Commit(r) \/ Promote(r)
         \/ \E i \in Intents : Arm(i) \/ Close(i)
         \/ \E S \in SUBSET Armed : Satisfy(S) \/ SatisfyByRecovery(S)
  PROVE  IntentIsScheduled'
<1>1. Wake(timer, 0) = 0
  BY WakeNow DEF RunnerTypeOK
<1>2. ASSUME NEW i \in Intents, Close(i) PROVE IntentIsScheduled'
  BY <1>2 DEF Close, timers, Idle, IntentIsScheduled, RunnerTypeOK
<1>3. CASE \/ Ring \/ RestartRunner
           \/ \E r \in Rows : Commit(r) \/ Promote(r)
           \/ \E i \in Intents : Arm(i)
           \/ \E S \in SUBSET Armed : Satisfy(S) \/ SatisfyByRecovery(S)
  <2>1. timer' = 0
    BY <1>1, <1>3 DEF Ring, RestartRunner, Commit, Promote, Arm, Satisfy, SatisfyByRecovery
  <2> QED BY <2>1, DueTimerServes
<1> QED BY <1>2, <1>3

LEMMA TickLeavesTimer == ASSUME RunnerTypeOK, IntentIsScheduled, Tick PROVE IntentIsScheduled'
<1> SUFFICES ASSUME Idle, NEW i \in Intents, intent[i] = "PENDING"
             PROVE  timer' # Off /\ timer' <= intentDue'[i]
  BY DEF Tick, Idle, IntentIsScheduled
<1>1. timer \in Ticks /\ intentDue[i] \in Ticks /\ timer # Off /\ timer <= intentDue[i]
  BY DEF RunnerTypeOK, IntentIsScheduled
<1>2. timer' = Less(timer) /\ intentDue'[i] = Less(intentDue[i])
  BY <1>1 DEF Tick
<1> QED BY <1>1, <1>2, RunnerAssumption DEF Less, Ticks

(* Adapters answer to a drain, which goes on. *)
LEMMA AnswerKeepsDrain ==
  ASSUME RunnerTypeOK, (\E r \in Rows : ServeRow(r)) \/ (\E i \in Intents : ServeIntent(i))
  PROVE  drain' # NotDraining
<1>1. drain # NotDraining /\ (drain' = drain \/ \E x : drain' = Answered(x))
  BY DEF ServeRow, Postpone, Take, CompleteRow, Throw, Head, ServeIntent, DeliverIntent, RefuseIntent, NotDraining
<1>2. drain.phase # "idle"
  BY <1>1 DEF RunnerTypeOK
<1> QED BY <1>1, <1>2, OverTyped DEF NotDraining

LEMMA StepLeavesTimer ==
  ASSUME "recovery" \notin Events
  PROVE  RunnerTypeOK /\ IntentIsScheduled /\ [RunnerNext]_runnerVars => IntentIsScheduled'
<1> SUFFICES ASSUME RunnerTypeOK, IntentIsScheduled, [RunnerNext]_runnerVars PROVE IntentIsScheduled'
  OBVIOUS
<1>1. RunnerTypeOK'
  BY StepTyped
<1>2. CASE drain' # NotDraining
  BY <1>2 DEF IntentIsScheduled, Idle
<1>3. CASE UNCHANGED runnerVars
  BY <1>3 DEF runnerVars, intentVars, timers, IntentIsScheduled, Idle
<1>4. CASE RunnerNext /\ drain' = NotDraining
  BY <1>1, <1>4, DrainLeavesTimer, AnswerKeepsDrain, ServiceLeavesTimer, TickLeavesTimer DEF RunnerNext
<1> QED BY <1>2, <1>3, <1>4

(* As long as the recovery service does not ready continuations behind the    *)
(* runner's back, a pending intent has a timer that fires in time, whatever   *)
(* other wake-ups replaced, drains joined and restarts forgot.                *)
THEOREM PendingIsScheduled ==
  ASSUME "recovery" \notin Events PROVE RunnerSpec => []IntentIsScheduled
<1>1. RunnerInit => IntentIsScheduled
  BY DEF RunnerInit, IntentIsScheduled
<1> QED BY <1>1, InitTyped, StepTyped, StepLeavesTimer, PTL DEF RunnerSpec
=============================================================================
