----------------------- MODULE TerminalRequestsProofs -----------------------
(***************************************************************************)
(* What holds of TerminalRequests for any number of writes and of lost     *)
(* connections: input is typed at most once and what was accepted has been *)
(* typed, the program is started once, an exit is reported once, and the   *)
(* order of requests survives their repetition.                            *)
(*                                                                         *)
(* All but the last rest on the daemon's memory of its answers (Memory):   *)
(* whatever a connection carries, and however often a request is in it,    *)
(* the daemon acts on an id it has not answered yet.  The order needs more *)
(* (Ordered): on every connection, a broken one that still drains too, a   *)
(* request stands behind all those that were made before it and are still  *)
(* to be carried out.                                                      *)
(***************************************************************************)
EXTENDS TerminalRequests, FiniteSetTheorems, TLAPS

Results == {"ok", "failed"}
Messages == [id : Requests \union {ListId},
             result : {"ok", "failed", "listed", "absent", "exit"}]

\* The types of everything but the requests under way.
Typed ==
    /\ st \in [Requests -> {"new", "waiting", "sent", "ok", "failed"}]
    /\ wire \in Seq(Messages)
    /\ session \in {"none", "running", "over"}
    /\ cache \in [Requests -> {"none", "ok", "failed"}]
    /\ input \in Seq(Typing)
    /\ backend \in BOOLEAN
    /\ exits \in Nat

\* An answer on its way is the one the daemon remembers.
Honest(m) == m.id \in Requests => m.result \in Results /\ m.result = cache[m.id]

\* What the daemon remembers as done is what it has done.
TypedIsKnown == \A i \in DOMAIN input : cache[input[i]] = "ok"
KnownIsTyped == \A r \in Typing : cache[r] = "ok" => \E i \in DOMAIN input : input[i] = r
StartIsKnown == session # "none" => cache[Spawn] # "none"

\* What the client takes for done is what the daemon remembers as done.
WireIsHonest == \A k \in DOMAIN wire : Honest(wire[k])
DoneIsKnown == \A r \in Requests : st[r] = "ok" => cache[r] = "ok"

Memory ==
    /\ Typed
    /\ TypedIsKnown /\ KnownIsTyped /\ StartIsKnown
    /\ WireIsHonest /\ DoneIsKnown
    /\ TypedOnce

\* A terminal that started is either listed or has been reported, not both.
ExitsAreCounted ==
    /\ st[Spawn] = "new" => exits = 0 /\ ~backend
    /\ st[Spawn] # "failed" => exits <= (IF backend THEN 0 ELSE 1)

-----------------------------------------------------------------------------
LEMMA RequestsAreApart ==
    /\ Spawn \in Requests /\ Kill \in Requests /\ Typing \subseteq Requests
    /\ Spawn # Kill /\ Spawn \notin Typing /\ Kill \notin Typing
    /\ ListId \notin Requests
    /\ \A r \in Requests : r = Spawn \/ r = Kill \/ r \in Typing
  BY BoundsAssumption DEF Spawn, Kill, Typing, Requests, ListId

\* The head and the tail of a sequence hold only its elements.
LEMMA TailIsPart ==
    ASSUME NEW S, NEW s \in Seq(S), s # <<>>
    PROVE  /\ Tail(s) \in Seq(S)
           /\ Head(s) \in S /\ 1 \in DOMAIN s /\ Head(s) = s[1]
           /\ \A k \in DOMAIN Tail(s) : k + 1 \in DOMAIN s /\ Tail(s)[k] = s[k + 1]
  <1>1. Len(s) \in Nat /\ Len(s) # 0 /\ DOMAIN s = 1..Len(s)
    OBVIOUS
  <1>2. Tail(s) \in Seq(S) /\ Len(Tail(s)) = Len(s) - 1
    BY <1>1
  <1>3. DOMAIN Tail(s) = 1..(Len(s) - 1)
    BY <1>2
  <1>4. \A k \in 1..(Len(s) - 1) : Tail(s)[k] = s[k + 1]
    BY <1>1
  <1> QED BY <1>1, <1>2, <1>3, <1>4

\* A sequence with an element added holds that element and its own.
LEMMA AppendAdds ==
    ASSUME NEW S, NEW s \in Seq(S), NEW e \in S
    PROVE  /\ Append(s, e) \in Seq(S)
           /\ \A k \in DOMAIN Append(s, e) :
                \/ k \in DOMAIN s /\ Append(s, e)[k] = s[k]
                \/ k \notin DOMAIN s /\ Append(s, e)[k] = e
           /\ \A k \in DOMAIN s : k \in DOMAIN Append(s, e) /\ Append(s, e)[k] = s[k]
           /\ \E k \in DOMAIN Append(s, e) : Append(s, e)[k] = e
           /\ \A j, k \in DOMAIN Append(s, e) : j \notin DOMAIN s /\ k \notin DOMAIN s => j = k
  <1>1. Append(s, e) \in Seq(S) /\ Len(Append(s, e)) = Len(s) + 1
    OBVIOUS
  <1>2. DOMAIN s = 1..Len(s) /\ DOMAIN Append(s, e) = 1..(Len(s) + 1) /\ Len(s) \in Nat
    BY <1>1
  <1>3. \A k \in 1..Len(s) : Append(s, e)[k] = s[k]
    OBVIOUS
  <1>4. Append(s, e)[Len(s) + 1] = e
    OBVIOUS
  <1> QED BY <1>1, <1>2, <1>3, <1>4

\* What the daemon sends leaves the answers on their way honest.
LEMMA ReplyIsHonest ==
    ASSUME Typed, WireIsHonest, NEW c, NEW m \in Messages, Reply(c, m),
           Honest(m)', cache' \in [Requests -> {"none", "ok", "failed"}],
           \A r \in Requests : cache[r] # "none" => cache'[r] = cache[r]
    PROVE  wire' \in Seq(Messages) /\ WireIsHonest'
  <1>1. \A w \in Messages : Honest(w) => (w.id \in Requests => w.result \in Results /\ w.result = cache'[w.id])
    BY DEF Honest, Results, Typed
  <1>2. m.id \in Requests => m.result \in Results /\ m.result = cache'[m.id]
    BY DEF Honest
  <1>3. \A k \in DOMAIN wire : wire[k] \in Messages
    BY DEF Typed
  <1>4. CASE wire' = wire
    BY <1>1, <1>3, <1>4 DEF WireIsHonest, Honest, Typed
  <1>5. CASE wire' = Append(wire, m)
    <2>1. wire' \in Seq(Messages)
      BY <1>5, AppendAdds DEF Typed
    <2>2. \A k \in DOMAIN wire' : \/ k \in DOMAIN wire /\ wire'[k] = wire[k]
                                  \/ wire'[k] = m
      BY <1>5, AppendAdds DEF Typed
    <2> QED BY <2>1, <2>2, <1>1, <1>2, <1>3 DEF WireIsHonest, Honest
  <1> QED BY <1>4, <1>5 DEF Reply

-----------------------------------------------------------------------------
\* The client's steps leave the daemon alone, and take at most messages from
\* the wire.  What they settle as done is what an answer said.

\* A request is sent, or kept.
LEMMA DispatchIsTyped ==
    ASSUME Typed, NEW r \in Requests, Dispatch(r)
    PROVE  /\ st' \in [Requests -> {"new", "waiting", "sent", "ok", "failed"}]
           /\ st'[r] \in {"waiting", "sent"}
           /\ \A q \in Requests : q # r => st'[q] = st[q]
  BY DEF Typed, Dispatch

\* If the client's step takes no message, what remains to show is its types
\* and that it settles nothing as done.
LEMMA ClientKeepsMemory ==
    ASSUME Memory, Typed', UNCHANGED daemonVars,
           \A k \in DOMAIN wire' : \E j \in DOMAIN wire : wire'[k] = wire[j],
           \A r \in Requests : st'[r] = "ok" => st[r] = "ok" \/ cache[r] = "ok"
    PROVE  Memory'
  <1>1. cache' = cache /\ input' = input /\ session' = session
    BY DEF daemonVars
  <1>2. WireIsHonest'
    BY <1>1 DEF Memory, WireIsHonest, Honest
  <1>3. DoneIsKnown'
    BY <1>1 DEF Memory, DoneIsKnown
  <1>4. TypedIsKnown' /\ KnownIsTyped' /\ StartIsKnown' /\ TypedOnce'
    BY <1>1 DEF Memory, TypedIsKnown, KnownIsTyped, StartIsKnown, TypedOnce
  <1> QED BY <1>2, <1>3, <1>4 DEF Memory

LEMMA CreateKeepsMemory == Memory /\ Create => Memory'
  <1> SUFFICES ASSUME Memory, Create PROVE Memory'
    OBVIOUS
  <1>1. Typed /\ Dispatch(Spawn) /\ UNCHANGED daemonVars /\ wire' = wire
    BY DEF Memory, Create
  <1>2. Typed'
    BY <1>1, DispatchIsTyped, RequestsAreApart DEF Typed, Create, daemonVars
  <1>3. \A r \in Requests : st'[r] = "ok" => st[r] = "ok"
    BY <1>1, DispatchIsTyped, RequestsAreApart
  <1> QED BY <1>1, <1>2, <1>3, ClientKeepsMemory

LEMMA WriteKeepsMemory == Memory /\ Write => Memory'
  <1> SUFFICES ASSUME Memory, Write PROVE Memory'
    OBVIOUS
  <1>1. PICK r \in Requests : Dispatch(r)
    BY RequestsAreApart DEF Write
  <1>2. Typed /\ UNCHANGED daemonVars /\ wire' = wire
    BY DEF Memory, Write
  <1>3. Typed'
    BY <1>1, <1>2, DispatchIsTyped DEF Typed, Write, daemonVars
  <1>4. \A q \in Requests : st'[q] = "ok" => st[q] = "ok"
    BY <1>1, <1>2, DispatchIsTyped
  <1> QED BY <1>2, <1>3, <1>4, ClientKeepsMemory

LEMMA CloseKeepsMemory == Memory /\ Close => Memory'
  <1> SUFFICES ASSUME Memory, Close PROVE Memory'
    OBVIOUS
  <1>1. Typed /\ Dispatch(Kill) /\ UNCHANGED daemonVars /\ wire' = wire
    BY DEF Memory, Close
  <1>2. Typed'
    BY <1>1, DispatchIsTyped, RequestsAreApart DEF Typed, Close, daemonVars
  <1>3. \A r \in Requests : st'[r] = "ok" => st[r] = "ok"
    BY <1>1, DispatchIsTyped, RequestsAreApart
  <1> QED BY <1>1, <1>2, <1>3, ClientKeepsMemory

LEMMA ConnectionKeepsMemory == Memory /\ (Drop \/ Reconnect \/ GiveUp \/ Expire) => Memory'
  <1> SUFFICES ASSUME Memory, Drop \/ Reconnect \/ GiveUp \/ Expire PROVE Memory'
    OBVIOUS
  <1>0. Typed
    BY DEF Memory
  <1>1. UNCHANGED daemonVars
    BY DEF Drop, Reconnect, GiveUp, Expire
  <1>2. \A k \in DOMAIN wire' : \E j \in DOMAIN wire : wire'[k] = wire[j]
    BY DEF Drop, Reconnect, GiveUp, Expire
  <1>3. CASE Drop
    <2>1. Typed'
      BY <1>0, <1>1, <1>3 DEF Typed, Drop, Kept, daemonVars
    <2>2. \A r \in Requests : st'[r] = "ok" => st[r] = "ok"
      BY <1>0, <1>3 DEF Typed, Drop, Kept
    <2> QED BY <1>1, <1>2, <2>1, <2>2, ClientKeepsMemory
  <1>4. CASE Reconnect
    <2>1. Typed' /\ st' = st
      BY <1>0, <1>1, <1>4 DEF Typed, Reconnect, daemonVars
    <2> QED BY <1>1, <1>2, <2>1, ClientKeepsMemory
  <1>5. CASE GiveUp
    <2>1. exits' \in Nat
      BY <1>0, <1>5 DEF Typed, GiveUp
    <2>2. Typed'
      BY <1>0, <1>1, <1>5, <2>1 DEF Typed, GiveUp, Waiting, daemonVars
    <2>3. \A r \in Requests : st'[r] = "ok" => st[r] = "ok"
      BY <1>0, <1>5 DEF Typed, GiveUp
    <2> QED BY <1>1, <1>2, <2>2, <2>3, ClientKeepsMemory
  <1>6. CASE Expire
    <2>1. Typed'
      BY <1>0, <1>1, <1>6 DEF Typed, Expire, daemonVars
    <2>2. \A r \in Requests : st'[r] = "ok" => st[r] = "ok"
      BY <1>0, <1>6 DEF Typed, Expire
    <2> QED BY <1>1, <1>2, <2>1, <2>2, ClientKeepsMemory
  <1> QED BY <1>3, <1>4, <1>5, <1>6

\* The next two take a message: an answer settles as the daemon remembers.
LEMMA ReadingKeepsMemory == Memory /\ (ReadAnswer \/ ReadExit \/ ReadList) => Memory'
  <1> SUFFICES ASSUME Memory, ReadAnswer \/ ReadExit \/ ReadList PROVE Memory'
    OBVIOUS
  <1>0. Typed /\ wire # <<>> /\ wire' = Tail(wire)
    BY DEF Memory, ReadAnswer, ReadExit, ReadList
  <1>1. UNCHANGED daemonVars
    BY DEF ReadAnswer, ReadExit, ReadList
  <1>2. /\ wire' \in Seq(Messages)
        /\ Head(wire) \in Messages /\ 1 \in DOMAIN wire /\ Head(wire) = wire[1]
        /\ \A k \in DOMAIN wire' : k + 1 \in DOMAIN wire /\ wire'[k] = wire[k + 1]
    BY <1>0, TailIsPart DEF Typed
  <1>3. CASE ReadAnswer
    <2>1. Head(wire).id \in Requests
      BY <1>2, <1>3 DEF ReadAnswer, Messages
    <2>2. Head(wire).result \in Results /\ Head(wire).result = cache[Head(wire).id]
      BY <1>2, <2>1 DEF Memory, WireIsHonest, Honest
    <2>3. /\ st' = IF st[Head(wire).id] = "sent"
                   THEN [st EXCEPT ![Head(wire).id] = Head(wire).result] ELSE st
          /\ exits' = exits + 1 \/ exits' = exits
          /\ UNCHANGED backend
      BY <1>3 DEF ReadAnswer
    <2>4. Typed'
      BY <1>0, <1>1, <1>2, <2>1, <2>2, <2>3 DEF Typed, Results, daemonVars
    <2>5. \A r \in Requests : st'[r] = "ok" => st[r] = "ok" \/ cache[r] = "ok"
      BY <1>0, <2>1, <2>2, <2>3 DEF Typed
    <2> QED BY <1>1, <1>2, <2>4, <2>5, ClientKeepsMemory
  <1>4. CASE ReadExit
    <2>1. CASE phase = "syncing"
      BY <1>0, <1>1, <1>2, <1>4, <2>1, ClientKeepsMemory DEF Typed, ReadExit, daemonVars
    <2>2. CASE phase # "syncing"
      <3>1. st' = st /\ backend' = FALSE /\ (exits' = exits + 1 \/ exits' = exits)
        BY <1>4, <2>2 DEF ReadExit
      <3>2. exits' \in Nat
        BY <1>0, <3>1 DEF Typed
      <3>3. backend' \in BOOLEAN
        BY <3>1, Zenon
      <3>4. Typed'
        BY <1>0, <1>1, <1>2, <3>1, <3>2, <3>3 DEF Typed, daemonVars
      <3> QED BY <1>1, <1>2, <3>1, <3>4, ClientKeepsMemory
    <2> QED BY <2>1, <2>2
  <1>5. CASE ReadList
    <2> DEFINE gone == Gone(Head(wire).result)
    <2>1. PICK expired \in SUBSET (IF May("timeout") THEN Waiting ELSE {}) :
            /\ st' = [r \in Requests |-> IF r \in Resent(expired) THEN "sent"
                                         ELSE IF r \in expired THEN "failed" ELSE st[r]]
            /\ exits' = exits + (IF gone THEN 1 ELSE 0) + (IF Spawn \in expired THEN 1 ELSE 0)
            /\ backend' = (backend /\ ~gone)
      BY <1>5 DEF ReadList
    <2>2. backend' \in BOOLEAN
      BY <2>1
    <2>3. exits' \in Nat
      BY <1>0, <2>1 DEF Typed
    <2>4. Typed'
      BY <1>0, <1>1, <1>2, <2>1, <2>2, <2>3 DEF Typed, daemonVars
    <2>5. \A r \in Requests : st'[r] = "ok" => st[r] = "ok"
      BY <1>0, <2>1 DEF Typed
    <2> QED BY <1>1, <1>2, <2>4, <2>5, ClientKeepsMemory
  <1> QED BY <1>3, <1>4, <1>5

-----------------------------------------------------------------------------
\* The daemon's steps.

\* An answer given before is given again.
LEMMA KnownKeepsMemory ==
    ASSUME Memory, NEW c \in Conns, NEW r \in Requests, HandleKnown(c, r), UNCHANGED clientVars
    PROVE  Memory'
  <1>1. Typed /\ WireIsHonest /\ UNCHANGED daemonVars
    BY DEF Memory, HandleKnown
  <1>2. cache' = cache /\ input' = input /\ session' = session
    BY <1>1 DEF daemonVars
  <1>3. cache[r] \in Results
    BY <1>1 DEF HandleKnown, Known, Typed, Results
  <1>4. Answer(r, cache[r]) \in Messages /\ Honest(Answer(r, cache[r]))'
    BY <1>2, <1>3 DEF Answer, Messages, Honest, Results
  <1>5. wire' \in Seq(Messages) /\ WireIsHonest'
    <2>1. Reply(c, Answer(r, cache[r]))
      BY DEF HandleKnown
    <2>2. Honest(Answer(r, cache[r]))' /\ cache' \in [Requests -> {"none", "ok", "failed"}]
      BY <1>1, <1>2, <1>4 DEF Typed
    <2>3. \A q \in Requests : cache[q] # "none" => cache'[q] = cache[q]
      BY <1>2
    <2> DEFINE m == [id |-> r, result |-> cache[r]]
    <2>4. m = Answer(r, cache[r])
      BY DEF Answer
    <2> HIDE DEF m
    <2>5. m.id = r /\ m.result = cache[r]
      BY DEF m
    <2> QED BY <1>1, <1>2, <1>3, <1>4, <2>1, <2>2, <2>3, ReplyIsHonest
  <1>6. st' = st /\ backend' = backend /\ exits' = exits
    BY DEF clientVars
  <1> QED BY <1>1, <1>2, <1>5, <1>6
       DEF Memory, Typed, TypedIsKnown, KnownIsTyped, StartIsKnown, DoneIsKnown, TypedOnce

\* A list request and an exit are no answers to requests.
LEMMA NoticeKeepsMemory ==
    ASSUME Memory, NEW c, NEW m \in Messages, m.id = ListId, Reply(c, m),
           UNCHANGED <<clientVars, cache, input>>,
           session' = session \/ (session # "none" /\ session' = "over")
    PROVE  Memory'
  <1>1. Typed /\ WireIsHonest
    BY DEF Memory
  <1>2. Honest(m)'
    BY RequestsAreApart DEF Honest
  <1>3. wire' \in Seq(Messages) /\ WireIsHonest'
    <2>1. cache' \in [Requests -> {"none", "ok", "failed"}]
      BY <1>1 DEF Typed
    <2>2. \A q \in Requests : cache[q] # "none" => cache'[q] = cache[q]
      OBVIOUS
    <2> QED BY <1>1, <1>2, <2>1, <2>2, ReplyIsHonest
  <1>4. st' = st /\ backend' = backend /\ exits' = exits
    BY DEF clientVars
  <1> QED BY <1>1, <1>3, <1>4
       DEF Memory, Typed, TypedIsKnown, KnownIsTyped, StartIsKnown, DoneIsKnown, TypedOnce

\* A request with a new id is answered and remembered.
LEMMA RespondIsHonest ==
    ASSUME Memory, NEW c, NEW r \in Requests, NEW result \in Results,
           cache[r] = "none", Respond(c, r, result)
    PROVE  /\ cache' \in [Requests -> {"none", "ok", "failed"}]
           /\ cache'[r] = result
           /\ \A q \in Requests : q # r => cache'[q] = cache[q]
           /\ wire' \in Seq(Messages) /\ WireIsHonest'
  <1>1. Typed /\ WireIsHonest
    BY DEF Memory
  <1>2. /\ cache' \in [Requests -> {"none", "ok", "failed"}]
        /\ cache'[r] = result
        /\ \A q \in Requests : q # r => cache'[q] = cache[q]
    BY <1>1 DEF Respond, Typed, Results
  <1> DEFINE m == [id |-> r, result |-> result]
  <1>3. Reply(c, m)
    BY DEF Respond, Answer
  <1>4. m \in Messages /\ m.id = r /\ m.result = result
    BY DEF Messages, Results
  <1> HIDE DEF m
  <1>5. Honest(m)'
    BY <1>2, <1>4 DEF Honest
  <1>6. \A q \in Requests : cache[q] # "none" => cache'[q] = cache[q]
    BY <1>2
  <1>7. wire' \in Seq(Messages) /\ WireIsHonest'
    BY <1>1, <1>2, <1>3, <1>4, <1>5, <1>6, ReplyIsHonest
  <1> QED BY <1>2, <1>7

\* A start or a close: the PTY is given no input.
LEMMA ControlKeepsMemory ==
    ASSUME Memory, NEW c, NEW r \in Requests, r \notin Typing, NEW result \in Results,
           cache[r] = "none", Respond(c, r, result), UNCHANGED <<clientVars, input>>,
           session' \in {"none", "running", "over"},
           r = Spawn \/ (session' = "none") = (session = "none")
    PROVE  Memory'
  <1>1. /\ cache' \in [Requests -> {"none", "ok", "failed"}]
        /\ cache'[r] = result
        /\ \A q \in Requests : q # r => cache'[q] = cache[q]
        /\ wire' \in Seq(Messages) /\ WireIsHonest'
    BY RespondIsHonest
  <1>2. st' = st /\ backend' = backend /\ exits' = exits
    BY DEF clientVars
  <1>3. Typed'
    BY <1>1, <1>2 DEF Memory, Typed
  <1>4. \A i \in DOMAIN input : input[i] \in Typing
    BY DEF Memory, Typed
  <1>5. TypedIsKnown' /\ KnownIsTyped' /\ TypedOnce'
    BY <1>1, <1>4, RequestsAreApart DEF Memory, TypedIsKnown, KnownIsTyped, TypedOnce
  <1>6. DoneIsKnown'
    BY <1>1, <1>2 DEF Memory, DoneIsKnown
  <1>7. StartIsKnown'
    BY <1>1, RequestsAreApart DEF Memory, StartIsKnown, Results
  <1> QED BY <1>1, <1>3, <1>5, <1>6, <1>7 DEF Memory

\* The PTY is given the input of a request that has not been answered.
LEMMA TypingKeepsMemory ==
    ASSUME Memory, NEW c \in Conns, NEW r \in Requests, HandleWrite(c, r), UNCHANGED clientVars
    PROVE  Memory'
  <1>0. r \in Typing /\ cache[r] = "none" /\ session' = session
    BY DEF HandleWrite, Known
  <1>1. PICK result \in Results : Respond(c, r, result)
    BY DEF HandleWrite, Results
  <1>2. /\ cache' \in [Requests -> {"none", "ok", "failed"}]
        /\ \A q \in Requests : q # r => cache'[q] = cache[q]
        /\ wire' \in Seq(Messages) /\ WireIsHonest'
    BY <1>0, <1>1, RespondIsHonest
  <1>3. st' = st /\ backend' = backend /\ exits' = exits
    BY DEF clientVars
  <1>4. DoneIsKnown' /\ StartIsKnown'
    BY <1>0, <1>2, <1>3, RequestsAreApart DEF Memory, DoneIsKnown, StartIsKnown
  <1>5. input \in Seq(Typing) /\ \A i \in DOMAIN input : input[i] \in Typing /\ input[i] # r
    BY <1>0 DEF Memory, Typed, TypedIsKnown
  <1>6. CASE session = "running"
    <2>1. cache'[r] = "ok" /\ input' = Append(input, r)
      BY <1>6 DEF HandleWrite, Respond, Memory, Typed
    <2>2. /\ input' \in Seq(Typing)
          /\ \A i \in DOMAIN input' : \/ i \in DOMAIN input /\ input'[i] = input[i]
                                      \/ i \notin DOMAIN input /\ input'[i] = r
          /\ \A i \in DOMAIN input : i \in DOMAIN input' /\ input'[i] = input[i]
          /\ \E i \in DOMAIN input' : input'[i] = r
          /\ \A i, j \in DOMAIN input' : i \notin DOMAIN input /\ j \notin DOMAIN input => i = j
      BY <1>0, <1>5, <2>1, AppendAdds
    <2>3. Typed'
      BY <1>0, <1>2, <1>3, <2>2 DEF Memory, Typed
    <2>4. TypedIsKnown'
      BY <1>2, <1>5, <2>1, <2>2, RequestsAreApart, SMTT(30) DEF Memory, TypedIsKnown
    <2>5. KnownIsTyped'
      BY <1>2, <2>2, RequestsAreApart DEF Memory, KnownIsTyped
    <2>6. TypedOnce'
      BY <1>5, <2>2 DEF Memory, TypedOnce
    <2> QED BY <1>2, <1>4, <2>3, <2>4, <2>5, <2>6 DEF Memory
  <1>7. CASE session # "running"
    <2>1. cache'[r] = "failed" /\ input' = input
      BY <1>7 DEF HandleWrite, Respond, Memory, Typed
    <2>2. Typed'
      BY <1>0, <1>2, <1>3, <2>1 DEF Memory, Typed
    <2>3. TypedIsKnown' /\ KnownIsTyped' /\ TypedOnce'
      BY <1>2, <1>5, <2>1, RequestsAreApart DEF Memory, TypedIsKnown, KnownIsTyped, TypedOnce
    <2> QED BY <1>2, <1>4, <2>2, <2>3 DEF Memory
  <1> QED BY <1>6, <1>7

LEMMA DaemonKeepsMemory ==
    ASSUME Memory, PtyExit \/ \E c \in Conns : Handle(c)
    PROVE  Memory'
  <1>1. CASE PtyExit
    <2>1. ExitEvent \in Messages /\ ExitEvent.id = ListId /\ Reply(conn, ExitEvent)
      BY <1>1 DEF PtyExit, ExitEvent, Messages
    <2>2. session # "none" /\ session' = "over"
      BY <1>1 DEF PtyExit
    <2>3. UNCHANGED <<clientVars, cache, input>>
      BY <1>1 DEF PtyExit
    <2> QED BY <2>1, <2>2, <2>3, NoticeKeepsMemory
  <1>2. ASSUME NEW c \in Conns, Handle(c) PROVE Memory'
    <2>0. UNCHANGED clientVars
      BY <1>2 DEF Handle
    <2>1. CASE HandleList(c)
      <3>1. PICK answer \in {"listed", "absent"} : Reply(c, Answer(ListId, answer))
        BY <2>1 DEF HandleList
      <3>2. Answer(ListId, answer) \in Messages /\ Answer(ListId, answer).id = ListId
        BY DEF Answer, Messages
      <3>3. UNCHANGED <<clientVars, cache, input>> /\ session' = session
        BY <2>0, <2>1 DEF HandleList, daemonVars
      <3> QED BY <3>1, <3>2, <3>3, NoticeKeepsMemory
    <2>2. CASE HandleSpawn(c)
      <3>1. PICK result \in Results :
              /\ Respond(c, Spawn, result)
              /\ session' = IF result = "ok" THEN "running" ELSE session
        BY <2>2 DEF HandleSpawn, Results
      <3>2. cache[Spawn] = "none" /\ input' = input
        BY <2>2 DEF HandleSpawn, Known
      <3>3. session' \in {"none", "running", "over"}
        BY <3>1 DEF Memory, Typed
      <3> QED BY <2>0, <3>1, <3>2, <3>3, ControlKeepsMemory, RequestsAreApart
    <2>3. CASE HandleKill(c)
      <3>1. /\ Respond(c, Kill, "ok")
            /\ session' = IF session = "running" THEN "over" ELSE session
            /\ cache[Kill] = "none" /\ input' = input
        BY <2>3 DEF HandleKill, Known
      <3>2. session' \in {"none", "running", "over"} /\ (session' = "none") = (session = "none")
        BY <3>1 DEF Memory, Typed
      <3> QED BY <2>0, <3>1, <3>2, ControlKeepsMemory, RequestsAreApart DEF Results
    <2>4. CASE \E r \in Requests : HandleKnown(c, r) \/ HandleWrite(c, r)
      BY <2>0, <2>4, KnownKeepsMemory, TypingKeepsMemory
    <2> QED BY <1>2, <2>1, <2>2, <2>3, <2>4 DEF Handle
  <1> QED BY <1>1, <1>2

-----------------------------------------------------------------------------
LEMMA InitRemembers == Init => Memory
  <1> SUFFICES ASSUME Init PROVE Memory
    OBVIOUS
  <1>0. backend \in BOOLEAN
    BY Zenon DEF Init
  <1>1. Typed
    BY <1>0 DEF Init, Typed
  <1>2. TypedIsKnown /\ TypedOnce /\ WireIsHonest
    BY DEF Init, TypedIsKnown, TypedOnce, WireIsHonest
  <1>3. KnownIsTyped /\ StartIsKnown /\ DoneIsKnown
    BY RequestsAreApart DEF Init, KnownIsTyped, StartIsKnown, DoneIsKnown
  <1> QED BY <1>1, <1>2, <1>3 DEF Memory

LEMMA StepRemembers == Memory /\ [Next]_vars => Memory'
  <1> SUFFICES ASSUME Memory, [Next]_vars PROVE Memory'
    OBVIOUS
  <1>1. CASE UNCHANGED vars
    <2>1. UNCHANGED <<st, wire, session, cache, input, backend, exits>>
      BY <1>1 DEF vars, clientVars, daemonVars
    <2> QED BY <2>1 DEF Memory, Typed, TypedIsKnown, KnownIsTyped, StartIsKnown,
                        WireIsHonest, Honest, DoneIsKnown, TypedOnce
  <1>2. CASE Next
    BY <1>2, CreateKeepsMemory, WriteKeepsMemory, CloseKeepsMemory, ConnectionKeepsMemory,
       ReadingKeepsMemory, DaemonKeepsMemory DEF Next, Client
  <1> QED BY <1>1, <1>2

LEMMA MemoryHolds == Spec => []Memory
  BY InitRemembers, StepRemembers, PTL DEF Spec

\* A request that is sent again, by any number of connections and while those
\* before them still drain, is typed once; and whatever answer comes late, or
\* twice, a write the client takes for done has reached the program (request,
\* handleRequest, responseCache).
THEOREM TypedExactlyOnce == Spec => []AcceptedIsTypedOnce
  <1>1. Memory => TypedOnce
    BY DEF Memory
  <1>2. Memory => AcceptedIsTyped
    BY RequestsAreApart DEF Memory, AcceptedIsTyped, DoneIsKnown, KnownIsTyped
  <1>3. Memory => AcceptedIsTypedOnce
    BY <1>1, <1>2 DEF AcceptedIsTypedOnce
  <1> QED BY <1>3, MemoryHolds, PTL

\* A start that is sent again after the program has ended does not start it
\* again (handleRequest: create).
THEOREM StartsAtMostOnce == Spec => StartedOnce
  <1>1. Memory /\ [Next]_vars =>
          [session # "none" => session' # "none" /\ (session = "over" => session' = "over")]_vars
    <2> SUFFICES ASSUME Memory, Next, session # "none"
                 PROVE  session' # "none" /\ (session = "over" => session' = "over")
      OBVIOUS
    <2>1. ASSUME Create \/ Write \/ Close \/ Client \/ Drop \/ GiveUp \/ Expire PROVE session' = session
      BY <2>1 DEF Create, Write, Close, Client, ReadAnswer, ReadExit, ReadList, Reconnect,
                  Drop, GiveUp, Expire, daemonVars
    <2>2. CASE PtyExit
      BY <2>2 DEF PtyExit
    <2>3. CASE \E c \in Conns : Handle(c)
      <3>1. PICK c \in Conns : Handle(c)
        BY <2>3
      <3>2. HandleList(c) \/ (\E r \in Requests : HandleKnown(c, r) \/ HandleWrite(c, r)) => session' = session
        BY DEF HandleList, HandleKnown, HandleWrite, daemonVars
      <3>3. ~HandleSpawn(c)
        BY DEF HandleSpawn, Known, Memory, StartIsKnown
      <3>4. HandleKill(c) => session' = IF session = "running" THEN "over" ELSE session
        BY DEF HandleKill
      <3> QED BY <3>1, <3>2, <3>3, <3>4 DEF Handle
    <2> QED BY <2>1, <2>2, <2>3 DEF Next
  <1> QED BY <1>1, MemoryHolds, PTL DEF Spec, StartedOnce

-----------------------------------------------------------------------------
\* The count of reported exits.

LEMMA StepCounts == Memory /\ ExitsAreCounted /\ [Next]_vars => ExitsAreCounted'
  <1> SUFFICES ASSUME Memory, ExitsAreCounted, [Next]_vars PROVE ExitsAreCounted'
    OBVIOUS
  <1>0. Typed /\ Spawn \in Requests /\ exits \in Nat /\ backend \in BOOLEAN
    BY RequestsAreApart DEF Memory, Typed
  <1>1. CASE UNCHANGED vars \/ PtyExit \/ \E c \in Conns : Handle(c)
    <2>1. UNCHANGED <<st, backend, exits>>
      BY <1>1 DEF vars, clientVars, PtyExit, Handle
    <2> QED BY <2>1 DEF ExitsAreCounted
  <1>2. CASE Create
    <2>1. st[Spawn] = "new" /\ st'[Spawn] # "new" /\ backend' = TRUE /\ exits' = exits
      BY <1>0, <1>2, DispatchIsTyped DEF Create, Issued
    <2> QED BY <2>1 DEF ExitsAreCounted
  <1>3. CASE Write \/ Close
    <2>1. PICK r \in Requests : r # Spawn /\ Dispatch(r)
      BY <1>3, RequestsAreApart DEF Write, Close
    <2>2. st'[Spawn] = st[Spawn]
      BY <1>0, <2>1, DispatchIsTyped
    <2>3. UNCHANGED <<backend, exits>>
      BY <1>3 DEF Write, Close
    <2> QED BY <2>2, <2>3 DEF ExitsAreCounted
  <1>4. CASE Drop \/ Reconnect
    <2>1. UNCHANGED <<backend, exits>>
      BY <1>4 DEF Drop, Reconnect
    <2>2. st'[Spawn] = st[Spawn] \/ st'[Spawn] = Kept(st[Spawn])
      BY <1>0, <1>4 DEF Drop, Reconnect
    <2>3. st'[Spawn] = st[Spawn] \/ (st[Spawn] = "sent" /\ st'[Spawn] = "waiting")
      BY <2>2 DEF Kept
    <2> QED BY <2>1, <2>3 DEF ExitsAreCounted
  <1>5. CASE GiveUp
    <2>1. CASE st[Spawn] = "waiting"
      <3>1. st'[Spawn] = "failed"
        BY <1>0, <1>5, <2>1 DEF GiveUp, Waiting
      <3> QED BY <3>1 DEF ExitsAreCounted
    <2>2. CASE st[Spawn] # "waiting"
      <3>1. st'[Spawn] = st[Spawn] /\ Spawn \notin Waiting
        BY <1>0, <1>5, <2>2 DEF GiveUp, Waiting
      <3>2. exits' = exits + (IF backend THEN 1 ELSE 0) + 0 /\ backend' = FALSE
        BY <1>5, <3>1 DEF GiveUp
      <3> QED BY <1>0, <3>1, <3>2 DEF ExitsAreCounted
    <2> QED BY <2>1, <2>2
  <1>6. CASE Expire
    <2>1. PICK r \in Requests : /\ st[r] = "sent" /\ st' = [st EXCEPT ![r] = "failed"]
                                /\ exits' = IF r = Spawn THEN exits + 1 ELSE exits
      BY <1>6 DEF Expire
    <2>2. backend' = backend
      BY <1>6 DEF Expire
    <2>3. CASE r = Spawn
      BY <1>0, <2>1, <2>3 DEF ExitsAreCounted, Typed
    <2>4. CASE r # Spawn
      <3>1. st'[Spawn] = st[Spawn] /\ exits' = exits
        BY <1>0, <2>1, <2>4 DEF Typed
      <3> QED BY <2>2, <3>1 DEF ExitsAreCounted
    <2> QED BY <2>3, <2>4
  <1>7. CASE ReadAnswer
    <2> DEFINE r == Head(wire).id
    <2>1. wire # <<>> /\ r # ListId /\ backend' = backend
      BY <1>7 DEF ReadAnswer
    <2>2. Head(wire) \in Messages /\ 1 \in DOMAIN wire /\ Head(wire) = wire[1]
      BY <1>0, <2>1, TailIsPart DEF Typed
    <2>3. r \in Requests /\ Head(wire).result \in Results
      BY <2>1, <2>2 DEF Memory, WireIsHonest, Honest, Messages
    <2>4. /\ st' = IF st[r] = "sent" THEN [st EXCEPT ![r] = Head(wire).result] ELSE st
          /\ exits' = IF st[r] = "sent" /\ r = Spawn /\ Head(wire).result = "failed"
                      THEN exits + 1 ELSE exits
      BY <1>7 DEF ReadAnswer
    <2> HIDE DEF r
    <2>5. CASE st[r] = "sent" /\ r = Spawn /\ Head(wire).result = "failed"
      BY <1>0, <2>3, <2>4, <2>5 DEF ExitsAreCounted, Typed
    <2>6. CASE ~(st[r] = "sent" /\ r = Spawn /\ Head(wire).result = "failed")
      <3>1. exits' = exits
        BY <2>4, <2>6
      <3>2. r # Spawn => st'[Spawn] = st[Spawn]
        BY <1>0, <2>3, <2>4 DEF Typed
      <3>3. r = Spawn => st'[Spawn] = st[Spawn] \/ (st[Spawn] = "sent" /\ st'[Spawn] = "ok")
        BY <1>0, <2>3, <2>4, <2>6 DEF Typed, Results
      <3> QED BY <2>1, <3>1, <3>2, <3>3 DEF ExitsAreCounted
    <2> QED BY <2>5, <2>6
  <1>8. CASE ReadExit
    <2>1. st' = st
      BY <1>8 DEF ReadExit
    <2>2. CASE backend
      <3>1. CASE phase = "syncing"
        BY <1>8, <2>1, <3>1 DEF ReadExit, ExitsAreCounted
      <3>2. CASE phase # "syncing"
        <4>1. exits' = exits + 1
          BY <1>8, <2>2, <3>2 DEF ReadExit
        <4>2. backend' = FALSE
          BY <1>8, <3>2 DEF ReadExit
        <4> QED BY <1>0, <2>1, <2>2, <4>1, <4>2 DEF ExitsAreCounted
      <3> QED BY <3>1, <3>2
    <2>3. CASE ~backend
      <3>1. exits' = exits /\ backend' = FALSE
        BY <1>0, <1>8, <2>3 DEF ReadExit
      <3> QED BY <1>0, <2>1, <2>3, <3>1 DEF ExitsAreCounted
    <2> QED BY <2>2, <2>3
  <1>9. CASE ReadList
    <2> DEFINE gone == Gone(Head(wire).result)
    <2>1. PICK expired \in SUBSET (IF May("timeout") THEN Waiting ELSE {}) :
            /\ st' = [r \in Requests |-> IF r \in Resent(expired) THEN "sent"
                                         ELSE IF r \in expired THEN "failed" ELSE st[r]]
            /\ exits' = exits + (IF gone THEN 1 ELSE 0) + (IF Spawn \in expired THEN 1 ELSE 0)
            /\ backend' = (backend /\ ~gone)
      BY <1>9 DEF ReadList
    <2>2. gone => backend
      BY DEF Gone
    <2>3. expired \subseteq Waiting
      BY <2>1
    <2> HIDE DEF gone
    <2>4. CASE Spawn \in expired
      <3>1. st'[Spawn] = "failed"
        BY <1>0, <2>1, <2>4 DEF Resent
      <3> QED BY <3>1 DEF ExitsAreCounted
    <2>5. CASE Spawn \notin expired
      <3>1. exits' = exits + (IF gone THEN 1 ELSE 0)
        BY <1>0, <2>1, <2>5
      <3>2. st'[Spawn] = st[Spawn] \/ (st[Spawn] = "waiting" /\ st'[Spawn] = "sent")
        <4>1. st'[Spawn] = IF Spawn \in Resent(expired) THEN "sent" ELSE st[Spawn]
          BY <1>0, <2>1, <2>5
        <4> QED BY <4>1 DEF Resent, Waiting
      <3>3. CASE gone
        <4>1. backend /\ backend' = FALSE /\ exits' = exits + 1
          BY <2>1, <2>2, <3>1, <3>3
        <4> QED BY <1>0, <3>2, <4>1 DEF ExitsAreCounted
      <3>4. CASE ~gone
        <4>1. backend' = backend /\ exits' = exits
          BY <1>0, <2>1, <3>1, <3>4
        <4> QED BY <3>2, <4>1 DEF ExitsAreCounted
      <3> QED BY <3>3, <3>4
    <2> QED BY <2>4, <2>5
  <1> QED BY <1>1, <1>2, <1>3, <1>4, <1>5, <1>6, <1>7, <1>8, <1>9 DEF Next, Client

\* However exits are learnt of - by an event, by a list without the terminal,
\* by a failed start or by giving up - the terminal is reported once, unless
\* its start had failed (emitExit, reconcileBackends, createBackend).
THEOREM ReportsOneExit == Spec => []ExitReportedOnce
  <1>1. Init => ExitsAreCounted
    BY RequestsAreApart DEF Init, ExitsAreCounted
  <1>2. Memory /\ ExitsAreCounted => ExitReportedOnce
    BY DEF Memory, Typed, ExitsAreCounted, ExitReportedOnce
  <1> QED BY <1>1, <1>2, StepCounts, MemoryHolds, PTL DEF Spec

-----------------------------------------------------------------------------
\* What has been carried out, or is given up.
Settled(r) == cache[r] # "none" \/ st[r] = "failed"

\* Requests are made in the order of their numbers.
MadeInOrder ==
    /\ open => Issued(Spawn) /\ ~Issued(Kill)
    /\ \A r \in Requests : Issued(r) => Issued(Spawn)
    /\ \A q, r \in Typing : q < r /\ Issued(r) => Issued(q)

Made == {r \in Requests : Issued(r)}
Due  == {r \in Requests : Issued(r) /\ ~Settled(r)}

\* A connection carries every request behind those due that were made before.
Queue(s, due) ==
    \A k \in DOMAIN s, q \in due :
        s[k] \in Requests /\ q < s[k] => \E j \in 1..(k - 1) : s[j] = q
Carries(s, made) == \A k \in DOMAIN s : s[k] \in Requests => s[k] \in made

\* The daemon has, and had, requests that were made.
MadeBefore ==
    /\ \A r \in Requests : cache[r] # "none" => Issued(r)
    /\ \A c \in Conns : Carries(inbox[c], Made)

SentIsThere ==
    /\ ~Connected => wire = <<>> /\ \A r \in Requests : st[r] # "sent"
    /\ \A r \in Requests : st[r] = "sent" =>
           cache[r] # "none" \/ \E k \in DOMAIN inbox[conn] : inbox[conn][k] = r

\* Unless a request overtook: what waits is older than all that is sent, what
\* is carried out is carried out in order, and a closed terminal is not run.
AllOrNone == Waiting # {} => \A r \in Requests : st[r] # "sent"
OrderedInbox == \A c \in Conns : Queue(inbox[c], Due)
DoneInOrder ==
    \A q, r \in Requests : q < r /\ Issued(q) /\ cache[r] # "none" => Settled(q)
ClosedIsDead == cache[Kill] # "none" /\ session = "running" => st[Spawn] = "failed"

InboxTyped ==
    /\ conn \in Conns /\ (phase = "down" => conn + 1 \in Conns)
    /\ inbox \in [Conns -> Seq(Requests \union {ListId})]

InTurn == AllOrNone /\ OrderedInbox /\ DoneInOrder /\ ClosedIsDead
Ordered ==
    /\ InboxTyped /\ MadeInOrder /\ MadeBefore /\ SentIsThere
    /\ OnlyOvertakingReorders
    /\ overtaken \/ InTurn

-----------------------------------------------------------------------------
LEMMA RequestsAreNumbers ==
    /\ Requests \subseteq Nat /\ \A r \in Requests : r <= Kill /\ Spawn <= r
    /\ IsFiniteSet(Requests)
  <1>1. Requests = 0..(Writes + 1)
    BY BoundsAssumption DEF Requests, Spawn, Kill, Typing
  <1>2. IsFiniteSet(0..(Writes + 1))
    BY FS_Interval, BoundsAssumption
  <1> QED BY <1>1, <1>2, BoundsAssumption DEF Spawn, Kill

\* What is sent again goes out in the order in which it was made.
LEMMA InOrderOfIsOrdered ==
    ASSUME NEW S \in SUBSET Requests
    PROVE  /\ InOrderOf(S) \in Seq(S)
           /\ \A r \in S : \E k \in DOMAIN InOrderOf(S) : InOrderOf(S)[k] = r
           /\ \A i, j \in DOMAIN InOrderOf(S) : InOrderOf(S)[i] < InOrderOf(S)[j] => i < j
  <1> DEFINE below(r) == {q \in S : q < r}
             n == Cardinality(S)
             rank == [r \in S |-> Cardinality(below(r))]
  <1>1. S \subseteq Nat /\ IsFiniteSet(S) /\ n \in Nat
    BY RequestsAreNumbers, FS_Subset, FS_CardinalityType
  <1>2. ASSUME NEW r \in S
        PROVE  IsFiniteSet(below(r)) /\ Cardinality(below(r)) \in 0..(n - 1)
    <2>1. below(r) \in SUBSET S /\ below(r) # S
      BY <1>1
    <2>2. IsFiniteSet(below(r)) /\ Cardinality(below(r)) \in Nat /\ Cardinality(below(r)) < n
      BY <1>1, <2>1, FS_Subset, FS_CardinalityType
    <2> QED BY <1>1, <2>2
  <1>3. ASSUME NEW q \in S, NEW r \in S, q < r
        PROVE  Cardinality(below(q)) < Cardinality(below(r))
    <2>0. q \in Nat /\ r \in Nat /\ \A x \in S : x \in Nat
      BY <1>1
    <2>1. (\A x \in S : x < q => x < r) /\ ~(q < q)
      BY <2>0, <1>3
    <2>2. below(q) \subseteq below(r) /\ q \in below(r) /\ q \notin below(q)
      BY <1>3, <2>1, Zenon
    <2>3. IsFiniteSet(below(r)) /\ below(q) # below(r) /\ below(q) \in SUBSET below(r)
      BY <1>2, <2>2
    <2> HIDE DEF below
    <2> QED BY <2>3, FS_Subset, FS_CardinalityType
  <1>4. rank \in Injection(S, 0..(n - 1))
    <2>1. rank \in [S -> 0..(n - 1)]
      BY <1>2
    <2>2. ASSUME NEW q \in S, NEW r \in S, rank[q] = rank[r] PROVE q = r
      <3>1. Cardinality(below(q)) = Cardinality(below(r))
        BY <2>2
      <3>2. Cardinality(below(q)) \in Nat
        BY <1>1, <1>2
      <3> HIDE DEF below
      <3> QED BY <1>3, <3>1, <3>2, <1>1
    <2> QED BY <2>1, <2>2 DEF Injection, IsInjective
  <1>5. rank \in Surjection(S, 0..(n - 1))
    <2> HIDE DEF n
    <2>1. IsFiniteSet(0..(n - 1)) /\ Cardinality(0..(n - 1)) = n
      BY <1>1, FS_Interval
    <2> USE DEF n
    <2> QED BY <1>1, <1>4, <2>1, FS_Injection
  <1>6. \A i \in 1..n : \E r \in S : Cardinality(below(r)) = i - 1
    <2>1. \A m \in 0..(n - 1) : \E r \in S : rank[r] = m
      BY <1>5 DEF Surjection
    <2> QED BY <1>1, <2>1
  <1> DEFINE s == [i \in 1..n |-> CHOOSE r \in S : Cardinality(below(r)) = i - 1]
  <1>7. s = InOrderOf(S)
    BY DEF InOrderOf
  <1>8. \A i \in 1..n : s[i] \in S /\ Cardinality(below(s[i])) = i - 1
    BY <1>6
  <1>9. s \in Seq(S) /\ DOMAIN s = 1..n
    <2> HIDE DEF n, below
    <2>1. s \in [1..n -> S]
      BY <1>8
    <2> HIDE DEF s
    <2> QED BY <1>1, <2>1
  <1>10. ASSUME NEW r \in S PROVE \E k \in 1..n : s[k] = r
    <2> DEFINE k == Cardinality(below(r)) + 1
    <2>1. k \in 1..n /\ k - 1 = Cardinality(below(r))
      BY <1>1, <1>2
    <2> HIDE DEF s, k
    <2>2. s[k] \in S /\ Cardinality(below(s[k])) = Cardinality(below(r))
      BY <1>8, <2>1
    <2> HIDE DEF below, n
    <2>3. s[k] \in Nat /\ r \in Nat
      BY <1>1, <2>2
    <2>5. Cardinality(below(r)) \in 0..(n - 1)
      BY <1>2
    <2>6. Cardinality(below(r)) \in Nat
      BY <1>1, <2>5
    <2>4. s[k] = r
      BY <1>3, <2>2, <2>3, <2>6
    <2> QED BY <2>1, <2>4
  <1>11. ASSUME NEW i \in 1..n, NEW j \in 1..n, s[i] < s[j] PROVE i < j
    <2> HIDE DEF s, below
    <2>1. s[i] \in S /\ s[j] \in S /\ Cardinality(below(s[i])) < Cardinality(below(s[j]))
      BY <1>3, <1>8, <1>11
    <2> QED BY <1>1, <1>8, <2>1
  <1> QED BY <1>7, <1>9, <1>10, <1>11

-----------------------------------------------------------------------------
Elements == Requests \union {ListId}

\* What a broken connection still carries, and a new one.
Shorter(s, t) ==
    \A k \in DOMAIN t : t[k] = ListId \/ (k \in DOMAIN s /\ \A j \in 1..k : t[j] = s[j])

LEMMA ShorterIsQueue ==
    ASSUME NEW s \in Seq(Elements), NEW t \in Seq(Elements), Shorter(s, t),
           NEW D, NEW E \in SUBSET D, NEW M, Queue(s, D), Carries(s, M)
    PROVE  Queue(t, E) /\ Carries(t, M)
  <1>1. ASSUME NEW k \in DOMAIN t, t[k] \in Requests
        PROVE  k \in DOMAIN s /\ t[k] = s[k] /\ \A j \in 1..(k - 1) : t[j] = s[j]
    <2>1. k \in Nat /\ k >= 1
      OBVIOUS
    <2> QED BY <1>1, <2>1, RequestsAreApart DEF Shorter
  <1> QED BY <1>1 DEF Queue, Carries

LEMMA TailIsQueue ==
    ASSUME NEW s \in Seq(Elements), s # <<>>, NEW D, NEW E \in SUBSET D, Head(s) \notin E,
           NEW M, Queue(s, D), Carries(s, M)
    PROVE  /\ Queue(Tail(s), E) /\ Carries(Tail(s), M)
           /\ Head(s) \in Requests => Head(s) \in M /\ \A q \in D : ~(q < Head(s))
  <1>1. /\ 1 \in DOMAIN s /\ Head(s) = s[1] /\ Tail(s) \in Seq(Elements)
        /\ \A k \in DOMAIN Tail(s) : k + 1 \in DOMAIN s /\ Tail(s)[k] = s[k + 1]
    BY TailIsPart
  <1>2. Carries(Tail(s), M) /\ (Head(s) \in Requests => Head(s) \in M)
    BY <1>1 DEF Carries
  <1>3. Head(s) \in Requests => \A q \in D : ~(q < Head(s))
    BY <1>1 DEF Queue
  <1>4. ASSUME NEW k \in DOMAIN Tail(s), NEW q \in E, Tail(s)[k] \in Requests, q < Tail(s)[k]
        PROVE  \E j \in 1..(k - 1) : Tail(s)[j] = q
    <2>1. k + 1 \in DOMAIN s /\ s[k + 1] = Tail(s)[k] /\ k \in Nat /\ k \in 1..Len(Tail(s))
      BY <1>1
    <2>2. PICK j \in 1..k : s[j] = q
      BY <1>4, <2>1 DEF Queue
    <2>3. j # 1
      BY <1>1, <2>2
    <2>4. j - 1 \in 1..(k - 1) /\ j - 1 \in DOMAIN Tail(s)
      BY <1>1, <2>1, <2>2, <2>3
    <2>5. Tail(s)[j - 1] = s[j]
      BY <1>1, <2>2, <2>4
    <2> QED BY <2>2, <2>4, <2>5
  <1> QED BY <1>2, <1>3, <1>4 DEF Queue

LEMMA AppendIsQueue ==
    ASSUME NEW s \in Seq(Elements), NEW r \in Requests, NEW D, NEW M, Queue(s, D), Carries(s, M),
           \A q \in M : q \in Requests /\ q < r,
           NEW E, E \subseteq D \union {r}, \A q \in E : q < r => \E k \in DOMAIN s : s[k] = q
    PROVE  Queue(Append(s, r), E) /\ Carries(Append(s, r), M \union {r})
  <1> DEFINE t == Append(s, r)
  <1>1. t \in Seq(Elements) /\ DOMAIN s = 1..Len(s) /\ DOMAIN t = 1..(Len(s) + 1) /\ Len(s) \in Nat
    BY DEF Elements
  <1>2. t[Len(s) + 1] = r /\ \A k \in 1..Len(s) : t[k] = s[k]
    BY DEF Elements
  <1> HIDE DEF t
  <1>3. Carries(t, M \union {r})
    BY <1>1, <1>2 DEF Carries
  <1>4. ASSUME NEW k \in DOMAIN t, NEW q \in E, t[k] \in Requests, q < t[k]
        PROVE  \E j \in 1..(k - 1) : t[j] = q
    <2>1. CASE k = Len(s) + 1
      BY <1>1, <1>2, <1>4, <2>1
    <2>2. CASE k \in 1..Len(s)
      <3>1. t[k] = s[k] /\ s[k] \in M
        BY <1>1, <1>2, <1>4, <2>2 DEF Carries
      <3>2. q # r
        <4>1. t[k] \in Nat /\ r \in Nat /\ t[k] < r
          BY <1>4, <3>1, RequestsAreNumbers
        <4> QED BY <1>4, <4>1
      <3>3. PICK j \in 1..(k - 1) : s[j] = q
        BY <1>1, <1>4, <2>2, <3>1, <3>2 DEF Queue
      <3> QED BY <1>1, <1>2, <2>2, <3>3
    <2> QED BY <1>1, <2>1, <2>2
  <1> QED BY <1>3, <1>4 DEF Queue, t

\* t is s, and behind it the requests S in order.
Followed(s, S, t) ==
    /\ t \in Seq(Elements)
    /\ \A k \in DOMAIN s : k \in DOMAIN t /\ t[k] = s[k]
    /\ \A q \in S : \E k \in DOMAIN t : t[k] = q
    /\ \A k \in DOMAIN t : k \notin DOMAIN s =>
         /\ \A j \in DOMAIN s : j < k
         /\ t[k] \in S
         /\ \A q \in S : q < t[k] => \E j \in 1..(k - 1) : t[j] = q

LEMMA ConcatFollows ==
    ASSUME NEW s \in Seq(Elements), NEW S \in SUBSET Requests
    PROVE  Followed(s, S, s \o InOrderOf(S))
  <1> DEFINE u == InOrderOf(S)
             t == s \o u
  <1>1. /\ u \in Seq(S) /\ (\A r \in S : \E k \in DOMAIN u : u[k] = r)
        /\ \A i, j \in DOMAIN u : u[i] < u[j] => i < j
    BY InOrderOfIsOrdered
  <1> HIDE DEF u
  <1>2. /\ DOMAIN s = 1..Len(s) /\ DOMAIN u = 1..Len(u) /\ Len(s) \in Nat /\ Len(u) \in Nat
        /\ \A k \in DOMAIN u : u[k] \in S
    BY <1>1
  <1>3. t \in Seq(Elements) /\ Len(t) = Len(s) + Len(u) /\ DOMAIN t = 1..(Len(s) + Len(u))
    <2>1. u \in Seq(Elements)
      BY <1>1, <1>2 DEF Elements
    <2> QED BY <1>2, <2>1
  <1>4. \A k \in 1..Len(s) : t[k] = s[k]
    BY <1>1, <1>2
  <1>5. \A k \in 1..Len(u) : t[Len(s) + k] = u[k]
    BY <1>1, <1>2
  <1> HIDE DEF t
  <1>6. ASSUME NEW q \in S PROVE \E k \in DOMAIN t : t[k] = q
    <2>1. PICK i \in DOMAIN u : u[i] = q
      BY <1>1
    <2>2. Len(s) + i \in DOMAIN t
      BY <1>2, <1>3
    <2> QED BY <1>2, <1>5, <2>1, <2>2
  <1>7. ASSUME NEW k \in DOMAIN t, k \notin DOMAIN s
        PROVE  /\ \A j \in DOMAIN s : j < k
               /\ t[k] \in S
               /\ \A q \in S : q < t[k] => \E j \in 1..(k - 1) : t[j] = q
    <2>1. k - Len(s) \in DOMAIN u /\ Len(s) + (k - Len(s)) = k
      BY <1>2, <1>3, <1>7
    <2>2. t[k] = u[k - Len(s)]
      BY <1>2, <1>5, <2>1
    <2>3. ASSUME NEW q \in S, q < t[k] PROVE \E j \in 1..(k - 1) : t[j] = q
      <3>1. PICK i \in DOMAIN u : u[i] = q
        BY <1>1
      <3>2. i < k - Len(s)
        BY <1>1, <2>1, <2>2, <2>3, <3>1
      <3>3. Len(s) + i \in 1..(k - 1) /\ t[Len(s) + i] = q
        BY <1>2, <1>3, <1>5, <2>1, <3>1, <3>2
      <3> QED BY <3>3
    <2>4. \A j \in DOMAIN s : j < k
      BY <1>2, <1>3, <1>7
    <2>5. t[k] \in S
      BY <1>2, <2>1, <2>2
    <2> QED BY <2>3, <2>4, <2>5
  <1>8. \A k \in DOMAIN s : k \in DOMAIN t /\ t[k] = s[k]
    BY <1>2, <1>3, <1>4
  <1> QED BY <1>3, <1>6, <1>7, <1>8 DEF Followed, t, u

LEMMA ConcatIsQueue ==
    ASSUME NEW s \in Seq(Elements), NEW S, NEW t, Followed(s, S, t),
           NEW D, Queue(s, D), NEW E \in SUBSET D, \A q \in E \ S : \E k \in DOMAIN s : s[k] = q
    PROVE  Queue(t, E)
  <1>1. /\ t \in Seq(Elements)
        /\ \A k \in DOMAIN s : k \in DOMAIN t /\ t[k] = s[k]
        /\ \A k \in DOMAIN t : k \notin DOMAIN s =>
             /\ \A j \in DOMAIN s : j < k
             /\ \A q \in S : q < t[k] => \E j \in 1..(k - 1) : t[j] = q
    BY DEF Followed
  <1>2. DOMAIN s = 1..Len(s) /\ DOMAIN t = 1..Len(t) /\ Len(s) \in Nat /\ Len(t) \in Nat
    BY <1>1
  <1> SUFFICES ASSUME NEW k \in DOMAIN t, NEW q \in E, t[k] \in Requests, q < t[k]
               PROVE  \E j \in 1..(k - 1) : t[j] = q
    BY DEF Queue
  <1>3. CASE k \in DOMAIN s
    <2>1. PICK j \in 1..(k - 1) : s[j] = q
      BY <1>1, <1>3 DEF Queue
    <2> QED BY <1>1, <1>2, <1>3, <2>1
  <1>4. CASE k \notin DOMAIN s /\ q \in S
    BY <1>1, <1>4
  <1>5. CASE k \notin DOMAIN s /\ q \notin S
    <2>1. PICK j \in DOMAIN s : s[j] = q
      BY <1>5
    <2> QED BY <1>1, <1>2, <1>5, <2>1
  <1> QED BY <1>3, <1>4, <1>5

-----------------------------------------------------------------------------
\* What a request's own progress must leave true.
Lined ==
    /\ MadeInOrder /\ MadeBefore /\ OnlyOvertakingReorders
    /\ overtaken \/ (OrderedInbox /\ DoneInOrder /\ ClosedIsDead)

LEMMA InputIsTyped ==
    ASSUME Memory PROVE \A i \in DOMAIN input : input[i] \in Typing /\ input[i] \in Requests
  BY RequestsAreApart DEF Memory, Typed

\* A step that makes no request and carries none out.
LEMMA QuietStep ==
    ASSUME Memory, Ordered, inbox' \in [Conns -> Seq(Elements)],
           \A c \in Conns : Shorter(inbox[c], inbox'[c]),
           \A r \in Requests : (st'[r] # "new" <=> st[r] # "new") /\ (st[r] = "failed" => st'[r] = "failed"),
           cache' = cache, input' = input, session' \in {session, "over"},
           overtaken' = overtaken, open' => open
    PROVE  Lined'
  <1>0. inbox \in [Conns -> Seq(Elements)] /\ \A c \in Conns : Carries(inbox[c], Made)
    BY DEF Ordered, InboxTyped, MadeBefore, Elements
  <1>1. \A r \in Requests : (Issued(r)' <=> Issued(r)) /\ (Settled(r) => Settled(r)')
    BY DEF Issued, Settled
  <1>2. Made' = Made /\ Due' \in SUBSET Due
    BY <1>1 DEF Made, Due
  <1>3. MadeInOrder'
    BY <1>1, RequestsAreApart DEF Ordered, MadeInOrder
  <1>4. MadeBefore'
    <2>1. ASSUME NEW c \in Conns PROVE Carries(inbox'[c], Made)
      <3>1. Queue(inbox[c], {}) /\ Carries(inbox[c], Made) /\ inbox[c] \in Seq(Elements) /\ inbox'[c] \in Seq(Elements)
        BY <1>0 DEF Queue
      <3> QED BY <3>1, ShorterIsQueue
    <2>2. \A r \in Requests : cache'[r] # "none" => Issued(r)'
      BY <1>1 DEF Ordered, MadeBefore
    <2> QED BY <1>2, <2>1, <2>2 DEF MadeBefore
  <1>5. OnlyOvertakingReorders'
    BY InputIsTyped DEF Ordered, OnlyOvertakingReorders
  <1>6. ASSUME InTurn PROVE OrderedInbox' /\ DoneInOrder' /\ ClosedIsDead'
    <2>1. ASSUME NEW c \in Conns PROVE Queue(inbox'[c], Due')
      <3>1. Queue(inbox[c], Due) /\ Carries(inbox[c], Made) /\ inbox[c] \in Seq(Elements) /\ inbox'[c] \in Seq(Elements)
        BY <1>0, <1>6 DEF InTurn, OrderedInbox
      <3> QED BY <1>2, <3>1, ShorterIsQueue
    <2>2. DoneInOrder'
      BY <1>1, <1>6 DEF InTurn, DoneInOrder
    <2>3. ClosedIsDead'
      BY <1>6, RequestsAreApart DEF InTurn, ClosedIsDead
    <2> QED BY <2>1, <2>2, <2>3 DEF OrderedInbox
  <1> QED BY <1>3, <1>4, <1>5, <1>6 DEF Lined, Ordered

LEMMA SameIsShorter == \A s : Shorter(s, s)
  BY DEF Shorter

\* Making a request, the youngest yet.
LEMMA DispatchIsOrdered ==
    ASSUME Memory, Ordered, NEW r \in Requests, ~Issued(r), \A q \in Requests : Issued(q) => q < r,
           Dispatch(r), UNCHANGED <<phase, conn, wire, cache, input, session>>, MadeInOrder'
    PROVE  Ordered'
  <1>0. /\ inbox \in [Conns -> Seq(Elements)] /\ conn \in Conns
        /\ \A c \in Conns : Carries(inbox[c], Made)
        /\ st \in [Requests -> {"new", "waiting", "sent", "ok", "failed"}]
        /\ cache \in [Requests -> {"none", "ok", "failed"}]
    BY DEF Ordered, InboxTyped, MadeBefore, Elements, Memory, Typed
  <1>1. /\ st' = [st EXCEPT ![r] = IF Connected THEN "sent" ELSE "waiting"]
        /\ st[r] = "new" /\ cache[r] = "none"
        /\ Connected' <=> Connected
    BY <1>0 DEF Dispatch, Issued, Connected, Ordered, MadeBefore
  <1>2. /\ Made' = Made \union {r}
        /\ Due' \subseteq Due \union {r}
    BY <1>0, <1>1 DEF Made, Due, Issued, Settled
  <1>3. \A q \in Made : q \in Requests /\ q < r
    BY DEF Made
  <1>4. InboxTyped'
    BY <1>0 DEF Dispatch, Elements, InboxTyped, Ordered
  <1>5. \A c \in Conns : inbox'[c] = inbox[c] \/ (c = conn /\ inbox'[c] = Append(inbox[c], r) /\ Connected)
    BY <1>0 DEF Dispatch
  <1>6. MadeBefore'
    <2>1. ASSUME NEW c \in Conns PROVE Carries(inbox'[c], Made')
      <3>1. Queue(inbox[c], {}) /\ Carries(inbox[c], Made) /\ inbox[c] \in Seq(Elements)
        BY <1>0 DEF Queue
      <3>2. CASE inbox'[c] = inbox[c]
        BY <1>2, <3>1, <3>2 DEF Carries
      <3>3. CASE inbox'[c] = Append(inbox[c], r)
        <4>1. Carries(Append(inbox[c], r), Made \union {r})
          <5>1. \A k \in DOMAIN Append(inbox[c], r) :
                  (k \in DOMAIN inbox[c] /\ Append(inbox[c], r)[k] = inbox[c][k]) \/ Append(inbox[c], r)[k] = r
            <6>1. r \in Elements
              BY DEF Elements
            <6> QED BY <3>1, <6>1, AppendAdds
          <5> QED BY <3>1, <5>1 DEF Carries
        <4> QED BY <1>2, <3>3, <4>1
      <3> QED BY <1>5, <3>2, <3>3
    <2>2. \A q \in Requests : cache'[q] # "none" => Issued(q)'
      BY <1>0, <1>1 DEF Ordered, MadeBefore, Issued
    <2> QED BY <2>1, <2>2 DEF MadeBefore
  <1>7. SentIsThere'
    <2>1. ~Connected' => wire' = <<>> /\ \A q \in Requests : st'[q] # "sent"
      BY <1>0, <1>1 DEF Ordered, SentIsThere
    <2>2. ASSUME NEW q \in Requests, st'[q] = "sent"
          PROVE  cache'[q] # "none" \/ \E k \in DOMAIN inbox'[conn] : inbox'[conn][k] = q
      <3>1. Connected /\ inbox'[conn] = Append(inbox[conn], r) /\ inbox[conn] \in Seq(Elements) /\ r \in Elements
        BY <1>0, <1>1, <2>2 DEF Dispatch, Ordered, SentIsThere, Elements
      <3>2. /\ \A k \in DOMAIN inbox[conn] : k \in DOMAIN inbox'[conn] /\ inbox'[conn][k] = inbox[conn][k]
            /\ \E k \in DOMAIN inbox'[conn] : inbox'[conn][k] = r
        BY <3>1, AppendAdds
      <3> QED BY <1>0, <1>1, <2>2, <3>2 DEF Ordered, SentIsThere
    <2> QED BY <2>1, <2>2 DEF SentIsThere
  <1>8. OnlyOvertakingReorders'
    <2>1. overtaken => overtaken'
      BY DEF Dispatch
    <2>2. \A q \in Requests : st[q] = "failed" => st'[q] = "failed"
      BY <1>0, <1>1
    <2> QED BY <2>1, <2>2, InputIsTyped DEF Ordered, OnlyOvertakingReorders
  <1>9. ASSUME ~overtaken' PROVE InTurn'
    <2>0. InTurn /\ (Connected => Waiting = {})
      BY <1>9 DEF Dispatch, Ordered
    <2>1. AllOrNone'
      <3>1. CASE Connected
        <4>1. Waiting' = {}
          BY <1>0, <1>1, <2>0, <3>1 DEF Waiting
        <4> QED BY <4>1 DEF AllOrNone
      <3>2. CASE ~Connected
        BY <1>0, <1>1, <3>2 DEF AllOrNone, Ordered, SentIsThere
      <3> QED BY <3>1, <3>2
    <2>2. ASSUME NEW c \in Conns PROVE Queue(inbox'[c], Due')
      <3>1. Queue(inbox[c], Due) /\ Carries(inbox[c], Made) /\ inbox[c] \in Seq(Elements)
        BY <1>0, <2>0 DEF InTurn, OrderedInbox
      <3>2. CASE inbox'[c] = inbox[c]
        <4>1. ASSUME NEW k \in DOMAIN inbox[c], inbox[c][k] \in Requests PROVE ~(r < inbox[c][k])
          <5>1. inbox[c][k] < r /\ inbox[c][k] \in Nat /\ r \in Nat
            BY <1>3, <3>1, <4>1, RequestsAreNumbers DEF Carries
          <5> QED BY <5>1
        <4> QED BY <1>2, <3>1, <3>2, <4>1 DEF Queue
      <3>3. CASE c = conn /\ inbox'[c] = Append(inbox[c], r) /\ Connected
        <4>1. ASSUME NEW q \in Due', q < r PROVE \E k \in DOMAIN inbox[c] : inbox[c][k] = q
          <5>1. q \in Requests /\ q # r /\ q \in Due
            BY <1>2, <4>1, RequestsAreNumbers DEF Due
          <5>2. st[q] \in {"waiting", "sent", "ok"} /\ cache[q] = "none" /\ st[q] # "ok"
            BY <1>0, <5>1 DEF Due, Issued, Settled, Memory, DoneIsKnown
          <5>3. st[q] # "waiting"
            BY <2>0, <3>3, <5>1 DEF Waiting
          <5> QED BY <3>3, <5>1, <5>2, <5>3 DEF Ordered, SentIsThere
        <4> QED BY <1>2, <1>3, <3>1, <3>3, <4>1, AppendIsQueue, ZenonT(60)
      <3> QED BY <1>5, <3>2, <3>3
    <2>3. DoneInOrder'
      <3> SUFFICES ASSUME NEW p \in Requests, NEW q \in Requests, p < q, Issued(p)', cache'[q] # "none"
                   PROVE  Settled(p)'
        BY DEF DoneInOrder
      <3>1. q \in Made
        BY DEF Ordered, MadeBefore, Made
      <3>2. p # r
        BY <1>3, <3>1, RequestsAreNumbers
      <3> QED BY <1>0, <1>1, <2>0, <3>2 DEF InTurn, DoneInOrder, Issued, Settled
    <2>4. ClosedIsDead'
      BY <1>0, <1>1, <2>0, RequestsAreApart DEF InTurn, ClosedIsDead
    <2> QED BY <2>1, <2>2, <2>3, <2>4 DEF InTurn, OrderedInbox
  <1> QED BY <1>4, <1>6, <1>7, <1>8, <1>9 DEF Ordered

-----------------------------------------------------------------------------
LEMMA MakingIsOrdered ==
    ASSUME Memory, Ordered, Create \/ Write \/ Close PROVE Ordered'
  <1>0. st \in [Requests -> {"new", "waiting", "sent", "ok", "failed"}] /\ MadeInOrder
    BY DEF Memory, Typed, Ordered
  <1>1. CASE Create
    <2>1. \A q \in Requests : ~Issued(q)
      BY <1>0, <1>1 DEF Create, MadeInOrder
    <2>2. Dispatch(Spawn) /\ UNCHANGED <<phase, conn, wire, cache, input, session>>
      BY <1>1 DEF Create, daemonVars
    <2>3. st'[Spawn] # "new" /\ \A q \in Requests : q # Spawn => st'[q] = "new"
      BY <2>1, <2>2, DispatchIsTyped, RequestsAreApart DEF Memory, Issued
    <2>4. MadeInOrder'
      BY <2>3, RequestsAreApart DEF MadeInOrder, Issued
    <2> QED BY <2>1, <2>2, <2>4, DispatchIsOrdered, RequestsAreApart
  <1>2. CASE Write
    <2>1. PICK r \in Typing : IsFirst(r, {q \in Typing : ~Issued(q)}) /\ Dispatch(r)
      BY <1>2 DEF Write
    <2>2. open /\ open' = open /\ UNCHANGED <<phase, conn, wire, cache, input, session>>
      BY <1>2 DEF Write, daemonVars
    <2>3. r \in Requests /\ ~Issued(r) /\ \A q \in Typing : q < r => Issued(q)
      <3>1. \A q \in Typing : ~Issued(q) => r <= q
        BY <2>1 DEF IsFirst
      <3>2. \A q \in Typing : q \in Nat /\ q \in Requests
        BY RequestsAreNumbers, RequestsAreApart
      <3> QED BY <2>1, <3>1, <3>2 DEF IsFirst
    <2>4. \A q \in Requests : Issued(q) => q < r
      <3>1. ASSUME NEW q \in Typing, Issued(q) PROVE q < r
        <4>1. ~(r < q) /\ q # r /\ q \in Nat /\ r \in Nat
          BY <1>0, <2>1, <2>3, <3>1, RequestsAreNumbers, RequestsAreApart DEF MadeInOrder
        <4> QED BY <4>1
      <3>2. Spawn < r
        BY <2>1 DEF Spawn, Typing
      <3>3. ~Issued(Kill)
        BY <1>0, <2>2 DEF MadeInOrder
      <3> QED BY <3>1, <3>2, <3>3, RequestsAreApart
    <2>5. st'[r] # "new" /\ \A q \in Requests : q # r => st'[q] = st[q]
      BY <2>1, <2>3, DispatchIsTyped DEF Memory
    <2>6. MadeInOrder'
      <3>1. \A q \in Requests : Issued(q)' <=> (Issued(q) \/ q = r)
        BY <2>5 DEF Issued
      <3>2. \A p, q \in Typing : p < q /\ Issued(q)' => Issued(p)'
        BY <1>0, <2>1, <2>3, <3>1, RequestsAreApart DEF MadeInOrder
      <3> QED BY <1>0, <2>1, <2>2, <3>1, <3>2, RequestsAreApart DEF MadeInOrder
    <2> QED BY <2>1, <2>2, <2>3, <2>4, <2>6, DispatchIsOrdered
  <1>3. CASE Close
    <2>1. open /\ open' = FALSE /\ Dispatch(Kill) /\ UNCHANGED <<phase, conn, wire, cache, input, session>>
      BY <1>3 DEF Close, daemonVars
    <2>2. ~Issued(Kill) /\ Issued(Spawn) /\ Kill \in Requests
      BY <1>0, <2>1, RequestsAreApart DEF MadeInOrder
    <2>3. \A q \in Requests : Issued(q) => q < Kill
      BY <2>2, RequestsAreNumbers
    <2>4. st'[Kill] # "new" /\ \A q \in Requests : q # Kill => st'[q] = st[q]
      BY <2>1, <2>2, DispatchIsTyped DEF Memory
    <2>5. MadeInOrder'
      BY <1>0, <2>1, <2>2, <2>4, RequestsAreApart DEF MadeInOrder, Issued
    <2> QED BY <2>1, <2>2, <2>3, <2>5, DispatchIsOrdered
  <1> QED BY <1>1, <1>2, <1>3

LEMMA ConnectingIsOrdered ==
    ASSUME Memory, Ordered, Drop \/ Reconnect \/ GiveUp \/ Expire PROVE Ordered'
  <1>0. /\ inbox \in [Conns -> Seq(Elements)] /\ conn \in Conns /\ MadeInOrder
        /\ st \in [Requests -> {"new", "waiting", "sent", "ok", "failed"}]
        /\ UNCHANGED <<cache, input, session, overtaken>>
    BY DEF Ordered, InboxTyped, Elements, Memory, Typed, Drop, Reconnect, GiveUp, Expire, daemonVars
  <1>1. CASE Drop
    <2>1. PICK n \in 0..Len(inbox[conn]) : inbox' = [inbox EXCEPT ![conn] = SubSeq(@, 1, n)]
      BY <1>1 DEF Drop
    <2>2. SubSeq(inbox[conn], 1, n) \in Seq(Elements) /\ Shorter(inbox[conn], SubSeq(inbox[conn], 1, n))
      BY <1>0, <2>1 DEF Shorter
    <2>3. inbox' \in [Conns -> Seq(Elements)] /\ \A c \in Conns : Shorter(inbox[c], inbox'[c])
      BY <1>0, <2>1, <2>2, SameIsShorter
    <2>4. \A r \in Requests : st'[r] = Kept(st[r])
      BY <1>1 DEF Drop
    <2>5. Lined'
      BY <1>0, <1>1, <2>3, <2>4, QuietStep DEF Drop, Kept
    <2>6. InboxTyped'
      BY <1>0, <1>1, <2>3, BoundsAssumption DEF Drop, InboxTyped, Elements, Conns
    <2>7. \A r \in Requests : st'[r] # "sent"
      BY <2>4 DEF Kept
    <2>8. wire' = <<>> /\ phase' = "down"
      BY <1>1 DEF Drop
    <2> QED BY <2>5, <2>6, <2>7, <2>8 DEF SentIsThere, AllOrNone, Connected, Ordered, Lined, InTurn
  <1>2. CASE Reconnect
    <2>1. inbox' = [inbox EXCEPT ![conn + 1] = <<ListId>>] /\ conn' = conn + 1 /\ conn' \in Conns
      BY <1>2 DEF Reconnect, Ordered, InboxTyped
    <2>2. <<ListId>> \in Seq(Elements) /\ \A s : Shorter(s, <<ListId>>)
      BY DEF Shorter, Elements
    <2>3. inbox' \in [Conns -> Seq(Elements)] /\ \A c \in Conns : Shorter(inbox[c], inbox'[c])
      BY <1>0, <2>1, <2>2, SameIsShorter
    <2>4. UNCHANGED <<st, open, wire>> /\ phase' = "syncing" /\ ~Connected
      BY <1>2 DEF Reconnect, Connected
    <2>5. Lined'
      BY <1>0, <2>3, <2>4, QuietStep
    <2>6. InboxTyped'
      BY <2>1, <2>3, <2>4 DEF InboxTyped, Elements
    <2>7. \A r \in Requests : st'[r] # "sent"
      BY <2>4 DEF Ordered, SentIsThere
    <2> QED BY <2>4, <2>5, <2>6, <2>7 DEF SentIsThere, AllOrNone, Connected, Ordered, Lined, InTurn
  <1>3. CASE GiveUp \/ Expire
    <2>1. /\ inbox' = inbox /\ conn' = conn /\ wire' = wire /\ (open' => open)
          /\ \A r \in Requests : st'[r] = st[r] \/ (st[r] \in {"waiting", "sent"} /\ st'[r] = "failed")
      BY <1>0, <1>3 DEF GiveUp, Expire, Waiting
    <2>2. Lined'
      BY <1>0, <2>1, QuietStep, SameIsShorter
    <2>3. phase' = phase \/ (phase = "down" /\ phase' = "off")
      BY <1>3 DEF GiveUp, Expire
    <2>4. InboxTyped'
      BY <2>1, <2>3 DEF InboxTyped, Ordered
    <2>5. Connected' <=> Connected
      BY <2>3 DEF Connected
    <2>6. SentIsThere'
      BY <1>0, <2>1, <2>5 DEF SentIsThere, Ordered
    <2>7. overtaken' \/ AllOrNone'
      BY <1>0, <2>1 DEF AllOrNone, Ordered, InTurn, Waiting
    <2> QED BY <2>2, <2>4, <2>6, <2>7 DEF Ordered, Lined, InTurn
  <1> QED BY <1>1, <1>2, <1>3

\* Answers and exits.
LEMMA HearingIsOrdered ==
    ASSUME Memory, Ordered, ReadAnswer \/ ReadExit \/ PtyExit PROVE Ordered'
  <1>0. /\ inbox \in [Conns -> Seq(Elements)] /\ MadeInOrder
        /\ st \in [Requests -> {"new", "waiting", "sent", "ok", "failed"}]
        /\ wire \in Seq(Messages)
    BY DEF Ordered, InboxTyped, Elements, Memory, Typed
  <1>1. /\ cache' = cache /\ input' = input /\ overtaken' = overtaken /\ inbox' = inbox
        /\ phase' = phase /\ conn' = conn /\ (open' => open)
        /\ session' \in {session, "over"}
    <2>1. CASE ReadAnswer
      BY <2>1 DEF ReadAnswer, daemonVars
    <2>2. CASE ReadExit
      BY <2>2 DEF ReadExit, daemonVars
    <2>3. CASE PtyExit
      BY <2>3 DEF PtyExit, clientVars
    <2> QED BY <2>1, <2>2, <2>3
  <1>2. \A r \in Requests : st'[r] = st[r] \/ (st[r] = "sent" /\ st'[r] \in {"ok", "failed"})
    <2>1. CASE ReadAnswer
      <3>1. Head(wire) \in Messages /\ 1 \in DOMAIN wire /\ Head(wire) = wire[1] /\ Head(wire).id # ListId
        BY <1>0, <2>1, TailIsPart DEF ReadAnswer
      <3>2. Head(wire).id \in Requests /\ Head(wire).result \in Results
        BY <3>1 DEF Memory, WireIsHonest, Honest, Messages
      <3>3. st' = IF st[Head(wire).id] = "sent" THEN [st EXCEPT ![Head(wire).id] = Head(wire).result] ELSE st
        BY <2>1 DEF ReadAnswer
      <3> QED BY <1>0, <3>2, <3>3 DEF Results
    <2>2. CASE ReadExit \/ PtyExit
      BY <2>2 DEF ReadExit, PtyExit, clientVars
    <2> QED BY <2>1, <2>2
  <1>3. Lined'
    BY <1>0, <1>1, <1>2, QuietStep, SameIsShorter
  <1>4. InboxTyped'
    BY <1>1 DEF InboxTyped, Ordered
  <1>5. ~Connected => wire' = <<>>
    BY DEF Ordered, SentIsThere, ReadAnswer, ReadExit, PtyExit, Reply
  <1>6. SentIsThere'
    BY <1>1, <1>2, <1>5 DEF SentIsThere, Ordered, Connected
  <1>7. overtaken' \/ AllOrNone'
    BY <1>1, <1>2 DEF AllOrNone, Ordered, InTurn, Waiting
  <1> QED BY <1>3, <1>4, <1>6, <1>7 DEF Ordered, Lined, InTurn

\* What waited goes out again, in order and behind what is there.
LEMMA ListIsOrdered ==
    ASSUME Memory, Ordered, ReadList PROVE Ordered'
  <1>0. /\ inbox \in [Conns -> Seq(Elements)] /\ conn \in Conns /\ MadeInOrder
        /\ \A c \in Conns : Carries(inbox[c], Made)
        /\ st \in [Requests -> {"new", "waiting", "sent", "ok", "failed"}]
        /\ Connected
    BY DEF Ordered, InboxTyped, MadeBefore, SentIsThere, Elements, Memory, Typed, ReadList
  <1>1. PICK expired \in SUBSET Waiting :
          /\ st' = [r \in Requests |-> IF r \in Resent(expired) THEN "sent"
                                       ELSE IF r \in expired THEN "failed" ELSE st[r]]
          /\ inbox' = [inbox EXCEPT ![conn] = @ \o InOrderOf(Resent(expired))]
          /\ open' => open
    BY DEF ReadList
  <1> DEFINE again == Resent(expired)
  <1>2. /\ UNCHANGED <<cache, input, session, overtaken, conn>> /\ phase' = "ready"
        /\ again \in SUBSET Requests /\ again \subseteq Made /\ again = Waiting \ expired
    BY DEF ReadList, daemonVars, Resent, Waiting, Made, Issued
  <1>3. \A r \in Requests : \/ st'[r] = st[r] /\ st[r] # "waiting"
                            \/ st[r] = "waiting" /\ st'[r] = "sent" /\ r \in again
                            \/ st[r] = "waiting" /\ st'[r] = "failed"
    BY <1>0, <1>1, <1>2 DEF Waiting
  <1> HIDE DEF again
  <1>4. \A r \in Requests : (Issued(r)' <=> Issued(r)) /\ (Settled(r) => Settled(r)')
    BY <1>2, <1>3 DEF Issued, Settled
  <1>5. Made' = Made /\ Due' \in SUBSET Due
    BY <1>4 DEF Made, Due
  <1>6. inbox[conn] \in Seq(Elements) /\ Followed(inbox[conn], again, inbox'[conn])
    <2>1. inbox'[conn] = inbox[conn] \o InOrderOf(again) /\ inbox[conn] \in Seq(Elements)
      BY <1>0, <1>1 DEF again
    <2> QED BY <1>2, <2>1, ConcatFollows
  <1>7. /\ inbox'[conn] \in Seq(Elements)
        /\ \A k \in DOMAIN inbox[conn] : k \in DOMAIN inbox'[conn] /\ inbox'[conn][k] = inbox[conn][k]
        /\ \A q \in again : \E k \in DOMAIN inbox'[conn] : inbox'[conn][k] = q
        /\ \A k \in DOMAIN inbox'[conn] : k \notin DOMAIN inbox[conn] => inbox'[conn][k] \in again
    BY <1>6 DEF Followed
  <1>8. Carries(inbox'[conn], Made)
    BY <1>0, <1>2, <1>7 DEF Carries
  <1>9. InboxTyped'
    BY <1>0, <1>1, <1>2, <1>7 DEF InboxTyped, Elements
  <1>10. MadeInOrder'
    BY <1>0, <1>1, <1>4, RequestsAreApart DEF MadeInOrder
  <1>11. MadeBefore'
    BY <1>0, <1>1, <1>2, <1>4, <1>5, <1>8 DEF MadeBefore, Ordered
  <1>12. SentIsThere'
    BY <1>0, <1>2, <1>3, <1>7 DEF SentIsThere, Ordered, Connected
  <1>13. OnlyOvertakingReorders'
    BY <1>2, <1>3, InputIsTyped DEF Ordered, OnlyOvertakingReorders
  <1>14. ASSUME ~overtaken' PROVE InTurn'
    <2>0. InTurn
      BY <1>2, <1>14 DEF Ordered
    <2>1. AllOrNone'
      BY <1>3 DEF AllOrNone, Waiting
    <2>2. ASSUME NEW q \in Due' \ again PROVE \E k \in DOMAIN inbox[conn] : inbox[conn][k] = q
      <3>1. q \in Requests /\ st'[q] \notin {"new", "failed"} /\ cache[q] = "none"
        BY <1>2 DEF Due, Issued, Settled
      <3>2. st'[q] = st[q] /\ st[q] \notin {"new", "failed", "waiting"} /\ st[q] # "ok"
        BY <1>3, <2>2, <3>1 DEF Memory, DoneIsKnown
      <3> QED BY <1>0, <3>1, <3>2 DEF Ordered, SentIsThere
    <2>3. ASSUME NEW c \in Conns PROVE Queue(inbox'[c], Due')
      <3>1. Queue(inbox[c], Due)
        BY <2>0 DEF InTurn, OrderedInbox
      <3>2. CASE c = conn
        BY <1>2, <1>5, <1>6, <2>2, <3>1, <3>2, ConcatIsQueue
      <3>3. CASE c # conn
        BY <1>0, <1>1, <1>5, <3>1, <3>3 DEF Queue
      <3> QED BY <3>2, <3>3
    <2>4. DoneInOrder'
      BY <1>2, <1>4, <2>0 DEF InTurn, DoneInOrder
    <2>5. ClosedIsDead'
      BY <1>2, <1>3, <2>0, RequestsAreApart DEF InTurn, ClosedIsDead
    <2> QED BY <2>1, <2>3, <2>4, <2>5 DEF InTurn, OrderedInbox
  <1> QED BY <1>9, <1>10, <1>11, <1>12, <1>13, <1>14 DEF Ordered

-----------------------------------------------------------------------------
\* The request at the head of a connection has been carried out.
Popped(c) ==
    /\ inbox[c] # <<>> /\ inbox' = [inbox EXCEPT ![c] = Tail(@)]
    /\ UNCHANGED clientVars
    /\ \A r \in Requests : cache[r] # "none" => cache'[r] # "none"
    /\ \A r \in Requests : cache'[r] # "none" => cache[r] # "none" \/ r = Head(inbox[c])
    /\ Head(inbox[c]) \in Requests => cache'[Head(inbox[c])] # "none"
    /\ ~Connected => wire' = wire

\* ... in its turn.
NextIsDue(c) ==
    Head(inbox[c]) \in Requests =>
        /\ Issued(Head(inbox[c]))
        /\ overtaken \/ \A q \in Requests : q < Head(inbox[c]) /\ Issued(q) => Settled(q)

LEMMA HandledInTurn ==
    ASSUME Memory, Ordered, NEW c \in Conns, Popped(c)
    PROVE  /\ InboxTyped' /\ MadeInOrder' /\ MadeBefore' /\ SentIsThere'
           /\ overtaken' \/ (AllOrNone' /\ OrderedInbox' /\ DoneInOrder')
           /\ NextIsDue(c)
  <1>0. /\ inbox \in [Conns -> Seq(Elements)] /\ conn \in Conns
        /\ \A d \in Conns : Carries(inbox[d], Made)
    BY DEF Ordered, InboxTyped, MadeBefore, Elements
  <1>1. /\ st' = st /\ phase' = phase /\ conn' = conn /\ open' = open /\ overtaken' = overtaken
        /\ Made' = Made
    BY DEF Popped, clientVars, Made, Issued
  <1>2. /\ inbox[c] \in Seq(Elements) /\ inbox[c] # <<>> /\ inbox'[c] = Tail(inbox[c])
        /\ \A d \in Conns : d # c => inbox'[d] = inbox[d]
        /\ inbox[c][1] = Head(inbox[c])
    BY <1>0, TailIsPart DEF Popped
  <1>3. inbox' \in [Conns -> Seq(Elements)]
    BY <1>0, <1>2, TailIsPart DEF Popped
  <1>4. Due' \in SUBSET Due /\ Head(inbox[c]) \notin Due'
    BY <1>1 DEF Due, Popped, Issued, Settled
  <1>5. /\ Carries(Tail(inbox[c]), Made)
        /\ Head(inbox[c]) \in Requests => Head(inbox[c]) \in Made
    <2>1. Queue(inbox[c], {}) /\ Carries(inbox[c], Made)
      BY <1>0 DEF Queue
    <2> QED BY <1>2, <2>1, TailIsQueue
  <1>6. InboxTyped' /\ MadeInOrder'
    BY <1>1, <1>3 DEF Ordered, InboxTyped, MadeInOrder, Issued, Elements
  <1>7. MadeBefore'
    <2>1. \A d \in Conns : Carries(inbox'[d], Made')
      BY <1>0, <1>1, <1>2, <1>5
    <2>2. \A r \in Requests : cache'[r] # "none" => Issued(r)'
      BY <1>1, <1>5 DEF Popped, Made, Issued, Ordered, MadeBefore
    <2> QED BY <2>1, <2>2 DEF MadeBefore
  <1>8. SentIsThere'
    <2>1. ASSUME NEW r \in Requests, st[r] = "sent", cache'[r] = "none"
          PROVE  \E k \in DOMAIN inbox'[conn] : inbox'[conn][k] = r
      <3>1. cache[r] = "none" /\ r # Head(inbox[c])
        BY <2>1 DEF Popped
      <3>2. PICK k \in DOMAIN inbox[conn] : inbox[conn][k] = r
        BY <2>1, <3>1 DEF Ordered, SentIsThere
      <3>3. CASE c # conn
        BY <1>0, <1>2, <3>2, <3>3
      <3>4. CASE c = conn
        <4>1. k # 1 /\ k \in 1..Len(inbox[c])
          BY <1>2, <3>1, <3>2, <3>4
        <4>2. k - 1 \in DOMAIN Tail(inbox[c]) /\ (k - 1) + 1 = k
          BY <1>2, <4>1
        <4>3. Tail(inbox[c])[k - 1] = inbox[c][k]
          BY <1>2, <4>2, TailIsPart, SMTT(30)
        <4> QED BY <1>2, <3>2, <3>4, <4>2, <4>3
      <3> QED BY <3>3, <3>4
    <2>2. ~Connected => wire' = <<>> /\ \A r \in Requests : st[r] # "sent"
      BY DEF Ordered, SentIsThere, Popped
    <2> QED BY <1>1, <2>1, <2>2 DEF SentIsThere, Connected
  <1>9. ASSUME ~overtaken
        PROVE  /\ AllOrNone' /\ OrderedInbox' /\ DoneInOrder'
               /\ Head(inbox[c]) \in Requests =>
                    \A q \in Requests : q < Head(inbox[c]) /\ Issued(q) => Settled(q)
    <2>0. InTurn /\ \A d \in Conns : Queue(inbox[d], Due) /\ Carries(inbox[d], Made)
      BY <1>0, <1>9 DEF Ordered, InTurn, OrderedInbox
    <2>1. AllOrNone'
      BY <1>1, <2>0 DEF InTurn, AllOrNone, Waiting
    <2>2. /\ Queue(Tail(inbox[c]), Due')
          /\ Head(inbox[c]) \in Requests => \A q \in Due : ~(q < Head(inbox[c]))
      BY <1>2, <1>4, <2>0, TailIsQueue
    <2>3. \A d \in Conns : d # c => Queue(inbox[d], Due')
      BY <1>4, <2>0 DEF Queue
    <2>4. OrderedInbox'
      BY <1>2, <2>2, <2>3 DEF OrderedInbox
    <2>5. Head(inbox[c]) \in Requests =>
            \A q \in Requests : q < Head(inbox[c]) /\ Issued(q) => Settled(q)
      BY <2>2 DEF Due
    <2>6. DoneInOrder'
      <3> SUFFICES ASSUME NEW q \in Requests, NEW r \in Requests, q < r, Issued(q)', cache'[r] # "none"
                   PROVE  Settled(q)'
        BY DEF DoneInOrder
      <3>1. cache[r] # "none" \/ r = Head(inbox[c])
        BY DEF Popped
      <3>2. Settled(q)
        BY <1>1, <2>0, <2>5, <3>1 DEF InTurn, DoneInOrder, Issued
      <3> QED BY <1>1, <3>2 DEF Settled, Popped
    <2> QED BY <2>1, <2>4, <2>5, <2>6
  <1> QED BY <1>1, <1>5, <1>6, <1>7, <1>8, <1>9 DEF NextIsDue, Made

LEMMA RespondedIsPopped ==
    ASSUME Memory, NEW c \in Conns, NEW r \in Requests, NEW result \in Results,
           inbox[c] # <<>>, inbox' = [inbox EXCEPT ![c] = Tail(@)], UNCHANGED clientVars,
           r = Head(inbox[c]), Respond(c, r, result)
    PROVE  Popped(c)
  <1>1. cache' = [cache EXCEPT ![r] = result] /\ cache \in [Requests -> {"none", "ok", "failed"}]
    BY DEF Respond, Memory, Typed
  <1>2. ~Connected => wire' = wire
    BY DEF Respond, Reply
  <1> QED BY <1>1, <1>2 DEF Popped, Results

LEMMA HandlingIsOrdered ==
    ASSUME Memory, Ordered, NEW c \in Conns, Handle(c) PROVE Ordered'
  <1>0. /\ inbox[c] # <<>> /\ inbox' = [inbox EXCEPT ![c] = Tail(@)] /\ UNCHANGED clientVars
        /\ st' = st /\ overtaken' = overtaken
        /\ cache \in [Requests -> {"none", "ok", "failed"}]
    BY DEF Handle, clientVars, Memory, Typed
  <1>1. CASE HandleList(c) \/ \E r \in Requests : HandleKnown(c, r)
    <2>1. cache' = cache /\ session' = session /\ input' = input
      BY <1>1 DEF HandleList, HandleKnown, daemonVars
    <2>2. Popped(c)
      BY <1>0, <1>1, <2>1, RequestsAreApart DEF Popped, HandleList, HandleKnown, Known, Reply
    <2>3. OnlyOvertakingReorders'
      BY <1>0, <2>1 DEF Ordered, OnlyOvertakingReorders
    <2>4. overtaken' \/ ClosedIsDead'
      BY <1>0, <2>1 DEF Ordered, InTurn, ClosedIsDead
    <2> QED BY <2>2, <2>3, <2>4, HandledInTurn DEF Ordered, InTurn
  <1>2. CASE HandleSpawn(c) \/ HandleKill(c)
    <2>1. PICK r \in {Spawn, Kill}, result \in Results :
            r = Head(inbox[c]) /\ cache[r] = "none" /\ Respond(c, r, result)
      BY <1>2 DEF HandleSpawn, HandleKill, Results, Known
    <2>2. input' = input /\ (r = Kill => session' # "running")
      BY <1>2, <2>1, RequestsAreApart DEF HandleSpawn, HandleKill
    <2>3. Popped(c)
      BY <1>0, <2>1, RespondedIsPopped, RequestsAreApart
    <2>4. OnlyOvertakingReorders'
      BY <1>0, <2>2 DEF Ordered, OnlyOvertakingReorders
    <2>5. ASSUME ~overtaken PROVE ClosedIsDead'
      <3>1. CASE r = Kill
        BY <2>2, <3>1 DEF ClosedIsDead
      <3>2. CASE r = Spawn
        <4>1. Issued(Spawn) /\ Spawn < Kill /\ DoneInOrder
          BY <2>1, <2>3, <2>5, <3>2, HandledInTurn, RequestsAreApart, RequestsAreNumbers
             DEF NextIsDue, Ordered, InTurn
        <4>2. cache'[Kill] = cache[Kill]
          BY <1>0, <2>1, <3>2, RequestsAreApart DEF Respond
        <4>3. cache[Kill] # "none" => Settled(Spawn)
          BY <4>1, RequestsAreApart DEF DoneInOrder
        <4> QED BY <1>0, <2>1, <3>2, <4>2, <4>3 DEF ClosedIsDead, Settled
      <3> QED BY <3>1, <3>2
    <2> QED BY <1>0, <2>3, <2>4, <2>5, HandledInTurn DEF Ordered, InTurn
  <1>3. ASSUME NEW r \in Requests, HandleWrite(c, r) PROVE Ordered'
    <2>1. r = Head(inbox[c]) /\ r \in Typing /\ cache[r] = "none" /\ session' = session
      BY <1>3 DEF HandleWrite, Known
    <2>2. PICK result \in Results : Respond(c, r, result)
      BY <1>3 DEF HandleWrite, Results
    <2>3. Popped(c)
      BY <1>0, <2>1, <2>2, RespondedIsPopped
    <2>4. overtaken' \/ ClosedIsDead'
      BY <1>0, <2>1, <2>2, RequestsAreApart DEF Ordered, InTurn, ClosedIsDead, Respond
    <2>5. ASSUME ~overtaken, NEW q \in Typing, cache[q] = "ok" PROVE q < r \/ st[r] = "failed"
      <3>1. q \in Requests /\ q \in Nat /\ r \in Nat /\ q # r
        BY <2>1, <2>5, RequestsAreApart, RequestsAreNumbers
      <3>2. Issued(r) /\ DoneInOrder
        BY <2>1, <2>3, <2>5, HandledInTurn DEF NextIsDue, Ordered, InTurn
      <3>3. r < q => Settled(r)
        BY <2>5, <3>1, <3>2 DEF DoneInOrder
      <3> QED BY <2>1, <3>1, <3>3 DEF Settled
    <2>6. input \in Seq(Typing) /\ \A i \in DOMAIN input : input[i] \in Typing /\ cache[input[i]] = "ok"
      BY DEF Memory, Typed, TypedIsKnown
    <2>7. OnlyOvertakingReorders'
      <3>1. CASE overtaken
        BY <1>0, <3>1 DEF OnlyOvertakingReorders
      <3>2. CASE ~overtaken /\ input' = input
        BY <1>0, <3>2 DEF Ordered, OnlyOvertakingReorders
      <3>3. CASE ~overtaken /\ input' = Append(input, r)
        <4>1. DOMAIN input = 1..Len(input) /\ DOMAIN input' = 1..(Len(input) + 1) /\ Len(input) \in Nat
          BY <2>1, <2>6, <3>3
        <4>2. input'[Len(input) + 1] = r /\ \A i \in 1..Len(input) : input'[i] = input[i]
          BY <2>1, <2>6, <3>3
        <4>3. ASSUME NEW i \in DOMAIN input', NEW j \in DOMAIN input', i < j
              PROVE  input'[i] < input'[j] \/ st[input'[j]] = "failed"
          <5>1. i \in DOMAIN input /\ input'[i] = input[i]
            BY <4>1, <4>2, <4>3
          <5>2. CASE j = Len(input) + 1
            BY <2>5, <2>6, <3>3, <4>2, <5>1, <5>2
          <5>3. CASE j \in DOMAIN input
            BY <3>3, <4>1, <4>2, <4>3, <5>1, <5>3 DEF Ordered, OnlyOvertakingReorders
          <5> QED BY <4>1, <5>2, <5>3
        <4> QED BY <1>0, <4>3 DEF OnlyOvertakingReorders
      <3>4. input' = input \/ input' = Append(input, r)
        BY <1>3 DEF HandleWrite
      <3> QED BY <3>1, <3>2, <3>3, <3>4
    <2> QED BY <2>3, <2>4, <2>7, HandledInTurn DEF Ordered, InTurn
  <1> QED BY <1>1, <1>2, <1>3 DEF Handle

LEMMA InitOrdered == Init => Ordered
  <1> SUFFICES ASSUME Init PROVE Ordered
    OBVIOUS
  <1>1. /\ st = [r \in Requests |-> "new"] /\ cache = [r \in Requests |-> "none"]
        /\ inbox = [c \in Conns |-> <<>>] /\ wire = <<>> /\ input = <<>> /\ session = "none"
        /\ open = FALSE /\ conn = 1 /\ phase = "ready"
    BY DEF Init
  <1>2. InboxTyped
    BY <1>1, BoundsAssumption DEF InboxTyped, Conns
  <1>3. MadeInOrder
    BY <1>1, RequestsAreApart DEF MadeInOrder, Issued
  <1>4. MadeBefore
    BY <1>1 DEF MadeBefore, Carries
  <1>5. SentIsThere
    BY <1>1 DEF SentIsThere, Connected
  <1>6. OnlyOvertakingReorders
    BY <1>1 DEF OnlyOvertakingReorders
  <1>7. AllOrNone
    BY <1>1 DEF AllOrNone
  <1>8. OrderedInbox
    BY <1>1 DEF OrderedInbox, Queue
  <1>9. DoneInOrder
    BY <1>1 DEF DoneInOrder
  <1>10. ClosedIsDead
    BY <1>1 DEF ClosedIsDead
  <1> QED BY <1>2, <1>3, <1>4, <1>5, <1>6, <1>7, <1>8, <1>9, <1>10 DEF Ordered, InTurn

LEMMA StepOrdered == Memory /\ Ordered /\ [Next]_vars => Ordered'
  <1> SUFFICES ASSUME Memory, Ordered, [Next]_vars PROVE Ordered'
    OBVIOUS
  <1>1. CASE UNCHANGED vars
    <2>1. UNCHANGED <<st, phase, conn, inbox, wire, session, cache, input, open, overtaken>>
      BY <1>1 DEF vars, clientVars, daemonVars
    <2>2. Due' = Due /\ Made' = Made
      BY <2>1 DEF Due, Made, Issued, Settled
    <2>3. InboxTyped' /\ MadeInOrder' /\ MadeBefore' /\ SentIsThere' /\ OnlyOvertakingReorders'
      BY <2>1, <2>2 DEF Ordered, InboxTyped, MadeInOrder, Issued, MadeBefore, SentIsThere, Connected,
                        OnlyOvertakingReorders
    <2>4. overtaken' \/ InTurn'
      BY <2>1, <2>2 DEF Ordered, InTurn, AllOrNone, Waiting, OrderedInbox, DoneInOrder, Issued, Settled,
                        ClosedIsDead
    <2> QED BY <2>3, <2>4 DEF Ordered
  <1>2. CASE Next
    BY <1>2, MakingIsOrdered, ConnectingIsOrdered, HearingIsOrdered, ListIsOrdered, HandlingIsOrdered
       DEF Next, Client
  <1> QED BY <1>1, <1>2

\* However often connections break, and whatever old ones still drain: what is
\* typed out of order had been given up as failed, and a terminal the client
\* was told is closed is not run unless its start had failed - as long as no
\* request was made while older ones waited for a synchronization to end
\* (request, reconnect, handleRequest).
THEOREM OrderSurvivesRepetition == Spec => []OrderIsKept
  <1>1. Memory /\ Ordered => OrderIsKept
    <2> SUFFICES ASSUME Memory, Ordered PROVE OrderIsKept
      OBVIOUS
    <2>1. KilledIsDead
      BY RequestsAreApart DEF Memory, DoneIsKnown, Ordered, InTurn, ClosedIsDead, KilledIsDead, KillIsFinal
    <2> QED BY <2>1 DEF Ordered, OrderIsKept
  <1> QED BY <1>1, InitOrdered, StepOrdered, MemoryHolds, PTL DEF Spec
=============================================================================
