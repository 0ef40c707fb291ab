-------------------------- MODULE TerminalRequests --------------------------
(***************************************************************************)
(* What the main process asks of the terminal daemon about one terminal:   *)
(* start it, type into it, close it.  TerminalDaemonClient.request keeps a *)
(* request until it is answered or its deadline passes, and sends it again *)
(* on the next connection under the same request id; TerminalDaemonServer  *)
(* remembers its answers by that id.  A connection that breaks may leave   *)
(* requests at the daemon that it still carries out.                       *)
(*                                                                         *)
(* Output, replays and the renderer are in TerminalSync.                   *)
(***************************************************************************)
EXTENDS Naturals, Sequences, FiniteSets

CONSTANTS
    Writes,     \* bound: the user types this many times
    MaxDrops,   \* bound: losses of the connection
    Races       \* what may happen in a run: "timeout" (a request misses its
                \* deadline), "giveUp" (the daemon is out of reach for 8 s),
                \* "spawnFails" (the program cannot be started)

ASSUME BoundsAssumption == Writes \in Nat /\ MaxDrops \in Nat

Spawn    == 0
Typing   == 1..Writes
Kill     == Writes + 1
Requests == {Spawn, Kill} \union Typing
ListId   == Writes + 2          \* the list request of a reconnection
Conns    == 1..(MaxDrops + 1)
May(race) == race \in Races

VARIABLES
    st,         \* per request: new, waiting (for a connection), sent, ok, failed
    phase,      \* the client's connection: ready, down, syncing, off
    conn,       \* number of the client's latest connection
    inbox,      \* per connection: requests the daemon has yet to carry out
    wire,       \* answers and events on their way on the latest connection
    exitQueued, \* an exit is among the events queued while synchronizing
    session,    \* the daemon's session: none, running, over
    cache,      \* responseCache: none, ok, failed
    input,      \* what the PTY has been given, in order
    backend,    \* the client has a backend for the terminal
    open,       \* TerminalManager has a session for it
    exits,      \* exits the backend has reported
    overtaken   \* history: a request went out while earlier ones were waiting

clientVars == <<st, phase, conn, exitQueued, backend, open, exits, overtaken>>
daemonVars == <<session, cache, input>>
vars == <<clientVars, daemonVars, inbox, wire>>

Connected  == phase \in {"syncing", "ready"}
Issued(r)  == st[r] # "new"
Waiting    == {r \in Requests : st[r] = "waiting"}
ExitEvent  == [id |-> ListId, result |-> "exit"]
IsFirst(r, S) == r \in S /\ \A q \in S : r <= q

-----------------------------------------------------------------------------
(* Slips.  Operators below with a word added to their name, changed the way  *)
(* a slip in the code would change them.  No action uses them; every         *)
(* property of a passing run is broken by one of them.                       *)

AnswerForgotten(r, result) ==
    [id |-> r, result |-> IF result = "failed" THEN "none" ELSE result]
KnownFailure(r) == cache[r] = "failed"
InOrderOfLatest(again) ==
    [i \in 1..Cardinality(again) |->
        CHOOSE r \in again : Cardinality({q \in again : q > r}) = i - 1]
ResentButKill(expired) == Waiting \ (expired \union {Kill})

-----------------------------------------------------------------------------
Answer(r, result) == [id |-> r, result |-> result]

-----------------------------------------------------------------------------
\* The client.

\* request: sent at once when there is a socket, even one whose
\* synchronization is not over; kept for the next connection otherwise.
Dispatch(r) ==
    /\ st' = [st EXCEPT ![r] = IF Connected THEN "sent" ELSE "waiting"]
    /\ inbox' = IF Connected THEN [inbox EXCEPT ![conn] = Append(@, r)] ELSE inbox
    /\ overtaken' = (overtaken \/ (Connected /\ Waiting # {}))

\* createBackend.
Create ==
    /\ ~Issued(Spawn) /\ phase # "off"
    /\ Dispatch(Spawn)
    /\ backend' = TRUE /\ open' = TRUE
    /\ UNCHANGED <<phase, conn, exitQueued, exits, daemonVars, wire>>

\* TerminalManager.write, into a terminal it knows of.
Write ==
    /\ open
    /\ \E r \in Typing : IsFirst(r, {q \in Typing : ~Issued(q)}) /\ Dispatch(r)
    /\ UNCHANGED <<phase, conn, exitQueued, backend, open, exits, daemonVars, wire>>

\* TerminalManager.kill: the session is forgotten, the backend stays listed.
Close ==
    /\ open
    /\ Dispatch(Kill)
    /\ open' = FALSE
    /\ UNCHANGED <<phase, conn, exitQueued, backend, exits, daemonVars, wire>>

\* handleClose (or reconnect's catch): what was sent is to be sent again; the
\* daemon keeps what it has already read from the socket.
Kept(s) == IF s = "sent" THEN "waiting" ELSE s
Drop ==
    /\ Connected
    /\ conn <= MaxDrops
    /\ phase' = "down"
    /\ st' = [r \in Requests |-> Kept(st[r])]
    /\ wire' = <<>> /\ exitQueued' = FALSE
    /\ \E n \in 0..Len(inbox[conn]) : inbox' = [inbox EXCEPT ![conn] = SubSeq(@, 1, n)]
    /\ UNCHANGED <<conn, backend, open, exits, overtaken, daemonVars>>

\* reconnect, up to its list request.
Reconnect ==
    /\ phase = "down"
    /\ phase' = "syncing"
    /\ conn' = conn + 1
    /\ inbox' = [inbox EXCEPT ![conn + 1] = <<ListId>>]
    /\ UNCHANGED <<st, exitQueued, backend, open, exits, overtaken, daemonVars, wire>>

\* reconnect's deadline: every terminal is reported as exited, every waiting
\* request fails, and a failed start reports its terminal once more.
GiveUp ==
    /\ May("giveUp")
    /\ phase = "down"
    /\ phase' = "off"
    /\ st' = [r \in Requests |-> IF r \in Waiting THEN "failed" ELSE st[r]]
    /\ exits' = exits + (IF backend THEN 1 ELSE 0) + (IF Spawn \in Waiting THEN 1 ELSE 0)
    /\ backend' = FALSE /\ open' = FALSE
    /\ UNCHANGED <<conn, exitQueued, overtaken, daemonVars, inbox, wire>>

\* A timer of sendRequest: the request fails though the daemon may have it.
Expire ==
    /\ May("timeout")
    /\ \E r \in Requests :
        /\ st[r] = "sent"
        /\ st' = [st EXCEPT ![r] = "failed"]
        /\ exits' = IF r = Spawn THEN exits + 1 ELSE exits
        /\ open' = (open /\ r # Spawn)
    /\ UNCHANGED <<phase, conn, exitQueued, backend, overtaken, daemonVars, inbox, wire>>

\* A response settles its request, if that is still pending.
ReadAnswer ==
    /\ wire # <<>> /\ Head(wire).id # ListId
    /\ LET r == Head(wire).id
           settles == st[r] = "sent"
           unstarted == settles /\ r = Spawn /\ Head(wire).result = "failed"
       IN  /\ st' = IF settles THEN [st EXCEPT ![r] = Head(wire).result] ELSE st
           /\ exits' = IF unstarted THEN exits + 1 ELSE exits
           /\ open' = (open /\ ~unstarted)
    /\ wire' = Tail(wire)
    /\ UNCHANGED <<phase, conn, exitQueued, backend, overtaken, daemonVars, inbox>>

\* An exit event, processed or queued.
ReadExit ==
    /\ wire # <<>> /\ Head(wire) = ExitEvent
    /\ IF phase = "syncing"
       THEN exitQueued' = TRUE /\ UNCHANGED <<backend, open, exits>>
       ELSE /\ exits' = IF backend THEN exits + 1 ELSE exits
            /\ open' = (open /\ ~backend)
            /\ backend' = FALSE
            /\ UNCHANGED exitQueued
    /\ wire' = Tail(wire)
    /\ UNCHANGED <<st, phase, conn, overtaken, daemonVars, inbox>>

\* The requests `again` in the order in which they were made.
InOrderOf(again) ==
    [i \in 1..Cardinality(again) |->
        CHOOSE r \in again : Cardinality({q \in again : q < r}) = i - 1]

Gone(result) == backend /\ (result = "absent" \/ exitQueued)
Resent(expired) == Waiting \ expired

\* The list's answer: reconcileBackends, the queued events, and then every
\* request that waited for the connection goes out, unless its time is up.
ReadList ==
    /\ wire # <<>> /\ Head(wire).id = ListId /\ Head(wire) # ExitEvent
    /\ phase' = "ready"
    /\ LET gone == Gone(Head(wire).result)
       IN  \E expired \in SUBSET (IF May("timeout") THEN Waiting ELSE {}) :
            LET again == Resent(expired)
                late  == Spawn \in expired
            IN  /\ st' = [r \in Requests |-> IF r \in again THEN "sent"
                                             ELSE IF r \in expired THEN "failed" ELSE st[r]]
                /\ inbox' = [inbox EXCEPT ![conn] = @ \o InOrderOf(again)]
                /\ exits' = exits + (IF gone THEN 1 ELSE 0) + (IF late THEN 1 ELSE 0)
                /\ backend' = (backend /\ ~gone)
                /\ open' = (open /\ ~gone /\ ~late)
    /\ exitQueued' = FALSE
    /\ wire' = Tail(wire)
    /\ UNCHANGED <<conn, overtaken, daemonVars>>

-----------------------------------------------------------------------------
\* The daemon.

Reply(c, m) == wire' = IF c = conn /\ Connected THEN Append(wire, m) ELSE wire

\* handleRequest: list.
HandleList(c) ==
    /\ Head(inbox[c]) = ListId
    /\ Reply(c, Answer(ListId, IF session = "running" THEN "listed" ELSE "absent"))
    /\ UNCHANGED daemonVars

\* A request id that has been answered before is answered the same again.
Known(r) == cache[r] # "none"
HandleKnown(c, r) ==
    /\ r = Head(inbox[c]) /\ r # ListId
    /\ Known(r)
    /\ Reply(c, Answer(r, cache[r]))
    /\ UNCHANGED daemonVars

Respond(c, r, result) ==
    /\ cache' = [cache EXCEPT ![r] = result]
    /\ Reply(c, Answer(r, result))

HandleSpawn(c) ==
    /\ Head(inbox[c]) = Spawn /\ ~Known(Spawn)
    /\ \E result \in {"ok"} \union (IF May("spawnFails") THEN {"failed"} ELSE {}) :
        /\ Respond(c, Spawn, result)
        /\ session' = IF result = "ok" THEN "running" ELSE session
    /\ UNCHANGED input

HandleWrite(c, r) ==
    /\ Head(inbox[c]) = r /\ r \in Typing /\ ~Known(r)
    /\ IF session = "running"
       THEN Respond(c, r, "ok") /\ input' = Append(input, r)
       ELSE Respond(c, r, "failed") /\ UNCHANGED input
    /\ UNCHANGED session

HandleKill(c) ==
    /\ Head(inbox[c]) = Kill /\ ~Known(Kill)
    /\ Respond(c, Kill, "ok")
    /\ session' = IF session = "running" THEN "over" ELSE session
    /\ UNCHANGED input

\* A connection's requests are handled one after the other, those of a closed
\* connection too.
Handle(c) ==
    /\ inbox[c] # <<>>
    /\ \/ HandleList(c) \/ HandleSpawn(c) \/ HandleKill(c)
       \/ \E r \in Requests : HandleKnown(c, r) \/ HandleWrite(c, r)
    /\ inbox' = [inbox EXCEPT ![c] = Tail(@)]
    /\ UNCHANGED clientVars

\* The program ends by itself: a killed session publishes no exit, this does.
PtyExit ==
    /\ session = "running"
    /\ session' = "over"
    /\ Reply(conn, ExitEvent)
    /\ UNCHANGED <<clientVars, cache, input, inbox>>

-----------------------------------------------------------------------------
Init ==
    /\ st = [r \in Requests |-> "new"]
    /\ phase = "ready" /\ conn = 1 /\ exitQueued = FALSE
    /\ inbox = [c \in Conns |-> <<>>] /\ wire = <<>>
    /\ session = "none" /\ cache = [r \in Requests |-> "none"] /\ input = <<>>
    /\ backend = FALSE /\ open = FALSE /\ exits = 0
    /\ overtaken = FALSE

Client == ReadAnswer \/ ReadExit \/ ReadList \/ Reconnect
Next ==
    \/ Create \/ Write \/ Close
    \/ Client \/ Drop \/ GiveUp \/ Expire
    \/ PtyExit
    \/ \E c \in Conns : Handle(c)

\* The event loops turn on both sides; users, programs and connections may do
\* as they please.
Fairness ==
    /\ WF_vars(Client)
    /\ \A c \in Conns : WF_vars(Handle(c))

Spec == Init /\ [][Next]_vars /\ Fairness

-----------------------------------------------------------------------------
\* Properties.

\* Every variable stays in the set of values it is meant to have.
TypeOK ==
    /\ st \in [Requests -> {"new", "waiting", "sent", "ok", "failed"}]
    /\ phase \in {"ready", "down", "syncing", "off"}
    /\ conn \in Conns
    /\ inbox \in [Conns -> Seq(Requests \union {ListId})]
    /\ wire \in Seq([id : Requests \union {ListId},
                     result : {"ok", "failed", "listed", "absent", "exit"}])
    /\ exitQueued \in BOOLEAN
    /\ session \in {"none", "running", "over"}
    /\ cache \in [Requests -> {"none", "ok", "failed"}]
    /\ input \in Seq(Typing)
    /\ backend \in BOOLEAN /\ open \in BOOLEAN
    /\ exits \in Nat /\ overtaken \in BOOLEAN

\* What is typed once reaches the program at most once, although requests are
\* sent again on every new connection and old connections drain late.
TypedOnce == \A i, j \in DOMAIN input : input[i] = input[j] => i = j

\* A write that is reported as accepted has reached the program.
AcceptedIsTyped == \A r \in Typing : st[r] = "ok" => \E i \in DOMAIN input : input[i] = r

\* So what is accepted is typed exactly once, and what is not, at most once.
AcceptedIsTypedOnce == TypedOnce /\ AcceptedIsTyped

\* Input reaches the program in the order it was typed.
TypedInOrder == \A i, j \in DOMAIN input : i < j => input[i] < input[j]

\* ... and is only out of order where the late input had been given up as
\* failed, or when a request was made while the client was synchronizing and
\* older ones were waiting to be sent again.
OnlyOvertakingReorders ==
    overtaken \/ \A i, j \in DOMAIN input :
        i < j => input[i] < input[j] \/ st[input[j]] = "failed"

\* The daemon starts the program at most once.
StartedOnce == [][session # "none" => session' # "none" /\ (session = "over" => session' = "over")]_vars

\* Once the client is told that the terminal is closed, the daemon does not run it.
KillIsFinal == st[Kill] = "ok" => session # "running"

\* The same, unless the request to close it has overtaken the one to start it,
\* or the start was given up as failed and carried out all the same.
KilledIsDead == KillIsFinal \/ overtaken \/ st[Spawn] = "failed"

\* The order of requests survives their repetition, with these exceptions.
OrderIsKept == OnlyOvertakingReorders /\ KilledIsDead

\* A terminal is reported as exited once, or it could not be started.
ExitReportedOnce == exits > 1 => st[Spawn] = "failed"

\* After a reconnection a program the daemon runs is still a terminal of the
\* client, not one it has reported as exited.
RunningIsKept == phase = "ready" /\ session = "running" => backend

\* Every request is answered, fails, or waits for a connection that is given up.
RequestsSettle == \A r \in Requests : Issued(r) ~> st[r] \in {"ok", "failed"}
=============================================================================
