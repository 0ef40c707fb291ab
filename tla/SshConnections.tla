---------------------------- MODULE SshConnections ----------------------------
(***************************************************************************)
(* SshConnectionManager: one Managed record per host, and the attempts to  *)
(* open an ssh2 transport for it, each with its generation.  The events of *)
(* a transport, the timers (idle, reconnection), the user's connect and    *)
(* disconnect, channels, holds, and a hop through a jump host interleave.  *)
(*                                                                         *)
(* An attempt's phases:                                                    *)
(*   config -> (jump) -> handshake -> ready -> closed                      *)
(* or unconfigured (no key, no password), failed (an error; its close is   *)
(* still to come), ended (end() called; its close is still to come).       *)
(***************************************************************************)
EXTENDS Naturals, FiniteSets

CONSTANTS
    Hosts,          \* saved hosts
    Jump,           \* the jump host of those that have one: Jump[h]
    AutoReconnect,  \* hosts whose lost transports are dialled again
    Delays,         \* length of reconnectDelays
    MaxGen          \* bound: generations per host

ASSUME HopAssumption == /\ DOMAIN Jump \subseteq Hosts
                        /\ \A h \in DOMAIN Jump : Jump[h] \in Hosts \ DOMAIN Jump
ASSUME BoundsAssumption == Delays \in Nat /\ MaxGen \in [Hosts -> Nat] /\ "user" \notin Hosts

Gens(h) == 1..MaxGen[h]
NoClient  == 0
NoPromise == 0
NoRide    == 0

VARIABLES
    m,      \* hosts: the Managed records
            \*   state, client, gen, attempts, intentional as in the code
            \*   promise   the generation connectPromise stands for
            \*   timer     m.reconnectTimer is armed
            \*   strays    timers still armed that m no longer refers to
            \*   idle      m.idleTimer is armed
            \*   opening   transports asked for a channel; channels those with one
            \*   holds     "user" (panels, forwards) and the hosts jumping through
            \*   rides     jumpHostId: the jump's transport the socket runs on
    tr      \* per host and generation, the phase of the attempt

vars == <<m, tr>>

Pending == {"config", "jump", "handshake"}
HasJump(h) == h \in DOMAIN Jump

-----------------------------------------------------------------------------
(* Slips.  Operators below with a word added to their name, changed the way  *)
(* a slip in the code would change them.  No action uses them; every         *)
(* property of a passing run is broken by one of them.                       *)

ScheduledUnarmed(ms, h) == [ms EXCEPT ![h].attempts = @ + 1, ![h].state = "reconnecting"]
CaughtIfFirst(ms, h) ==
    IF ms[h].state = "connecting" THEN [ms EXCEPT ![h].state = "disconnected"] ELSE ms
TornSameGeneration(ms, h) ==
    [ms EXCEPT ![h].intentional = TRUE, ![h].timer = FALSE, ![h].idle = FALSE,
               ![h].client = NoClient, ![h].promise = NoPromise, ![h].channels = {},
               ![h].holds = {}, ![h].state = "disconnected"]
WantedAnyway(h, g) == TRUE

-----------------------------------------------------------------------------
\* Helpers map all records `ms` to the next ones.

IsIdle(r) == r.channels = {} /\ r.holds = {} /\ r.state = "connected"

\* armIdleTimer, where the code asks isIdle first.
ArmIfIdle(ms, h) == IF IsIdle(ms[h]) THEN [ms EXCEPT ![h].idle = TRUE] ELSE ms

\* hold and release.
HoldFor(ms, h, token) ==
    [ms EXCEPT ![h].holds = @ \union {token}, ![h].idle = FALSE]
ReleaseFor(ms, h, token) ==
    IF token \notin ms[h].holds THEN ms
    ELSE ArmIfIdle([ms EXCEPT ![h].holds = @ \ {token}], h)

\* releaseJump.
ReleaseJump(ms, h) ==
    IF ms[h].rides = NoRide THEN ms
    ELSE ReleaseFor([ms EXCEPT ![h].rides = NoRide], Jump[h], h)

\* openTransport, up to its first await.
Opened(ms, h) ==
    [ms EXCEPT ![h].gen = @ + 1,
               ![h].state = IF ms[h].attempts > 0 THEN "reconnecting" ELSE "connecting"]
NewAttempt(h) == [tr EXCEPT ![h][m[h].gen + 1] = "config"]

\* connect, when neither a transport nor an attempt is there to be shared.
Shared(r) == (r.state = "connected" /\ r.client # NoClient) \/ r.promise # NoPromise
Dialled(ms, h) ==
    Opened([ms EXCEPT ![h].timer = FALSE, ![h].intentional = FALSE,
                      ![h].attempts = 0, ![h].promise = ms[h].gen + 1], h)

\* connect's finally: the promise is cleared unless a newer one replaced it.
Settle(ms, h, g) ==
    IF ms[h].promise = g THEN [ms EXCEPT ![h].promise = NoPromise] ELSE ms

\* scheduleReconnect, or the state its callers set when it declines.
MayReconnect(r, h) == h \in AutoReconnect /\ ~r.intentional /\ r.attempts < Delays
Scheduled(ms, h) ==
    IF MayReconnect(ms[h], h)
    THEN [ms EXCEPT ![h].attempts = @ + 1, ![h].state = "reconnecting",
                    ![h].timer = TRUE,
                    ![h].strays = @ + (IF ms[h].timer THEN 1 ELSE 0)]
    ELSE [ms EXCEPT ![h].state = "disconnected"]

\* The catch of openTransport, for an attempt that is still the current one.
Caught(ms, h) ==
    IF ms[h].state \in {"connecting", "reconnecting"} THEN Scheduled(ms, h) ELSE ms

\* handleTransportClose.
Lost(ms, h, wasReady) ==
    LET released == ReleaseJump([ms EXCEPT ![h].client = NoClient, ![h].channels = {},
                                           ![h].idle = FALSE], h)
    IN  IF ms[h].intentional THEN ms
        ELSE IF ~wasReady THEN released
        ELSE IF ms[h].holds = {} THEN [released EXCEPT ![h].state = "disconnected"]
        ELSE Scheduled(released, h)

\* disconnect.
Torn(ms, h) ==
    LET cleared == [ms EXCEPT ![h].intentional = TRUE, ![h].timer = FALSE,
                              ![h].idle = FALSE, ![h].client = NoClient,
                              ![h].gen = @ + 1, ![h].promise = NoPromise,
                              ![h].channels = {}, ![h].holds = {}]
    IN  [ReleaseJump(cleared, h) EXCEPT ![h].state = "disconnected"]
EndClient(h) ==
    IF m[h].client # NoClient /\ tr[h][m[h].client] = "ready"
    THEN [tr EXCEPT ![h][m[h].client] = "ended"] ELSE tr

-----------------------------------------------------------------------------
\* The user, and what the user has open.

Connect(h) ==
    /\ ~Shared(m[h])
    /\ m[h].gen < MaxGen[h]
    /\ m' = Dialled(m, h)
    /\ tr' = NewAttempt(h)

Disconnect(h) ==
    /\ m[h].gen \in 1..(MaxGen[h] - 1)
    /\ m' = Torn(m, h)
    /\ tr' = EndClient(h)

Hold(h) ==
    /\ m[h].gen > 0
    /\ m' = HoldFor(m, h, "user")
    /\ UNCHANGED tr

Release(h) ==
    /\ "user" \in m[h].holds
    /\ m' = ReleaseFor(m, h, "user")
    /\ UNCHANGED tr

\* openShell or exec: the client is read, then asked for a channel.
OpenChannel(h) ==
    /\ m[h].state = "connected" /\ m[h].client # NoClient
    /\ m' = [m EXCEPT ![h].opening = @ \union {m[h].client}]
    /\ UNCHANGED tr

\* The answer: also one that was on its way when the transport was ended.
ChannelOpened(h, g) ==
    /\ g \in m[h].opening
    /\ \/ /\ tr[h][g] \in {"ready", "ended"}
          /\ m' = [m EXCEPT ![h].opening = @ \ {g}, ![h].channels = @ \union {g},
                            ![h].idle = FALSE]
       \/ m' = [m EXCEPT ![h].opening = @ \ {g}]
    /\ UNCHANGED tr

\* untrackChannel.
ChannelClosed(h, g) ==
    /\ g \in m[h].channels
    /\ m' = ArmIfIdle([m EXCEPT ![h].channels = @ \ {g}], h)
    /\ UNCHANGED tr

-----------------------------------------------------------------------------
\* An attempt.

\* buildConnectConfig fails (no agent, no key, the prompt was cancelled):
\* openTransport rejects before the part whose failures it handles.
Misconfigured(h, g) ==
    /\ tr[h][g] = "config"
    /\ tr' = [tr EXCEPT ![h][g] = "unconfigured"]
    /\ m' = Settle(m, h, g)

\* It succeeds: connect the socket, or connect the jump host first.
Configured(h, g) ==
    /\ tr[h][g] = "config"
    /\ \/ /\ ~HasJump(h)
          /\ tr' = [tr EXCEPT ![h][g] = "handshake"]
          /\ UNCHANGED m
       \/ /\ HasJump(h) /\ Shared(m[Jump[h]])
          /\ tr' = [tr EXCEPT ![h][g] = "jump"]
          /\ UNCHANGED m
       \/ /\ HasJump(h) /\ ~Shared(m[Jump[h]])
          /\ m[Jump[h]].gen < MaxGen[Jump[h]]
          /\ tr' = [NewAttempt(Jump[h]) EXCEPT ![h][g] = "jump"]
          /\ m' = Dialled(m, Jump[h])

\* openJumpSocket fails, before the part of openTransport that knows of
\* generations: the state is set for whatever attempt is the current one.
JumpFails(h, g) ==
    /\ tr[h][g] = "jump"
    /\ tr' = [tr EXCEPT ![h][g] = "closed"]
    /\ m' = Settle([m EXCEPT ![h].state = "disconnected"], h, g)

\* openJumpSocket's check after its wait for the stream.
StillWanted(h, g) == m[h].gen = g /\ ~m[h].intentional

\* openJumpSocket has its stream.
JumpStream(h, g) ==
    /\ tr[h][g] = "jump"
    /\ m[Jump[h]].client # NoClient
    /\ tr[Jump[h]][m[Jump[h]].client] = "ready"
    /\ StillWanted(h, g)
    /\ tr' = [tr EXCEPT ![h][g] = "handshake"]
    /\ m' = HoldFor([m EXCEPT ![h].rides = m[Jump[h]].client], Jump[h], h)

\* 'ready'.
Ready(h, g) ==
    /\ tr[h][g] = "handshake"
    /\ IF m[h].gen # g
       THEN /\ tr' = [tr EXCEPT ![h][g] = "ended"]
            /\ m' = Settle(m, h, g)
       ELSE /\ tr' = [tr EXCEPT ![h][g] = "ready"]
            /\ m' = ArmIfIdle(
                      Settle([m EXCEPT ![h].client = g, ![h].attempts = 0,
                                       ![h].state = "connected"], h, g), h)

\* 'error' in the handshake; 'close' follows.
HandshakeError(h, g) ==
    /\ tr[h][g] = "handshake"
    /\ tr' = [tr EXCEPT ![h][g] = IF m[h].gen # g THEN "ended" ELSE "failed"]
    /\ m' = Settle(IF m[h].gen # g THEN m ELSE Caught(m, h), h, g)

\* 'close'.
Close(h, g) ==
    /\ tr[h][g] \in {"handshake", "failed", "ready", "ended"}
    /\ tr' = [tr EXCEPT ![h][g] = "closed"]
    /\ m' = IF m[h].gen # g THEN Settle(m, h, g)
            ELSE IF tr[h][g] = "handshake"
            THEN Settle(Caught(Lost(m, h, FALSE), h), h, g)
            ELSE Lost(m, h, TRUE)

\* The check of a reconnection timer's callback.
Redials(h) == ~m[h].intentional

\* A reconnection timer, whichever: it forgets the one m refers to.
ReconnectTimer(h) ==
    /\ m[h].gen < MaxGen[h]
    /\ \E stray \in BOOLEAN :
        /\ IF stray THEN m[h].strays > 0 ELSE m[h].timer
        /\ LET fired == [m EXCEPT ![h].timer = FALSE,
                                  ![h].strays = IF stray /\ ~m[h].timer THEN @ - 1 ELSE @]
           IN  IF Redials(h)
               THEN m' = Opened(fired, h) /\ tr' = NewAttempt(h)
               ELSE m' = fired /\ UNCHANGED tr

\* The idle timer.
IdleTimer(h) ==
    /\ m[h].idle
    /\ m[h].gen < MaxGen[h]
    /\ LET fired == [m EXCEPT ![h].idle = FALSE]
       IN  IF IsIdle(m[h]) THEN m' = Torn(fired, h) /\ tr' = EndClient(h)
           ELSE m' = fired /\ UNCHANGED tr

-----------------------------------------------------------------------------
Unmanaged == [state |-> "disconnected", client |-> NoClient, gen |-> 0, attempts |-> 0,
              timer |-> FALSE, strays |-> 0, idle |-> FALSE, intentional |-> FALSE,
              promise |-> NoPromise, opening |-> {}, channels |-> {}, holds |-> {},
              rides |-> NoRide]

Init ==
    /\ m = [h \in Hosts |-> Unmanaged]
    /\ tr = [h \in Hosts |-> [g \in Gens(h) |-> "none"]]

User(h) == Connect(h) \/ Disconnect(h) \/ Hold(h) \/ Release(h) \/ OpenChannel(h)
Attempt(h, g) ==
    \/ Misconfigured(h, g) \/ Configured(h, g)
    \/ JumpFails(h, g) \/ JumpStream(h, g)
    \/ Ready(h, g) \/ HandshakeError(h, g) \/ Close(h, g)
Channel(h, g) == ChannelOpened(h, g) \/ ChannelClosed(h, g)
Timer(h) == ReconnectTimer(h) \/ IdleTimer(h)
Next ==
    \E h \in Hosts :
        \/ User(h) \/ Timer(h)
        \/ \E g \in Gens(h) : Attempt(h, g) \/ Channel(h, g)

\* Prompts are answered or time out, readyTimeout ends a handshake, timers fire
\* and an ended transport closes.  A transport that is up may stay up.
Fairness ==
    \A h \in Hosts :
        /\ WF_vars(Timer(h))
        /\ \A g \in Gens(h) : WF_vars(tr[h][g] # "ready" /\ Attempt(h, g))

Spec == Init /\ [][Next]_vars /\ Fairness

-----------------------------------------------------------------------------
\* Properties.

Managed == [state : {"disconnected", "connecting", "connected", "reconnecting"},
            client : Nat, gen : Nat, attempts : 0..Delays,
            timer : BOOLEAN, strays : Nat, idle : BOOLEAN, intentional : BOOLEAN,
            promise : Nat, opening : SUBSET Nat, channels : SUBSET Nat,
            holds : SUBSET (Hosts \union {"user"}), rides : Nat]
Phases == Pending \union {"none", "unconfigured", "ready", "failed", "ended", "closed"}

\* Every variable stays in the set of values it is meant to have.
TypeOK ==
    /\ m \in [Hosts -> Managed]
    /\ \A h \in Hosts : m[h].gen <= MaxGen[h] /\ tr[h] \in [Gens(h) -> Phases]

\* A connected host that nobody uses is about to be disconnected: whatever the
\* order in which channels, holds and jumps come and go, the last one to leave
\* arms the timer.
IdleIsArmed == \A h \in Hosts : IsIdle(m[h]) => m[h].idle

\* ... and the timer never runs while somebody uses the connection.
BusyIsNotIdle ==
    \A h \in Hosts : m[h].idle => m[h].channels = {} /\ m[h].holds = {}

\* A host is only shown as connected when the transport of its latest
\* generation is up and is the one its channels are opened on.
ConnectedIsLive ==
    \A h \in Hosts : m[h].state = "connected" =>
        m[h].client = m[h].gen /\ m[h].gen \in Gens(h) /\ tr[h][m[h].gen] = "ready"

\* A disconnect is undone by a connect and by nothing else: nothing that was
\* still under way (a prompt, a jump, a handshake, a timer) connects the host,
\* shows it as anything else or starts another attempt.
DisconnectIsFinal ==
    [][\A h \in Hosts : m'[h].intentional =>
        /\ m'[h].state = "disconnected"
        /\ m'[h].client = NoClient /\ m'[h].promise = NoPromise
        /\ m[h].intentional =>
            \A g \in Gens(h) : tr[h][g] = "none" => tr'[h][g] = "none"]_vars

\* The jump host is held for as long as its transport carries the rider's
\* socket, so it does not idle out under it.
RideIsHeld ==
    \A h \in DOMAIN Jump : m[h].rides # NoRide /\ m[Jump[h]].client = m[h].rides =>
        h \in m[Jump[h]].holds

\* A disconnected rider has let go of its jump host, and a late stream does
\* not take hold of it again.
RideIsReleased ==
    \A h \in DOMAIN Jump : m[h].intentional => h \notin m[Jump[h]].holds

\* A connection is kept as long as a channel or a host that rides on it uses
\* it, and no longer: the idle timer runs exactly while nobody does, and hosts
\* neither lose nor leak the jump host they ride on.
UseIsCounted == IdleIsArmed /\ BusyIsNotIdle /\ RideIsHeld /\ RideIsReleased

\* connect() never returns a promise that nothing will settle: a superseded
\* attempt that stays unsettled would wedge the host.
PromiseIsPending ==
    \A h \in Hosts : m[h].promise # NoPromise => tr[h][m[h].promise] \in Pending

\* A host shown as connecting or reconnecting has an attempt under way or a
\* timer to start one, unless its attempt could not even be configured.
ProgressIsDriven ==
    \A h \in Hosts : m[h].state \in {"connecting", "reconnecting"} =>
        \/ m[h].timer \/ m[h].strays > 0
        \/ tr[h][m[h].gen] \in Pending \union {"unconfigured"}

\* What is shown, and what connect() promised, is backed by a transport that
\* is up or by somebody at work on one.
ShownIsTrue == ConnectedIsLive /\ ProgressIsDriven /\ PromiseIsPending

\* ssh.connect: "progress and outcome stream via the ssh.state event".
OutcomeIsShown ==
    \A h \in Hosts : m[h].state \in {"connecting", "reconnecting"} =>
        \/ m[h].timer \/ m[h].strays > 0
        \/ tr[h][m[h].gen] \in Pending

\* "One ssh2 transport per host": a transport that is up is the one in use.
OneTransport ==
    \A h \in Hosts : \A g \in Gens(h) : tr[h][g] = "ready" => m[h].client = g

\* Dialling comes to an end: connected, disconnected, or not configurable.
\* (A host at the bound of its generations may be left without a timer.)
DiallingEnds ==
    \A h \in Hosts : m[h].state \in {"connecting", "reconnecting"} ~>
        \/ m[h].state \in {"connected", "disconnected"}
        \/ m[h].gen = MaxGen[h]
        \/ tr[h][m[h].gen] = "unconfigured"
=============================================================================
