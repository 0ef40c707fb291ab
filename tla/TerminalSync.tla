---------------------------- MODULE TerminalSync ----------------------------
(***************************************************************************)
(* The output of one terminal hosted by the terminal daemon, on its way to *)
(* the two places that show it:                                            *)
(*                                                                         *)
(*   PTY -> HostedTerminal (daemon) -> socket -> DaemonTerminalBackend and *)
(*   TerminalManager (main process) -> TerminalOutputDispatcher -> IPC ->  *)
(*   TerminalPanel (renderer)                                              *)
(*                                                                         *)
(* The PTY's emissions are numbered by the daemon.  A view is the sequence *)
(* of the numbers it shows.  A dropped connection, and a restart of the    *)
(* application, are repaired by a full replay (snapshot) that each stage   *)
(* weighs against live data by sequence number.                            *)
(*                                                                         *)
(* One terminal is enough: terminals share the connection and a serial     *)
(* queue of refreshes, and no state of one reads that of another.          *)
(***************************************************************************)
EXTENDS Integers, Sequences, SequencesExt

CONSTANTS
    MaxSeq,     \* bound: emissions of the PTY
    MaxDrops,   \* bound: losses of the connection
    Races       \* the coincidences of timing a run allows, out of:
                \*   "coalesce"  several emissions share one message
                \*   "chunk"     several messages arrive in one socket chunk
                \*   "slice"     the headless emulator parses in time slices
                \*   "timeout"   a snapshot takes longer than its deadline
                \*   "giveUp"    the daemon stays unreachable for 8 s

ASSUME BoundsAssumption == MaxSeq \in Nat /\ MaxSeq > 0 /\ MaxDrops \in Nat

VARIABLES
    produced,   \* HostedTerminal.sequence: emissions of the PTY so far
    published,  \* emissions flushed to the connections (the rest is pendingOutput)
    ended,      \* the PTY has exited and the daemon has dropped the session
    up,         \* the daemon holds an authenticated connection
    asked,      \* the client's request the daemon has yet to take
    barrier,    \* emissions the emulator held when the snapshot was requested
    wire,       \* messages from the daemon to the client, in order
    client,     \* the main process: client, backend, manager and dispatcher
                \* (history: replayed, the sequence of the last replay, and
                \* missed, whether a refresh has timed out since the last list)
    reply,      \* the answer to terminal.list on its way to the renderer
    view,       \* the renderer's terminal item
    drops       \* connections lost so far

daemonVars == <<produced, published, ended>>
linkVars   == <<up, asked, barrier, wire>>
viewVars   == <<reply, view>>
vars == <<daemonVars, linkVars, client, viewVars, drops>>

NoReply   == [seq |-> -1, out |-> <<>>]
NoBarrier == -1
UpTo(n)   == [i \in 1..n |-> i]
Larger(m, n) == IF m > n THEN m ELSE n
May(race) == race \in Races

-----------------------------------------------------------------------------
(* Slips.  Operators below with a word added to their name, changed the way  *)
(* a slip in the code would change them.  No action uses them; every         *)
(* property of a passing run is broken by one of them.                       *)

NewerAlways(c, e) == TRUE
MissedBefore(c, list) == c.replayPending
AppliesIfNewer(c, s) == s.seq > c.cur
GoneIfFalsy(list) == list.seq <= 0

-----------------------------------------------------------------------------
Data(out) == [type |-> "data", seq |-> Last(out), out |-> out]
Exited == [type |-> "exit", seq |-> 0, out |-> <<>>]
Listed == [type |-> "list", seq |-> IF ended THEN -1 ELSE produced, out |-> <<>>]
Snapshot(seq, out) == [type |-> "snapshot", seq |-> seq, out |-> out]
Unknown == [type |-> "error", seq |-> 0, out |-> <<>>]
IsEvent(m) == m.type \in {"data", "exit"}

\* Joins queued parts into deliveries: each on its own, or all in one.
Outs(parts)  == FlattenSeq([i \in DOMAIN parts |-> parts[i].out])
Joined(parts) ==
    IF parts = <<>> THEN <<>>
    ELSE IF May("coalesce") THEN <<Data(Outs(parts))>>
    ELSE parts

-----------------------------------------------------------------------------
\* The daemon.

\* HostedTerminal.handleData.
Emit ==
    /\ ~ended
    /\ produced < MaxSeq
    /\ produced' = produced + 1
    /\ UNCHANGED <<published, ended, linkVars, client, viewVars, drops>>

PendingOutput == [i \in 1..(produced - published) |-> Data(<<published + i>>)]
Sent(messages) == IF up THEN wire \o messages ELSE wire

\* HostedTerminal.flushOutput: one publication, to whoever is connected.
Flush ==
    /\ ~ended
    /\ \E n \in 1..(IF May("coalesce") THEN produced - published ELSE 1) :
        /\ published + n <= produced
        /\ published' = published + n
        /\ wire' = Sent(Joined(SubSeq(PendingOutput, 1, n)))
    /\ UNCHANGED <<produced, ended, up, asked, barrier, client, viewVars, drops>>

\* The PTY exits: what is pending goes out, then the exit; the session and its
\* emulator are dropped, so a snapshot under way never completes.
Exit ==
    /\ ~ended
    /\ ended' = TRUE
    /\ published' = produced
    /\ wire' = Sent(Append(Joined(PendingOutput), Exited))
    /\ barrier' = NoBarrier
    /\ UNCHANGED <<produced, up, asked, client, viewVars, drops>>

\* handleRequest of a list: descriptors without replay (-1: not among them).
AnswerList ==
    /\ up /\ asked = "list"
    /\ asked' = "none"
    /\ wire' = Append(wire, Listed)
    /\ UNCHANGED <<daemonVars, up, barrier, client, viewVars, drops>>

\* handleRequest of a snapshot, up to its wait for the emulator.
TakeSnapshot ==
    /\ up /\ asked = "snapshot"
    /\ asked' = "none"
    /\ IF ended
       THEN wire' = Append(wire, Unknown) /\ UNCHANGED barrier
       ELSE barrier' = produced /\ UNCHANGED wire
    /\ UNCHANGED <<daemonVars, up, client, viewVars, drops>>

\* ... and from there: the sequence is read now, the replay is what the
\* emulator has parsed, which is all it was given unless it was cut short.
AnswerSnapshot ==
    /\ barrier # NoBarrier
    /\ \E parsed \in (IF May("slice") THEN barrier..produced ELSE {produced}) :
        wire' = Append(wire, Snapshot(produced, UpTo(parsed)))
    /\ barrier' = NoBarrier
    /\ UNCHANGED <<daemonVars, up, asked, client, viewVars, drops>>

-----------------------------------------------------------------------------
\* The main process.  The operators below map one value of `client` to the
\* next; a socket chunk and the promise callbacks it triggers are one step.

\* DaemonTerminalBackend.emitExit, its removal, and the dispatcher's flush.
EmitExit(c) ==
    [c EXCEPT !.alive = FALSE, !.exits = @ + 1,
              !.ipc = @ \o Joined(c.lane), !.lane = <<>>]

\* processEvent.
Newer(c, e) == e.seq > c.cur
ProcessEvent(c, e) ==
    CASE ~c.alive -> c
      [] c.alive /\ e.type = "exit" -> EmitExit(c)
      [] c.alive /\ e.type = "data" ->
            IF Newer(c, e)
            THEN [c EXCEPT !.cur = e.seq, !.screen = @ \o e.out, !.lane = Append(@, e)]
            ELSE c

\* handleData, of one message: before the terminal is adopted its events find no
\* backend, while the client synchronizes they are queued.
Handle(c, m) ==
    CASE IsEvent(m) /\ c.phase = "boot" ->
            IF m.type = "exit" THEN [c EXCEPT !.phase = "off"] ELSE c
      [] IsEvent(m) /\ c.phase = "syncing" -> [c EXCEPT !.queued = Append(@, m)]
      [] IsEvent(m) /\ c.phase = "ready" -> ProcessEvent(c, m)
      [] OTHER -> c

\* The client when it has handled the messages, one after the other.
HandleAll(c, messages) ==
    LET after[n \in 0..Len(messages)] ==
            IF n = 0 THEN c ELSE Handle(after[n - 1], messages[n])
    IN  after[Len(messages)]

\* applySnapshot; a resync replaces the manager's screen and resets the
\* dispatcher before it is broadcast.
Applies(c, s) == c.replayPending \/ s.seq > c.cur
ApplySnapshot(c, s) ==
    IF ~c.alive THEN c
    ELSE IF Applies(c, s)
    THEN [c EXCEPT !.cur = s.seq, !.screen = s.out, !.lane = <<>>,
                   !.ipc = Append(@, s), !.replayPending = FALSE, !.replayed = s.seq]
    ELSE [c EXCEPT !.replayPending = FALSE]

\* reconcileBackends.
Gone(list) == list.seq = -1
Missed(c, list) == c.replayPending \/ list.seq > c.cur
Reconcile(c, list) ==
    IF ~c.alive THEN c
    ELSE IF Gone(list)
    THEN IF Exited \in ToSet(c.queued) THEN c ELSE EmitExit(c)
    ELSE [c EXCEPT !.replayPending = Missed(c, list)]

\* enqueueSnapshotRefresh: at most one request runs and one waits.
Enqueue(c) ==
    IF c.running THEN [c EXCEPT !.again = TRUE]
    ELSE [c EXCEPT !.running = TRUE, !.missed = FALSE]

\* drainSnapshotRefreshes, when a refresh has returned or failed.
NextRefresh(c) == [c EXCEPT !.running = c.again, !.again = FALSE]

\* flushQueuedEvents.
FlushQueued(c) == HandleAll([c EXCEPT !.queued = <<>>, !.phase = "ready"], c.queued)

\* The rest of reconnect once the list has been answered.
Synchronize(c, list) ==
    LET flushed == FlushQueued(Reconcile(c, list))
    IN  IF flushed.alive /\ ~Gone(list) THEN Enqueue(flushed) ELSE flushed

\* What a response resumes: reconnect, or refreshBackend and the queue behind it.
Resume(c, m) ==
    IF c.phase = "syncing" THEN Synchronize(c, m)
    ELSE NextRefresh(IF m.type = "snapshot" THEN ApplySnapshot(c, m) ELSE c)

\* backendForRestored: the terminal is adopted with its descriptor's sequence.
Adopt ==
    /\ client.phase = "boot"
    /\ client' = Enqueue([client EXCEPT !.phase = "ready", !.alive = TRUE])
    /\ asked' = "snapshot"
    /\ UNCHANGED <<daemonVars, up, barrier, wire, viewVars, drops>>

\* handleData: what a response resumes runs when the whole chunk has been handled.
Read ==
    /\ client.phase \in {"boot", "syncing", "ready"}
    /\ \E n \in 1..(IF May("chunk") THEN Len(wire) ELSE 1) :
        LET chunk     == SubSeq(wire, 1, n)
            handled   == HandleAll(client, chunk)
            responses == {m \in ToSet(chunk) : ~IsEvent(m)}
        IN  /\ n <= Len(wire)
            /\ wire' = SubSeq(wire, n + 1, Len(wire))
            /\ \/ /\ responses = {}
                  /\ client' = handled
                  /\ UNCHANGED asked
               \/ \E m \in responses :
                  /\ client' = Resume(handled, m)
                  /\ asked' = IF client'.running THEN "snapshot" ELSE asked
    /\ UNCHANGED <<daemonVars, up, barrier, viewVars, drops>>

\* The socket is lost with everything on it: handleClose, and reconnect's
\* catch when it was synchronizing.  A refresh under way stays to be resent.
Drop ==
    /\ up /\ client.phase \in {"opening", "syncing", "ready"}
    /\ drops < MaxDrops
    /\ drops' = drops + 1
    /\ up' = FALSE /\ asked' = "none" /\ barrier' = NoBarrier /\ wire' = <<>>
    /\ client' = [client EXCEPT !.phase = "down", !.queued = <<>>]
    /\ UNCHANGED <<daemonVars, viewVars>>

\* reconnect: open a socket and authenticate.  From here the daemon publishes.
Open ==
    /\ client.phase = "down"
    /\ up' = TRUE
    /\ client' = [client EXCEPT !.phase = "opening"]
    /\ UNCHANGED <<daemonVars, asked, barrier, wire, viewVars, drops>>

\* attachSocket and the list request.  open's own listener has thrown away
\* what shared a chunk with the answer to hello.
Attach ==
    /\ client.phase = "opening"
    /\ \E n \in 0..Len(wire) : wire' = SubSeq(wire, n + 1, Len(wire))
    /\ client' = [client EXCEPT !.phase = "syncing", !.queued = <<>>]
    /\ asked' = "list"
    /\ UNCHANGED <<daemonVars, up, barrier, viewVars, drops>>

\* reconnect's deadline: every terminal is reported as exited.
GiveUp ==
    /\ May("giveUp")
    /\ client.phase = "down"
    /\ client' = [(IF client.alive THEN EmitExit(client) ELSE client)
                     EXCEPT !.phase = "off", !.running = FALSE, !.again = FALSE]
    /\ UNCHANGED <<daemonVars, linkVars, viewVars, drops>>

\* A refresh misses its 8 s: refreshBackend's failure is ignored, a late
\* answer finds no pending request.
Answers == {i \in DOMAIN wire : ~IsEvent(wire[i])}
RefreshTimesOut ==
    /\ May("timeout")
    /\ client.running /\ client.phase = "ready"
    /\ client' = [NextRefresh(client) EXCEPT !.missed = TRUE]
    /\ asked' = IF client.again THEN "snapshot" ELSE "none"
    /\ barrier' = NoBarrier
    /\ \/ Answers = {} /\ UNCHANGED wire
       \/ \E i \in Answers : wire' = RemoveAt(wire, i)
    /\ UNCHANGED <<daemonVars, up, viewVars, drops>>

\* TerminalOutputDispatcher.drain: one delivery to the renderer.
Deliver ==
    /\ client.lane # <<>>
    /\ \E n \in 1..(IF May("coalesce") THEN Len(client.lane) ELSE 1) :
        client' = [client EXCEPT !.ipc  = @ \o Joined(SubSeq(client.lane, 1, n)),
                                 !.lane = SubSeq(@, n + 1, Len(@))]
    /\ UNCHANGED <<daemonVars, linkVars, viewVars, drops>>

-----------------------------------------------------------------------------
\* The renderer.

\* terminal.list, answered by the main process while it has the terminal.
List ==
    /\ ~view.adopted /\ ~view.listed
    /\ client.alive
    /\ reply' = [seq |-> client.cur, out |-> client.screen]
    /\ view' = [view EXCEPT !.listed = TRUE]
    /\ UNCHANGED <<daemonVars, linkVars, client, drops>>

\* The answer arrives: the early output that it does not cover is appended to it.
Uncovered(e) == e.seq > reply.seq
Added(a, e) ==
    [shows   |-> IF Uncovered(e) THEN a.shows \o e.out ELSE a.shows,
     covered |-> Larger(a.covered, e.seq)]
Adopted(early) ==
    LET after[n \in 0..Len(early)] ==
            IF n = 0 THEN [shows |-> reply.out, covered |-> reply.seq]
            ELSE Added(after[n - 1], early[n])
    IN  after[Len(early)]

Adoption ==
    /\ reply # NoReply
    /\ view' = [view EXCEPT !.adopted = TRUE, !.early = <<>>,
                            !.shows   = Adopted(view.early).shows,
                            !.covered = Adopted(view.early).covered]
    /\ reply' = NoReply
    /\ UNCHANGED <<daemonVars, linkVars, client, drops>>

\* The terminal.data and terminal.resync handlers.
Covered(m) == m.seq <= view.covered
Receive ==
    /\ client.ipc # <<>>
    /\ LET m == Head(client.ipc)
       IN  \/ /\ m.type = "data" /\ ~view.adopted
              /\ view' = [view EXCEPT !.early = Append(@, m)]
           \/ /\ m.type = "data" /\ view.adopted
              /\ view' = IF Covered(m) THEN view
                         ELSE [view EXCEPT !.covered = m.seq, !.shows = @ \o m.out]
           \/ /\ m.type = "snapshot"
              /\ view' = IF ~view.adopted \/ Covered(m) THEN view
                         ELSE [view EXCEPT !.covered = m.seq, !.shows = m.out]
    /\ client' = [client EXCEPT !.ipc = Tail(@)]
    /\ UNCHANGED <<daemonVars, linkVars, reply, drops>>

-----------------------------------------------------------------------------
\* Either the application has started next to a daemon whose terminal has
\* already printed, or it has just created the terminal.
Init ==
    /\ produced \in 0..1
    /\ published = produced
    /\ ended = FALSE
    /\ up = TRUE /\ asked = "none" /\ barrier = NoBarrier /\ wire = <<>>
    /\ \E restored \in BOOLEAN :
        /\ restored \/ produced = 0
        /\ client = [phase  |-> IF restored THEN "boot" ELSE "ready",
                     alive  |-> ~restored, queued |-> <<>>, cur |-> produced,
                     replayPending |-> restored, replayed |-> produced,
                     running |-> FALSE, again |-> FALSE, missed |-> FALSE, exits |-> 0,
                     screen |-> <<>>, lane |-> <<>>, ipc |-> <<>>]
    /\ reply = NoReply
    /\ view = [listed |-> FALSE, adopted |-> FALSE, early |-> <<>>,
               covered |-> 0, shows |-> <<>>]
    /\ drops = 0

Main == Adopt \/ Read \/ Open \/ Attach \/ GiveUp \/ RefreshTimesOut \/ Deliver
Daemon == Emit \/ Flush \/ Exit \/ AnswerList \/ TakeSnapshot \/ AnswerSnapshot
Renderer == List \/ Adoption \/ Receive
Next == Main \/ Daemon \/ Drop \/ Renderer

\* Sockets deliver, timers fire and the event loops turn; nothing obliges the
\* PTY to print or to exit, or a connection to break.
Fairness ==
    /\ WF_vars(Flush) /\ WF_vars(AnswerList)
    /\ WF_vars(TakeSnapshot) /\ WF_vars(AnswerSnapshot)
    /\ WF_vars(Adopt) /\ WF_vars(Read) /\ WF_vars(Open) /\ WF_vars(Attach)
    /\ WF_vars(Deliver)
    /\ WF_vars(Renderer)

Spec == Init /\ [][Next]_vars /\ Fairness

-----------------------------------------------------------------------------
\* Properties.

Emissions == 1..MaxSeq
Messages == [type : {"data", "exit", "list", "snapshot", "error"},
             seq : -1..MaxSeq, out : Seq(Emissions)]
Clients == [phase : {"boot", "ready", "down", "opening", "syncing", "off"},
            alive : BOOLEAN, queued : Seq(Messages),
            cur : 0..MaxSeq, replayed : 0..MaxSeq,
            replayPending : BOOLEAN, running : BOOLEAN, again : BOOLEAN,
            missed : BOOLEAN, exits : Nat, screen : Seq(Emissions),
            lane : Seq(Messages), ipc : Seq(Messages)]
Replies == [seq : -1..MaxSeq, out : Seq(Emissions)]
Views == [listed : BOOLEAN, adopted : BOOLEAN, early : Seq(Messages),
          covered : 0..MaxSeq, shows : Seq(Emissions)]

\* Every variable stays in the set of values it is meant to have.
TypeOK ==
    /\ produced \in 0..MaxSeq /\ published \in 0..produced /\ ended \in BOOLEAN
    /\ up \in BOOLEAN /\ asked \in {"none", "list", "snapshot"}
    /\ barrier \in -1..produced
    /\ wire \in Seq(Messages)
    /\ client \in Clients
    /\ reply \in Replies
    /\ view \in Views
    /\ drops \in 0..MaxDrops

InOrder(s) == \A i, j \in DOMAIN s : i < j => s[i] < s[j]

\* What the main process shows of a terminal, live output and replays taken
\* together, never repeats an emission and never shows one after a later one.
ScreenInOrder == InOrder(client.screen)

\* The same holds of the renderer's terminal, whichever of the list's answer,
\* the early output and the resyncs come first.
ViewInOrder == InOrder(view.shows)

\* Neither shows anything twice or out of order.
OutputInOrder == ScreenInOrder /\ ViewInOrder

\* Unless a replay is still owed, the main process shows everything up to the
\* sequence it compares live output with: no gap hides behind the number.
ScreenComplete == client.alive /\ ~client.replayPending => client.screen = UpTo(client.cur)

\* A replay that is owed is being fetched, unless its request has timed out:
\* no order of drops, refreshes and reconnections forgets to repair a gap.
ReplayIsFetched ==
    client.alive /\ client.replayPending /\ client.phase = "ready" =>
        client.running \/ client.missed

\* A terminal is reported as exited at most once, whether the news is an
\* event, a queued event, its absence from a list, or a deadline.
ReportedOnce == client.exits <= 1

\* ... and only when its process has really exited, or the daemon has been out
\* of reach for so long that the client gave every terminal up.
ExitIsTrue == client.exits > 0 => ended \/ client.phase = "off"

\* One exit at most is reported, and a true one.
ExitIsTrueOnce == ReportedOnce /\ ExitIsTrue

\* Nothing is on its way to an adopted terminal.
Settled == view.adopted /\ reply = NoReply /\ client.lane = <<>> /\ client.ipc = <<>>

\* Live output (what came after the last replay) always reaches the renderer,
\* even when its adoption, the list's answer and a resync cross.
ViewKeepsLive ==
    Settled => \A e \in ToSet(client.screen) : e > client.replayed => e \in ToSet(view.shows)

\* No gap stays: what is shown is complete, or a replay is owed and on its way,
\* and the renderer gets whatever came after the last replay.
GapsAreRepaired == ScreenComplete /\ ReplayIsFetched /\ ViewKeepsLive

\* When nothing is on its way and no replay is owed, the renderer shows what
\* the main process shows.
ViewIsComplete == Settled /\ client.alive /\ ~client.replayPending => view.shows = client.screen

\* The screen catches up for good with whatever the PTY has printed, or the
\* terminal is over, or a refresh has timed out: dropped connections alone
\* never leave a lasting gap.
ScreenConverges ==
    <>[](\/ client.phase = "off" \/ client.exits > 0 \/ client.missed
         \/ client.screen = UpTo(produced))

\* An exit is reported in the end, also one that happened while disconnected.
ExitIsReported == ended ~> (client.exits > 0 \/ client.phase = "off")

\* Whatever happens to a terminal, output or its end, is shown in the end.
NewsArrives == ScreenConverges /\ ExitIsReported
=============================================================================
