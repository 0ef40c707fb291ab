--------------------------- MODULE TurnDelivery ---------------------------
(***************************************************************************)
(* How a notice gets into an agent's terminal (ADR-0049): not while the    *)
(* agent is in a turn, somebody holds its input back or another notice is  *)
(* under way, but queued; pasted, submitted by an Enter a little later, and *)
(* delivered only when the agent has been seen to start a turn.  These are *)
(* notifyRuntime and its companions in terminal-control-service.ts, as     *)
(* operators on the record of one terminal: a caller learns from them      *)
(* which of its notices were delivered and which were refused.             *)
(***************************************************************************)
EXTENDS Naturals

CONSTANTS
    Notices,    \* what may be sent to a terminal, one of a kind at a time
    Holds,      \* reasons to hold back its input: paused, taken over, starting
    MaxEnters   \* RUNTIME_NOTIFICATION_SUBMIT_ATTEMPTS

ASSUME DeliveryAssumption == MaxEnters \in Nat \ {0}

Terminal ==
    [alive   : BOOLEAN,          \* the terminal's process runs
     turn    : BOOLEAN,          \* turnPending
     holds   : SUBSET Holds,
     queue   : SUBSET Notices,   \* queuedRuntimeNotifications
     flight  : SUBSET Notices,   \* pasted together, and not yet confirmed
     entered : BOOLEAN,          \* an Enter was sent and is to be confirmed
     enters  : 0..MaxEnters]

Unused == [alive |-> FALSE, turn |-> FALSE, holds |-> {}, queue |-> {},
           flight |-> {}, entered |-> FALSE, enters |-> 0]
Opened == [Unused EXCEPT !.alive = TRUE]

\* Notices that wait for an answer.
UnderWay(t) == t.queue \union t.flight

-----------------------------------------------------------------------------
(* Slips: operators below, changed as a slip in the code would change them.  *)

SettledOnly(t) == [t EXCEPT !.turn = FALSE]

-----------------------------------------------------------------------------
(* runtimeNotificationBlocked *)
Blocked(t) == t.holds # {} \/ t.turn \/ t.flight # {}

Pasted(t, ns) == [t EXCEPT !.flight = ns, !.entered = FALSE, !.enters = 0]

\* notifyRuntime, for a terminal that lives.
Notified(t, n) ==
    IF Blocked(t) THEN [t EXCEPT !.queue = @ \union {n}] ELSE Pasted(t, {n})

\* flushRuntimeNotifications: all that is queued is pasted at once.
Flushed(t) ==
    IF Blocked(t) \/ t.queue = {} THEN t ELSE Pasted([t EXCEPT !.queue = {}], t.queue)

\* Notices of a paste are answered; a paste that is done with is forgotten.
Answered(t, ns) ==
    LET left == t.flight \ ns
    IN  [t EXCEPT !.flight = left, !.entered = FALSE,
                  !.enters = IF left = {} THEN 0 ELSE @]

\* The edges of a turn.  Any turn that starts after the Enter confirms it.
Confirmed(t) == IF t.entered THEN t.flight ELSE {}
TurnStarted(t) == [Answered(t, Confirmed(t)) EXCEPT !.turn = TRUE]
TurnSettled(t) == Flushed([t EXCEPT !.turn = FALSE])

Held(t, h) == [t EXCEPT !.holds = @ \union {h}]
Released(t, h) == Flushed([t EXCEPT !.holds = @ \ {h}])

\* The user types into a worker's terminal and presses return.
TakenOver(t, h) == [Held(t, h) EXCEPT !.turn = TRUE]

Entered(t) == [t EXCEPT !.entered = TRUE, !.enters = @ + 1]

\* No turn was seen to start in time: another Enter, or the last one failed.
GivenUp(t) == IF t.enters = MaxEnters THEN t.flight ELSE {}
UnconfirmedOnly(t) == Answered(t, GivenUp(t))
Unconfirmed(t) == Flushed(Answered(t, GivenUp(t)))

\* The process ends: what is queued is refused, a confirmation that is awaited
\* fails, a notice that was only pasted goes on to press Enter.  Nothing else
\* matters of a terminal without a process.
Forsaken(t) == t.queue \union (IF t.entered THEN GivenUp(t) ELSE {})
Exited(t) ==
    [Answered(t, Forsaken(t)) EXCEPT !.alive = FALSE, !.turn = FALSE,
                                     !.holds = {}, !.queue = {}]

\* The application starts again.  Terminals live on in the daemon; whether one
\* is in a turn is only remembered of workers, the rest is forgotten.
Restored(t, known) == [Unused EXCEPT !.alive = t.alive, !.turn = t.turn /\ known]
=============================================================================
