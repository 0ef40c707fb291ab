-------------------------- MODULE ToolPermissions --------------------------
(***************************************************************************)
(* The way of a tool call through the tool gateway of one project          *)
(* (packages/tool-gateway/src/gateway.ts), the plan gate in front of the   *)
(* permission engine (tools-write.ts), the engine with its approval cards  *)
(* and standing rules (permission-engine.ts), and the agent host that      *)
(* brings the calls of the agents' runs and aborts them                    *)
(* (apps/desktop-main/src/services/agent-host.ts).                         *)
(*                                                                         *)
(* A call waits in three places: for its preview, for the user's answer to *)
(* its card, and for the tool itself.  What lies between two of them is    *)
(* one step, as it is in the one JavaScript thread.  The application may   *)
(* die at any moment; the rules and the permission_requests rows stay.     *)
(*                                                                         *)
(* The hash of a call's input stands for the call itself: a card is        *)
(* answered either with the hash it shows or with another one.             *)
(***************************************************************************)
EXTENDS Naturals, FiniteSets

CONSTANTS
  Tasks,      \* the Sessions of the project
  Mode,       \* the approval mode of each, set when it is created
  Calls,      \* bound: the tool calls the agents make
  Proposals,  \* what a call may ask for
  Requests    \* bound: ids of permission requests

NoTask == "no task"
Unused == "unused"

Modes == {"ask", "edit", "auto", "full"}
Levels == {"R0", "R1", "R2", "R3", "R4"}

\* tool: a write tool, a plan tool, one of the terminal and orchestration
\* tools with the auto-allow policy, or any other; key: its ruleKey.
IsProposal(p) ==
  /\ p.task \in Tasks
  /\ p.tool \in {"write", "plan", "autoAllow", "other"}
  /\ p.level \in Levels
  /\ p.recognized \in BOOLEAN

ASSUME PermissionsAssumption ==
  /\ NoTask \notin Tasks
  /\ Unused \notin Calls
  /\ Mode \in [Tasks -> Modes]
  /\ \A p \in Proposals : IsProposal(p)

VARIABLES
  up,         \* the application is running
  run,        \* AgentHost.activeRuns: "none", "active" or, once told to abort, "stopping"
  planned,    \* the tasks whose plan is approved
  asks,       \* what each call asks for
  phase,      \* where each call is, or how it ended
  aborted,    \* the calls whose AbortSignal has fired
  started,    \* the calls with a RUNNING record in the audit
  cards,      \* PermissionEngine.pending
  reopens,    \* those of them with a reopen function
  stored,     \* the permission_requests table
  decisions,  \* the permission_decisions table
  rules       \* the standing rules

vars == <<up, run, planned, asks, phase, aborted, started, cards, reopens,
          stored, decisions, rules>>

-----------------------------------------------------------------------------
Live == {"previewing", "waiting", "running"}
Ended == {"SUCCEEDED", "FAILED", "DENIED", "CANCELLED", "lost"}
Scopes == {"once", "task", "workspace", "always"}
RequestStates == {Unused, "PENDING", "ALLOWED", "DENIED", "CANCELLED", "INVALIDATED"}

NoProposal ==
  [task |-> NoTask, tool |-> Unused, level |-> Unused, recognized |-> FALSE, key |-> Unused]

NoRequest == [call |-> Unused, state |-> Unused]

Keys == {p.key : p \in Proposals}

Rules == [kind : {"allow", "deny"}, task : Tasks \cup {NoTask}, key : Keys]

Decisions == [request : Requests, kind : {"allow", "deny"}, scope : Scopes]

TypeOK ==
  /\ up \in BOOLEAN
  /\ run \in [Tasks -> {"none", "active", "stopping"}]
  /\ planned \in SUBSET Tasks
  /\ asks \in [Calls -> Proposals \cup {NoProposal}]
  /\ phase \in [Calls -> {Unused} \cup Live \cup Ended]
  /\ \A c \in Calls : phase[c] # Unused => asks[c] \in Proposals
  /\ aborted \in SUBSET Calls /\ started \in SUBSET Calls
  /\ cards \in SUBSET Requests /\ reopens \in SUBSET cards
  /\ stored \in [Requests -> [call : Calls \cup {Unused}, state : RequestStates]]
  /\ \A q \in Requests : stored[q].state # Unused =>
       stored[q].call \in Calls /\ phase[stored[q].call] # Unused
  /\ decisions \in SUBSET Decisions
  /\ rules \in SUBSET Rules

Init ==
  /\ up = TRUE
  /\ run = [t \in Tasks |-> "none"]
  /\ planned = {}
  /\ asks = [c \in Calls |-> NoProposal]
  /\ phase = [c \in Calls |-> Unused]
  /\ aborted = {} /\ started = {}
  /\ cards = {} /\ reopens = {}
  /\ stored = [q \in Requests |-> NoRequest]
  /\ decisions = {}
  /\ rules = {}

-----------------------------------------------------------------------------
(* What the engine and the plan gate look at. *)

\* The call that made request q, and what it asks for.
CallOf(q) == stored[q].call
Asked(q) == asks[CallOf(q)]

Matches(rule, p) == rule.key = p.key /\ rule.task \in {NoTask, p.task}

\* createPlanAwarePermission: no file is modified before a plan is approved.
NeedsPlan(p) == p.tool = "write" /\ Mode[p.task] # "ask" /\ p.task \notin planned

\* R0 and the plan tools are allowed without a look at the rules.
Harmless(p) == p.tool = "plan" \/ p.level = "R0"

DenyRule(p) == \E r \in rules : r.kind = "deny" /\ Matches(r, p)

\* What the mode of the task allows by itself.
ModeAllows(p) ==
  \/ Mode[p.task] = "full"
  \/ /\ Mode[p.task] = "auto"
     /\ p.level = "R1" \/ (p.level = "R2" /\ p.recognized)

\* Slip: the mode is looked at before the user's denials.
RefusedLate(p) == NeedsPlan(p) \/ (~Harmless(p) /\ ~ModeAllows(p) /\ DenyRule(p))

\* Denials stand before the mode and before every grant.
Refused(p) == NeedsPlan(p) \/ (~Harmless(p) /\ DenyRule(p))

AllowRule(p) == p.level # "R3" /\ \E r \in rules : r.kind = "allow" /\ Matches(r, p)

Allowed(p) == Harmless(p) \/ ModeAllows(p) \/ AllowRule(p)

-----------------------------------------------------------------------------
(* Beginnings and ends of calls. *)

\* Slip: the signal is not looked at again before the tool runs.
GoesBlindly(c) == phase[c] \in {"previewing", "waiting"}

\* The signal is looked at once more before the tool runs.
GoesAhead(c) == c \notin aborted

\* The calls of go run their tool unless they have been aborted, those of end
\* end as said; nothing else changes for the others.
Proceed(go, end, outcome) ==
  /\ phase' = [c \in Calls |->
                 IF c \in go THEN IF GoesAhead(c) THEN "running" ELSE "CANCELLED"
                 ELSE IF c \in end THEN outcome ELSE phase[c]]
  /\ started' = started \cup {c \in go : GoesAhead(c)}

\* The cards of qs leave the table with the given state.
Resolve(qs, state) ==
  /\ cards' = cards \ qs
  /\ reopens' = reopens \ qs
  /\ stored' = [q \in Requests |->
                  IF q \in qs THEN [stored[q] EXCEPT !.state = state] ELSE stored[q]]

\* The onAbort listeners of the cards and the signals of calls cs.
Abort(cs) ==
  LET waiting == {q \in cards : CallOf(q) \in cs} IN
  /\ aborted' = aborted \cup cs
  /\ Resolve(waiting, "CANCELLED")
  /\ Proceed({}, {CallOf(q) : q \in waiting}, "DENIED")

\* The calls with a controller in the run of task t.
CallsOf(t) == {c \in Calls : phase[c] \in Live /\ asks[c].task = t}

Free == {q \in Requests : stored[q].state = Unused}

-----------------------------------------------------------------------------
(* executeCall. *)

\* A call arrives and is refused at once: its input is malformed, R4 is
\* forbidden, and ask mode is read-only.
Reject(c, p) ==
  \/ phase' = [phase EXCEPT ![c] = "FAILED"]
  \/ /\ p.level = "R4" \/ (p.tool # "autoAllow" /\ Mode[p.task] = "ask" /\ p.level # "R0")
     /\ phase' = [phase EXCEPT ![c] = "DENIED"]

\* ... or runs without asking anybody, or waits for its preview.
Accept(c, p) ==
  /\ p.level # "R4"
  /\ \/ p.tool = "autoAllow" /\ phase' = [phase EXCEPT ![c] = "running"]
     \/ /\ p.tool # "autoAllow" /\ (Mode[p.task] = "ask" => p.level = "R0")
        /\ phase' = [phase EXCEPT ![c] = "previewing"]

Propose(c, p) ==
  /\ up /\ run[p.task] # "none"
  /\ phase[c] = Unused
  /\ asks' = [asks EXCEPT ![c] = p]
  /\ Reject(c, p) \/ Accept(c, p)
  /\ started' = IF phase'[c] = "running" THEN started \cup {c} ELSE started
  /\ UNCHANGED <<up, run, planned, aborted, cards, reopens, stored, decisions, rules>>

\* decide, once the preview is there.
DenyAtOnce(c) ==
  /\ phase[c] = "previewing"
  /\ Refused(asks[c])
  /\ Proceed({}, {c}, "DENIED")
  /\ UNCHANGED <<up, run, planned, asks, aborted, cards, reopens, stored, decisions, rules>>

AllowAtOnce(c) ==
  /\ phase[c] = "previewing"
  /\ ~Refused(asks[c]) /\ Allowed(asks[c])
  /\ Proceed({c}, {}, "DENIED")
  /\ UNCHANGED <<up, run, planned, asks, aborted, cards, reopens, stored, decisions, rules>>

\* ask: the request is saved and its card shown, but not when the signal has
\* fired by now: then it is cancelled on the spot.
Ask(c) ==
  /\ phase[c] = "previewing"
  /\ ~Refused(asks[c]) /\ ~Allowed(asks[c])
  /\ \E q \in Free :
       IF c \in aborted
       THEN /\ stored' = [stored EXCEPT ![q] = [call |-> c, state |-> "CANCELLED"]]
            /\ Proceed({}, {c}, "DENIED")
            /\ UNCHANGED <<cards, reopens>>
       ELSE /\ stored' = [stored EXCEPT ![q] = [call |-> c, state |-> "PENDING"]]
            /\ Proceed({}, {c}, "waiting")
            /\ cards' = cards \cup {q} /\ reopens' = reopens \cup {q}
  /\ UNCHANGED <<up, run, planned, asks, aborted, decisions, rules>>

\* The tool returns, or throws: after an abort that counts as cancelled.
Return(c) ==
  /\ phase[c] = "running"
  /\ \E outcome \in {"SUCCEEDED", IF c \in aborted THEN "CANCELLED" ELSE "FAILED"} :
       Proceed({}, {c}, outcome)
  /\ UNCHANGED <<up, run, planned, asks, aborted, cards, reopens, stored, decisions, rules>>

-----------------------------------------------------------------------------
(* resolve: the user's answers. *)

\* R3 never yields a standing grant.
EffectiveScope(p, kind, scope) ==
  IF kind = "allow" /\ p.level = "R3" /\ scope \in {"task", "workspace"}
  THEN "once" ELSE scope

LeavesRule(kind, scope) ==
  \/ kind = "allow" /\ scope \in {"task", "workspace"}
  \/ kind = "deny" /\ scope = "always"

\* Slip: the grant is for the whole workspace.
WorkspaceRules(p, kind, scope) ==
  IF LeavesRule(kind, scope)
  THEN {[kind |-> kind, task |-> NoTask, key |-> p.key]} ELSE {}

\* The rule an answer leaves behind.
NewRules(p, kind, scope) ==
  IF LeavesRule(kind, scope)
  THEN {[kind |-> kind, task |-> IF scope = "task" THEN p.task ELSE NoTask, key |-> p.key]}
  ELSE {}

\* The cards an answer to q is for, with applyToSimilar those with its key too.
Targets(q, similar) ==
  {q} \cup (IF similar THEN {o \in cards : Asked(o).key = Asked(q).key} ELSE {})

Answer(q, kind, asked, similar) ==
  LET p == Asked(q)
      scope == EffectiveScope(p, kind, asked)
      targets == Targets(q, similar)
      callers == {CallOf(o) : o \in targets}
  IN
  /\ q \in cards
  /\ rules' = rules \cup NewRules(p, kind, scope)
  /\ decisions' = decisions \cup
       {[request |-> o, kind |-> kind, scope |-> scope] : o \in targets}
  /\ Resolve(targets, IF kind = "allow" THEN "ALLOWED" ELSE "DENIED")
  /\ IF kind = "allow" THEN Proceed(callers, {}, "DENIED") ELSE Proceed({}, callers, "DENIED")
  /\ UNCHANGED <<up, run, planned, asks, aborted>>

\* Slip: the fresh request is not given the reopen function.
ReopenOnce(q, new) ==
  /\ cards' = (cards \ {q}) \cup {new}
  /\ reopens' = reopens \ {q}
  /\ stored' = [stored EXCEPT ![q].state = "INVALIDATED",
                              ![new] = [call |-> CallOf(q), state |-> "PENDING"]]

\* A fresh request for the same waiting call.
Reopen(q, new) ==
  /\ cards' = (cards \ {q}) \cup {new}
  /\ reopens' = (reopens \ {q}) \cup {new}
  /\ stored' = [stored EXCEPT ![q].state = "INVALIDATED",
                              ![new] = [call |-> CallOf(q), state |-> "PENDING"]]

\* The answer shows another hash than the card: it is void, and the call is
\* asked about again (bound: every call still finds a free id).
Invalidate(q) ==
  /\ q \in cards
  /\ IF q \in reopens
     THEN /\ Cardinality(Free) > Cardinality({c \in Calls : phase[c] \in {Unused, "previewing"}})
          /\ \E new \in Free : Reopen(q, new)
     ELSE Resolve({q}, "INVALIDATED")
  /\ UNCHANGED <<up, run, planned, asks, phase, aborted, started, decisions, rules>>

-----------------------------------------------------------------------------
(* The host, the project and the plan. *)

StartRun(t) ==
  /\ up /\ run[t] = "none"
  /\ run' = [run EXCEPT ![t] = "active"]
  /\ UNCHANGED <<up, planned, asks, phase, aborted, started, cards, reopens,
                 stored, decisions, rules>>

\* abort: the controllers of now; the worker is told, and may send more calls
\* before it knows.
StopRun(t) ==
  /\ run[t] # "none"
  /\ run' = [run EXCEPT ![t] = "stopping"]
  /\ Abort(CallsOf(t))
  /\ UNCHANGED <<up, planned, asks, decisions, rules>>

\* Slip: only runs that were stopped have their calls aborted.
EndRunQuietly(t) ==
  /\ run[t] # "none"
  /\ run' = [run EXCEPT ![t] = "none"]
  /\ Abort(IF run[t] = "stopping" THEN CallsOf(t) ELSE {})
  /\ UNCHANGED <<up, planned, asks, decisions, rules>>

\* runEnded.
EndRun(t) ==
  /\ run[t] # "none"
  /\ run' = [run EXCEPT ![t] = "none"]
  /\ Abort(CallsOf(t))
  /\ UNCHANGED <<up, planned, asks, decisions, rules>>

\* The worker process exits, and every run with it.
WorkerExits ==
  /\ \E t \in Tasks : run[t] # "none"
  /\ run' = [t \in Tasks |-> "none"]
  /\ Abort(UNION {CallsOf(t) : t \in {u \in Tasks : run[u] # "none"}})
  /\ UNCHANGED <<up, planned, asks, decisions, rules>>

\* cancelAll, when the context is dropped and before the application quits.
CancelAll ==
  /\ cards # {}
  /\ Resolve(cards, "CANCELLED")
  /\ Proceed({}, {CallOf(q) : q \in cards}, "DENIED")
  /\ UNCHANGED <<up, run, planned, asks, aborted, decisions, rules>>

\* A plan is approved, or proposed anew (of interest where something is
\* written).
DecidePlan(t) ==
  /\ up
  /\ \E p \in Proposals : p.task = t /\ p.tool = "write"
  /\ planned' = IF t \in planned THEN planned \ {t} ELSE planned \cup {t}
  /\ UNCHANGED <<up, run, asks, phase, aborted, started, cards, reopens,
                 stored, decisions, rules>>

\* The application dies with every call it was waiting for.
Crash ==
  /\ up
  /\ up' = FALSE
  /\ run' = [t \in Tasks |-> "none"]
  /\ phase' = [c \in Calls |-> IF phase[c] \in Live THEN "lost" ELSE phase[c]]
  /\ aborted' = {} /\ cards' = {} /\ reopens' = {}
  /\ UNCHANGED <<planned, asks, started, stored, decisions, rules>>

\* markOrphanedRunsInterrupted: requests nobody can answer any more.
Restart ==
  /\ ~up
  /\ up' = TRUE
  /\ stored' = [q \in Requests |->
                  IF stored[q].state = "PENDING"
                  THEN [stored[q] EXCEPT !.state = "CANCELLED"] ELSE stored[q]]
  /\ UNCHANGED <<run, planned, asks, phase, aborted, started, cards, reopens,
                 decisions, rules>>

CallSteps(c) == DenyAtOnce(c) \/ AllowAtOnce(c) \/ Ask(c) \/ Return(c)

Next ==
  \/ \E c \in Calls : (\E p \in Proposals : Propose(c, p)) \/ CallSteps(c)
  \/ \E q \in Requests :
       \/ Invalidate(q)
       \/ \E kind \in {"allow", "deny"}, scope \in Scopes, similar \in BOOLEAN :
            Answer(q, kind, scope, similar)
  \/ \E t \in Tasks : StartRun(t) \/ StopRun(t) \/ EndRun(t) \/ DecidePlan(t)
  \/ WorkerExits \/ CancelAll \/ Crash \/ Restart

\* Previews and tools end; nobody need answer.
Spec == Init /\ [][Next]_vars /\ \A c \in Calls : WF_vars(CallSteps(c))

-----------------------------------------------------------------------------
(* Properties. *)

\* Every call that waits for the user has a card to be answered, and only
\* one, through aborts, void answers and restarts.
WaitersHaveCards ==
  /\ \A q \in cards : phase[CallOf(q)] = "waiting"
  /\ \A c \in Calls : phase[c] = "waiting" => \E q \in cards : CallOf(q) = c
  /\ \A q1, q2 \in cards : CallOf(q1) = CallOf(q2) => q1 = q2

\* What the database calls pending can still be answered: the cards on the
\* screen and the rows agree, after a crash as well.
PendingIsLive == up => cards = {q \in Requests : stored[q].state = "PENDING"}

\* The calls that wait, the cards on the screen and the pending rows of the
\* table are about the same things, and one answer answers each call.
CardsAreTrue == WaitersHaveCards /\ PendingIsLive

\* What the user has allowed: request o, in scope s.
UserAllowed(o, s) == [request |-> o, kind |-> "allow", scope |-> s] \in decisions

\* The user has granted calls like p ahead, on a card that was not R3.
GrantedAhead(p) ==
  \E o \in Requests :
    /\ CallOf(o) \in Calls /\ Asked(o) \in Proposals
    /\ Asked(o).key = p.key /\ Asked(o).level # "R3"
    /\ UserAllowed(o, "workspace") \/ (UserAllowed(o, "task") /\ Asked(o).task = p.task)

\* The calls that need nobody's leave.
Exempt(p) ==
  \/ p.tool \in {"autoAllow", "plan"} \/ p.level = "R0"
  \/ Mode[p.task] = "full"
  \/ Mode[p.task] = "auto" /\ (p.level = "R1" \/ (p.level = "R2" /\ p.recognized))

\* No tool has run that neither its policy nor its task's mode exempts,
\* unless the user allowed that call, or, for less than R3, calls like it in
\* its task or in the workspace ("Standing allow grants never satisfy R3").
NothingRunsUnasked ==
  \A c \in started :
    \/ Exempt(asks[c])
    \/ \E q \in Requests, s \in Scopes : CallOf(q) = c /\ UserAllowed(q, s)
    \/ asks[c].level # "R3" /\ GrantedAhead(asks[c])

\* Once the user has said "always deny", no call with that key runs without
\* being asked about, whatever the mode of its task; and the rule stays.
DenialStands ==
  [][\A r \in rules : r.kind = "deny" =>
       /\ r \in rules'
       /\ \A c \in Calls :
            phase[c] = "previewing" /\ phase'[c] = "running" /\ asks[c].tool # "plan" /\ asks[c].level # "R0"
              => ~Matches(r, asks[c])]_vars

\* After the abort no call of the moment starts its tool, whether it was
\* waiting for its preview or for the user.
NothingStartsAfterStop == [][\A c \in aborted : c \in started' => c \in started]_vars

\* A request is answered at most once, and nothing changes the answer.
AnswersAreFinal ==
  [][\A q \in Requests : stored[q].state \notin {Unused, "PENDING"} =>
       /\ stored'[q] = stored[q]
       /\ \A d \in decisions' : d.request = q => d \in decisions]_vars

\* A call that has been aborted, or whose run is over, comes to an end: it
\* is not left waiting for an answer.
StoppedCallsEnd ==
  \A c \in Calls :
    c \in aborted \/ (phase[c] \in Live /\ run[asks[c].task] = "none") ~> phase[c] \in Ended

\* "No new tool is begun after the stop" (AG-009).  Not kept: a call the
\* worker sends before it hears of the abort has a controller of its own.
NoToolAfterStop ==
  [][\A c \in started' \ started : run[asks'[c].task] # "stopping"]_vars

\* "Each R3 call needs explicit confirmation" (PERM-003).  Not kept: an answer
\* with applyToSimilar covers every card with its key, of any level.
BatchIsLowRisk ==
  [][\A d1, d2 \in decisions' \ decisions :
       d1.kind = "allow" /\ d1 # d2 => Asked(d1.request).level # "R3"]_vars

=============================================================================
