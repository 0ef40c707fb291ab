----------------------- MODULE ToolPermissionsProofs -----------------------
(***************************************************************************)
(* What holds of ToolPermissions for any number of tasks, calls and        *)
(* requests: its types, that whoever waits has one card and that the table *)
(* of requests says so, that no tool runs unasked, and that answers and    *)
(* denials stand.                                                          *)
(*                                                                         *)
(* The argument: what a call asks for, which call a request is of, rules   *)
(* and decisions are written once (Grows), so what has been allowed stays  *)
(* allowed; and every standing grant goes back to an answer (RulesGiven).  *)
(***************************************************************************)
EXTENDS ToolPermissions, TLAPS

Used(q) == stored[q].state # Unused

(* The part of the rows a step never rewrites. *)
Grows ==
  /\ \A q \in Requests : Used(q) => stored'[q].call = stored[q].call /\ stored'[q].state # Unused
  /\ \A c \in Calls : phase[c] # Unused => asks'[c] = asks[c] /\ phase'[c] # Unused
  /\ decisions \subseteq decisions'
  /\ rules \subseteq rules'
  /\ started \subseteq started'

(* The rows of the cards on the screen, each of which can be asked again. *)
CardsPending ==
  /\ cards \subseteq {q \in Requests : stored[q].state = "PENDING"}
  /\ PendingIsLive
  /\ reopens = cards

(* Nobody waits while the application is down. *)
DownIsQuiet == ~up => cards = {} /\ \A c \in Calls : phase[c] \notin Live

CardsSound == WaitersHaveCards /\ CardsPending /\ DownIsQuiet

(* Who has run, or was stopped, has been proposed. *)
RanIsKnown == \A c \in started \cup aborted : phase[c] # Unused

(* Only requests that were made have a decision. *)
DecidedUsed == \A d \in decisions : Used(d.request)

(* The answer a grant comes from. *)
GivenBy(r, o) ==
  /\ Used(o) /\ Asked(o).key = r.key /\ Asked(o).level # "R3"
  /\ \/ r.task = NoTask /\ UserAllowed(o, "workspace")
     \/ r.task = Asked(o).task /\ UserAllowed(o, "task")

RulesGiven == \A r \in rules : r.kind = "allow" => \E o \in Requests : GivenBy(r, o)

(* Why call c may run. *)
Justified(c) ==
  \/ Exempt(asks[c])
  \/ \E q \in Requests, s \in Scopes : CallOf(q) = c /\ UserAllowed(q, s)
  \/ asks[c].level # "R3" /\ GrantedAhead(asks[c])

AllJustified == \A c \in started : Justified(c)

IInv ==
  /\ TypeOK /\ CardsSound /\ RanIsKnown
  /\ DecidedUsed /\ RulesGiven /\ AllJustified

-----------------------------------------------------------------------------
(* The operators the actions are made of. *)

LEMMA RowTyped ==
  ASSUME TypeOK, NEW q \in Requests
  PROVE  /\ stored[q] \in [call : Calls \cup {Unused}, state : RequestStates]
         /\ Used(q) => CallOf(q) \in Calls /\ Asked(q) \in Proposals
  BY DEF TypeOK, Used, CallOf, Asked

LEMMA CardTyped ==
  ASSUME TypeOK, CardsPending, NEW q \in cards
  PROVE  q \in Requests /\ Used(q) /\ CallOf(q) \in Calls /\ Asked(q) \in Proposals
<1>1. q \in Requests /\ Used(q)
  BY DEF TypeOK, CardsPending, Used, Unused
<1> QED
  BY <1>1, RowTyped

(* Proceed moves only the calls it is given. *)
LEMMA ProceedMoves ==
  ASSUME TypeOK, NEW go \in SUBSET Calls, NEW end \in SUBSET Calls,
         NEW outcome \in Live \cup Ended, Proceed(go, end, outcome),
         \A c \in go \cup end : phase[c] # Unused
  PROVE  /\ phase' \in [Calls -> {Unused} \cup Live \cup Ended]
         /\ started' \in SUBSET Calls /\ started \subseteq started'
         /\ started' \subseteq started \cup go
         /\ \A c \in Calls : phase[c] = Unused <=> phase'[c] = Unused
         /\ \A c \in Calls \ (go \cup end) : phase'[c] = phase[c]
         /\ \A c \in end \ go : phase'[c] = outcome
         /\ \A c \in go : phase'[c] \in {"running", "CANCELLED"}
         /\ \A c \in go : c \in started' => c \in started \/ phase'[c] = "running"
  BY DEF TypeOK, Proceed, Live, Ended, Unused

(* Resolve takes cards away and closes their rows. *)
LEMMA ResolveMoves ==
  ASSUME TypeOK, CardsPending, NEW qs \in SUBSET cards,
         NEW state \in RequestStates \ {Unused, "PENDING"}, Resolve(qs, state)
  PROVE  /\ cards' = cards \ qs /\ cards' \in SUBSET Requests /\ reopens' \in SUBSET cards'
         /\ stored' \in [Requests -> [call : Calls \cup {Unused}, state : RequestStates]]
         /\ \A q \in Requests : stored'[q].call = stored[q].call
         /\ \A q \in Requests \ qs : stored'[q] = stored[q]
         /\ \A q \in qs : stored'[q].state = state
         /\ \A q \in Requests : stored'[q].state = Unused <=> stored[q].state = Unused
<1>1. qs \subseteq Requests /\ \A q \in qs : stored[q].state = "PENDING"
  BY DEF TypeOK, CardsPending
<1>2. cards' = cards \ qs /\ cards' \in SUBSET Requests /\ reopens' \in SUBSET cards'
  BY DEF Resolve, TypeOK
<1>3. \A q \in Requests :
        stored'[q] = IF q \in qs THEN [stored[q] EXCEPT !.state = state] ELSE stored[q]
  BY DEF Resolve
<1>4. \A q \in Requests : stored[q] \in [call : Calls \cup {Unused}, state : RequestStates]
  BY DEF TypeOK
<1>5. \A q \in Requests :
        stored'[q] \in [call : Calls \cup {Unused}, state : RequestStates]
  BY <1>3, <1>4
<1>6. stored' \in [Requests -> [call : Calls \cup {Unused}, state : RequestStates]]
  BY <1>5 DEF Resolve
<1>7. \A q \in qs : stored'[q].state = state
  BY <1>1, <1>3, <1>4
<1>8. \A q \in Requests : stored'[q].call = stored[q].call
  BY <1>3, <1>4
<1>9. \A q \in Requests : stored'[q].state = Unused <=> stored[q].state = Unused
  BY <1>1, <1>3, <1>7 DEF Unused
<1> QED
  BY <1>2, <1>3, <1>6, <1>7, <1>8, <1>9

(* What EffectiveScope and NewRules say of R3. *)
LEMMA EffectiveScopeTyped ==
  ASSUME NEW p, NEW kind, NEW scope \in Scopes
  PROVE  /\ EffectiveScope(p, kind, scope) \in Scopes
         /\ kind = "allow" /\ p.level = "R3" => EffectiveScope(p, kind, scope) \notin {"task", "workspace"}
  BY DEF EffectiveScope, Scopes

LEMMA NewRulesTyped ==
  ASSUME NEW p \in Proposals, NEW kind \in {"allow", "deny"}, NEW scope \in Scopes
  PROVE  NewRules(p, kind, scope) \subseteq Rules
<1>1. p.key \in Keys /\ p.task \in Tasks
  BY PermissionsAssumption DEF Keys, IsProposal
<1> QED
  BY <1>1 DEF NewRules, LeavesRule, Rules

-----------------------------------------------------------------------------
(* What was justified and granted stays so. *)
LEMMA JustifiedStays ==
  ASSUME TypeOK, DecidedUsed, Grows, NEW c \in Calls, phase[c] # Unused, Justified(c)
  PROVE  Justified(c)'
<1>1. asks'[c] = asks[c]
  BY DEF Grows
<1>2. ASSUME NEW q \in Requests, NEW s \in Scopes, UserAllowed(q, s)
      PROVE  UserAllowed(q, s)' /\ Used(q) /\ CallOf(q)' = CallOf(q) /\ CallOf(q) \in Calls
             /\ Asked(q)' = Asked(q)
  <2>1. UserAllowed(q, s)'
    BY <1>2 DEF UserAllowed, Grows
  <2>2. Used(q)
    BY <1>2 DEF UserAllowed, DecidedUsed
  <2>3. CallOf(q)' = CallOf(q) /\ CallOf(q) \in Calls
    BY <2>2 DEF Grows, CallOf, TypeOK, Used
  <2>4. phase[CallOf(q)] # Unused
    BY <2>2 DEF CallOf, TypeOK, Used
  <2>5. Asked(q)' = Asked(q)
    BY <2>3, <2>4 DEF Grows, Asked
  <2> QED
    BY <2>1, <2>2, <2>3, <2>5
<1>3. CASE Exempt(asks[c])
  BY <1>1, <1>3 DEF Justified, Exempt
<1>4. CASE \E q \in Requests, s \in Scopes : CallOf(q) = c /\ UserAllowed(q, s)
  BY <1>2, <1>4 DEF Justified
<1>5. CASE asks[c].level # "R3" /\ GrantedAhead(asks[c])
  <2>1. PICK o \in Requests :
          /\ CallOf(o) \in Calls /\ Asked(o) \in Proposals
          /\ Asked(o).key = asks[c].key /\ Asked(o).level # "R3"
          /\ UserAllowed(o, "workspace") \/ (UserAllowed(o, "task") /\ Asked(o).task = asks[c].task)
    BY <1>5 DEF GrantedAhead
  <2>2. CallOf(o)' = CallOf(o) /\ Asked(o)' = Asked(o)
    BY <1>2, <2>1 DEF Scopes
  <2>3. /\ UserAllowed(o, "workspace") => UserAllowed(o, "workspace")'
        /\ UserAllowed(o, "task") => UserAllowed(o, "task")'
    BY <1>2 DEF Scopes
  <2>4. GrantedAhead(asks[c])'
    BY <1>1, <2>1, <2>2, <2>3 DEF GrantedAhead
  <2> QED
    BY <1>1, <1>5, <2>4 DEF Justified
<1> QED
  BY <1>3, <1>4, <1>5 DEF Justified

LEMMA GivenStays ==
  ASSUME TypeOK, Grows, NEW r \in rules, NEW o \in Requests, GivenBy(r, o)
  PROVE  GivenBy(r, o)'
<1>1. Used(o) /\ CallOf(o) \in Calls /\ phase[CallOf(o)] # Unused
  BY DEF GivenBy, Used, TypeOK, CallOf
<1>2. Used(o)' /\ CallOf(o)' = CallOf(o)
  BY <1>1 DEF Grows, CallOf, Used
<1>3. Asked(o)' = Asked(o)
  BY <1>1, <1>2 DEF Grows, Asked
<1>4. \A s : UserAllowed(o, s) => UserAllowed(o, s)'
  BY DEF UserAllowed, Grows
<1> QED
  BY <1>2, <1>3, <1>4 DEF GivenBy

(* A step that neither decides nor grants. *)
LEMMA NothingGranted ==
  ASSUME TypeOK, RanIsKnown, DecidedUsed, RulesGiven, AllJustified, Grows,
         rules' = rules, decisions' = decisions,
         \A c \in started' \ started : Justified(c)'
  PROVE  DecidedUsed' /\ RulesGiven' /\ AllJustified'
<1>1. started \subseteq Calls /\ \A c \in started : phase[c] # Unused
  BY DEF TypeOK, RanIsKnown
<1>2. AllJustified'
  BY <1>1, JustifiedStays DEF AllJustified
<1>3. RulesGiven'
  <2> SUFFICES ASSUME NEW r \in rules, r.kind = "allow"
               PROVE  \E o \in Requests : GivenBy(r, o)'
    BY DEF RulesGiven
  <2>1. PICK o \in Requests : GivenBy(r, o)
    BY DEF RulesGiven
  <2>2. GivenBy(r, o)'
    BY <2>1, GivenStays
  <2> QED
    BY <2>2
<1>4. DecidedUsed'
  <2> SUFFICES ASSUME NEW d \in decisions
               PROVE  Used(d.request)'
    BY DEF DecidedUsed
  <2>1. d.request \in Requests /\ Used(d.request)
    BY DEF DecidedUsed, TypeOK, Decisions
  <2> QED
    BY <2>1 DEF Grows, Used
<1> QED
  BY <1>2, <1>3, <1>4

-----------------------------------------------------------------------------
(* The shapes of steps. *)

(* Calls move that no card is for; cards, rules and answers are as before. *)
LEMMA CallsMove ==
  ASSUME IInv, NEW go \in SUBSET Calls, NEW end \in SUBSET Calls, NEW outcome \in Ended,
         Proceed(go, end, outcome),
         \A c \in go \cup end : phase[c] \in {"previewing", "running"},
         \A c \in go : Justified(c),
         UNCHANGED <<up, run, planned, asks, aborted, cards, reopens, stored, decisions, rules>>
  PROVE  IInv' /\ Grows
<1>1. /\ TypeOK /\ CardsSound /\ RanIsKnown
      /\ DecidedUsed /\ RulesGiven /\ AllJustified
  BY DEF IInv
<1>2. \A c \in go \cup end : phase[c] # Unused /\ phase[c] # "waiting" /\ phase[c] \in Live
  BY DEF Unused, Live
<1>3. /\ phase' \in [Calls -> {Unused} \cup Live \cup Ended]
      /\ started' \in SUBSET Calls /\ started \subseteq started'
      /\ started' \subseteq started \cup go
      /\ \A c \in Calls : phase[c] = Unused <=> phase'[c] = Unused
      /\ \A c \in Calls \ (go \cup end) : phase'[c] = phase[c]
      /\ \A c \in end \ go : phase'[c] = outcome
      /\ \A c \in go : phase'[c] \in {"running", "CANCELLED"}
  BY <1>1, <1>2 DEF TypeOK, Proceed, Live, Ended, Unused
<1>4. Grows
  BY <1>3 DEF Grows, Used
<1>5. TypeOK'
  BY <1>1, <1>3 DEF TypeOK
<1>6. \A c \in Calls : phase'[c] = "waiting" <=> phase[c] = "waiting"
  BY <1>2, <1>3 DEF Ended
<1>7. CardsSound'
  <2>1. \A q \in cards : CallOf(q) \in Calls
    BY <1>1, CardTyped DEF CardsSound
  <2>2. WaitersHaveCards'
    BY <1>1, <1>6, <2>1 DEF CardsSound, WaitersHaveCards, CallOf
  <2>3. CardsPending'
    BY <1>1 DEF CardsSound, CardsPending, PendingIsLive
  <2>4. DownIsQuiet'
    <3>1. ~up => go \cup end = {}
      BY <1>1, <1>2 DEF CardsSound, DownIsQuiet
    <3> QED
      BY <1>1, <1>3, <3>1 DEF CardsSound, DownIsQuiet
  <2> QED
    BY <2>2, <2>3, <2>4 DEF CardsSound
<1>8. RanIsKnown'
  BY <1>1, <1>2, <1>3 DEF RanIsKnown, TypeOK
<1>9. \A c \in started' \ started : Justified(c)'
  <2>1. \A c \in started' \ started : c \in go /\ c \in Calls /\ phase[c] # Unused
    BY <1>2, <1>3
  <2> QED
    BY <1>1, <1>4, <2>1, JustifiedStays
<1>10. DecidedUsed' /\ RulesGiven' /\ AllJustified'
  BY <1>1, <1>4, <1>9, NothingGranted
<1> QED
  BY <1>4, <1>5, <1>7, <1>8, <1>10 DEF IInv

(* Cards go, and the calls that wait for them go on or end. *)
LEMMA CardsGo ==
  ASSUME IInv, NEW qs \in SUBSET cards, NEW state \in RequestStates \ {Unused, "PENDING"},
         Resolve(qs, state),
         NEW go \in SUBSET Calls, NEW end \in SUBSET Calls, Proceed(go, end, "DENIED"),
         go \cup end = {CallOf(q) : q \in qs},
         UNCHANGED <<up, planned, asks>>, run' \in [Tasks -> {"none", "active", "stopping"}],
         aborted \subseteq aborted', aborted' \in SUBSET Calls,
         \A c \in aborted' : phase[c] # Unused,
         decisions' \in SUBSET Decisions, decisions \subseteq decisions',
         rules' \in SUBSET Rules, rules \subseteq rules'
  PROVE  TypeOK' /\ CardsSound' /\ RanIsKnown' /\ Grows /\ started' \subseteq started \cup go
<1>1. TypeOK /\ CardsSound /\ RanIsKnown /\ WaitersHaveCards /\ CardsPending /\ DownIsQuiet
  BY DEF IInv, CardsSound
<1>2. \A q \in cards : q \in Requests /\ Used(q) /\ CallOf(q) \in Calls /\ phase[CallOf(q)] = "waiting"
  BY <1>1, CardTyped DEF WaitersHaveCards
<1>3. \A c \in go \cup end : phase[c] = "waiting"
  BY <1>2
<1>13. \A c \in go \cup end : phase[c] # Unused
  BY <1>3 DEF Unused
<1>5. /\ phase' \in [Calls -> {Unused} \cup Live \cup Ended]
      /\ started' \in SUBSET Calls /\ started \subseteq started'
      /\ started' \subseteq started \cup go
      /\ \A c \in Calls : phase[c] = Unused <=> phase'[c] = Unused
      /\ \A c \in Calls \ (go \cup end) : phase'[c] = phase[c]
      /\ \A c \in end \ go : phase'[c] = "DENIED"
      /\ \A c \in go : phase'[c] \in {"running", "CANCELLED"}
  BY <1>1, <1>13 DEF TypeOK, Proceed, Live, Ended, Unused
<1>6. /\ cards' = cards \ qs /\ cards' \in SUBSET Requests /\ reopens' \in SUBSET cards'
      /\ stored' \in [Requests -> [call : Calls \cup {Unused}, state : RequestStates]]
      /\ \A q \in Requests : stored'[q].call = stored[q].call
      /\ \A q \in Requests \ qs : stored'[q] = stored[q]
      /\ \A q \in qs : stored'[q].state = state
      /\ \A q \in Requests : stored'[q].state = Unused <=> stored[q].state = Unused
  BY <1>1, ResolveMoves
<1>7. Grows
  BY <1>5, <1>6 DEF Grows, Used
<1>8. TypeOK'
  BY <1>1, <1>5, <1>6 DEF TypeOK
<1>9. WaitersHaveCards'
  <2>1. \A q \in cards' : q \in cards \ qs /\ CallOf(q)' = CallOf(q) /\ CallOf(q) \in Calls
    BY <1>2, <1>6 DEF CallOf
  <2>2. \A q \in cards' : CallOf(q) \notin go \cup end
    BY <1>1, <2>1 DEF WaitersHaveCards
  <2>3. \A q \in cards' : phase'[CallOf(q)'] = "waiting"
    BY <1>2, <1>5, <2>1, <2>2
  <2>4. ASSUME NEW c \in Calls, phase'[c] = "waiting"
        PROVE  \E q \in cards' : CallOf(q)' = c
    <3>1. c \notin go \cup end
      BY <1>5, <2>4
    <3>2. PICK q \in cards : CallOf(q) = c
      BY <1>1, <1>5, <2>4, <3>1 DEF WaitersHaveCards
    <3> QED
      BY <1>6, <2>1, <3>1, <3>2
  <2>5. \A q1, q2 \in cards' : CallOf(q1)' = CallOf(q2)' => q1 = q2
    BY <1>1, <2>1 DEF WaitersHaveCards
  <2> QED
    BY <2>3, <2>4, <2>5 DEF WaitersHaveCards
<1>10. CardsPending'
  BY <1>1, <1>6 DEF CardsPending, PendingIsLive, Resolve, TypeOK
<1>11. DownIsQuiet'
  BY <1>1, <1>3, <1>5, <1>6 DEF DownIsQuiet
<1>12. RanIsKnown'
  BY <1>1, <1>3, <1>5, <1>8 DEF RanIsKnown, TypeOK
<1> QED
  BY <1>5, <1>7, <1>8, <1>9, <1>10, <1>11, <1>12 DEF CardsSound

(* Cards go and nobody goes on: cards are cancelled. *)
LEMMA CardsCancelled ==
  ASSUME IInv, NEW qs \in SUBSET cards, Resolve(qs, "CANCELLED"),
         Proceed({}, {CallOf(q) : q \in qs}, "DENIED"),
         UNCHANGED <<up, planned, asks, decisions, rules>>,
         run' \in [Tasks -> {"none", "active", "stopping"}],
         aborted \subseteq aborted', aborted' \in SUBSET Calls,
         \A c \in aborted' : phase[c] # Unused
  PROVE  IInv' /\ Grows /\ started' = started
<1>1. /\ TypeOK /\ CardsSound /\ RanIsKnown
      /\ DecidedUsed /\ RulesGiven /\ AllJustified /\ CardsPending
  BY DEF IInv, CardsSound
<1>2. \A q \in cards : CallOf(q) \in Calls
  BY <1>1, CardTyped
<1>3. {CallOf(q) : q \in qs} \in SUBSET Calls
  BY <1>2
<1>4. "CANCELLED" \in RequestStates \ {Unused, "PENDING"}
  BY DEF RequestStates, Unused
<1>5. decisions' \in SUBSET Decisions /\ rules' \in SUBSET Rules
  BY <1>1 DEF TypeOK
<1> DEFINE end == {CallOf(q) : q \in qs}
<1>6. {} \cup end = {CallOf(q) : q \in qs} /\ {} \in SUBSET Calls
  OBVIOUS
<1>7. TypeOK' /\ CardsSound' /\ RanIsKnown' /\ Grows /\ started' \subseteq started \cup {}
  <2> HIDE DEF end
  <2> QED
    BY <1>3, <1>4, <1>5, <1>6, CardsGo DEF end
<1>8. started' = started
  BY <1>7 DEF Grows
<1>9. DecidedUsed' /\ RulesGiven' /\ AllJustified'
  BY <1>1, <1>7, <1>8, NothingGranted
<1> QED
  BY <1>7, <1>8, <1>9 DEF IInv

-----------------------------------------------------------------------------
(* The actions, one by one. *)

LEMMA AllowedIsJustified ==
  ASSUME IInv, NEW c \in Calls, phase[c] = "previewing", ~Refused(asks[c]), Allowed(asks[c])
  PROVE  Justified(c)
<1> DEFINE p == asks[c]
<1>1. p \in Proposals /\ p.task \in Tasks
  BY PermissionsAssumption DEF IInv, TypeOK, IsProposal, Unused
<1>2. CASE Harmless(p)
  BY <1>2 DEF Justified, Harmless, Exempt
<1>3. CASE ModeAllows(p)
  BY <1>3 DEF Justified, ModeAllows, Exempt
<1>4. CASE AllowRule(p)
  <2>1. PICK r \in rules : r.kind = "allow" /\ Matches(r, p)
    BY <1>4 DEF AllowRule
  <2>2. PICK o \in Requests : GivenBy(r, o)
    BY <2>1 DEF IInv, RulesGiven
  <2>3. Used(o) /\ CallOf(o) \in Calls /\ Asked(o) \in Proposals
    BY <2>2, RowTyped DEF GivenBy, IInv
  <2>4. Asked(o).task # NoTask
    BY <2>3, PermissionsAssumption DEF IsProposal
  <2>5. Asked(o).key = p.key /\ Asked(o).level # "R3"
    BY <2>1, <2>2 DEF GivenBy, Matches
  <2>6. UserAllowed(o, "workspace") \/ (UserAllowed(o, "task") /\ Asked(o).task = p.task)
    BY <2>1, <2>2, <2>4 DEF GivenBy, Matches
  <2>7. p.level # "R3" /\ GrantedAhead(p)
    BY <1>4, <2>3, <2>5, <2>6 DEF GrantedAhead, AllowRule
  <2> QED
    BY <2>7 DEF Justified
<1> QED
  BY <1>2, <1>3, <1>4 DEF Allowed

LEMMA DenyAtOnceKeeps ==
  ASSUME IInv, NEW c \in Calls, DenyAtOnce(c)
  PROVE  IInv' /\ Grows
<1>1. Proceed({}, {c}, "DENIED") /\ "DENIED" \in Ended /\ phase[c] \in {"previewing", "running"}
  BY DEF DenyAtOnce, Ended
<1>2. UNCHANGED <<up, run, planned, asks, aborted, cards, reopens, stored, decisions, rules>>
  BY DEF DenyAtOnce
<1> QED
  BY <1>1, <1>2, CallsMove

LEMMA AllowAtOnceKeeps ==
  ASSUME IInv, NEW c \in Calls, AllowAtOnce(c)
  PROVE  IInv' /\ Grows
<1>1. Proceed({c}, {}, "DENIED") /\ "DENIED" \in Ended /\ phase[c] \in {"previewing", "running"}
  BY DEF AllowAtOnce, Ended
<1>2. UNCHANGED <<up, run, planned, asks, aborted, cards, reopens, stored, decisions, rules>>
  BY DEF AllowAtOnce
<1>3. Justified(c)
  BY AllowedIsJustified DEF AllowAtOnce
<1> QED
  BY <1>1, <1>2, <1>3, CallsMove

LEMMA ReturnKeeps ==
  ASSUME IInv, NEW c \in Calls, Return(c)
  PROVE  IInv' /\ Grows
<1>1. PICK outcome \in {"SUCCEEDED", IF c \in aborted THEN "CANCELLED" ELSE "FAILED"} :
        Proceed({}, {c}, outcome)
  BY DEF Return
<1>2. outcome \in Ended /\ phase[c] \in {"previewing", "running"}
  BY DEF Return, Ended
<1>3. UNCHANGED <<up, run, planned, asks, aborted, cards, reopens, stored, decisions, rules>>
  BY DEF Return
<1> QED
  BY <1>1, <1>2, <1>3, CallsMove

LEMMA ProposeKeeps ==
  ASSUME IInv, NEW c \in Calls, NEW p \in Proposals, Propose(c, p)
  PROVE  IInv' /\ Grows
<1>1. /\ TypeOK /\ CardsSound /\ RanIsKnown
      /\ DecidedUsed /\ RulesGiven /\ AllJustified
  BY DEF IInv
<1>2. /\ up /\ phase[c] = Unused /\ asks' = [asks EXCEPT ![c] = p]
      /\ started' = IF phase'[c] = "running" THEN started \cup {c} ELSE started
      /\ UNCHANGED <<up, run, planned, aborted, cards, reopens, stored, decisions, rules>>
  BY DEF Propose
<1>3. PICK s \in {"FAILED", "DENIED", "running", "previewing"} :
        /\ phase' = [phase EXCEPT ![c] = s]
        /\ s = "running" => p.tool = "autoAllow"
  BY DEF Propose, Reject, Accept
<1>4. s \in Live \cup Ended /\ s # Unused /\ s # "waiting"
  BY DEF Live, Ended, Unused
<1>5. /\ phase' \in [Calls -> {Unused} \cup Live \cup Ended] /\ phase'[c] = s
      /\ asks' \in [Calls -> Proposals \cup {NoProposal}] /\ asks'[c] = p
      /\ \A d \in Calls \ {c} : phase'[d] = phase[d] /\ asks'[d] = asks[d]
  BY <1>1, <1>2, <1>3, <1>4 DEF TypeOK
<1>6. Grows
  BY <1>2, <1>5 DEF Grows, Used
<1>7. TypeOK'
  BY <1>1, <1>2, <1>4, <1>5 DEF TypeOK
<1>8. CardsSound'
  <2>1. \A d \in Calls : phase'[d] = "waiting" <=> phase[d] = "waiting"
    BY <1>2, <1>4, <1>5 DEF Unused
  <2>2. \A q \in cards : CallOf(q) \in Calls
    BY <1>1, CardTyped DEF CardsSound
  <2>3. WaitersHaveCards'
    BY <1>1, <1>2, <2>1, <2>2 DEF CardsSound, WaitersHaveCards, CallOf
  <2> QED
    BY <1>1, <1>2, <2>3 DEF CardsSound, CardsPending, PendingIsLive, DownIsQuiet
<1>9. RanIsKnown'
  BY <1>1, <1>2, <1>4, <1>5 DEF RanIsKnown, TypeOK
<1>10. \A d \in started' \ started : Justified(d)'
  <2>1. \A d \in started' \ started : d = c /\ s = "running"
    BY <1>2, <1>5
  <2>2. s = "running" => Exempt(p)
    BY <1>3 DEF Exempt
  <2> QED
    BY <1>5, <2>1, <2>2 DEF Justified, Exempt
<1>11. DecidedUsed' /\ RulesGiven' /\ AllJustified'
  BY <1>1, <1>2, <1>6, <1>10, NothingGranted
<1> QED
  BY <1>6, <1>7, <1>8, <1>9, <1>11 DEF IInv

LEMMA AskKeeps ==
  ASSUME IInv, NEW c \in Calls, Ask(c)
  PROVE  IInv' /\ Grows
<1>1. /\ TypeOK /\ CardsSound /\ RanIsKnown
      /\ DecidedUsed /\ RulesGiven /\ AllJustified
  BY DEF IInv
<1>2. /\ phase[c] = "previewing"
      /\ UNCHANGED <<up, run, planned, asks, aborted, decisions, rules>>
  BY DEF Ask
<1>3. PICK q \in Free :
       IF c \in aborted
       THEN /\ stored' = [stored EXCEPT ![q] = [call |-> c, state |-> "CANCELLED"]]
            /\ Proceed({}, {c}, "DENIED")
            /\ UNCHANGED <<cards, reopens>>
       ELSE /\ stored' = [stored EXCEPT ![q] = [call |-> c, state |-> "PENDING"]]
            /\ Proceed({}, {c}, "waiting")
            /\ cards' = cards \cup {q} /\ reopens' = reopens \cup {q}
  BY DEF Ask
<1>4. q \in Requests /\ stored[q].state = Unused /\ q \notin cards
  BY <1>1 DEF Free, CardsSound, CardsPending, Unused
<1>5. up
  BY <1>1, <1>2 DEF CardsSound, DownIsQuiet, Live
<1>6. /\ started' = started
      /\ phase' = [phase EXCEPT ![c] = IF c \in aborted THEN "DENIED" ELSE "waiting"]
  BY <1>1, <1>3 DEF Proceed, TypeOK
<1>7. stored' = [stored EXCEPT ![q] =
                   [call |-> c, state |-> IF c \in aborted THEN "CANCELLED" ELSE "PENDING"]]
  BY <1>3
<1>8. /\ stored'[q] = [call |-> c, state |-> IF c \in aborted THEN "CANCELLED" ELSE "PENDING"]
      /\ \A o \in Requests \ {q} : stored'[o] = stored[o]
      /\ stored' \in [Requests -> [call : Calls \cup {Unused}, state : RequestStates]]
  BY <1>1, <1>4, <1>7 DEF TypeOK, RequestStates
<1>9. /\ phase'[c] = IF c \in aborted THEN "DENIED" ELSE "waiting"
      /\ \A d \in Calls \ {c} : phase'[d] = phase[d]
      /\ phase' \in [Calls -> {Unused} \cup Live \cup Ended]
      /\ phase'[c] # Unused /\ phase[c] # Unused
  BY <1>1, <1>2, <1>6 DEF TypeOK, Live, Ended, Unused
<1>10. Grows
  BY <1>2, <1>4, <1>6, <1>8, <1>9 DEF Grows, Used, Unused
<1>11. cards' \in SUBSET Requests /\ reopens' \in SUBSET cards'
  BY <1>1, <1>3, <1>4 DEF TypeOK
<1>12. TypeOK'
  <2>1. \A o \in Requests : stored'[o].state # Unused =>
          stored'[o].call \in Calls /\ phase'[stored'[o].call] # Unused
    BY <1>1, <1>4, <1>8, <1>9 DEF TypeOK
  <2>2. \A d \in Calls : phase'[d] # Unused => asks'[d] \in Proposals
    BY <1>1, <1>2, <1>9 DEF TypeOK
  <2> QED
    BY <1>1, <1>2, <1>6, <1>8, <1>9, <1>11, <2>1, <2>2 DEF TypeOK
<1>13. \A o \in cards : o # q /\ CallOf(o)' = CallOf(o) /\ CallOf(o) \in Calls /\ CallOf(o) # c
  BY <1>1, <1>2, <1>4, <1>8, CardTyped DEF CardsSound, WaitersHaveCards, CallOf
<1>14. WaitersHaveCards'
  <2>1. CASE c \in aborted
    <3>1. cards' = cards /\ \A d \in Calls : phase'[d] = "waiting" <=> phase[d] = "waiting"
      BY <1>2, <1>3, <1>9, <2>1
    <3> QED
      BY <1>1, <1>13, <3>1 DEF CardsSound, WaitersHaveCards
  <2>2. CASE c \notin aborted
    <3>1. cards' = cards \cup {q} /\ CallOf(q)' = c /\ phase'[c] = "waiting"
      BY <1>3, <1>8, <1>9, <2>2 DEF CallOf
    <3>2. \A d \in Calls : d # c => phase'[d] = phase[d]
      BY <1>9
    <3> QED
      BY <1>1, <1>13, <3>1, <3>2 DEF CardsSound, WaitersHaveCards
  <2> QED
    BY <2>1, <2>2
<1>15. CardsPending'
  <2>1. cards = {o \in Requests : stored[o].state = "PENDING"} /\ reopens = cards
    BY <1>1, <1>5 DEF CardsSound, CardsPending, PendingIsLive
  <2>2. stored'[q].state = IF c \in aborted THEN "CANCELLED" ELSE "PENDING"
    BY <1>8
  <2>3. cards' = (IF c \in aborted THEN cards ELSE cards \cup {q}) /\ reopens' = cards'
    BY <1>3, <2>1
  <2>4. cards' = {o \in Requests : stored'[o].state = "PENDING"}
    BY <1>4, <1>8, <2>1, <2>2, <2>3
  <2> QED
    BY <2>3, <2>4 DEF CardsPending, PendingIsLive
<1>16. DownIsQuiet'
  BY <1>2, <1>5 DEF DownIsQuiet
<1>17. RanIsKnown'
  BY <1>1, <1>2, <1>6, <1>9 DEF RanIsKnown, TypeOK
<1>18. DecidedUsed' /\ RulesGiven' /\ AllJustified'
  BY <1>1, <1>2, <1>6, <1>10, NothingGranted
<1> QED
  BY <1>10, <1>12, <1>14, <1>15, <1>16, <1>17, <1>18 DEF IInv, CardsSound

LEMMA InvalidateKeeps ==
  ASSUME IInv, NEW q \in Requests, Invalidate(q)
  PROVE  IInv' /\ Grows
<1>1. /\ TypeOK /\ CardsSound /\ RanIsKnown
      /\ DecidedUsed /\ RulesGiven /\ AllJustified
  BY DEF IInv
<1>2. /\ q \in cards
      /\ UNCHANGED <<up, run, planned, asks, phase, aborted, started, decisions, rules>>
  BY DEF Invalidate
<1>3. PICK new \in Free : Reopen(q, new)
  BY <1>1, <1>2 DEF Invalidate, CardsSound, CardsPending
<1>4. new \in Requests /\ stored[new].state = Unused /\ new \notin cards /\ new # q
  BY <1>1, <1>2 DEF Free, CardsSound, CardsPending, Unused
<1>5. CallOf(q) \in Calls /\ phase[CallOf(q)] = "waiting" /\ stored[q].state = "PENDING"
  BY <1>1, <1>2, CardTyped DEF CardsSound, WaitersHaveCards, CardsPending
<1>6. /\ cards' = (cards \ {q}) \cup {new}
      /\ reopens' = (reopens \ {q}) \cup {new}
  BY <1>3 DEF Reopen
<1>7. /\ stored'[new] = [call |-> CallOf(q), state |-> "PENDING"]
      /\ stored'[q] = [stored[q] EXCEPT !.state = "INVALIDATED"]
      /\ \A o \in Requests \ {q, new} : stored'[o] = stored[o]
  BY <1>1, <1>3, <1>4 DEF Reopen, TypeOK
<1>8. stored'[q].call = CallOf(q) /\ stored'[q].state = "INVALIDATED"
      /\ stored'[q] \in [call : Calls \cup {Unused}, state : RequestStates]
  BY <1>1, <1>7, RowTyped DEF RequestStates, CallOf
<1>9. stored' \in [Requests -> [call : Calls \cup {Unused}, state : RequestStates]]
  <2>1. \A o \in Requests : stored'[o] \in [call : Calls \cup {Unused}, state : RequestStates]
    BY <1>1, <1>5, <1>7, <1>8 DEF TypeOK, RequestStates
  <2>2. stored' = [o \in Requests |-> stored'[o]]
    BY <1>1, <1>3 DEF Reopen, TypeOK
  <2> QED
    BY <2>1, <2>2
<1>10. Grows
  BY <1>2, <1>4, <1>7, <1>8 DEF Grows, Used, CallOf, Unused
<1>11. TypeOK'
  <2>1. cards' \in SUBSET Requests /\ reopens' \in SUBSET cards'
    BY <1>1, <1>4, <1>6 DEF TypeOK
  <2>2. \A o \in Requests : stored'[o].state # Unused =>
          stored'[o].call \in Calls /\ phase'[stored'[o].call] # Unused
    BY <1>1, <1>2, <1>5, <1>7, <1>8 DEF TypeOK, Unused
  <2> QED
    BY <1>1, <1>2, <1>9, <2>1, <2>2 DEF TypeOK
<1>12. \A o \in cards \ {q} : CallOf(o)' = CallOf(o) /\ o \in Requests
  BY <1>1, <1>4, <1>7 DEF TypeOK, CallOf
<1>13. CallOf(new)' = CallOf(q)
  BY <1>7 DEF CallOf
<1>14. WaitersHaveCards'
  BY <1>1, <1>2, <1>4, <1>5, <1>6, <1>12, <1>13 DEF CardsSound, WaitersHaveCards
<1>15. CardsPending'
  <2>1. up
    BY <1>1, <1>2 DEF CardsSound, DownIsQuiet
  <2>2. cards' = {o \in Requests : stored'[o].state = "PENDING"}
    BY <1>1, <1>4, <1>6, <1>7, <1>8, <2>1 DEF CardsSound, CardsPending, PendingIsLive
  <2> QED
    BY <1>1, <1>6, <2>2 DEF CardsSound, CardsPending, PendingIsLive
<1>16. DownIsQuiet'
  BY <1>1, <1>2 DEF CardsSound, DownIsQuiet
<1>17. RanIsKnown'
  BY <1>1, <1>2 DEF RanIsKnown
<1>18. DecidedUsed' /\ RulesGiven' /\ AllJustified'
  BY <1>1, <1>2, <1>10, NothingGranted
<1> QED
  BY <1>10, <1>11, <1>14, <1>15, <1>16, <1>17, <1>18 DEF IInv, CardsSound

LEMMA AnswerKeeps ==
  ASSUME IInv, NEW q \in Requests, NEW kind \in {"allow", "deny"}, NEW asked \in Scopes,
         NEW similar \in BOOLEAN, Answer(q, kind, asked, similar)
  PROVE  IInv' /\ Grows
<1> DEFINE p == Asked(q)
           scope == EffectiveScope(p, kind, asked)
           targets == Targets(q, similar)
           callers == {CallOf(o) : o \in targets}
           go == IF kind = "allow" THEN callers ELSE {}
           end == IF kind = "allow" THEN {} ELSE callers
           given == {[request |-> o, kind |-> kind, scope |-> scope] : o \in targets}
           state == IF kind = "allow" THEN "ALLOWED" ELSE "DENIED"
<1>1. /\ TypeOK /\ CardsSound /\ RanIsKnown
      /\ DecidedUsed /\ RulesGiven /\ AllJustified /\ CardsPending
  BY DEF IInv, CardsSound
<1>2. /\ q \in cards
      /\ rules' = rules \cup NewRules(p, kind, scope)
      /\ decisions' = decisions \cup given
      /\ Resolve(targets, state)
      /\ Proceed(go, end, "DENIED")
      /\ UNCHANGED <<up, run, planned, asks, aborted>>
  BY DEF Answer
<1>3. p \in Proposals /\ CallOf(q) \in Calls /\ Used(q)
  BY <1>1, <1>2, CardTyped
<1>4. scope \in Scopes /\ (kind = "allow" /\ p.level = "R3" => scope \notin {"task", "workspace"})
  BY EffectiveScopeTyped
<1>5. q \in targets /\ targets \in SUBSET cards
  BY <1>2 DEF Targets
<1>6. \A o \in targets : o \in Requests /\ Used(o) /\ CallOf(o) \in Calls
  BY <1>1, <1>5, CardTyped
<1>7. given \in SUBSET Decisions
  BY <1>4, <1>6 DEF Decisions
<1>8. NewRules(p, kind, scope) \subseteq Rules
  BY <1>3, <1>4, NewRulesTyped
<1>9. go \in SUBSET Calls /\ end \in SUBSET Calls /\ go \cup end = {CallOf(o) : o \in targets}
  BY <1>6
<1>10. state \in RequestStates \ {Unused, "PENDING"}
  BY DEF RequestStates, Unused
<1>11. decisions' \in SUBSET Decisions /\ decisions \subseteq decisions'
  BY <1>1, <1>2, <1>7 DEF TypeOK
<1>12. rules' \in SUBSET Rules /\ rules \subseteq rules'
  BY <1>1, <1>2, <1>8 DEF TypeOK
<1>13. /\ run' \in [Tasks -> {"none", "active", "stopping"}]
       /\ aborted \subseteq aborted' /\ aborted' \in SUBSET Calls
       /\ \A c \in aborted' : phase[c] # Unused
  BY <1>1, <1>2 DEF TypeOK, RanIsKnown
<1>14. UNCHANGED <<up, planned, asks>>
  BY <1>2
<1>15. TypeOK' /\ CardsSound' /\ RanIsKnown' /\ Grows /\ started' \subseteq started \cup go
  <2> HIDE DEF go, end, given, state, targets, scope, p
  <2> QED
    BY <1>2, <1>5, <1>9, <1>10, <1>11, <1>12, <1>13, <1>14, CardsGo
<1>16. DecidedUsed'
  <2>1. \A o \in Requests : Used(o) => Used(o)'
    BY <1>15 DEF Grows, Used
  <2>2. \A d \in decisions : d.request \in Requests /\ Used(d.request)
    BY <1>1 DEF TypeOK, Decisions, DecidedUsed
  <2>3. \A d \in given : d.request \in Requests /\ Used(d.request)
    BY <1>6
  <2> QED
    BY <1>2, <2>1, <2>2, <2>3 DEF DecidedUsed
<1>17. /\ Used(q)' /\ CallOf(q)' = CallOf(q) /\ Asked(q)' = p
       /\ UserAllowed(q, scope)' \/ kind = "deny"
  <2>1. phase[CallOf(q)] # Unused
    BY <1>1, <1>2 DEF CardsSound, WaitersHaveCards, Unused
  <2>2. Used(q)' /\ CallOf(q)' = CallOf(q)
    BY <1>3, <1>15 DEF Grows, Used, CallOf
  <2>3. Asked(q)' = p
    BY <1>2, <2>2 DEF Asked
  <2> QED
    BY <1>2, <1>5, <2>2, <2>3 DEF UserAllowed
<1>18. RulesGiven'
  <2> SUFFICES ASSUME NEW r \in rules', r.kind = "allow"
               PROVE  \E o \in Requests : GivenBy(r, o)'
    BY DEF RulesGiven
  <2>1. CASE r \in rules
    BY <1>1, <1>15, <2>1, GivenStays DEF RulesGiven
  <2>2. CASE r \in NewRules(p, kind, scope)
    <3>1. kind = "allow" /\ scope \in {"task", "workspace"} /\ r.key = p.key
          /\ r.task = IF scope = "task" THEN p.task ELSE NoTask
      BY <2>2 DEF NewRules, LeavesRule
    <3>2. p.level # "R3"
      BY <1>4, <3>1
    <3>3. UserAllowed(q, scope)'
      BY <1>17, <3>1
    <3>4. GivenBy(r, q)'
      BY <1>17, <3>1, <3>2, <3>3 DEF GivenBy
    <3> QED
      BY <3>4
  <2> QED
    BY <1>2, <2>1, <2>2
<1>19. AllJustified'
  <2> SUFFICES ASSUME NEW c \in started' PROVE Justified(c)'
    BY DEF AllJustified
  <2>1. CASE c \in started
    BY <1>1, <1>15, <2>1, JustifiedStays DEF AllJustified, RanIsKnown, TypeOK
  <2>2. CASE c \in go
    <3>1. kind = "allow"
      BY <2>2
    <3>2. PICK o \in targets : c = CallOf(o)
      BY <2>2, <3>1
    <3>3. PICK s \in Scopes : s = scope
      BY <1>4
    <3>4. [request |-> o, kind |-> "allow", scope |-> s] \in decisions'
      BY <1>2, <3>1, <3>2, <3>3
    <3>5. o \in Requests /\ Used(o) /\ CallOf(o) = c
      BY <1>6, <3>2
    <3>6. CallOf(o)' = c
      BY <1>15, <3>5 DEF Grows, CallOf
    <3>7. UserAllowed(o, s)'
      BY <3>4 DEF UserAllowed
    <3> QED
      BY <3>5, <3>6, <3>7 DEF Justified
  <2> QED
    BY <1>15, <2>1, <2>2
<1> QED
  BY <1>15, <1>16, <1>18, <1>19 DEF IInv

(* The end of runs: the cards of the calls it aborts are cancelled. *)
LEMMA AbortKeeps ==
  ASSUME IInv, NEW cs \in SUBSET Calls, \A c \in cs : phase[c] # Unused, Abort(cs),
         UNCHANGED <<up, planned, asks, decisions, rules>>,
         run' \in [Tasks -> {"none", "active", "stopping"}]
  PROVE  IInv' /\ Grows /\ started' = started
<1> DEFINE qs == {q \in cards : CallOf(q) \in cs}
<1>1. /\ aborted' = aborted \cup cs /\ Resolve(qs, "CANCELLED")
      /\ Proceed({}, {CallOf(q) : q \in qs}, "DENIED")
  BY DEF Abort
<1>2. qs \in SUBSET cards
  OBVIOUS
<1>3. /\ aborted \subseteq aborted' /\ aborted' \in SUBSET Calls
      /\ \A c \in aborted' : phase[c] # Unused
  BY <1>1 DEF IInv, TypeOK, RanIsKnown
<1> HIDE DEF qs
<1> QED
  BY <1>1, <1>2, <1>3, CardsCancelled

LEMMA CallsOfKnown ==
  ASSUME NEW t
  PROVE  CallsOf(t) \in SUBSET Calls /\ \A c \in CallsOf(t) : phase[c] # Unused
  BY DEF CallsOf, Live, Unused

LEMMA StopRunKeeps ==
  ASSUME IInv, NEW t \in Tasks, StopRun(t)
  PROVE  IInv' /\ Grows /\ started' = started
<1>1. Abort(CallsOf(t)) /\ UNCHANGED <<up, planned, asks, decisions, rules>>
  BY DEF StopRun
<1>2. run' \in [Tasks -> {"none", "active", "stopping"}]
  BY DEF StopRun, IInv, TypeOK
<1> QED
  BY <1>1, <1>2, CallsOfKnown, AbortKeeps

LEMMA EndRunKeeps ==
  ASSUME IInv, NEW t \in Tasks, EndRun(t)
  PROVE  IInv' /\ Grows /\ started' = started
<1>1. Abort(CallsOf(t)) /\ UNCHANGED <<up, planned, asks, decisions, rules>>
  BY DEF EndRun
<1>2. run' \in [Tasks -> {"none", "active", "stopping"}]
  BY DEF EndRun, IInv, TypeOK
<1> QED
  BY <1>1, <1>2, CallsOfKnown, AbortKeeps

LEMMA WorkerExitsKeeps ==
  ASSUME IInv, WorkerExits
  PROVE  IInv' /\ Grows /\ started' = started
<1> DEFINE cs == UNION {CallsOf(t) : t \in {u \in Tasks : run[u] # "none"}}
<1>1. Abort(cs) /\ UNCHANGED <<up, planned, asks, decisions, rules>>
  BY DEF WorkerExits
<1>2. run' \in [Tasks -> {"none", "active", "stopping"}]
  BY DEF WorkerExits
<1>3. cs \in SUBSET Calls /\ \A c \in cs : phase[c] # Unused
  BY CallsOfKnown
<1> HIDE DEF cs
<1> QED
  BY <1>1, <1>2, <1>3, AbortKeeps

LEMMA CancelAllKeeps ==
  ASSUME IInv, CancelAll
  PROVE  IInv' /\ Grows /\ started' = started
<1>1. /\ Resolve(cards, "CANCELLED") /\ Proceed({}, {CallOf(q) : q \in cards}, "DENIED")
      /\ UNCHANGED <<up, run, planned, asks, aborted, decisions, rules>>
  BY DEF CancelAll
<1>2. run' \in [Tasks -> {"none", "active", "stopping"}]
  BY <1>1 DEF IInv, TypeOK
<1>3. aborted' \in SUBSET Calls /\ \A c \in aborted' : phase[c] # Unused
  BY <1>1 DEF IInv, TypeOK, RanIsKnown
<1> QED
  BY <1>1, <1>2, <1>3, CardsCancelled

(* A run begins or a plan is decided: nothing else moves. *)
LEMMA HostKeeps ==
  ASSUME IInv,
         run' \in [Tasks -> {"none", "active", "stopping"}], planned' \in SUBSET Tasks,
         UNCHANGED <<up, asks, phase, aborted, started, cards, reopens, stored, decisions, rules>>
  PROVE  IInv' /\ Grows
<1>1. /\ TypeOK /\ CardsSound /\ RanIsKnown
      /\ DecidedUsed /\ RulesGiven /\ AllJustified
  BY DEF IInv
<1>2. Grows
  BY DEF Grows, Used
<1>3. TypeOK'
  BY <1>1 DEF TypeOK
<1>4. WaitersHaveCards'
  BY <1>1 DEF CardsSound, WaitersHaveCards, CallOf
<1>5. CardsSound' /\ RanIsKnown'
  BY <1>1, <1>4 DEF CardsSound, CardsPending, PendingIsLive, DownIsQuiet, RanIsKnown
<1>6. DecidedUsed' /\ RulesGiven' /\ AllJustified'
  BY <1>1, <1>2, NothingGranted
<1> QED
  BY <1>2, <1>3, <1>5, <1>6 DEF IInv

LEMMA CrashKeeps ==
  ASSUME IInv, Crash
  PROVE  IInv' /\ Grows
<1>1. /\ TypeOK /\ CardsSound /\ RanIsKnown
      /\ DecidedUsed /\ RulesGiven /\ AllJustified
  BY DEF IInv
<1>2. /\ up' = FALSE /\ run' = [t \in Tasks |-> "none"]
      /\ phase' = [c \in Calls |-> IF phase[c] \in Live THEN "lost" ELSE phase[c]]
      /\ aborted' = {} /\ cards' = {} /\ reopens' = {}
      /\ UNCHANGED <<planned, asks, started, stored, decisions, rules>>
  BY DEF Crash
<1>3. /\ phase' \in [Calls -> {Unused} \cup Live \cup Ended]
      /\ \A c \in Calls : phase'[c] \notin Live /\ (phase'[c] = Unused <=> phase[c] = Unused)
  BY <1>1, <1>2 DEF TypeOK, Live, Ended, Unused
<1>4. Grows
  BY <1>2, <1>3 DEF Grows, Used
<1>5. TypeOK'
  BY <1>1, <1>2, <1>3 DEF TypeOK
<1>6. CardsSound'
  BY <1>2, <1>3 DEF CardsSound, WaitersHaveCards, CardsPending, PendingIsLive, DownIsQuiet, Live
<1>7. RanIsKnown'
  BY <1>1, <1>2, <1>3 DEF RanIsKnown, TypeOK
<1>8. DecidedUsed' /\ RulesGiven' /\ AllJustified'
  BY <1>1, <1>2, <1>4, NothingGranted
<1> QED
  BY <1>4, <1>5, <1>6, <1>7, <1>8 DEF IInv

LEMMA RestartKeeps ==
  ASSUME IInv, Restart
  PROVE  IInv' /\ Grows
<1>1. /\ TypeOK /\ CardsSound /\ RanIsKnown
      /\ DecidedUsed /\ RulesGiven /\ AllJustified
  BY DEF IInv
<1>2. /\ ~up /\ up' = TRUE
      /\ UNCHANGED <<run, planned, asks, phase, aborted, started, cards, reopens,
                     decisions, rules>>
  BY DEF Restart
<1>3. stored' = [q \in Requests |->
                   IF stored[q].state = "PENDING"
                   THEN [stored[q] EXCEPT !.state = "CANCELLED"] ELSE stored[q]]
  BY DEF Restart
<1>4. \A q \in Requests : stored[q] \in [call : Calls \cup {Unused}, state : RequestStates]
  BY <1>1 DEF TypeOK
<1>5. \A q \in Requests :
        /\ stored'[q] \in [call : Calls \cup {Unused}, state : RequestStates]
        /\ stored'[q].call = stored[q].call /\ stored'[q].state # "PENDING"
        /\ stored'[q].state = Unused <=> stored[q].state = Unused
  BY <1>3, <1>4 DEF RequestStates, Unused
<1>6. stored' \in [Requests -> [call : Calls \cup {Unused}, state : RequestStates]]
  BY <1>3, <1>5
<1>7. Grows
  BY <1>2, <1>5 DEF Grows, Used
<1>8. TypeOK'
  <2>1. \A q \in Requests : stored'[q].state # Unused =>
          stored'[q].call \in Calls /\ phase'[stored'[q].call] # Unused
    BY <1>1, <1>2, <1>5 DEF TypeOK
  <2> QED
    BY <1>1, <1>2, <1>6, <2>1 DEF TypeOK
<1>9. cards = {} /\ \A c \in Calls : phase[c] \notin Live
  BY <1>1, <1>2 DEF CardsSound, DownIsQuiet
<1>10. CardsSound'
  BY <1>1, <1>2, <1>5, <1>9
     DEF CardsSound, WaitersHaveCards, CardsPending, PendingIsLive, DownIsQuiet, Live
<1>11. RanIsKnown'
  BY <1>1, <1>2 DEF RanIsKnown
<1>12. DecidedUsed' /\ RulesGiven' /\ AllJustified'
  BY <1>1, <1>2, <1>7, NothingGranted
<1> QED
  BY <1>7, <1>8, <1>10, <1>11, <1>12 DEF IInv

-----------------------------------------------------------------------------
(* The invariant, and what follows from it. *)

LEMMA InitHolds == Init => IInv
<1> SUFFICES ASSUME Init PROVE IInv
  OBVIOUS
<1>1. TypeOK
  BY DEF Init, TypeOK, NoRequest, RequestStates
<1>2. CardsSound /\ RanIsKnown
  BY DEF Init, CardsSound, WaitersHaveCards, CardsPending, PendingIsLive, DownIsQuiet,
         RanIsKnown, NoRequest, Unused
<1>3. DecidedUsed /\ RulesGiven /\ AllJustified
  BY DEF Init, DecidedUsed, RulesGiven, AllJustified
<1> QED
  BY <1>1, <1>2, <1>3 DEF IInv

LEMMA StepKeeps ==
  ASSUME IInv, Next
  PROVE  IInv' /\ Grows
<1>1. CASE \E c \in Calls, p \in Proposals : Propose(c, p)
  BY <1>1, ProposeKeeps
<1>2. CASE \E c \in Calls : CallSteps(c)
  BY <1>2, DenyAtOnceKeeps, AllowAtOnceKeeps, AskKeeps, ReturnKeeps DEF CallSteps
<1>3. CASE \E q \in Requests : Invalidate(q)
  BY <1>3, InvalidateKeeps
<1>4. CASE \E q \in Requests, kind \in {"allow", "deny"}, scope \in Scopes, similar \in BOOLEAN :
             Answer(q, kind, scope, similar)
  BY <1>4, AnswerKeeps
<1>5. CASE \E t \in Tasks : StartRun(t)
  <2>1. run' \in [Tasks -> {"none", "active", "stopping"}] /\ planned' \in SUBSET Tasks
    BY <1>5 DEF StartRun, IInv, TypeOK
  <2> QED
    BY <1>5, <2>1, HostKeeps DEF StartRun
<1>6. CASE \E t \in Tasks : DecidePlan(t)
  <2>1. run' \in [Tasks -> {"none", "active", "stopping"}] /\ planned' \in SUBSET Tasks
    BY <1>6 DEF DecidePlan, IInv, TypeOK
  <2> QED
    BY <1>6, <2>1, HostKeeps DEF DecidePlan
<1>7. CASE \E t \in Tasks : StopRun(t) \/ EndRun(t)
  BY <1>7, StopRunKeeps, EndRunKeeps
<1>8. CASE WorkerExits \/ CancelAll
  BY <1>8, WorkerExitsKeeps, CancelAllKeeps
<1>9. CASE Crash \/ Restart
  BY <1>9, CrashKeeps, RestartKeeps
<1> QED
  BY <1>1, <1>2, <1>3, <1>4, <1>5, <1>6, <1>7, <1>8, <1>9 DEF Next

LEMMA StutterKeeps ==
  ASSUME IInv, UNCHANGED vars
  PROVE  IInv'
<1>1. UNCHANGED <<up, run, planned, asks, phase, aborted, started, cards, reopens,
                  stored, decisions, rules>>
  BY DEF vars
<1>2. run' \in [Tasks -> {"none", "active", "stopping"}] /\ planned' \in SUBSET Tasks
  BY <1>1 DEF IInv, TypeOK
<1> QED
  BY <1>1, <1>2, HostKeeps

LEMMA Inductive == Spec => []IInv
<1>1. IInv /\ [Next]_vars => IInv'
  BY StepKeeps, StutterKeeps
<1> QED
  BY <1>1, InitHolds, PTL DEF Spec

(* Every column and every memory stays within its type, whatever is asked, *)
(* answered, stopped and lost.                                             *)
THEOREM TypeCorrect == Spec => []TypeOK
<1>1. IInv => TypeOK
  BY DEF IInv
<1> QED
  BY <1>1, Inductive, PTL

(* The calls that wait, the cards and the pending rows are about the same   *)
(* things, whatever is aborted, asked again, lost and restarted.           *)
THEOREM CardsStayTrue == Spec => []CardsAreTrue
<1>1. IInv => CardsAreTrue
  BY DEF IInv, CardsSound, CardsPending, CardsAreTrue
<1> QED
  BY <1>1, Inductive, PTL

(* No tool runs that the user, the mode or the policy has not allowed.     *)
THEOREM EveryRunIsAllowed == Spec => []NothingRunsUnasked
<1>1. IInv => NothingRunsUnasked
  BY DEF IInv, AllJustified, Justified, NothingRunsUnasked
<1> QED
  BY <1>1, Inductive, PTL

-----------------------------------------------------------------------------
(* What no step does. *)

(* A call that waited for its preview runs only by the engine's leave. *)
LEMMA PreviewedRunsIfAllowed ==
  ASSUME IInv, Next, NEW c \in Calls, phase[c] = "previewing", phase'[c] = "running"
  PROVE  ~Refused(asks[c])
<1>1. TypeOK /\ WaitersHaveCards /\ CardsPending
  BY DEF IInv, CardsSound
<1>2. \A go, end, outcome : Proceed(go, end, outcome) /\ outcome # "running" => c \in go
  BY <1>1 DEF Proceed
<1>3. CASE \E d \in Calls, p \in Proposals : Propose(d, p)
  <2>1. PICK d \in Calls, p \in Proposals : Propose(d, p)
    BY <1>3
  <2>2. c # d
    BY <2>1 DEF Propose, Unused
  <2>3. PICK s : phase' = [phase EXCEPT ![d] = s]
    BY <2>1 DEF Propose, Reject, Accept
  <2> QED
    BY <1>1, <2>2, <2>3 DEF TypeOK
<1>4. CASE \E d \in Calls : DenyAtOnce(d)
  BY <1>2, <1>4 DEF DenyAtOnce
<1>5. CASE \E d \in Calls : AllowAtOnce(d)
  BY <1>2, <1>5 DEF AllowAtOnce
<1>6. CASE \E d \in Calls : Ask(d)
  BY <1>2, <1>6 DEF Ask
<1>7. CASE \E d \in Calls : Return(d)
  BY <1>2, <1>7 DEF Return
<1>8. CASE \E q \in Requests, kind \in {"allow", "deny"}, scope \in Scopes, similar \in BOOLEAN :
             Answer(q, kind, scope, similar)
  <2>1. PICK q \in Requests, kind \in {"allow", "deny"}, scope \in Scopes, similar \in BOOLEAN :
               Answer(q, kind, scope, similar)
    BY <1>8
  <2>2. c \in {CallOf(o) : o \in Targets(q, similar)}
    BY <1>2, <2>1 DEF Answer
  <2>3. Targets(q, similar) \subseteq cards
    BY <2>1 DEF Answer, Targets
  <2>4. phase[c] = "waiting"
    BY <1>1, <2>2, <2>3 DEF WaitersHaveCards
  <2> QED
    BY <2>4
<1>9. CASE \E t \in Tasks : StopRun(t) \/ EndRun(t)
  BY <1>2, <1>9 DEF StopRun, EndRun, Abort
<1>10. CASE WorkerExits \/ CancelAll
  BY <1>2, <1>10 DEF WorkerExits, CancelAll, Abort
<1>11. CASE Crash
  BY <1>1, <1>11 DEF Crash, TypeOK, Live
<1>12. CASE Restart \/ (\E q \in Requests : Invalidate(q)) \/ (\E t \in Tasks : StartRun(t) \/ DecidePlan(t))
  BY <1>12 DEF Restart, Invalidate, StartRun, DecidePlan
<1> QED
  BY <1>3, <1>4, <1>5, <1>6, <1>7, <1>8, <1>9, <1>10, <1>11, <1>12 DEF Next, CallSteps

(* "Always deny" is for ever, and stronger than every mode and every grant. *)
THEOREM DenialsStand == Spec => DenialStands
<1>1. ASSUME IInv, [Next]_vars, NEW r \in rules, r.kind = "deny"
      PROVE  /\ r \in rules'
             /\ \A c \in Calls :
                  phase[c] = "previewing" /\ phase'[c] = "running" /\ asks[c].tool # "plan" /\ asks[c].level # "R0"
                    => ~Matches(r, asks[c])
  <2>1. CASE Next
    <3>1. r \in rules'
      BY <1>1, <2>1, StepKeeps DEF Grows
    <3>2. ASSUME NEW c \in Calls, phase[c] = "previewing", phase'[c] = "running",
                 asks[c].tool # "plan", asks[c].level # "R0"
          PROVE  ~Matches(r, asks[c])
      <4>1. ~Refused(asks[c])
        BY <1>1, <2>1, <3>2, PreviewedRunsIfAllowed
      <4>2. ~Harmless(asks[c])
        BY <3>2 DEF Harmless
      <4> QED
        BY <1>1, <4>1, <4>2 DEF Refused, DenyRule
    <3> QED
      BY <3>1, <3>2
  <2>2. CASE UNCHANGED vars
    BY <1>1, <2>2 DEF vars
  <2> QED
    BY <1>1, <2>1, <2>2
<1>2. IInv /\ [Next]_vars =>
        [\A r \in rules : r.kind = "deny" =>
           /\ r \in rules'
           /\ \A c \in Calls :
                phase[c] = "previewing" /\ phase'[c] = "running" /\ asks[c].tool # "plan" /\ asks[c].level # "R0"
                  => ~Matches(r, asks[c])]_vars
  BY <1>1
<1> QED
  BY <1>2, Inductive, PTL DEF Spec, DenialStands

LEMMA AbortedStartNothing ==
  ASSUME IInv, Next, NEW c \in aborted, c \in started'
  PROVE  c \in started
<1>1. phase[c] # Unused
  BY DEF IInv, RanIsKnown
<1>2. \A go, end, outcome : Proceed(go, end, outcome) => c \in started
  BY DEF Proceed, GoesAhead
<1>3. CASE \E d \in Calls, p \in Proposals : Propose(d, p)
  BY <1>1, <1>3 DEF Propose
<1>4. CASE \E d \in Calls : CallSteps(d)
  BY <1>2, <1>4 DEF CallSteps, DenyAtOnce, AllowAtOnce, Ask, Return
<1>5. CASE \E q \in Requests, kind \in {"allow", "deny"}, scope \in Scopes, similar \in BOOLEAN :
             Answer(q, kind, scope, similar)
  BY <1>2, <1>5 DEF Answer
<1>6. CASE WorkerExits \/ CancelAll \/ (\E t \in Tasks : StopRun(t) \/ EndRun(t))
  BY <1>2, <1>6 DEF StopRun, EndRun, Abort, WorkerExits, CancelAll
<1>7. CASE Crash \/ Restart \/ (\E q \in Requests : Invalidate(q))
           \/ (\E t \in Tasks : StartRun(t) \/ DecidePlan(t))
  BY <1>7 DEF Crash, Restart, Invalidate, StartRun, DecidePlan
<1> QED
  BY <1>3, <1>4, <1>5, <1>6, <1>7 DEF Next

(* A call that was stopped never starts its tool afterwards. *)
THEOREM StoppedCallsStartNothing == Spec => NothingStartsAfterStop
<1>1. IInv /\ [Next]_vars => [\A c \in aborted : c \in started' => c \in started]_vars
  BY AbortedStartNothing
<1> QED
  BY <1>1, Inductive, PTL DEF Spec, NothingStartsAfterStop

(* What became of a request that is settled. *)
Stays(q) ==
  /\ stored'[q] = stored[q]
  /\ \A d \in decisions' : d.request = q => d \in decisions

LEMMA SettledStays ==
  ASSUME IInv, Next, NEW q \in Requests, stored[q].state \notin {Unused, "PENDING"}
  PROVE  Stays(q)
<1>1. TypeOK /\ CardsPending
  BY DEF IInv, CardsSound
<1>2. q \notin cards /\ q \notin Free
  BY <1>1 DEF CardsPending, Free
<1>3. \A qs, state : Resolve(qs, state) /\ qs \subseteq cards => stored'[q] = stored[q]
  BY <1>2 DEF Resolve
<1>4. CASE \E d \in Calls : Ask(d)
  BY <1>1, <1>2, <1>4 DEF Ask, Stays, TypeOK
<1>5. CASE \E o \in Requests : Invalidate(o)
  <2>1. PICK o \in Requests : Invalidate(o)
    BY <1>5
  <2>2. o # q /\ decisions' = decisions
    BY <1>2, <2>1 DEF Invalidate
  <2>3. PICK new \in Free : Reopen(o, new)
    BY <1>1, <2>1 DEF Invalidate, CardsPending
  <2>4. new # q
    BY <1>2
  <2>5. stored'[q] = stored[q]
    BY <1>1, <2>2, <2>3, <2>4 DEF Reopen, TypeOK
  <2> QED
    BY <2>2, <2>5 DEF Stays
<1>6. CASE \E o \in Requests, kind \in {"allow", "deny"}, scope \in Scopes, similar \in BOOLEAN :
             Answer(o, kind, scope, similar)
  <2>1. PICK o \in Requests, kind \in {"allow", "deny"}, scope \in Scopes, similar \in BOOLEAN :
               Answer(o, kind, scope, similar)
    BY <1>6
  <2>2. Targets(o, similar) \subseteq cards
    BY <2>1 DEF Answer, Targets
  <2>3. stored'[q] = stored[q]
    BY <1>3, <2>1, <2>2 DEF Answer
  <2>4. \A d \in decisions' \ decisions : d.request \in Targets(o, similar)
    BY <2>1 DEF Answer
  <2>5. q \notin Targets(o, similar)
    BY <1>2, <2>2
  <2> QED
    BY <2>3, <2>4, <2>5 DEF Stays
<1>7. CASE WorkerExits \/ CancelAll \/ (\E t \in Tasks : StopRun(t) \/ EndRun(t))
  <2>1. ASSUME NEW cs, Abort(cs) PROVE stored'[q] = stored[q]
    <3> DEFINE qs == {o \in cards : CallOf(o) \in cs}
    <3>1. Resolve(qs, "CANCELLED") /\ qs \subseteq cards
      BY <2>1 DEF Abort
    <3> HIDE DEF qs
    <3> QED
      BY <1>3, <3>1
  <2>2. CASE CancelAll
    BY <1>3, <2>2 DEF CancelAll, Stays
  <2>3. CASE WorkerExits \/ (\E t \in Tasks : StopRun(t) \/ EndRun(t))
    BY <2>1, <2>3 DEF StopRun, EndRun, WorkerExits, Stays
  <2> QED
    BY <1>7, <2>2, <2>3
<1>8. CASE Restart
  BY <1>8 DEF Restart, Stays
<1>9. CASE Crash \/ (\E t \in Tasks : StartRun(t) \/ DecidePlan(t))
           \/ (\E d \in Calls : DenyAtOnce(d) \/ AllowAtOnce(d) \/ Return(d))
           \/ (\E d \in Calls, p \in Proposals : Propose(d, p))
  BY <1>9 DEF Crash, StartRun, DecidePlan, DenyAtOnce, AllowAtOnce, Return, Propose, Stays
<1> QED
  BY <1>4, <1>5, <1>6, <1>7, <1>8, <1>9 DEF Next, CallSteps

(* A request is answered once and for all. *)
THEOREM AnswersStay == Spec => AnswersAreFinal
<1>1. IInv /\ UNCHANGED vars => \A q \in Requests : Stays(q)
  BY DEF vars, Stays
<1>2. IInv /\ [Next]_vars =>
        [\A q \in Requests : stored[q].state \notin {Unused, "PENDING"} =>
           /\ stored'[q] = stored[q]
           /\ \A d \in decisions' : d.request = q => d \in decisions]_vars
  BY SettledStays, <1>1 DEF Stays
<1> QED
  BY <1>2, Inductive, PTL DEF Spec, AnswersAreFinal
=============================================================================
