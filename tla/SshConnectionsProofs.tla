------------------------- MODULE SshConnectionsProofs -------------------------
(***************************************************************************)
(* Safety of SshConnections for any hosts, jumps, bounds and delays.       *)
(*                                                                         *)
(* Every action gives one host a new record and a new row of phases, and   *)
(* releases its jump host when it stops riding on it: Place.  So what each *)
(* helper makes of a record is stated first, then what each record keeps   *)
(* true of itself (HostGood), and one lemma (PlaceGood) says when a host   *)
(* that changes leaves the hosts it rides on, and those that ride on it,   *)
(* as they should be.                                                      *)
(***************************************************************************)
EXTENDS SshConnections, TLAPS

-----------------------------------------------------------------------------
(* What the helpers make of the record of a host. *)

Armed(r) == IF IsIdle(r) THEN [r EXCEPT !.idle = TRUE] ELSE r
Held(r, token) == [r EXCEPT !.holds = @ \union {token}, !.idle = FALSE]
Freed(r, token) == IF token \in r.holds THEN Armed([r EXCEPT !.holds = @ \ {token}]) ELSE r
Opens(r) == [r EXCEPT !.gen = @ + 1,
                      !.state = IF r.attempts > 0 THEN "reconnecting" ELSE "connecting"]
Dials(r) == Opens([r EXCEPT !.timer = FALSE, !.intentional = FALSE,
                            !.attempts = 0, !.promise = r.gen + 1])
Settles(r, g) == IF r.promise = g THEN [r EXCEPT !.promise = NoPromise] ELSE r
Schedules(r, h) ==
  IF MayReconnect(r, h)
  THEN [r EXCEPT !.attempts = @ + 1, !.state = "reconnecting", !.timer = TRUE,
                 !.strays = @ + (IF r.timer THEN 1 ELSE 0)]
  ELSE [r EXCEPT !.state = "disconnected"]
Catches(r, h) == IF r.state \in {"connecting", "reconnecting"} THEN Schedules(r, h) ELSE r
Drops(r) == [r EXCEPT !.client = NoClient, !.channels = {}, !.idle = FALSE, !.rides = NoRide]
Loses(r, h, wasReady) ==
  IF r.intentional THEN r
  ELSE IF ~wasReady THEN Drops(r)
  ELSE IF r.holds = {} THEN [Drops(r) EXCEPT !.state = "disconnected"]
  ELSE Schedules(Drops(r), h)
Tears(r) == [r EXCEPT !.intentional = TRUE, !.timer = FALSE, !.idle = FALSE,
                      !.client = NoClient, !.gen = @ + 1, !.promise = NoPromise,
                      !.channels = {}, !.holds = {}, !.rides = NoRide,
                      !.state = "disconnected"]

\* All records, when host h gets the record r: its jump host loses the hold of
\* a rider that no longer rides.
LetsGo(ms, h, r) == HasJump(h) /\ ms[h].rides # NoRide /\ r.rides = NoRide
Place(ms, h, r) ==
  [k \in Hosts |-> IF k = h THEN r
                   ELSE IF LetsGo(ms, h, r) /\ k = Jump[h] THEN Freed(ms[k], h) ELSE ms[k]]

AllRecords == [Hosts -> Managed]
Put(ms, h, r) == [ms EXCEPT ![h] = r]

(* Each helper keeps a record a record. *)
LEMMA RecordsTyped ==
  ASSUME NEW r \in Managed
  PROVE  /\ Armed(r) \in Managed
         /\ \A token \in Hosts \union {"user"} : Held(r, token) \in Managed /\ Freed(r, token) \in Managed
         /\ Opens(r) \in Managed /\ Dials(r) \in Managed /\ Drops(r) \in Managed /\ Tears(r) \in Managed
         /\ \A g : Settles(r, g) \in Managed
         /\ \A h : Schedules(r, h) \in Managed /\ Catches(r, h) \in Managed
         /\ \A h : \A wasReady \in BOOLEAN : Loses(r, h, wasReady) \in Managed
<1>1. Armed(r) \in Managed /\ Opens(r) \in Managed /\ Drops(r) \in Managed /\ Tears(r) \in Managed
  <2>1. Armed(r) \in Managed
    BY DEF Armed, Managed
  <2>2. Opens(r) \in Managed
    <3>1. r.gen + 1 \in Nat
      BY DEF Managed
    <3>2. (IF r.attempts > 0 THEN "reconnecting" ELSE "connecting")
          \in {"disconnected", "connecting", "connected", "reconnecting"}
      OBVIOUS
    <3> QED BY <3>1, <3>2 DEF Opens, Managed
  <2>3. Drops(r) \in Managed
    BY DEF Drops, Managed, NoClient, NoRide
  <2>4. Tears(r) \in Managed
    <3>1. r.gen + 1 \in Nat /\ 0 \in Nat
      BY DEF Managed
    <3> DEFINE q == [r EXCEPT !.intentional = TRUE, !.timer = FALSE, !.idle = FALSE, !.client = 0, !.gen = @ + 1]
    <3>2. q \in Managed
      BY <3>1 DEF Managed
    <3>3. Tears(r) = [q EXCEPT !.promise = 0, !.channels = {}, !.holds = {}, !.rides = 0, !.state = "disconnected"]
      BY DEF Tears, NoClient, NoRide, NoPromise
    <3> HIDE DEF q
    <3> QED BY <3>1, <3>2, <3>3, ZenonT(60) DEF Managed
  <2> QED BY <2>1, <2>2, <2>3, <2>4
<1>2. Dials(r) \in Managed
  <2> DEFINE q == [r EXCEPT !.timer = FALSE, !.intentional = FALSE, !.attempts = 0, !.promise = r.gen + 1]
  <2>1. q \in Managed
    <3>1. r.gen + 1 \in Nat /\ 0 \in 0 .. Delays
      BY BoundsAssumption DEF Managed
    <3> QED BY <3>1 DEF Managed
  <2>2. Opens(q) \in Managed
    BY <2>1, ZenonT(60) DEF Opens, Managed
  <2> QED BY <2>2 DEF Dials
<1>3. ASSUME NEW token \in Hosts \union {"user"} PROVE Held(r, token) \in Managed /\ Freed(r, token) \in Managed
  BY ZenonT(60) DEF Held, Freed, Armed, Managed
<1>4. ASSUME NEW g PROVE Settles(r, g) \in Managed
  BY DEF Settles, Managed, NoPromise
<1>5. ASSUME NEW h, NEW q \in Managed PROVE Schedules(q, h) \in Managed
  <2>1. MayReconnect(q, h) => q.attempts + 1 \in 0 .. Delays
    BY BoundsAssumption DEF MayReconnect, Managed
  <2>2. q.strays + (IF q.timer THEN 1 ELSE 0) \in Nat
    BY DEF Managed
  <2> HIDE DEF MayReconnect
  <2> QED BY <2>1, <2>2, ZenonT(60) DEF Schedules, Managed
<1>6. ASSUME NEW h PROVE Catches(r, h) \in Managed
  BY <1>5 DEF Catches
<1>7. ASSUME NEW h, NEW wasReady \in BOOLEAN PROVE Loses(r, h, wasReady) \in Managed
  <2>1. [Drops(r) EXCEPT !.state = "disconnected"] \in Managed
    BY <1>1 DEF Managed
  <2> QED BY <1>1, <1>5, <2>1 DEF Loses
<1> QED BY <1>1, <1>2, <1>3, <1>4, <1>5, <1>6, <1>7

(* The helpers of the model do that, to the record of their host. *)
LEMMA ReleaseForPuts ==
  ASSUME NEW ms \in AllRecords, NEW h \in Hosts, NEW token
  PROVE  ReleaseFor(ms, h, token) = Put(ms, h, Freed(ms[h], token))
  BY DEF Put, ReleaseFor, ArmIfIdle, Armed, Freed, AllRecords

LEMMA HelpersPut ==
  ASSUME NEW ms \in AllRecords, NEW h \in Hosts
  PROVE  /\ ms = Put(ms, h, ms[h])
         /\ ArmIfIdle(ms, h) = Put(ms, h, Armed(ms[h]))
         /\ \A token : HoldFor(ms, h, token) = Put(ms, h, Held(ms[h], token))
         /\ \A token : ReleaseFor(ms, h, token) = Put(ms, h, Freed(ms[h], token))
         /\ Opened(ms, h) = Put(ms, h, Opens(ms[h]))
         /\ Dialled(ms, h) = Put(ms, h, Dials(ms[h]))
         /\ \A g : Settle(ms, h, g) = Put(ms, h, Settles(ms[h], g))
         /\ Scheduled(ms, h) = Put(ms, h, Schedules(ms[h], h))
         /\ Caught(ms, h) = Put(ms, h, Catches(ms[h], h))
<1>0. ms = Put(ms, h, ms[h])
  BY DEF AllRecords, Put
<1>1. ArmIfIdle(ms, h) = Put(ms, h, Armed(ms[h]))
  BY <1>0 DEF ArmIfIdle, Armed, AllRecords, Put
<1>2. ASSUME NEW token PROVE HoldFor(ms, h, token) = Put(ms, h, Held(ms[h], token))
  BY DEF HoldFor, Held, AllRecords, Put
<1>3. ASSUME NEW token PROVE ReleaseFor(ms, h, token) = Put(ms, h, Freed(ms[h], token))
  BY ReleaseForPuts
<1>4. Opened(ms, h) = Put(ms, h, Opens(ms[h]))
  BY DEF Opened, Opens, AllRecords, Put
<1>5. Dialled(ms, h) = Put(ms, h, Dials(ms[h]))
  <2> DEFINE q == [ms[h] EXCEPT !.timer = FALSE, !.intentional = FALSE, !.attempts = 0, !.promise = ms[h].gen + 1]
             ns == Put(ms, h, q)
  <2>1. ns[h] = q /\ Put(ns, h, Opens(q)) = Put(ms, h, Opens(q))
    BY DEF AllRecords, Put
  <2>2. [ms EXCEPT ![h].timer = FALSE, ![h].intentional = FALSE, ![h].attempts = 0, ![h].promise = ms[h].gen + 1] = ns
    BY DEF AllRecords, Put
  <2>3. Opened(ns, h) = Put(ns, h, Opens(ns[h]))
    BY ZenonT(60) DEF Opened, Opens, AllRecords, Put
  <2>4. Dialled(ms, h) = Opened(ns, h)
    BY <2>2 DEF Dialled
  <2>5. Dials(ms[h]) = Opens(q)
    BY DEF Dials
  <2> HIDE DEF q, ns
  <2> QED BY <2>1, <2>3, <2>4, <2>5
<1>6. ASSUME NEW g PROVE Settle(ms, h, g) = Put(ms, h, Settles(ms[h], g))
  BY <1>0 DEF Settle, Settles, AllRecords, Put
<1>7. Scheduled(ms, h) = Put(ms, h, Schedules(ms[h], h))
  BY DEF Scheduled, Schedules, AllRecords, Put
<1>8. Caught(ms, h) = Put(ms, h, Catches(ms[h], h))
  BY <1>0, <1>7 DEF Caught, Catches, AllRecords, Put
<1> QED BY <1>0, <1>1, <1>2, <1>3, <1>4, <1>5, <1>6, <1>7, <1>8

(* What Place does, and that a host may change twice: what its helpers do     *)
(* after it let go of its jump host concerns its own record.                  *)
LEMMA PlaceSame == ASSUME NEW ms \in AllRecords, NEW h \in Hosts PROVE Place(ms, h, ms[h]) = ms
  BY DEF Place, LetsGo, AllRecords

LEMMA PlaceTyped ==
  ASSUME NEW ms \in AllRecords, NEW h \in Hosts, NEW r \in Managed
  PROVE  Place(ms, h, r) \in AllRecords /\ Place(ms, h, r)[h] = r
  BY RecordsTyped DEF Place, AllRecords

LEMMA PlaceAgain ==
  ASSUME NEW ms \in AllRecords, NEW h \in Hosts, NEW r \in Managed, NEW s \in Managed, s.rides = r.rides
  PROVE  Put(Place(ms, h, r), h, s) = Place(ms, h, s)
  BY DEF Put, Place, LetsGo, AllRecords

LEMMA PlaceOne ==
  ASSUME NEW ms \in AllRecords, NEW h \in Hosts, NEW r \in Managed, r.rides = ms[h].rides
  PROVE  Put(ms, h, r) = Place(ms, h, r)
  BY PlaceSame, PlaceAgain DEF AllRecords

(* What disconnect and the loss of a transport come to. *)
LEMMA LettingGo ==
  ASSUME NEW ms \in AllRecords, NEW h \in Hosts, ms[h].rides # NoRide => HasJump(h)
  PROVE  /\ Torn(ms, h) = Place(ms, h, Tears(ms[h]))
         /\ \A wasReady \in BOOLEAN : Lost(ms, h, wasReady) = Place(ms, h, Loses(ms[h], h, wasReady))
<1>1. ASSUME NEW r \in Managed, NEW q \in Managed, r.rides = ms[h].rides, q = [r EXCEPT !.rides = NoRide]
      PROVE  ReleaseJump(Put(ms, h, r), h) = Place(ms, h, q)
  <2> DEFINE ns == Put(ms, h, r)
  <2>1. ns \in AllRecords /\ ns[h] = r
    BY DEF Put, AllRecords
  <2>2. CASE r.rides = NoRide
    <3>1. q = r
      BY <1>1, <2>2 DEF Managed
    <3>2. ReleaseJump(ns, h) = ns
      BY <2>1, <2>2 DEF ReleaseJump
    <3>3. ns = Place(ms, h, r)
      BY <1>1, PlaceOne
    <3> QED BY <3>1, <3>2, <3>3
  <2>3. CASE r.rides # NoRide
    <3>1. HasJump(h) /\ Jump[h] \in Hosts /\ Jump[h] # h
      BY <1>1, <2>3, HopAssumption DEF HasJump
    <3> DEFINE os == Put(ns, h, q)
    <3>2. [ns EXCEPT ![h].rides = NoRide] = os /\ os \in AllRecords /\ os = Put(ms, h, q) /\ os[Jump[h]] = ms[Jump[h]]
      BY <1>1, <2>1, <3>1 DEF Put, AllRecords
    <3>3. ReleaseJump(ns, h) = Put(os, Jump[h], Freed(ms[Jump[h]], h))
      <4>1. ReleaseJump(ns, h) = ReleaseFor(os, Jump[h], h)
        BY <2>1, <2>3, <3>2 DEF ReleaseJump
      <4> HIDE DEF os
      <4>2. ReleaseFor(os, Jump[h], h) = Put(os, Jump[h], Freed(os[Jump[h]], h))
        BY <3>1, <3>2, ReleaseForPuts
      <4> QED BY <3>2, <4>1, <4>2
    <3>4. q.rides = NoRide
      BY <1>1 DEF Managed
    <3> QED BY <1>1, <2>3, <3>1, <3>2, <3>3, <3>4 DEF Place, LetsGo, Put, AllRecords
  <2> QED BY <2>2, <2>3
<1>2. Torn(ms, h) = Place(ms, h, Tears(ms[h]))
  <2> DEFINE r == [ms[h] EXCEPT !.intentional = TRUE, !.timer = FALSE, !.idle = FALSE, !.client = NoClient,
                                !.gen = @ + 1, !.promise = NoPromise, !.channels = {}, !.holds = {}]
             q == [r EXCEPT !.rides = NoRide]
  <2>1. ms[h] \in Managed
    BY DEF Put, AllRecords
  <2>2. r \in Managed /\ q \in Managed
    <3>1. ms[h].gen + 1 \in Nat /\ NoClient \in Nat /\ NoPromise \in Nat /\ NoRide \in Nat
      BY <2>1 DEF Managed, NoClient, NoPromise, NoRide
    <3>2. r \in Managed
      BY <2>1, <3>1 DEF Managed
    <3> HIDE DEF r
    <3> QED BY <3>1, <3>2 DEF Managed
  <2>3. r.rides = ms[h].rides
    BY <2>1 DEF Managed
  <2>4. [ms EXCEPT ![h].intentional = TRUE, ![h].timer = FALSE, ![h].idle = FALSE, ![h].client = NoClient,
                   ![h].gen = @ + 1, ![h].promise = NoPromise, ![h].channels = {}, ![h].holds = {}]
          = Put(ms, h, r)
    BY DEF Put, AllRecords
  <2>5. Tears(ms[h]) = [q EXCEPT !.state = "disconnected"]
    BY <2>1 DEF Tears, Managed
  <2> HIDE DEF r
  <2>6. ReleaseJump(Put(ms, h, r), h) = Place(ms, h, q)
    BY <1>1, <2>2, <2>3
  <2>7. Place(ms, h, q) \in AllRecords /\ Place(ms, h, q)[h] = q
    BY <2>2, PlaceTyped
  <2>8. [Place(ms, h, q) EXCEPT ![h].state = "disconnected"] = Put(Place(ms, h, q), h, Tears(ms[h]))
    BY <2>5, <2>7 DEF Put, AllRecords
  <2>9. Tears(ms[h]) \in Managed /\ Tears(ms[h]).rides = q.rides
    BY <2>1, <2>2, <2>5, RecordsTyped DEF Managed
  <2>10. Put(Place(ms, h, q), h, Tears(ms[h])) = Place(ms, h, Tears(ms[h]))
    <3> HIDE DEF q
    <3> QED BY <2>2, <2>9, PlaceAgain
  <2>11. Torn(ms, h) = [ReleaseJump(Put(ms, h, r), h) EXCEPT ![h].state = "disconnected"]
    BY <2>4 DEF Torn
  <2> QED BY <2>6, <2>8, <2>10, <2>11
<1>3. ASSUME NEW wasReady \in BOOLEAN PROVE Lost(ms, h, wasReady) = Place(ms, h, Loses(ms[h], h, wasReady))
  <2> DEFINE r == [ms[h] EXCEPT !.client = NoClient, !.channels = {}, !.idle = FALSE]
             q == Drops(ms[h])
             released == ReleaseJump([ms EXCEPT ![h].client = NoClient, ![h].channels = {}, ![h].idle = FALSE], h)
  <2>1. ms[h] \in Managed
    BY DEF Put, AllRecords
  <2>2. r \in Managed /\ q \in Managed /\ r.rides = ms[h].rides /\ q = [r EXCEPT !.rides = NoRide]
    <3>1. q \in Managed
      BY <2>1, RecordsTyped
    <3>2. r \in Managed /\ r.rides = ms[h].rides
      BY <2>1 DEF Managed, NoClient
    <3>3. q = [r EXCEPT !.rides = NoRide]
      BY DEF Drops
    <3> QED BY <3>1, <3>2, <3>3
  <2>3. [ms EXCEPT ![h].client = NoClient, ![h].channels = {}, ![h].idle = FALSE] = Put(ms, h, r)
    BY DEF Put, AllRecords
  <2> HIDE DEF r, q
  <2>4. released = Place(ms, h, q)
    BY <1>1, <2>2, <2>3
  <2> HIDE DEF released
  <2>5. Place(ms, h, q) \in AllRecords /\ Place(ms, h, q)[h] = q
    BY <2>2, PlaceTyped
  <2>6. Scheduled(released, h) = Place(ms, h, Schedules(q, h))
    <3>1. Schedules(q, h) \in Managed /\ Schedules(q, h).rides = q.rides
      <4>1. Schedules(q, h).rides = q.rides
        BY <2>2 DEF Schedules, Managed
      <4> QED BY <2>2, <4>1, RecordsTyped
    <3>2. Scheduled(released, h) = Put(Place(ms, h, q), h, Schedules(q, h))
      BY <2>4, <2>5, HelpersPut
    <3> QED BY <2>2, <3>1, <3>2, PlaceAgain
  <2>7. [released EXCEPT ![h].state = "disconnected"] = Place(ms, h, [q EXCEPT !.state = "disconnected"])
    <3> DEFINE s == [q EXCEPT !.state = "disconnected"]
    <3>1. s \in Managed /\ s.rides = q.rides
      BY <2>2 DEF Managed
    <3>2. [released EXCEPT ![h].state = "disconnected"] = Put(Place(ms, h, q), h, s)
      BY <2>4, <2>5 DEF Put, AllRecords
    <3> HIDE DEF s
    <3>3. Put(Place(ms, h, q), h, s) = Place(ms, h, s)
      BY <2>2, <3>1, PlaceAgain
    <3> QED BY <3>2, <3>3 DEF s
  <2>8. CASE ms[h].intentional
    BY <2>8, PlaceSame DEF Lost, Loses
  <2>9. CASE ~ms[h].intentional
    BY <2>4, <2>6, <2>7, <2>9 DEF Lost, Loses, released, q
  <2> QED BY <2>8, <2>9
<1> QED BY <1>2, <1>3

-----------------------------------------------------------------------------
(* The inductive invariant. *)

\* What a host keeps count of: the idle timer runs exactly while nobody uses it.
Counted(r) == (IsIdle(r) => r.idle) /\ (r.idle => r.channels = {} /\ r.holds = {})

\* The phases of a transport that is or was up, and so may be ridden on.
Up == {"ready", "ended", "closed"}

\* What the record r says of its attempts, whose phases are t.
Shown(r, t) ==
  /\ r.state = "connected" => r.client = r.gen /\ r.gen \in DOMAIN t /\ t[r.gen] = "ready"
  /\ r.state \in {"connecting", "reconnecting"} =>
       r.timer \/ r.strays > 0 \/ (r.gen \in DOMAIN t /\ t[r.gen] \in Pending \union {"unconfigured"})
  /\ r.promise # NoPromise => r.promise \in DOMAIN t /\ t[r.promise] \in Pending

\* A host that was disconnected has nothing, and its latest generation is one
\* that no attempt has: whatever is still under way is superseded.
Off(r, t) ==
  r.intentional => /\ r.state = "disconnected" /\ r.client = NoClient /\ r.promise = NoPromise
                   /\ r.rides = NoRide
                   /\ r.gen \in DOMAIN t => t[r.gen] = "none"

\* Generations are used in order.
Numbered(r, t) == \A g \in DOMAIN t : t[g] # "none" => g <= r.gen

HostGood(r, t) == Counted(r) /\ Shown(r, t) /\ Off(r, t) /\ Numbered(r, t)

\* The rider h, whose record is r, and its jump host, with the record s and
\* the phases u.
Rode(h, r, s, u) ==
  /\ r.rides # NoRide /\ s.client = r.rides => h \in s.holds
  /\ h \in s.holds => r.rides # NoRide
  /\ r.rides # NoRide => r.rides \in DOMAIN u /\ u[r.rides] \in Up

Rows(h) == [Gens(h) -> Phases]
HostTyped(h, r, t) == r \in Managed /\ r.client <= r.gen /\ r.gen <= MaxGen[h] /\ t \in Rows(h)

\* What holds of each host alone ...
Alone(ms, ts) == \A h \in Hosts : HostTyped(h, ms[h], ts[h]) /\ HostGood(ms[h], ts[h])
\* ... and of riders and those they ride on.
Riding(ms, ts) ==
  /\ \A h \in Hosts : ~HasJump(h) => ms[h].rides = NoRide /\ \A g \in Gens(h) : ts[h][g] # "jump"
  /\ \A h \in DOMAIN Jump : Rode(h, ms[h], ms[Jump[h]], ts[Jump[h]])
GoodHosts(ms, ts) ==
  ms \in AllRecords /\ DOMAIN ts = Hosts /\ ts = [h \in Hosts |-> ts[h]] /\ Alone(ms, ts) /\ Riding(ms, ts)

IInv == GoodHosts(m, tr)

\* What a host that changes owes to those that ride on it: a transport that was
\* up is not one to come again, a new client is none they know, and holds are
\* kept, or given up with the client.
Bears(r, t, s, u) ==
  /\ \A g \in DOMAIN t : t[g] \in Up => u[g] \in Up
  /\ s.client \in {NoClient, r.client} \/ s.client \notin DOMAIN t \/ t[s.client] \notin Up
  /\ s.holds \cap Hosts = r.holds \cap Hosts \/ (s.holds = {} /\ s.client = NoClient)

LEMMA FreedGood ==
  ASSUME NEW r \in Managed, NEW t, NEW token \in Hosts \union {"user"}, HostGood(r, t)
  PROVE  /\ HostGood(Freed(r, token), t)
         /\ Freed(r, token) \in Managed
         /\ Freed(r, token).holds = r.holds \ {token}
         /\ Freed(r, token).gen = r.gen
         /\ Freed(r, token).client = r.client
         /\ Freed(r, token).rides = r.rides
<1>1. Freed(r, token) \in Managed
  BY RecordsTyped
<1>2. /\ Freed(r, token).holds = r.holds \ {token}
      /\ Freed(r, token).channels = r.channels
      /\ Freed(r, token).state = r.state
  BY DEF Freed, Armed, Managed
<1>3. /\ Freed(r, token).gen = r.gen
      /\ Freed(r, token).client = r.client
      /\ Freed(r, token).rides = r.rides
      /\ Freed(r, token).promise = r.promise
      /\ Freed(r, token).timer = r.timer
      /\ Freed(r, token).strays = r.strays
      /\ Freed(r, token).intentional = r.intentional
  BY DEF Freed, Armed, Managed
<1>4. Counted(Freed(r, token))
  <2> DEFINE q == [r EXCEPT !.holds = @ \ {token}]
  <2>1. CASE token \notin r.holds
    BY <2>1 DEF HostGood, Freed
  <2>2. CASE token \in r.holds /\ IsIdle(q)
    <3>1. Freed(r, token).idle
      BY <2>2 DEF Freed, Armed, Managed
    <3> QED BY <1>2, <2>2, <3>1 DEF IsIdle, Counted, Managed
  <2>3. CASE token \in r.holds /\ ~IsIdle(q)
    <3>1. Freed(r, token) = q /\ q.idle = r.idle
      BY <2>3 DEF Freed, Armed, Managed
    <3> QED BY <2>3, <3>1 DEF HostGood, Counted
  <2> QED BY <2>1, <2>2, <2>3
<1>5. Shown(Freed(r, token), t) /\ Off(Freed(r, token), t) /\ Numbered(Freed(r, token), t)
  BY <1>2, <1>3 DEF HostGood, Shown, Off, Numbered
<1> QED BY <1>1, <1>2, <1>3, <1>4, <1>5 DEF HostGood

(* A host that changes in such a way leaves all hosts as they should be. *)
LEMMA PlaceGood ==
  ASSUME NEW ms, NEW ts, GoodHosts(ms, ts), NEW h \in Hosts, NEW r, NEW t,
         HostTyped(h, r, t), HostGood(r, t), Bears(ms[h], ts[h], r, t),
         r.rides \in {NoRide, ms[h].rides},
         ~HasJump(h) => \A g \in Gens(h) : t[g] # "jump"
  PROVE  GoodHosts(Place(ms, h, r), Put(ts, h, t))
<1> DEFINE ns == Place(ms, h, r)
           us == Put(ts, h, t)
<1>0. /\ ms \in AllRecords /\ DOMAIN ts = Hosts /\ \A k \in Hosts : ms[k] \in Managed
      /\ r \in Managed
  BY DEF GoodHosts, AllRecords, HostTyped
<1>1. ns \in AllRecords /\ ns[h] = r
  BY <1>0, PlaceTyped
<1>2. DOMAIN us = Hosts /\ us = [k \in Hosts |-> us[k]] /\ us[h] = t /\ \A k \in Hosts \ {h} : us[k] = ts[k]
  BY <1>0 DEF Put
<1>3. \A k \in Hosts \ {h} : ~(LetsGo(ms, h, r) /\ k = Jump[h]) => ns[k] = ms[k]
  BY DEF Place
<1>4. LetsGo(ms, h, r) => Jump[h] \in Hosts \ DOMAIN Jump /\ Jump[h] # h /\ ns[Jump[h]] = Freed(ms[Jump[h]], h)
  BY HopAssumption DEF LetsGo, HasJump, Place
<1>5. \A k \in Hosts : HostTyped(k, ms[k], ts[k]) /\ HostGood(ms[k], ts[k])
  BY DEF GoodHosts, Alone
<1>6. LetsGo(ms, h, r) =>
        /\ HostTyped(Jump[h], Freed(ms[Jump[h]], h), ts[Jump[h]]) /\ HostGood(Freed(ms[Jump[h]], h), ts[Jump[h]])
        /\ ns[Jump[h]].holds = ms[Jump[h]].holds \ {h} /\ ns[Jump[h]].client = ms[Jump[h]].client
        /\ ns[Jump[h]].rides = ms[Jump[h]].rides
  <2> SUFFICES ASSUME LetsGo(ms, h, r)
               PROVE  /\ HostTyped(Jump[h], Freed(ms[Jump[h]], h), ts[Jump[h]]) /\ HostGood(Freed(ms[Jump[h]], h), ts[Jump[h]])
                      /\ ns[Jump[h]].holds = ms[Jump[h]].holds \ {h} /\ ns[Jump[h]].client = ms[Jump[h]].client
                      /\ ns[Jump[h]].rides = ms[Jump[h]].rides
    OBVIOUS
  <2> HIDE DEF ns
  <2>1. Jump[h] \in Hosts /\ ns[Jump[h]] = Freed(ms[Jump[h]], h)
    BY <1>4
  <2>2. ms[Jump[h]] \in Managed /\ HostTyped(Jump[h], ms[Jump[h]], ts[Jump[h]]) /\ HostGood(ms[Jump[h]], ts[Jump[h]])
    BY <1>0, <1>5, <2>1
  <2>3. /\ HostGood(Freed(ms[Jump[h]], h), ts[Jump[h]])
        /\ Freed(ms[Jump[h]], h) \in Managed
        /\ Freed(ms[Jump[h]], h).holds = ms[Jump[h]].holds \ {h}
        /\ Freed(ms[Jump[h]], h).gen = ms[Jump[h]].gen
        /\ Freed(ms[Jump[h]], h).client = ms[Jump[h]].client
        /\ Freed(ms[Jump[h]], h).rides = ms[Jump[h]].rides
    <3>1. h \in Hosts \union {"user"} /\ ms[Jump[h]] \in Managed /\ HostGood(ms[Jump[h]], ts[Jump[h]])
      BY <2>2
    <3> QED BY <3>1, FreedGood
  <2> QED BY <2>1, <2>2, <2>3 DEF HostTyped
<1> HIDE DEF ns, us
<1>7. Alone(ns, us)
  <2> SUFFICES ASSUME NEW k \in Hosts PROVE HostTyped(k, ns[k], us[k]) /\ HostGood(ns[k], us[k])
    BY DEF Alone
  <2> QED BY <1>1, <1>2, <1>3, <1>4, <1>5, <1>6
<1>8. ASSUME NEW k \in Hosts, ~HasJump(k) PROVE ns[k].rides = NoRide /\ \A g \in Gens(k) : us[k][g] # "jump"
  <2>1. ms[k].rides = NoRide /\ \A g \in Gens(k) : ts[k][g] # "jump"
    BY <1>8 DEF GoodHosts, Riding
  <2> QED BY <1>1, <1>2, <1>3, <1>4, <1>6, <1>8, <2>1
<1>9. ASSUME NEW k \in DOMAIN Jump PROVE Rode(k, ns[k], ns[Jump[k]], us[Jump[k]])
  <2>1. Rode(k, ms[k], ms[Jump[k]], ts[Jump[k]])
    BY DEF GoodHosts, Riding
  <2>2. k \in Hosts /\ Jump[k] \in Hosts /\ Jump[k] # k /\ Jump[k] \notin DOMAIN Jump
    BY HopAssumption
  <2>3. CASE k = h
    <3>1. us[Jump[h]] = ts[Jump[h]] /\ ns[h] = r
      BY <1>1, <1>2, <2>2, <2>3
    <3>2. CASE LetsGo(ms, h, r)
      BY <1>6, <2>3, <3>1, <3>2 DEF Rode, LetsGo
    <3>3. CASE ~LetsGo(ms, h, r)
      <4>1. ns[Jump[h]] = ms[Jump[h]] /\ r.rides = ms[h].rides
        BY <1>3, <2>2, <2>3, <3>3 DEF LetsGo, HasJump
      <4> QED BY <2>1, <2>3, <3>1, <4>1 DEF Rode
    <3> QED BY <3>2, <3>3
  <2>4. CASE k # h /\ Jump[k] = h
    <3>1. ns[k] = ms[k] /\ ns[h] = r /\ us[h] = t
      BY <1>1, <1>2, <1>3, <2>2, <2>4 DEF LetsGo, HasJump
    <3>2. DOMAIN t = DOMAIN ts[h]
      BY <1>5 DEF HostTyped, Rows
    <3>3. ms[k].rides # NoRide => ms[k].rides \in DOMAIN t /\ t[ms[k].rides] \in Up
      BY <2>1, <2>4, <3>2 DEF Rode, Bears
    <3>4. k \in r.holds => ms[k].rides # NoRide
      BY <2>1, <2>2, <2>4 DEF Rode, Bears
    <3>5. ASSUME ms[k].rides # NoRide, r.client = ms[k].rides PROVE k \in r.holds
      <4>1. r.client = ms[h].client
        BY <2>1, <2>4, <3>2, <3>5 DEF Rode, Bears, NoRide, NoClient
      <4>2. k \in ms[h].holds /\ r.client # NoClient
        BY <2>1, <2>4, <3>5, <4>1 DEF Rode, NoRide, NoClient
      <4> QED BY <2>2, <4>2 DEF Bears
    <3> QED BY <2>4, <3>1, <3>3, <3>4, <3>5 DEF Rode
  <2>5. CASE k # h /\ Jump[k] # h
    <3>1. ns[k] = ms[k] /\ us[Jump[k]] = ts[Jump[k]]
      BY <1>2, <1>3, <1>4, <2>2, <2>5
    <3>2. /\ ns[Jump[k]].client = ms[Jump[k]].client
          /\ k \in ns[Jump[k]].holds <=> k \in ms[Jump[k]].holds
      <4>1. CASE LetsGo(ms, h, r) /\ Jump[k] = Jump[h]
        BY <1>6, <2>5, <4>1
      <4>2. CASE ~(LetsGo(ms, h, r) /\ Jump[k] = Jump[h])
        BY <1>3, <2>2, <2>5, <4>2
      <4> QED BY <4>1, <4>2
    <3> QED BY <2>1, <3>1, <3>2 DEF Rode
  <2> QED BY <2>3, <2>4, <2>5
<1> QED BY <1>1, <1>2, <1>7, <1>8, <1>9 DEF GoodHosts, Riding, us, ns

-----------------------------------------------------------------------------
(* One record and one row: what an action makes of a host keeps it good. *)

\* What r and t may become without a harm to the hosts around.
Follows(h, r, t, s, u) ==
  /\ HostTyped(h, s, u) /\ HostGood(s, u) /\ Bears(r, t, s, u)
  /\ s.rides \in {NoRide, r.rides}
  /\ ~HasJump(h) => \A g \in Gens(h) : u[g] # "jump"

\* The facts about a host that each of these lemmas starts from.
Sane(h, r, t) ==
  /\ HostTyped(h, r, t) /\ HostGood(r, t)
  /\ ~HasJump(h) => \A g \in Gens(h) : t[g] # "jump"

Phase(t, g, x) == [t EXCEPT ![g] = x]

LEMMA PhaseAt ==
  ASSUME NEW h \in Hosts, NEW t \in Rows(h), NEW g \in Gens(h), NEW x \in Phases
  PROVE  /\ Phase(t, g, x) \in Rows(h)
         /\ Phase(t, g, x)[g] = x
         /\ \A k \in Gens(h) : k # g => Phase(t, g, x)[k] = t[k]
         /\ DOMAIN t = Gens(h) /\ DOMAIN Phase(t, g, x) = Gens(h)
  BY DEF Phase, Rows

\* A new attempt, by a timer or by a connect.
LEMMA OpensFollows ==
  ASSUME NEW h \in Hosts, NEW r, NEW t, Sane(h, r, t), r.gen < MaxGen[h]
  PROVE  /\ Follows(h, r, t, Dials(r), Phase(t, r.gen + 1, "config"))
         /\ \A s \in Managed :
              /\ ~s.intentional /\ s.gen = r.gen /\ s.promise = r.promise /\ s.client = r.client /\ s.rides = r.rides
              /\ s.holds = r.holds /\ s.channels = r.channels /\ s.idle = r.idle
              => Follows(h, r, t, Opens(s), Phase(t, r.gen + 1, "config"))
<1> DEFINE g == r.gen + 1
           u == Phase(t, g, "config")
<1>0. r \in Managed /\ t \in Rows(h) /\ r.gen \in Nat /\ MaxGen[h] \in Nat
  BY BoundsAssumption DEF Sane, HostTyped, Managed
<1>1. g \in Gens(h) /\ g \in Nat
  BY <1>0 DEF Gens
<1>2. /\ u \in Rows(h) /\ u[g] = "config" /\ (\A k \in Gens(h) : k # g => u[k] = t[k])
      /\ DOMAIN t = Gens(h) /\ DOMAIN u = Gens(h)
  <2>1. "config" \in Phases
    BY DEF Phases, Pending
  <2> QED BY <1>0, <1>1, <2>1, PhaseAt
<1>3. t[g] = "none"
  BY <1>0, <1>1, <1>2 DEF Sane, HostGood, Numbered
<1> HIDE DEF u
<1>4. ASSUME NEW s \in Managed, s.gen = g, s.state \in {"connecting", "reconnecting"}, ~s.intentional,
             s.promise \in {g, r.promise}, s.client = r.client, s.rides = r.rides,
             s.holds = r.holds, s.channels = r.channels, s.idle = r.idle
      PROVE  Follows(h, r, t, s, u)
  <2>1. HostTyped(h, s, u)
    <3>1. s.client <= s.gen
      BY <1>0, <1>4 DEF Sane, HostTyped, Managed
    <3>2. s.gen <= MaxGen[h]
      BY <1>0, <1>4
    <3> QED BY <1>2, <1>4, <3>1, <3>2 DEF HostTyped
  <2>2. Counted(s)
    BY <1>4 DEF Sane, HostGood, Counted, IsIdle
  <2>3. Shown(s, u)
    <3>1. u[g] \in Pending /\ s.state # "connected"
      BY <1>2, <1>4 DEF Pending
    <3>2. ASSUME s.promise # NoPromise, s.promise # g PROVE s.promise \in DOMAIN u /\ u[s.promise] \in Pending
      <4>1. s.promise \in DOMAIN t /\ t[s.promise] \in Pending
        BY <1>4, <3>2 DEF Sane, HostGood, Shown
      <4> QED BY <1>2, <3>2, <4>1
    <3> QED BY <1>1, <1>2, <1>4, <3>1, <3>2 DEF Shown
  <2>4. Off(s, u) /\ Numbered(s, u)
    <3>1. \A k \in Gens(h) : k # g /\ u[k] # "none" => k <= r.gen
      BY <1>2 DEF Sane, HostGood, Numbered
    <3> QED BY <1>0, <1>1, <1>2, <1>4, <3>1 DEF Off, Numbered, Gens
  <2>5. Bears(r, t, s, u)
    BY <1>2, <1>3, <1>4 DEF Bears, Up
  <2>6. ~HasJump(h) => \A k \in Gens(h) : u[k] # "jump"
    BY <1>2 DEF Sane
  <2> QED BY <1>4, <2>1, <2>2, <2>3, <2>4, <2>5, <2>6 DEF Follows, HostGood
<1>5. Follows(h, r, t, Dials(r), u)
  <2> DEFINE q == [r EXCEPT !.timer = FALSE, !.intentional = FALSE, !.attempts = 0, !.promise = r.gen + 1]
  <2>1. Dials(r) \in Managed
    BY <1>0, RecordsTyped
  <2>2. q.gen = r.gen /\ q.attempts = 0 /\ q.intentional = FALSE /\ q.promise = g /\ q.client = r.client
        /\ q.rides = r.rides /\ q.holds = r.holds /\ q.channels = r.channels /\ q.idle = r.idle
    BY <1>0 DEF Managed
  <2>3. q \in Managed
    <3>1. r.gen + 1 \in Nat /\ 0 \in 0 .. Delays
      BY <1>0, BoundsAssumption
    <3> QED BY <1>0, <3>1 DEF Managed
  <2>4. Dials(r) = Opens(q)
    BY DEF Dials
  <2> HIDE DEF q
  <2>5. /\ Opens(q).gen = q.gen + 1 /\ Opens(q).state = "connecting" /\ Opens(q).intentional = q.intentional
        /\ Opens(q).promise = q.promise /\ Opens(q).client = q.client /\ Opens(q).rides = q.rides
        /\ Opens(q).holds = q.holds /\ Opens(q).channels = q.channels /\ Opens(q).idle = q.idle
    BY <2>2, <2>3 DEF Opens, Managed
  <2> QED BY <1>4, <2>1, <2>2, <2>4, <2>5
<1>6. ASSUME NEW s \in Managed,
             ~s.intentional, s.gen = r.gen, s.promise = r.promise, s.client = r.client, s.rides = r.rides,
             s.holds = r.holds, s.channels = r.channels, s.idle = r.idle
      PROVE  Follows(h, r, t, Opens(s), u)
  <2>1. /\ Opens(s).gen = s.gen + 1 /\ Opens(s).intentional = s.intentional
        /\ Opens(s).promise = s.promise /\ Opens(s).client = s.client /\ Opens(s).rides = s.rides
        /\ Opens(s).holds = s.holds /\ Opens(s).channels = s.channels /\ Opens(s).idle = s.idle
    BY DEF Opens, Managed
  <2>2. Opens(s) \in Managed /\ Opens(s).state \in {"connecting", "reconnecting"}
    <3>1. Opens(s) \in Managed
      BY RecordsTyped
    <3>2. Opens(s).state = IF s.attempts > 0 THEN "reconnecting" ELSE "connecting"
      BY DEF Opens, Managed
    <3> QED BY <3>1, <3>2
  <2> QED BY <1>4, <1>6, <2>1, <2>2
<1> QED BY <1>5, <1>6 DEF u

\* disconnect, and the idle timer that does it: a transport that was ready is
\* ended.
LEMMA TearsFollows ==
  ASSUME NEW h \in Hosts, NEW r, NEW t, Sane(h, r, t), r.gen < MaxGen[h],
         NEW s \in Managed, s.gen = r.gen, NEW u \in Rows(h),
         \A g \in Gens(h) : u[g] = t[g] \/ (t[g] = "ready" /\ u[g] = "ended")
  PROVE  Follows(h, r, t, Tears(s), u)
<1>0. r \in Managed /\ t \in Rows(h) /\ r.gen \in Nat /\ MaxGen[h] \in Nat /\ DOMAIN t = Gens(h) /\ DOMAIN u = Gens(h)
  BY BoundsAssumption DEF Sane, HostTyped, Managed, Rows
<1>1. /\ Tears(s).intentional = TRUE /\ Tears(s).idle = FALSE /\ Tears(s).client = NoClient
      /\ Tears(s).gen = s.gen + 1 /\ Tears(s).promise = NoPromise /\ Tears(s).channels = {}
      /\ Tears(s).holds = {} /\ Tears(s).rides = NoRide /\ Tears(s).state = "disconnected"
  BY DEF Tears, Managed
<1>2. Tears(s) \in Managed
  BY RecordsTyped
<1> DEFINE q == Tears(s)
<1> HIDE DEF q
<1>3. /\ q.intentional = TRUE /\ q.idle = FALSE /\ q.client = NoClient
      /\ q.gen = r.gen + 1 /\ q.promise = NoPromise /\ q.channels = {}
      /\ q.holds = {} /\ q.rides = NoRide /\ q.state = "disconnected" /\ q \in Managed
  BY <1>1, <1>2 DEF q
<1>4. \A g \in Gens(h) : g \in Nat /\ (u[g] # "none" => g <= r.gen) /\ (u[g] = "jump" => t[g] = "jump")
                       /\ (t[g] \in Up => u[g] \in Up)
  BY <1>0 DEF Sane, HostGood, Numbered, Gens, Up
<1>5. HostTyped(h, q, u)
  BY <1>0, <1>3 DEF HostTyped, NoClient
<1>6. Counted(q) /\ Shown(q, u)
  BY <1>3 DEF Counted, IsIdle, Shown
<1>7. Off(q, u) /\ Numbered(q, u)
  BY <1>0, <1>3, <1>4 DEF Off, Numbered
<1>8. Bears(r, t, q, u)
  BY <1>0, <1>3, <1>4 DEF Bears
<1>9. ~HasJump(h) => \A g \in Gens(h) : u[g] # "jump"
  BY <1>4 DEF Sane
<1> QED BY <1>3, <1>5, <1>6, <1>7, <1>8, <1>9 DEF Follows, HostGood, q

\* What comes and goes on a connection: channels, the user's holds, timers.
LEMMA UseFollows ==
  ASSUME NEW h \in Hosts, NEW r, NEW t, Sane(h, r, t), NEW s \in Managed, Counted(s),
         s.state = r.state, s.client = r.client, s.gen = r.gen, s.promise = r.promise,
         s.rides = r.rides, s.intentional = r.intentional, s.holds \cap Hosts = r.holds \cap Hosts,
         (s.timer = r.timer /\ s.strays = r.strays) \/ r.intentional
  PROVE  Follows(h, r, t, s, t)
<1>1. HostTyped(h, s, t)
  BY DEF Sane, HostTyped
<1>2. Off(s, t) /\ Numbered(s, t)
  BY DEF Sane, HostGood, Off, Numbered
<1>3. Shown(s, t)
  BY DEF Sane, HostGood, Off, Shown
<1>4. Bears(r, t, s, t)
  BY DEF Bears
<1> QED BY <1>1, <1>2, <1>3, <1>4 DEF Follows, Sane, HostGood

\* An attempt that gets further.
LEMMA PhaseFollows ==
  ASSUME NEW h \in Hosts, NEW r, NEW t, Sane(h, r, t), NEW g \in Gens(h), NEW x \in Phases, NEW s \in Managed,
         t[g] # "none", t[g] \in Up => x \in Up, x = "jump" => HasJump(h),
         Counted(s), s.gen = r.gen, s.intentional = r.intentional,
         s.promise \in {NoPromise, r.promise}, s.promise = g /\ g # NoPromise => x \in Pending,
         s.holds \cap Hosts = r.holds \cap Hosts, s.rides \in {NoRide, r.rides},
         s.client \in {NoClient, r.client} \/ (s.client = g /\ t[g] \notin Up),
         r.intentional => s.state = "disconnected" /\ s.client = NoClient,
         s.state = "connected" => s.client = s.gen /\ (IF s.gen = g THEN x = "ready" ELSE r.state = "connected"),
         s.state \in {"connecting", "reconnecting"} =>
            \/ s.timer \/ s.strays > 0
            \/ s.gen = g /\ x \in Pending \union {"unconfigured"}
            \/ s.gen # g /\ r.state \in {"connecting", "reconnecting"} /\ s.timer = r.timer /\ s.strays = r.strays
  PROVE  Follows(h, r, t, s, Phase(t, g, x))
<1> DEFINE u == Phase(t, g, x)
<1>0. r \in Managed /\ t \in Rows(h)
  BY DEF Sane, HostTyped
<1>1. /\ u \in Rows(h) /\ u[g] = x /\ (\A k \in Gens(h) : k # g => u[k] = t[k])
      /\ DOMAIN t = Gens(h) /\ DOMAIN u = Gens(h)
  BY <1>0, PhaseAt
<1> HIDE DEF u
<1>2. HostTyped(h, s, u)
  <2>1. r.client <= r.gen /\ r.gen <= MaxGen[h] /\ r.gen \in Nat /\ g <= r.gen
    BY <1>0, <1>1 DEF Sane, HostTyped, HostGood, Numbered, Managed
  <2> QED BY <1>1, <2>1 DEF HostTyped, NoClient
<1>3. Shown(s, u)
  <2>1. s.state = "connected" => s.client = s.gen /\ s.gen \in DOMAIN u /\ u[s.gen] = "ready"
    BY <1>1 DEF Sane, HostGood, Shown
  <2>2. s.state \in {"connecting", "reconnecting"} =>
           s.timer \/ s.strays > 0 \/ (s.gen \in DOMAIN u /\ u[s.gen] \in Pending \union {"unconfigured"})
    BY <1>1 DEF Sane, HostGood, Shown
  <2>3. s.promise # NoPromise => s.promise \in DOMAIN u /\ u[s.promise] \in Pending
    BY <1>1 DEF Sane, HostGood, Shown
  <2> QED BY <2>1, <2>2, <2>3 DEF Shown
<1>4. Off(s, u)
  BY <1>1 DEF Sane, HostGood, Off
<1>5. Numbered(s, u)
  BY <1>1 DEF Sane, HostGood, Numbered
<1>6. Bears(r, t, s, u)
  BY <1>1 DEF Bears
<1>7. ~HasJump(h) => \A k \in Gens(h) : u[k] # "jump"
  BY <1>1 DEF Sane
<1> QED BY <1>2, <1>3, <1>4, <1>5, <1>6, <1>7 DEF Follows, HostGood, u

-----------------------------------------------------------------------------
(* The steps *)

LEMMA SaneAt ==
  ASSUME IInv, NEW h \in Hosts
  PROVE  /\ Sane(h, m[h], tr[h]) /\ HostTyped(h, m[h], tr[h]) /\ HostGood(m[h], tr[h])
         /\ m[h] \in Managed /\ tr[h] \in Rows(h)
         /\ m \in AllRecords /\ DOMAIN tr = Hosts /\ tr = Put(tr, h, tr[h])
         /\ m[h].rides # NoRide => HasJump(h)
<1>1. HostTyped(h, m[h], tr[h]) /\ HostGood(m[h], tr[h])
  BY DEF IInv, GoodHosts, Alone
<1>2. ~HasJump(h) => m[h].rides = NoRide /\ \A g \in Gens(h) : tr[h][g] # "jump"
  BY DEF IInv, GoodHosts, Riding
<1>3. m \in AllRecords /\ DOMAIN tr = Hosts /\ tr = [k \in Hosts |-> tr[k]]
  BY DEF IInv, GoodHosts
<1>4. tr = Put(tr, h, tr[h])
  BY <1>3 DEF Put
<1> QED BY <1>1, <1>2, <1>3, <1>4 DEF Sane, HostTyped

LEMMA Placed ==
  ASSUME IInv, NEW h \in Hosts, NEW r, NEW t, Follows(h, m[h], tr[h], r, t),
         m' = Place(m, h, r), tr' = Put(tr, h, t)
  PROVE  IInv'
<1>1. GoodHosts(Place(m, h, r), Put(tr, h, t))
  BY PlaceGood DEF IInv, Follows
<1> QED BY <1>1 DEF IInv

LEMMA PutDown ==
  ASSUME IInv, NEW h \in Hosts, NEW r, NEW t, Follows(h, m[h], tr[h], r, t), r.rides = m[h].rides,
         m' = Put(m, h, r), tr' = Put(tr, h, t)
  PROVE  IInv'
<1>1. Put(m, h, r) = Place(m, h, r)
  BY SaneAt, PlaceOne DEF Follows, HostTyped
<1> QED BY <1>1, Placed

\* EndClient and the changes of one phase.
LEMMA EndClientPuts ==
  ASSUME IInv, NEW h \in Hosts
  PROVE  \E u \in Rows(h) :
           /\ EndClient(h) = Put(tr, h, u)
           /\ \A g \in Gens(h) : u[g] = tr[h][g] \/ (tr[h][g] = "ready" /\ u[g] = "ended")
<1>0. tr[h] \in Rows(h) /\ DOMAIN tr = Hosts /\ tr = Put(tr, h, tr[h])
  BY SaneAt
<1>1. CASE m[h].client # NoClient /\ tr[h][m[h].client] = "ready"
  <2> DEFINE u == [tr[h] EXCEPT ![m[h].client] = "ended"]
  <2>1. EndClient(h) = Put(tr, h, u)
    BY <1>0, <1>1 DEF EndClient, Put
  <2>2. u \in Rows(h) /\ \A g \in Gens(h) : u[g] = tr[h][g] \/ (tr[h][g] = "ready" /\ u[g] = "ended")
    BY <1>0, <1>1 DEF Rows, Phases
  <2> QED BY <2>1, <2>2
<1>2. CASE ~(m[h].client # NoClient /\ tr[h][m[h].client] = "ready")
  BY <1>0, <1>2 DEF EndClient
<1> QED BY <1>1, <1>2

LEMMA PhasePuts ==
  ASSUME IInv, NEW h \in Hosts, NEW g, NEW x
  PROVE  [tr EXCEPT ![h][g] = x] = Put(tr, h, Phase(tr[h], g, x))
<1>1. DOMAIN tr = Hosts
  BY SaneAt
<1> QED BY <1>1 DEF Put, Phase

LEMMA TearsGood ==
  ASSUME IInv, NEW h \in Hosts, m[h].gen < MaxGen[h],
         NEW s \in Managed, s.gen = m[h].gen, s.rides = m[h].rides,
         m' = Torn(Put(m, h, s), h), tr' = EndClient(h)
  PROVE  IInv'
<1>0. Sane(h, m[h], tr[h]) /\ m \in AllRecords /\ (m[h].rides # NoRide => HasJump(h))
  BY SaneAt
<1>1. Put(m, h, s) \in AllRecords /\ Put(m, h, s)[h] = s
  BY <1>0 DEF Put, AllRecords
<1>2. Torn(Put(m, h, s), h) = Place(Put(m, h, s), h, Tears(s))
  BY <1>0, <1>1, LettingGo
<1>3. Place(Put(m, h, s), h, Tears(s)) = Place(m, h, Tears(s))
  BY <1>0, <1>1 DEF Place, LetsGo, Put, AllRecords
<1>4. PICK u \in Rows(h) : /\ EndClient(h) = Put(tr, h, u)
                           /\ \A g \in Gens(h) : u[g] = tr[h][g] \/ (tr[h][g] = "ready" /\ u[g] = "ended")
  BY EndClientPuts
<1>5. Follows(h, m[h], tr[h], Tears(s), u)
  BY <1>0, <1>4, TearsFollows
<1> QED BY <1>2, <1>3, <1>4, <1>5, Placed

LEMMA UserGood == ASSUME IInv, NEW h \in Hosts, User(h) PROVE IInv'
<1>0. /\ Sane(h, m[h], tr[h]) /\ m[h] \in Managed /\ m \in AllRecords /\ tr = Put(tr, h, tr[h])
      /\ Counted(m[h]) /\ m = Put(m, h, m[h])
  BY SaneAt, HelpersPut DEF HostGood
<1>1. CASE Connect(h)
  <2>1. m' = Put(m, h, Dials(m[h]))
    BY <1>0, <1>1, HelpersPut DEF Connect
  <2>2. tr' = Put(tr, h, Phase(tr[h], m[h].gen + 1, "config"))
    BY <1>1, PhasePuts DEF Connect, NewAttempt
  <2>3. Follows(h, m[h], tr[h], Dials(m[h]), Phase(tr[h], m[h].gen + 1, "config"))
    BY <1>0, <1>1, OpensFollows DEF Connect
  <2>4. Dials(m[h]).rides = m[h].rides
    BY <1>0 DEF Dials, Opens, Managed
  <2> QED BY <2>1, <2>2, <2>3, <2>4, PutDown
<1>2. CASE Disconnect(h)
  <2>1. m' = Torn(Put(m, h, m[h]), h) /\ tr' = EndClient(h)
    BY <1>0, <1>2 DEF Disconnect
  <2>2. m[h].gen < MaxGen[h]
    BY <1>0, <1>2, BoundsAssumption DEF Disconnect, Managed
  <2> QED BY <1>0, <2>1, <2>2, TearsGood
<1>3. CASE Hold(h)
  <2> DEFINE s == Held(m[h], "user")
  <2>1. s \in Managed
    BY <1>0, RecordsTyped
  <2>2. /\ s.state = m[h].state /\ s.client = m[h].client /\ s.gen = m[h].gen /\ s.promise = m[h].promise
        /\ s.rides = m[h].rides /\ s.intentional = m[h].intentional /\ s.timer = m[h].timer /\ s.strays = m[h].strays
        /\ s.holds = m[h].holds \union {"user"} /\ s.idle = FALSE
    BY <1>0 DEF Held, Managed
  <2>3. m' = Put(m, h, s) /\ tr' = Put(tr, h, tr[h])
    BY <1>0, <1>3, HelpersPut DEF Hold
  <2> HIDE DEF s
  <2>4. Counted(s) /\ s.holds \cap Hosts = m[h].holds \cap Hosts
    BY <2>2, BoundsAssumption DEF Counted, IsIdle
  <2>5. Follows(h, m[h], tr[h], s, tr[h])
    BY <1>0, <2>1, <2>2, <2>4, UseFollows
  <2> QED BY <2>2, <2>3, <2>5, PutDown
<1>4. CASE Release(h)
  <2> DEFINE s == Freed(m[h], "user")
  <2>1. s \in Managed /\ HostGood(s, tr[h]) /\ s.holds = m[h].holds \ {"user"}
    BY <1>0, FreedGood DEF Sane
  <2>2. /\ s.state = m[h].state /\ s.client = m[h].client /\ s.gen = m[h].gen /\ s.promise = m[h].promise
        /\ s.rides = m[h].rides /\ s.intentional = m[h].intentional /\ s.timer = m[h].timer /\ s.strays = m[h].strays
    BY <1>0 DEF Freed, Armed, Managed
  <2>3. m' = Put(m, h, s) /\ tr' = Put(tr, h, tr[h])
    BY <1>0, <1>4, ReleaseForPuts DEF Release
  <2> HIDE DEF s
  <2>4. Counted(s) /\ s.holds \cap Hosts = m[h].holds \cap Hosts
    BY <2>1, BoundsAssumption DEF HostGood
  <2>5. Follows(h, m[h], tr[h], s, tr[h])
    BY <1>0, <2>1, <2>2, <2>4, UseFollows
  <2> QED BY <2>2, <2>3, <2>5, PutDown
<1>5. CASE OpenChannel(h)
  <2> DEFINE s == [m[h] EXCEPT !.opening = @ \union {m[h].client}]
  <2>1. s \in Managed
    <3>1. m[h].opening \union {m[h].client} \in SUBSET Nat
      BY <1>0 DEF Managed
    <3> QED BY <1>0, <3>1 DEF Managed
  <2>2. /\ s.state = m[h].state /\ s.client = m[h].client /\ s.gen = m[h].gen /\ s.promise = m[h].promise
        /\ s.rides = m[h].rides /\ s.intentional = m[h].intentional /\ s.timer = m[h].timer /\ s.strays = m[h].strays
        /\ s.holds = m[h].holds /\ s.idle = m[h].idle /\ s.channels = m[h].channels
    BY <1>0 DEF Managed
  <2>3. m' = Put(m, h, s) /\ tr' = Put(tr, h, tr[h])
    BY <1>0, <1>5 DEF OpenChannel, Put, AllRecords
  <2> HIDE DEF s
  <2>4. Counted(s)
    BY <1>0, <2>2 DEF Counted, IsIdle
  <2>5. Follows(h, m[h], tr[h], s, tr[h])
    BY <1>0, <2>1, <2>2, <2>4, UseFollows
  <2> QED BY <2>2, <2>3, <2>5, PutDown
<1> QED BY <1>1, <1>2, <1>3, <1>4, <1>5 DEF User

\* A step that changes only what UseFollows allows.
LEMMA UsePuts ==
  ASSUME IInv, NEW h \in Hosts, NEW s \in Managed, Counted(s),
         s.state = m[h].state, s.client = m[h].client, s.gen = m[h].gen, s.promise = m[h].promise,
         s.rides = m[h].rides, s.intentional = m[h].intentional, s.holds = m[h].holds,
         (s.timer = m[h].timer /\ s.strays = m[h].strays) \/ m[h].intentional,
         m' = Put(m, h, s), UNCHANGED tr
  PROVE  IInv'
<1>1. Follows(h, m[h], tr[h], s, tr[h])
  BY SaneAt, UseFollows
<1>2. tr' = Put(tr, h, tr[h])
  BY SaneAt
<1> QED BY <1>1, <1>2, PutDown

\* Arming a timer for a connection nobody uses makes it counted.
LEMMA ArmedCounted ==
  ASSUME NEW r \in Managed, r.idle => r.channels = {} /\ r.holds = {}
  PROVE  /\ Armed(r) \in Managed /\ Counted(Armed(r))
         /\ Armed(r).state = r.state /\ Armed(r).client = r.client /\ Armed(r).gen = r.gen
         /\ Armed(r).promise = r.promise /\ Armed(r).rides = r.rides /\ Armed(r).intentional = r.intentional
         /\ Armed(r).holds = r.holds /\ Armed(r).channels = r.channels
         /\ Armed(r).timer = r.timer /\ Armed(r).strays = r.strays
<1>1. CASE IsIdle(r)
  <2> DEFINE q == [r EXCEPT !.idle = TRUE]
  <2>1. Armed(r) = q
    BY <1>1 DEF Armed
  <2>2. /\ q \in Managed /\ q.idle = TRUE /\ q.state = r.state /\ q.client = r.client /\ q.gen = r.gen
        /\ q.promise = r.promise /\ q.rides = r.rides /\ q.intentional = r.intentional /\ q.holds = r.holds
        /\ q.channels = r.channels /\ q.timer = r.timer /\ q.strays = r.strays
    BY DEF Managed
  <2> HIDE DEF q
  <2> QED BY <1>1, <2>1, <2>2 DEF Counted, IsIdle
<1>2. CASE ~IsIdle(r)
  BY <1>2 DEF Armed, Counted
<1> QED BY <1>1, <1>2

LEMMA ChannelGood == ASSUME IInv, NEW h \in Hosts, NEW g \in Gens(h), Channel(h, g) PROVE IInv'
<1>0. m[h] \in Managed /\ m \in AllRecords /\ Counted(m[h]) /\ g \in Nat
  BY SaneAt DEF HostGood, Gens
<1>1. ASSUME ChannelOpened(h, g), m' = [m EXCEPT ![h].opening = @ \ {g}, ![h].channels = @ \union {g}, ![h].idle = FALSE]
      PROVE  IInv'
  <2> DEFINE s == [m[h] EXCEPT !.opening = @ \ {g}, !.channels = @ \union {g}, !.idle = FALSE]
  <2>1. s \in Managed
    <3>1. m[h].opening \ {g} \in SUBSET Nat /\ m[h].channels \union {g} \in SUBSET Nat
      BY <1>0 DEF Managed
    <3> QED BY <1>0, <3>1 DEF Managed
  <2>2. /\ s.state = m[h].state /\ s.client = m[h].client /\ s.gen = m[h].gen /\ s.promise = m[h].promise
        /\ s.rides = m[h].rides /\ s.intentional = m[h].intentional /\ s.timer = m[h].timer /\ s.strays = m[h].strays
        /\ s.holds = m[h].holds /\ s.idle = FALSE /\ g \in s.channels
    BY <1>0 DEF Managed
  <2>3. m' = Put(m, h, s) /\ UNCHANGED tr
    BY <1>0, <1>1 DEF ChannelOpened, Put, AllRecords
  <2> HIDE DEF s
  <2>4. Counted(s)
    BY <2>2 DEF Counted, IsIdle
  <2> QED BY <2>1, <2>2, <2>3, <2>4, UsePuts
<1>2. ASSUME ChannelOpened(h, g), m' = [m EXCEPT ![h].opening = @ \ {g}]
      PROVE  IInv'
  <2> DEFINE s == [m[h] EXCEPT !.opening = @ \ {g}]
  <2>1. s \in Managed
    BY <1>0 DEF Managed
  <2>2. /\ s.state = m[h].state /\ s.client = m[h].client /\ s.gen = m[h].gen /\ s.promise = m[h].promise
        /\ s.rides = m[h].rides /\ s.intentional = m[h].intentional /\ s.timer = m[h].timer /\ s.strays = m[h].strays
        /\ s.holds = m[h].holds /\ s.idle = m[h].idle /\ s.channels = m[h].channels
    BY <1>0 DEF Managed
  <2>3. m' = Put(m, h, s) /\ UNCHANGED tr
    BY <1>0, <1>2 DEF ChannelOpened, Put, AllRecords
  <2> HIDE DEF s
  <2>4. Counted(s)
    BY <1>0, <2>2 DEF Counted, IsIdle
  <2> QED BY <2>1, <2>2, <2>3, <2>4, UsePuts
<1>3. CASE ChannelClosed(h, g)
  <2> DEFINE q == [m[h] EXCEPT !.channels = @ \ {g}]
  <2>1. /\ q \in Managed /\ q.state = m[h].state /\ q.client = m[h].client /\ q.gen = m[h].gen
        /\ q.promise = m[h].promise /\ q.rides = m[h].rides /\ q.intentional = m[h].intentional
        /\ q.timer = m[h].timer /\ q.strays = m[h].strays /\ q.holds = m[h].holds
        /\ q.idle = m[h].idle /\ q.channels = m[h].channels \ {g}
    BY <1>0 DEF Managed
  <2>2. [m EXCEPT ![h].channels = @ \ {g}] = Put(m, h, q)
    BY <1>0 DEF Put, AllRecords
  <2> HIDE DEF q
  <2>3. Put(m, h, q) \in AllRecords /\ Put(m, h, q)[h] = q /\ Put(Put(m, h, q), h, Armed(q)) = Put(m, h, Armed(q))
    BY <1>0, <2>1 DEF Put, AllRecords
  <2>4. m' = Put(m, h, Armed(q)) /\ UNCHANGED tr
    BY <1>3, <2>2, <2>3, HelpersPut DEF ChannelClosed
  <2>5. q.idle => q.channels = {} /\ q.holds = {}
    BY <1>0, <2>1 DEF Counted
  <2> QED BY <2>1, <2>4, <2>5, ArmedCounted, UsePuts
<1> QED BY <1>1, <1>2, <1>3 DEF Channel, ChannelOpened

LEMMA TimerGood == ASSUME IInv, NEW h \in Hosts, Timer(h) PROVE IInv'
<1>0. Sane(h, m[h], tr[h]) /\ m[h] \in Managed /\ m \in AllRecords /\ Counted(m[h])
  BY SaneAt DEF HostGood
<1>1. CASE ReconnectTimer(h)
  <2>1. PICK stray \in BOOLEAN :
          /\ IF stray THEN m[h].strays > 0 ELSE m[h].timer
          /\ LET fired == [m EXCEPT ![h].timer = FALSE,
                                    ![h].strays = IF stray /\ ~m[h].timer THEN @ - 1 ELSE @]
             IN  IF Redials(h)
                 THEN m' = Opened(fired, h) /\ tr' = NewAttempt(h)
                 ELSE m' = fired /\ UNCHANGED tr
    BY <1>1 DEF ReconnectTimer
  <2> DEFINE left == IF stray /\ ~m[h].timer THEN m[h].strays - 1 ELSE m[h].strays
             s == [m[h] EXCEPT !.timer = FALSE, !.strays = left]
  <2>2. left \in Nat
    BY <1>0, <2>1 DEF Managed
  <2>3. [m EXCEPT ![h].timer = FALSE, ![h].strays = IF stray /\ ~m[h].timer THEN @ - 1 ELSE @] = Put(m, h, s)
    BY <1>0 DEF Put, AllRecords
  <2> HIDE DEF left
  <2>4. /\ s \in Managed /\ s.state = m[h].state /\ s.client = m[h].client /\ s.gen = m[h].gen
        /\ s.promise = m[h].promise /\ s.rides = m[h].rides /\ s.intentional = m[h].intentional
        /\ s.holds = m[h].holds /\ s.idle = m[h].idle /\ s.channels = m[h].channels
    BY <1>0, <2>2 DEF Managed
  <2> HIDE DEF s
  <2>5. Put(m, h, s) \in AllRecords /\ Put(m, h, s)[h] = s /\ Put(Put(m, h, s), h, Opens(s)) = Put(m, h, Opens(s))
    BY <1>0, <2>4 DEF Put, AllRecords
  <2>6. CASE Redials(h)
    <3>1. m' = Put(m, h, Opens(s))
      <4>1. m' = Opened(Put(m, h, s), h)
        BY <2>1, <2>3, <2>6
      <4> QED BY <2>5, <4>1, HelpersPut
    <3>2. tr' = Put(tr, h, Phase(tr[h], m[h].gen + 1, "config"))
      BY <2>1, <2>6, PhasePuts DEF NewAttempt
    <3>3. Follows(h, m[h], tr[h], Opens(s), Phase(tr[h], m[h].gen + 1, "config"))
      BY <1>0, <1>1, <2>4, <2>6, OpensFollows DEF ReconnectTimer, Redials
    <3>4. Opens(s).rides = m[h].rides
      BY <2>4 DEF Opens, Managed
    <3> QED BY <3>1, <3>2, <3>3, <3>4, PutDown
  <2>7. CASE ~Redials(h)
    <3>1. m' = Put(m, h, s) /\ UNCHANGED tr
      BY <2>1, <2>3, <2>7
    <3>2. Counted(s)
      BY <1>0, <2>4 DEF Counted, IsIdle
    <3> QED BY <2>4, <2>7, <3>1, <3>2, UsePuts DEF Redials
  <2> QED BY <2>6, <2>7
<1>2. CASE IdleTimer(h)
  <2> DEFINE s == [m[h] EXCEPT !.idle = FALSE]
  <2>1. /\ s \in Managed /\ s.state = m[h].state /\ s.client = m[h].client /\ s.gen = m[h].gen
        /\ s.promise = m[h].promise /\ s.rides = m[h].rides /\ s.intentional = m[h].intentional
        /\ s.holds = m[h].holds /\ s.idle = FALSE /\ s.channels = m[h].channels
        /\ s.timer = m[h].timer /\ s.strays = m[h].strays
    BY <1>0 DEF Managed
  <2>2. [m EXCEPT ![h].idle = FALSE] = Put(m, h, s)
    BY <1>0 DEF Put, AllRecords
  <2> HIDE DEF s
  <2>3. CASE IsIdle(m[h])
    BY <1>2, <2>1, <2>2, <2>3, TearsGood DEF IdleTimer
  <2>4. CASE ~IsIdle(m[h])
    <3>1. m' = Put(m, h, s) /\ UNCHANGED tr
      BY <1>2, <2>2, <2>4 DEF IdleTimer
    <3>2. Counted(s)
      BY <2>1, <2>4 DEF Counted, IsIdle
    <3> QED BY <2>1, <3>1, <3>2, UsePuts
  <2> QED BY <2>3, <2>4
<1> QED BY <1>1, <1>2 DEF Timer

\* What the helpers of an attempt's end leave of a record.
LEMMA SettlesFields ==
  ASSUME NEW r \in Managed, NEW g
  PROVE  /\ Settles(r, g) \in Managed
         /\ Settles(r, g).promise = IF r.promise = g THEN NoPromise ELSE r.promise
         /\ Settles(r, g).state = r.state /\ Settles(r, g).client = r.client /\ Settles(r, g).gen = r.gen
         /\ Settles(r, g).rides = r.rides /\ Settles(r, g).intentional = r.intentional
         /\ Settles(r, g).holds = r.holds /\ Settles(r, g).channels = r.channels /\ Settles(r, g).idle = r.idle
         /\ Settles(r, g).timer = r.timer /\ Settles(r, g).strays = r.strays
<1>1. Settles(r, g) \in Managed
  BY RecordsTyped
<1> QED BY <1>1 DEF Settles, Managed

LEMMA CatchesFields ==
  ASSUME NEW r \in Managed, NEW h
  PROVE  /\ \A s \in {Schedules(r, h), Catches(r, h)} :
              /\ s \in Managed
              /\ s.client = r.client /\ s.gen = r.gen /\ s.promise = r.promise
              /\ s.rides = r.rides /\ s.intentional = r.intentional
              /\ s.holds = r.holds /\ s.channels = r.channels /\ s.idle = r.idle
              /\ s.state = "connected" => r.state = "connected"
              /\ s.state \in {"connecting", "reconnecting"} => s.timer
         /\ Schedules(r, h).state # "connected"
<1>1. /\ Schedules(r, h) \in Managed
      /\ Schedules(r, h).client = r.client /\ Schedules(r, h).gen = r.gen /\ Schedules(r, h).promise = r.promise
      /\ Schedules(r, h).rides = r.rides /\ Schedules(r, h).intentional = r.intentional
      /\ Schedules(r, h).holds = r.holds /\ Schedules(r, h).channels = r.channels /\ Schedules(r, h).idle = r.idle
  <2>1. Schedules(r, h) \in Managed
    BY RecordsTyped
  <2> QED BY <2>1 DEF Schedules, Managed
<1>2. Schedules(r, h).state = "disconnected" \/ (Schedules(r, h).state = "reconnecting" /\ Schedules(r, h).timer)
  BY DEF Schedules, Managed
<1> QED BY <1>1, <1>2 DEF Catches

LEMMA DropsFields ==
  ASSUME NEW r \in Managed
  PROVE  /\ Drops(r) \in Managed
         /\ Drops(r).client = NoClient /\ Drops(r).channels = {} /\ Drops(r).idle = FALSE /\ Drops(r).rides = NoRide
         /\ Drops(r).gen = r.gen /\ Drops(r).promise = r.promise /\ Drops(r).intentional = r.intentional
         /\ Drops(r).holds = r.holds /\ Drops(r).state = r.state
         /\ Drops(r).timer = r.timer /\ Drops(r).strays = r.strays
<1>1. Drops(r) \in Managed
  BY RecordsTyped
<1> QED BY <1>1 DEF Drops, Managed

\* A record in which only the promise of g may be settled and the state given
\* up, while g gets to the phase x.
LEMMA AttemptPuts ==
  ASSUME IInv, NEW h \in Hosts, NEW g \in Gens(h), NEW x \in Phases, NEW s \in Managed,
         Follows(h, m[h], tr[h], s, Phase(tr[h], g, x)),
         tr' = [tr EXCEPT ![h][g] = x], m' = Place(m, h, s)
  PROVE  IInv'
<1>1. tr' = Put(tr, h, Phase(tr[h], g, x))
  BY PhasePuts
<1> QED BY <1>1, Placed

LEMMA EarlyGood ==
  ASSUME IInv, NEW h \in Hosts, NEW g \in Gens(h), Misconfigured(h, g) \/ JumpFails(h, g)
  PROVE  IInv'
<1>0. /\ Sane(h, m[h], tr[h]) /\ m[h] \in Managed /\ m \in AllRecords /\ HostGood(m[h], tr[h])
      /\ g \in Nat \ {0} /\ tr[h] \in Rows(h)
  BY SaneAt DEF Gens
<1>1. CASE Misconfigured(h, g)
  <2> DEFINE s == Settles(m[h], g)
  <2>1. m' = Place(m, h, s)
    BY <1>0, <1>1, HelpersPut, PlaceOne, SettlesFields DEF Misconfigured
  <2>2. Counted(s)
    BY <1>0, SettlesFields DEF HostGood, Counted, IsIdle
  <2>3. tr[h][g] = "config" /\ "unconfigured" \in Phases
    BY <1>1 DEF Misconfigured, Phases
  <2>4. m[h].intentional => m[h].gen # g /\ m[h].state = "disconnected" /\ m[h].client = NoClient
    BY <1>0, <2>3 DEF HostGood, Off, Rows
  <2>5. m[h].state = "connected" => m[h].gen # g /\ m[h].client = m[h].gen
    BY <1>0, <2>3 DEF HostGood, Shown
  <2>6. Follows(h, m[h], tr[h], s, Phase(tr[h], g, "unconfigured"))
    <3>1. /\ s \in Managed
          /\ s.promise = IF m[h].promise = g THEN NoPromise ELSE m[h].promise
          /\ s.state = m[h].state /\ s.client = m[h].client /\ s.gen = m[h].gen
          /\ s.rides = m[h].rides /\ s.intentional = m[h].intentional
          /\ s.holds = m[h].holds /\ s.timer = m[h].timer /\ s.strays = m[h].strays
      BY <1>0, SettlesFields
    <3> HIDE DEF s
    <3>2. s.promise \in {NoPromise, m[h].promise} /\ ~(s.promise = g /\ g # NoPromise)
      BY <1>0, <3>1 DEF NoPromise
    <3>3. /\ s.state = "connected" => s.client = s.gen /\ s.gen # g
          /\ s.intentional => s.state = "disconnected" /\ s.client = NoClient
      BY <2>4, <2>5, <3>1
    <3> QED BY <1>0, <2>2, <2>3, <3>1, <3>2, <3>3, PhaseFollows DEF Up
  <2>7. s \in Managed /\ tr' = [tr EXCEPT ![h][g] = "unconfigured"]
    BY <1>0, <1>1, SettlesFields DEF Misconfigured
  <2> HIDE DEF s
  <2> QED BY <2>1, <2>3, <2>6, <2>7, AttemptPuts
<1>2. CASE JumpFails(h, g)
  <2> DEFINE q == [m[h] EXCEPT !.state = "disconnected"]
             s == Settles(q, g)
  <2>1. /\ q \in Managed /\ q.state = "disconnected" /\ q.client = m[h].client /\ q.gen = m[h].gen
        /\ q.promise = m[h].promise /\ q.rides = m[h].rides /\ q.intentional = m[h].intentional
        /\ q.holds = m[h].holds /\ q.idle = m[h].idle /\ q.channels = m[h].channels
    BY <1>0 DEF Managed
  <2>2. [m EXCEPT ![h].state = "disconnected"] = Put(m, h, q)
    BY <1>0 DEF Put, AllRecords
  <2> HIDE DEF q
  <2>3. Put(m, h, q) \in AllRecords /\ Put(m, h, q)[h] = q /\ Put(Put(m, h, q), h, s) = Put(m, h, s)
    BY <1>0, <2>1 DEF Put, AllRecords
  <2>4. /\ s \in Managed /\ s.rides = m[h].rides
        /\ s.promise = IF m[h].promise = g THEN NoPromise ELSE m[h].promise
        /\ s.state = "disconnected" /\ s.client = m[h].client /\ s.gen = m[h].gen
        /\ s.intentional = m[h].intentional /\ s.holds = m[h].holds /\ s.idle = m[h].idle /\ s.channels = m[h].channels
    BY <2>1, SettlesFields
  <2>5. m' = Place(m, h, s)
    <3>1. m' = Put(m, h, s)
      <4>1. m' = Settle(Put(m, h, q), h, g)
        BY <1>2, <2>2 DEF JumpFails
      <4>2. Settle(Put(m, h, q), h, g) = Put(Put(m, h, q), h, Settles(Put(m, h, q)[h], g))
        BY <2>3, HelpersPut
      <4> QED BY <2>3, <4>1, <4>2
    <3> QED BY <1>0, <2>4, <3>1, PlaceOne
  <2> HIDE DEF s
  <2>6. Counted(s)
    BY <1>0, <2>4 DEF HostGood, Counted, IsIdle
  <2>7. tr[h][g] = "jump" /\ "closed" \in Phases
    BY <1>2 DEF JumpFails, Phases
  <2>8. s.promise \in {NoPromise, m[h].promise} /\ ~(s.promise = g /\ g # NoPromise)
    BY <1>0, <2>4 DEF NoPromise
  <2>9. m[h].intentional => s.client = NoClient
    BY <1>0, <2>4 DEF HostGood, Off
  <2>10. Follows(h, m[h], tr[h], s, Phase(tr[h], g, "closed"))
    BY <1>0, <2>4, <2>6, <2>7, <2>8, <2>9, PhaseFollows DEF Up
  <2> QED BY <1>2, <2>4, <2>5, <2>7, <2>10, AttemptPuts DEF JumpFails
<1> QED BY <1>1, <1>2

\* A phase that only leads on.
LEMMA GoesOnFollows ==
  ASSUME NEW h \in Hosts, NEW r, NEW t, Sane(h, r, t), NEW g \in Gens(h), NEW x \in {"jump", "handshake"},
         t[g] \in Pending, x = "jump" => HasJump(h)
  PROVE  Follows(h, r, t, r, Phase(t, g, x)) /\ x \in Phases
<1>0. x \in Phases /\ x \in Pending
  BY DEF Phases, Pending
<1>1. r.intentional => r.state = "disconnected" /\ r.client = NoClient
  BY DEF Sane, HostGood, Off
<1>2. r.state = "connected" => r.client = r.gen /\ r.gen # g
  BY DEF Sane, HostGood, Shown, Pending
<1>3. r \in Managed /\ Counted(r)
  BY DEF Sane, HostTyped, HostGood
<1> QED BY <1>0, <1>1, <1>2, <1>3, PhaseFollows DEF Pending, Up

LEMMA ConfiguredGood ==
  ASSUME IInv, NEW h \in Hosts, NEW g \in Gens(h), Configured(h, g)
  PROVE  IInv'
<1>0. /\ Sane(h, m[h], tr[h]) /\ m[h] \in Managed /\ m \in AllRecords
      /\ tr[h][g] = "config" /\ tr[h][g] \in Pending
  BY SaneAt DEF Configured, Pending
<1>1. ASSUME NEW x \in {"jump", "handshake"}, x = "jump" => HasJump(h),
             tr' = [tr EXCEPT ![h][g] = x], UNCHANGED m
      PROVE  IInv'
  <2>1. m' = Place(m, h, m[h])
    BY <1>0, <1>1, PlaceSame
  <2> QED BY <1>0, <1>1, <2>1, GoesOnFollows, AttemptPuts
<1>2. ASSUME HasJump(h), m[Jump[h]].gen < MaxGen[Jump[h]],
             tr' = [NewAttempt(Jump[h]) EXCEPT ![h][g] = "jump"], m' = Dialled(m, Jump[h])
      PROVE  IInv'
  <2> DEFINE j == Jump[h]
  <2>1. j \in Hosts /\ j # h
    BY <1>2, HopAssumption DEF HasJump
  <2> HIDE DEF j
  <2>2. Sane(j, m[j], tr[j]) /\ m[j] \in Managed /\ DOMAIN tr = Hosts
    BY <2>1, SaneAt
  <2> DEFINE r == Dials(m[j])
             t == Phase(tr[j], m[j].gen + 1, "config")
             ms == Place(m, j, r)
             ts == Put(tr, j, t)
             u == Phase(tr[h], g, "jump")
  <2>3. m' = ms
    <3>1. m' = Put(m, j, r)
      BY <1>0, <1>2, <2>1, HelpersPut DEF j
    <3>2. r \in Managed /\ r.rides = m[j].rides
      <4>1. r \in Managed
        BY <2>2, RecordsTyped
      <4>2. r.rides = m[j].rides
        BY <2>2 DEF Dials, Opens, Managed
      <4> QED BY <4>1, <4>2
    <3> QED BY <1>0, <2>1, <3>1, <3>2, PlaceOne
  <2>4. NewAttempt(j) = ts
    BY <2>1, PhasePuts DEF NewAttempt
  <2>5. ts[h] = tr[h] /\ DOMAIN ts = Hosts
    BY <2>1, <2>2 DEF Put
  <2>6. tr' = Put(ts, h, u)
    BY <1>2, <2>1, <2>4, <2>5 DEF j, Put, Phase
  <2>7. Follows(j, m[j], tr[j], r, t)
    BY <1>2, <2>1, <2>2, OpensFollows DEF j
  <2> HIDE DEF r, t
  <2>8. GoodHosts(ms, ts)
    BY <2>1, <2>7, PlaceGood DEF IInv, Follows
  <2>9. ms[h] = m[h] /\ ms \in AllRecords
    <3>1. ~LetsGo(m, j, r)
      BY <1>2, <2>1, HopAssumption DEF LetsGo, HasJump, j
    <3>2. ms[h] = m[h]
      BY <2>1, <3>1 DEF Place
    <3> QED BY <2>8, <3>2 DEF GoodHosts
  <2> HIDE DEF ms, ts
  <2>10. Follows(h, ms[h], ts[h], ms[h], u)
    BY <1>0, <1>2, <2>5, <2>9, GoesOnFollows
  <2>11. GoodHosts(Place(ms, h, ms[h]), Put(ts, h, u))
    BY <2>8, <2>10, PlaceGood DEF Follows
  <2>12. Place(ms, h, ms[h]) = ms
    BY <2>9, PlaceSame
  <2> QED BY <2>3, <2>6, <2>11, <2>12 DEF IInv
<1> QED BY <1>1, <1>2 DEF Configured

LEMMA JumpStreamGood ==
  ASSUME IInv, NEW h \in Hosts, NEW g \in Gens(h), JumpStream(h, g)
  PROVE  IInv'
<1> DEFINE j == Jump[h]
           c == m[j].client
           r == [m[h] EXCEPT !.rides = c]
           s == Held(m[j], h)
           t == Phase(tr[h], g, "handshake")
<1>1. tr[h][g] = "jump" /\ tr[h][g] \in Pending /\ "handshake" \in Phases
  BY DEF JumpStream, Pending, Phases
<1>2. HasJump(h) /\ j \in Hosts /\ j # h /\ ~HasJump(j)
  BY <1>1, HopAssumption, SaneAt DEF Sane, HasJump
<1> HIDE DEF j
<1>3. /\ \A k \in {h, j} : /\ Sane(k, m[k], tr[k]) /\ HostTyped(k, m[k], tr[k]) /\ HostGood(m[k], tr[k])
                          /\ m[k] \in Managed /\ tr[k] \in Rows(k)
      /\ m \in AllRecords /\ DOMAIN tr = Hosts
  BY <1>2, SaneAt
<1>4. c # NoClient /\ tr[j][c] = "ready" /\ m[h].gen = g /\ ~m[h].intentional
  BY DEF JumpStream, StillWanted, j
<1>5. c \in Nat
  BY <1>3 DEF Managed
<1>6. /\ r \in Managed /\ r.rides = c /\ r.state = m[h].state /\ r.client = m[h].client /\ r.gen = m[h].gen
      /\ r.promise = m[h].promise /\ r.intentional = m[h].intentional /\ r.timer = m[h].timer
      /\ r.strays = m[h].strays /\ r.holds = m[h].holds /\ r.channels = m[h].channels /\ r.idle = m[h].idle
  BY <1>3, <1>5 DEF Managed
<1>7. /\ s \in Managed /\ s.holds = m[j].holds \union {h} /\ s.idle = FALSE /\ s.client = c
      /\ s.state = m[j].state /\ s.gen = m[j].gen /\ s.promise = m[j].promise /\ s.intentional = m[j].intentional
      /\ s.timer = m[j].timer /\ s.strays = m[j].strays /\ s.rides = m[j].rides
  <2>1. s \in Managed
    BY <1>3, RecordsTyped
  <2> QED BY <1>3, <2>1 DEF Held, Managed
<1>8. m' = Put(Put(m, h, r), j, s) /\ tr' = Put(tr, h, t)
  <2>1. [m EXCEPT ![h].rides = c] = Put(m, h, r)
    BY <1>3 DEF Put, AllRecords
  <2>2. Put(m, h, r) \in AllRecords /\ Put(m, h, r)[j] = m[j]
    BY <1>2, <1>3, <1>6 DEF Put, AllRecords
  <2>3. m' = HoldFor(Put(m, h, r), j, h)
    BY <2>1 DEF JumpStream, j
  <2>4. HoldFor(Put(m, h, r), j, h) = Put(Put(m, h, r), j, Held(Put(m, h, r)[j], h))
    BY <1>2, <2>2, HelpersPut
  <2> QED BY <2>2, <2>3, <2>4, PhasePuts DEF JumpStream
<1> HIDE DEF r, s, c
<1>9. /\ m' \in AllRecords /\ m'[h] = r /\ m'[j] = s /\ \A k \in Hosts \ {h, j} : m'[k] = m[k]
  BY <1>2, <1>3, <1>6, <1>7, <1>8 DEF Put, AllRecords
<1>10. /\ DOMAIN tr' = Hosts /\ tr' = [k \in Hosts |-> tr'[k]] /\ tr'[h] = t /\ \A k \in Hosts \ {h} : tr'[k] = tr[k]
  BY <1>3, <1>8 DEF Put
<1>11. Follows(h, m[h], tr[h], m[h], t)
  BY <1>1, <1>2, <1>3, GoesOnFollows
<1> HIDE DEF t
<1>12. HostTyped(h, r, t) /\ HostGood(r, t)
  <2>1. HostTyped(h, m[h], t) /\ HostGood(m[h], t)
    BY <1>11 DEF Follows
  <2>2. HostTyped(h, r, t)
    BY <1>6, <2>1 DEF HostTyped
  <2>3. Counted(r)
    BY <1>6, <2>1 DEF HostGood, Counted, IsIdle
  <2> QED BY <1>4, <1>6, <2>1, <2>2, <2>3 DEF HostGood, Shown, Off, Numbered
<1>13. HostTyped(j, s, tr[j]) /\ HostGood(s, tr[j])
  <2>1. HostTyped(j, s, tr[j])
    BY <1>3, <1>7 DEF HostTyped, c
  <2>2. Counted(s)
    BY <1>7 DEF Counted, IsIdle
  <2>3. Shown(s, tr[j]) /\ Off(s, tr[j]) /\ Numbered(s, tr[j])
    BY <1>3, <1>7 DEF HostGood, Shown, Off, Numbered, c
  <2> QED BY <2>1, <2>2, <2>3 DEF HostGood
<1>14. Alone(m', tr')
  <2> SUFFICES ASSUME NEW k \in Hosts PROVE HostTyped(k, m'[k], tr'[k]) /\ HostGood(m'[k], tr'[k])
    BY DEF Alone
  <2> QED BY <1>2, <1>9, <1>10, <1>12, <1>13, SaneAt
<1>15. ASSUME NEW k \in Hosts, ~HasJump(k) PROVE m'[k].rides = NoRide /\ \A n \in Gens(k) : tr'[k][n] # "jump"
  <2>1. m[k].rides = NoRide /\ \A n \in Gens(k) : tr[k][n] # "jump"
    BY <1>15 DEF IInv, GoodHosts, Riding
  <2> QED BY <1>2, <1>7, <1>9, <1>10, <1>15, <2>1
<1>16. ASSUME NEW k \in DOMAIN Jump PROVE Rode(k, m'[k], m'[Jump[k]], tr'[Jump[k]])
  <2>1. Rode(k, m[k], m[Jump[k]], tr[Jump[k]])
    BY DEF IInv, GoodHosts, Riding
  <2>2. k \in Hosts /\ Jump[k] \in Hosts /\ Jump[k] # k /\ Jump[k] # h /\ k # j
    BY <1>2, HopAssumption DEF HasJump
  <2>3. CASE k = h
    <3>1. c \in DOMAIN tr[j]
      <4>1. c \in Gens(j)
        BY <1>2, <1>3, <1>4, <1>5, BoundsAssumption DEF HostTyped, Managed, Gens, c, NoClient
      <4> QED BY <1>3, <4>1 DEF Rows
    <3>2. m'[k] = r /\ Jump[k] = j /\ m'[j] = s /\ tr'[j] = tr[j]
      BY <1>2, <1>9, <1>10, <2>3 DEF j
    <3>3. tr[j][c] \in Up /\ h \in s.holds /\ r.rides = c /\ c # NoRide
      BY <1>4, <1>6, <1>7 DEF Up, NoClient, NoRide
    <3> QED BY <2>3, <3>1, <3>2, <3>3 DEF Rode
  <2>4. CASE k # h
    BY <1>7, <1>9, <1>10, <2>1, <2>2, <2>4 DEF Rode, c
  <2> QED BY <2>3, <2>4
<1> QED BY <1>9, <1>10, <1>14, <1>15, <1>16 DEF IInv, GoodHosts, Riding

\* The late events of an attempt that was superseded settle its promise.
LEMMA SupersededGood ==
  ASSUME IInv, NEW h \in Hosts, NEW g \in Gens(h), NEW x \in {"ended", "closed"}, m[h].gen # g,
         tr[h][g] # "none", m' = Settle(m, h, g), tr' = [tr EXCEPT ![h][g] = x]
  PROVE  IInv'
<1> DEFINE s == Settles(m[h], g)
<1>0. Sane(h, m[h], tr[h]) /\ m[h] \in Managed /\ m \in AllRecords /\ HostGood(m[h], tr[h]) /\ g \in Nat \ {0}
  BY SaneAt DEF Gens
<1>1. /\ s \in Managed
      /\ s.promise = IF m[h].promise = g THEN NoPromise ELSE m[h].promise
      /\ s.state = m[h].state /\ s.client = m[h].client /\ s.gen = m[h].gen
      /\ s.rides = m[h].rides /\ s.intentional = m[h].intentional
      /\ s.holds = m[h].holds /\ s.timer = m[h].timer /\ s.strays = m[h].strays
      /\ s.channels = m[h].channels /\ s.idle = m[h].idle
  BY <1>0, SettlesFields
<1>2. m' = Place(m, h, s)
  BY <1>0, <1>1, HelpersPut, PlaceOne
<1> HIDE DEF s
<1>3. Counted(s)
  BY <1>0, <1>1 DEF HostGood, Counted, IsIdle
<1>4. x \in Phases /\ x \in Up /\ x # "jump"
  BY DEF Phases, Up
<1>5. /\ s.promise \in {NoPromise, m[h].promise} /\ ~(s.promise = g /\ g # NoPromise)
      /\ s.state = "connected" => s.client = s.gen /\ s.gen # g
      /\ s.intentional => s.state = "disconnected" /\ s.client = NoClient
  BY <1>0, <1>1 DEF NoPromise, HostGood, Shown, Off
<1>6. Follows(h, m[h], tr[h], s, Phase(tr[h], g, x))
  BY <1>0, <1>1, <1>3, <1>4, <1>5, PhaseFollows
<1> QED BY <1>1, <1>2, <1>4, <1>6, AttemptPuts

\* The events of the current one: s is what they leave of the record.
LEMMA CurrentGood ==
  ASSUME IInv, NEW h \in Hosts, NEW g \in Gens(h), NEW x \in {"ready", "failed", "closed"}, NEW s \in Managed,
         m[h].gen = g, tr[h][g] \notin Pending \ {"handshake"}, tr[h][g] # "none", tr[h][g] \in Up => x \in Up,
         Counted(s), s.gen = m[h].gen, s.intentional = m[h].intentional, s.holds = m[h].holds,
         s.promise \in {NoPromise, m[h].promise} \ {g}, s.rides \in {NoRide, m[h].rides},
         s.client \in {NoClient, m[h].client} \/ (s.client = g /\ tr[h][g] \notin Up),
         s.state = "connected" => s.client = s.gen /\ x = "ready",
         s.state \in {"connecting", "reconnecting"} => s.timer,
         m' = Place(m, h, s), tr' = [tr EXCEPT ![h][g] = x]
  PROVE  IInv'
<1>0. Sane(h, m[h], tr[h]) /\ HostGood(m[h], tr[h]) /\ tr[h] \in Rows(h)
  BY SaneAt
<1>1. x \in Phases /\ x # "jump"
  BY DEF Phases
<1>2. ~m[h].intentional
  BY <1>0 DEF HostGood, Off, Rows
<1>3. Follows(h, m[h], tr[h], s, Phase(tr[h], g, x))
  BY <1>0, <1>1, <1>2, PhaseFollows
<1> QED BY <1>1, <1>3, AttemptPuts

LEMMA ReadyGood == ASSUME IInv, NEW h \in Hosts, NEW g \in Gens(h), Ready(h, g) PROVE IInv'
<1>0. /\ m[h] \in Managed /\ m \in AllRecords /\ HostGood(m[h], tr[h]) /\ g \in Nat \ {0}
      /\ tr[h][g] = "handshake"
  BY SaneAt DEF Gens, Ready
<1>1. CASE m[h].gen # g
  BY <1>0, <1>1, SupersededGood DEF Ready
<1>2. CASE m[h].gen = g
  <2> DEFINE q == [m[h] EXCEPT !.client = g, !.attempts = 0, !.state = "connected"]
             p == Settles(q, g)
             s == Armed(p)
  <2>1. /\ q \in Managed /\ q.client = g /\ q.state = "connected" /\ q.gen = g /\ q.promise = m[h].promise
        /\ q.rides = m[h].rides /\ q.intentional = m[h].intentional /\ q.holds = m[h].holds
        /\ q.idle = m[h].idle /\ q.channels = m[h].channels
    <3>1. 0 \in 0 .. Delays
      BY BoundsAssumption
    <3> QED BY <1>0, <1>2, <3>1 DEF Managed
  <2>2. [m EXCEPT ![h].client = g, ![h].attempts = 0, ![h].state = "connected"] = Put(m, h, q)
    BY <1>0 DEF Put, AllRecords
  <2> HIDE DEF q
  <2>3. /\ p \in Managed /\ p.client = g /\ p.state = "connected" /\ p.gen = g
        /\ p.promise = IF m[h].promise = g THEN NoPromise ELSE m[h].promise
        /\ p.rides = m[h].rides /\ p.intentional = m[h].intentional /\ p.holds = m[h].holds
        /\ p.idle = m[h].idle /\ p.channels = m[h].channels
    BY <2>1, SettlesFields
  <2>4. Put(m, h, q) \in AllRecords /\ Put(m, h, q)[h] = q /\ Put(Put(m, h, q), h, p) = Put(m, h, p)
    BY <1>0, <2>1, <2>3 DEF Put, AllRecords
  <2>5. m' = ArmIfIdle(Put(m, h, p), h)
    <3>1. m' = ArmIfIdle(Settle(Put(m, h, q), h, g), h)
      BY <1>2, <2>2 DEF Ready
    <3>2. Settle(Put(m, h, q), h, g) = Put(Put(m, h, q), h, Settles(Put(m, h, q)[h], g))
      BY <2>4, HelpersPut
    <3> QED BY <2>4, <3>1, <3>2
  <2> HIDE DEF p
  <2>6. Put(m, h, p) \in AllRecords /\ Put(m, h, p)[h] = p /\ Put(Put(m, h, p), h, s) = Put(m, h, s)
    BY <1>0, <2>3 DEF Put, AllRecords
  <2>7. p.idle => p.channels = {} /\ p.holds = {}
    BY <1>0, <2>3 DEF HostGood, Counted
  <2>8. /\ s \in Managed /\ Counted(s) /\ s.client = g /\ s.state = "connected" /\ s.gen = g
        /\ s.promise = p.promise /\ s.rides = m[h].rides /\ s.intentional = m[h].intentional /\ s.holds = m[h].holds
    BY <2>3, <2>7, ArmedCounted
  <2>9. m' = Place(m, h, s)
    <3>1. m' = Put(m, h, s)
      BY <2>5, <2>6, HelpersPut
    <3> QED BY <1>0, <2>8, <3>1, PlaceOne
  <2> HIDE DEF s
  <2>10. s.promise \in {NoPromise, m[h].promise} \ {g}
    BY <1>0, <2>3, <2>8 DEF NoPromise
  <2>11. tr' = [tr EXCEPT ![h][g] = "ready"]
    BY <1>2 DEF Ready
  <2> QED BY <1>0, <1>2, <2>8, <2>9, <2>10, <2>11, CurrentGood DEF Up
<1> QED BY <1>1, <1>2

LEMMA HandshakeErrorGood ==
  ASSUME IInv, NEW h \in Hosts, NEW g \in Gens(h), HandshakeError(h, g) PROVE IInv'
<1>0. /\ m[h] \in Managed /\ m \in AllRecords /\ HostGood(m[h], tr[h]) /\ g \in Nat \ {0}
      /\ tr[h][g] = "handshake"
  BY SaneAt DEF Gens, HandshakeError
<1>1. CASE m[h].gen # g
  BY <1>0, <1>1, SupersededGood DEF HandshakeError
<1>2. CASE m[h].gen = g
  <2> DEFINE q == Catches(m[h], h)
             s == Settles(q, g)
  <2>1. /\ q \in Managed
        /\ q.client = m[h].client /\ q.gen = m[h].gen /\ q.promise = m[h].promise
        /\ q.rides = m[h].rides /\ q.intentional = m[h].intentional
        /\ q.holds = m[h].holds /\ q.channels = m[h].channels /\ q.idle = m[h].idle
        /\ q.state = "connected" => m[h].state = "connected"
        /\ q.state \in {"connecting", "reconnecting"} => q.timer
    BY <1>0, CatchesFields
  <2>2. Caught(m, h) = Put(m, h, q)
    BY <1>0, HelpersPut
  <2> HIDE DEF q
  <2>3. /\ s \in Managed /\ s.client = m[h].client /\ s.gen = m[h].gen
        /\ s.promise = IF m[h].promise = g THEN NoPromise ELSE m[h].promise
        /\ s.rides = m[h].rides /\ s.intentional = m[h].intentional
        /\ s.holds = m[h].holds /\ s.channels = m[h].channels /\ s.idle = m[h].idle
        /\ s.state = "connected" => m[h].state = "connected"
        /\ s.state \in {"connecting", "reconnecting"} => s.timer
    BY <2>1, SettlesFields
  <2>4. Put(m, h, q) \in AllRecords /\ Put(m, h, q)[h] = q /\ Put(Put(m, h, q), h, s) = Put(m, h, s)
    BY <1>0, <2>1, <2>3 DEF Put, AllRecords
  <2>5. m' = Place(m, h, s)
    <3>1. m' = Settle(Put(m, h, q), h, g)
      BY <1>2, <2>2 DEF HandshakeError
    <3>2. Settle(Put(m, h, q), h, g) = Put(Put(m, h, q), h, Settles(Put(m, h, q)[h], g))
      BY <2>4, HelpersPut
    <3> QED BY <1>0, <2>3, <2>4, <3>1, <3>2, PlaceOne
  <2> HIDE DEF s
  <2>6. s.state # "connected"
    BY <1>0, <1>2, <2>3 DEF HostGood, Shown
  <2>7. Counted(s)
    BY <1>0, <2>3, <2>6 DEF HostGood, Counted, IsIdle
  <2>8. s.promise \in {NoPromise, m[h].promise} \ {g}
    BY <1>0, <2>3 DEF NoPromise
  <2>9. tr' = [tr EXCEPT ![h][g] = "failed"]
    BY <1>2 DEF HandshakeError
  <2> QED BY <1>0, <1>2, <2>3, <2>5, <2>6, <2>7, <2>8, <2>9, CurrentGood DEF Up
<1> QED BY <1>1, <1>2

LEMMA CloseGood == ASSUME IInv, NEW h \in Hosts, NEW g \in Gens(h), Close(h, g) PROVE IInv'
<1>0. /\ m[h] \in Managed /\ m \in AllRecords /\ HostGood(m[h], tr[h]) /\ g \in Nat \ {0} /\ tr[h] \in Rows(h)
      /\ tr[h][g] \in {"handshake", "failed", "ready", "ended"} /\ tr' = [tr EXCEPT ![h][g] = "closed"]
      /\ m[h].rides # NoRide => HasJump(h)
  BY SaneAt DEF Gens, Close
<1>1. CASE m[h].gen # g
  BY <1>0, <1>1, SupersededGood DEF Close
<1>2. ASSUME m[h].gen = g PROVE ~m[h].intentional /\ (tr[h][g] # "ready" => m[h].state # "connected")
  BY <1>0, <1>2 DEF HostGood, Off, Shown, Rows
<1> DEFINE d == Drops(m[h])
<1>3. /\ d \in Managed
      /\ d.client = NoClient /\ d.channels = {} /\ d.idle = FALSE /\ d.rides = NoRide
      /\ d.gen = m[h].gen /\ d.promise = m[h].promise /\ d.intentional = m[h].intentional
      /\ d.holds = m[h].holds /\ d.state = m[h].state
  BY <1>0, DropsFields
<1>4. CASE m[h].gen = g /\ tr[h][g] = "handshake"
  <2> DEFINE q == Catches(d, h)
             s == Settles(q, g)
  <2>1. Lost(m, h, FALSE) = Place(m, h, d)
    <3>1. Loses(m[h], h, FALSE) = d
      BY <1>2, <1>4 DEF Loses
    <3> QED BY <1>0, <3>1, LettingGo
  <2> HIDE DEF d
  <2>2. Place(m, h, d) \in AllRecords /\ Place(m, h, d)[h] = d
    BY <1>0, <1>3, PlaceTyped
  <2>3. /\ q \in Managed
        /\ q.client = NoClient /\ q.gen = m[h].gen /\ q.promise = m[h].promise
        /\ q.rides = NoRide /\ q.intentional = m[h].intentional
        /\ q.holds = m[h].holds /\ q.channels = {} /\ q.idle = FALSE
        /\ q.state = "connected" => m[h].state = "connected"
        /\ q.state \in {"connecting", "reconnecting"} => q.timer
    BY <1>3, CatchesFields
  <2>4. Caught(Place(m, h, d), h) = Place(m, h, q)
    <3>1. Caught(Place(m, h, d), h) = Put(Place(m, h, d), h, q)
      BY <2>2, HelpersPut
    <3> HIDE DEF q
    <3>2. q.rides = d.rides
      BY <1>3, <2>3
    <3> QED BY <1>0, <1>3, <2>3, <3>1, <3>2, PlaceAgain
  <2> HIDE DEF q
  <2>5. Place(m, h, q) \in AllRecords /\ Place(m, h, q)[h] = q
    BY <1>0, <2>3, PlaceTyped
  <2>6. /\ s \in Managed /\ s.client = NoClient /\ s.gen = m[h].gen
        /\ s.promise = IF m[h].promise = g THEN NoPromise ELSE m[h].promise
        /\ s.rides = q.rides /\ q.rides = NoRide /\ s.intentional = m[h].intentional
        /\ s.holds = m[h].holds /\ s.channels = {} /\ s.idle = FALSE
        /\ s.state = "connected" => m[h].state = "connected"
        /\ s.state \in {"connecting", "reconnecting"} => s.timer
    BY <2>3, SettlesFields
  <2>7. m' = Place(m, h, s)
    <3>1. m' = Settle(Place(m, h, q), h, g)
      BY <1>4, <2>1, <2>4 DEF Close
    <3>2. Settle(Place(m, h, q), h, g) = Put(Place(m, h, q), h, Settles(Place(m, h, q)[h], g))
      BY <2>5, HelpersPut
    <3>3. Settle(Place(m, h, q), h, g) = Put(Place(m, h, q), h, s)
      BY <2>5, <3>2
    <3> HIDE DEF s
    <3> QED BY <1>0, <2>3, <2>6, <3>1, <3>3, PlaceAgain
  <2> HIDE DEF s
  <2>8. s.state # "connected" /\ Counted(s)
    BY <1>2, <1>4, <2>6 DEF Counted, IsIdle
  <2>9. s.promise \in {NoPromise, m[h].promise} \ {g}
    BY <1>0, <2>6 DEF NoPromise
  <2> QED BY <1>0, <1>4, <2>6, <2>7, <2>8, <2>9, CurrentGood DEF Up
<1>5. CASE m[h].gen = g /\ tr[h][g] # "handshake"
  <2> DEFINE s == Loses(m[h], h, TRUE)
  <2>1. m' = Place(m, h, s)
    BY <1>0, <1>5, LettingGo DEF Close
  <2>2. s = IF m[h].holds = {} THEN [d EXCEPT !.state = "disconnected"] ELSE Schedules(d, h)
    BY <1>2, <1>5 DEF Loses
  <2> HIDE DEF d
  <2>3. /\ s \in Managed /\ s.client = NoClient /\ s.gen = m[h].gen /\ s.promise = m[h].promise
        /\ s.rides = NoRide /\ s.intentional = m[h].intentional
        /\ s.holds = m[h].holds /\ s.channels = {} /\ s.idle = FALSE
        /\ s.state # "connected"
        /\ s.state \in {"connecting", "reconnecting"} => s.timer
    <3> HIDE DEF s
    <3>1. CASE m[h].holds = {}
      <4> DEFINE e == [d EXCEPT !.state = "disconnected"]
      <4>1. /\ e \in Managed /\ e.client = NoClient /\ e.gen = m[h].gen /\ e.promise = m[h].promise
            /\ e.rides = NoRide /\ e.intentional = m[h].intentional
            /\ e.holds = m[h].holds /\ e.channels = {} /\ e.idle = FALSE /\ e.state = "disconnected"
        BY <1>3 DEF Managed
      <4>2. s = e
        BY <2>2, <3>1
      <4> HIDE DEF e
      <4> QED BY <4>1, <4>2
    <3>2. CASE m[h].holds # {}
      <4>1. s = Schedules(d, h)
        BY <2>2, <3>2
      <4> QED BY <1>3, <4>1, CatchesFields
    <3> QED BY <3>1, <3>2
  <2> HIDE DEF s
  <2>4. Counted(s)
    BY <2>3 DEF Counted, IsIdle
  <2>5. s.promise \in {NoPromise, m[h].promise} \ {g}
    BY <1>0, <1>5, <2>3 DEF HostGood, Shown, NoPromise, Pending
  <2>6. tr[h][g] \notin Pending \ {"handshake"} /\ tr[h][g] # "none" /\ "closed" \in Up
    BY <1>0 DEF Pending, Up
  <2> QED BY <1>0, <1>5, <2>1, <2>3, <2>4, <2>5, <2>6, CurrentGood
<1> QED BY <1>1, <1>4, <1>5

LEMMA InitGood == Init => IInv
<1> SUFFICES ASSUME Init PROVE IInv
  OBVIOUS
<1>1. Unmanaged \in Managed
  BY BoundsAssumption DEF Unmanaged, Managed, NoClient, NoPromise, NoRide
<1>2. m = [h \in Hosts |-> Unmanaged] /\ tr = [h \in Hosts |-> [g \in Gens(h) |-> "none"]]
  BY DEF Init
<1>3. m \in AllRecords /\ DOMAIN tr = Hosts /\ tr = [h \in Hosts |-> tr[h]]
  BY <1>1, <1>2 DEF AllRecords
<1>4. ASSUME NEW h \in Hosts
      PROVE  /\ HostTyped(h, m[h], tr[h]) /\ HostGood(m[h], tr[h])
             /\ m[h].rides = NoRide /\ m[h].client = NoClient /\ m[h].holds = {}
             /\ \A g \in Gens(h) : tr[h][g] = "none"
  <2>1. /\ m[h] = Unmanaged /\ tr[h] \in Rows(h) /\ DOMAIN tr[h] = Gens(h) /\ \A g \in Gens(h) : tr[h][g] = "none"
    BY <1>2 DEF Rows, Phases
  <2>2. HostTyped(h, m[h], tr[h])
    BY <1>1, <2>1, BoundsAssumption DEF HostTyped, Unmanaged, NoClient
  <2>3. HostGood(m[h], tr[h])
    BY <2>1 DEF HostGood, Counted, IsIdle, Shown, Off, Numbered, Unmanaged, NoPromise
  <2> QED BY <2>1, <2>2, <2>3 DEF Unmanaged
<1>5. Alone(m, tr) /\ Riding(m, tr)
  BY <1>4, HopAssumption DEF Alone, Riding, Rode
<1> QED BY <1>3, <1>5 DEF IInv, GoodHosts

LEMMA StepGood == IInv /\ [Next]_vars => IInv'
<1> SUFFICES ASSUME IInv, [Next]_vars PROVE IInv'
  OBVIOUS
<1>1. CASE UNCHANGED vars
  BY <1>1 DEF vars, IInv
<1>2. CASE Next
  <2>1. ASSUME NEW h \in Hosts, NEW g \in Gens(h), Attempt(h, g) PROVE IInv'
    BY <2>1, EarlyGood, ConfiguredGood, JumpStreamGood, ReadyGood, HandshakeErrorGood, CloseGood DEF Attempt
  <2> QED BY <1>2, <2>1, UserGood, TimerGood, ChannelGood DEF Next
<1> QED BY <1>1, <1>2

-----------------------------------------------------------------------------
(* The theorems *)

LEMMA InvariantHolds == Spec => []IInv
  BY InitGood, StepGood, PTL DEF Spec

\* For any hosts, jumps and generations every record stays a record and every
\* attempt in a phase it can be in.
THEOREM TypeCorrect == Spec => []TypeOK
<1>1. IInv => TypeOK
  BY DEF IInv, GoodHosts, Alone, HostTyped, AllRecords, Rows, TypeOK
<1> QED BY <1>1, InvariantHolds, PTL

\* Whatever the order in which channels, holds and riders come and go, and
\* whichever transport is lost meanwhile: the idle timer runs exactly while
\* nobody uses a connection, and a jump host is held exactly for those that
\* ride on it (armIdleTimer, hold, release, releaseJump).
THEOREM UseStaysCounted == Spec => []UseIsCounted
<1>1. IInv => UseIsCounted
  <2> SUFFICES ASSUME IInv PROVE UseIsCounted
    OBVIOUS
  <2>1. IdleIsArmed /\ BusyIsNotIdle
    BY SaneAt DEF IdleIsArmed, BusyIsNotIdle, HostGood, Counted
  <2>2. ASSUME NEW h \in DOMAIN Jump
        PROVE  /\ m[h].rides # NoRide /\ m[Jump[h]].client = m[h].rides => h \in m[Jump[h]].holds
               /\ m[h].intentional => h \notin m[Jump[h]].holds
    <3>1. Rode(h, m[h], m[Jump[h]], tr[Jump[h]])
      BY DEF IInv, GoodHosts, Riding
    <3>2. HostGood(m[h], tr[h])
      BY HopAssumption, SaneAt
    <3> QED BY <3>1, <3>2 DEF Rode, HostGood, Off
  <2> QED BY <2>1, <2>2 DEF UseIsCounted, RideIsHeld, RideIsReleased
<1> QED BY <1>1, InvariantHolds, PTL

\* Through superseded attempts, failures and reconnections: a host is shown as
\* connected only on the transport that is up, as connecting only while
\* somebody is at work on it, and nobody is given a promise that nothing will
\* settle (openTransport, handleTransportClose).
THEOREM ShownStaysTrue == Spec => []ShownIsTrue
<1>1. IInv => ShownIsTrue
  <2> SUFFICES ASSUME IInv, NEW h \in Hosts
               PROVE  /\ m[h].state = "connected" =>
                           m[h].client = m[h].gen /\ m[h].gen \in Gens(h) /\ tr[h][m[h].gen] = "ready"
                      /\ m[h].state \in {"connecting", "reconnecting"} =>
                           m[h].timer \/ m[h].strays > 0 \/ tr[h][m[h].gen] \in Pending \union {"unconfigured"}
                      /\ m[h].promise # NoPromise => tr[h][m[h].promise] \in Pending
    BY DEF ShownIsTrue, ConnectedIsLive, ProgressIsDriven, PromiseIsPending
  <2>1. Shown(m[h], tr[h]) /\ DOMAIN tr[h] = Gens(h)
    BY SaneAt DEF HostGood, Rows
  <2> QED BY <2>1 DEF Shown
<1> QED BY <1>1, InvariantHolds, PTL

\* Only a step that connects on behalf of somebody starts an attempt, and it
\* takes back a disconnect.
LEMMA OnlyWanted ==
  ASSUME IInv, Next, NEW k \in Hosts, NEW g \in Gens(k), m[k].intentional, tr[k][g] = "none", tr'[k][g] # "none"
  PROVE  ~m'[k].intentional
<1>0. DOMAIN tr = Hosts /\ m \in AllRecords /\ m[k] \in Managed /\ tr[k] \in Rows(k)
  BY SaneAt
<1>1. ASSUME NEW h \in Hosts, NEW n, NEW x, tr[h][n] # "none", tr' = [tr EXCEPT ![h][n] = x] PROVE FALSE
  BY <1>0, <1>1 DEF Rows
<1>2. ASSUME NEW h \in Hosts, tr' = EndClient(h) PROVE FALSE
  <2>1. PICK u \in Rows(h) : /\ EndClient(h) = Put(tr, h, u)
                             /\ \A i \in Gens(h) : u[i] = tr[h][i] \/ (tr[h][i] = "ready" /\ u[i] = "ended")
    BY EndClientPuts
  <2> QED BY <1>0, <1>2, <2>1 DEF Put
<1>3. tr' # tr
  OBVIOUS
<1>4. ASSUME NEW h \in Hosts, tr' = NewAttempt(h), m' = Dialled(m, h) PROVE ~m'[k].intentional
  <2>1. k = h
    BY <1>0, <1>4 DEF NewAttempt
  <2>2. m'[k] = Dials(m[k])
    BY <1>0, <1>4, <2>1, HelpersPut DEF Put, AllRecords
  <2> QED BY <1>0, <2>2 DEF Dials, Opens, Managed
<1>5. ASSUME NEW h \in Hosts, NEW n \in Gens(h), Configured(h, n) PROVE ~m'[k].intentional
  <2>0. tr[h][n] = "config"
    BY <1>5 DEF Configured
  <2>1. CASE HasJump(h) /\ tr' = [NewAttempt(Jump[h]) EXCEPT ![h][n] = "jump"] /\ m' = Dialled(m, Jump[h])
    <3>1. Jump[h] \in Hosts /\ Jump[h] # h
      BY <2>1, HopAssumption DEF HasJump
    <3>2. k = Jump[h]
      BY <1>0, <2>0, <2>1, <3>1 DEF NewAttempt, Rows
    <3>3. m'[k] = Dials(m[k])
      BY <1>0, <2>1, <3>2, HelpersPut DEF Put, AllRecords
    <3> QED BY <1>0, <3>3 DEF Dials, Opens, Managed
  <2>2. CASE \E x : tr' = [tr EXCEPT ![h][n] = x]
    BY <1>1, <2>0, <2>2
  <2> QED BY <1>5, <2>1, <2>2 DEF Configured
<1>6. ASSUME NEW h \in Hosts, User(h) PROVE ~m'[k].intentional
  BY <1>2, <1>3, <1>4, <1>6 DEF User, Connect, Disconnect, Hold, Release, OpenChannel
<1>7. ASSUME NEW h \in Hosts, Timer(h) PROVE ~m'[k].intentional
  <2>1. CASE IdleTimer(h)
    BY <1>2, <1>3, <2>1 DEF IdleTimer
  <2>2. CASE ReconnectTimer(h)
    <3>1. tr' = NewAttempt(h) /\ ~m[h].intentional
      BY <1>3, <2>2 DEF ReconnectTimer, Redials
    <3>2. k = h
      BY <1>0, <3>1 DEF NewAttempt
    <3> QED BY <3>1, <3>2
  <2> QED BY <1>7, <2>1, <2>2 DEF Timer
<1>8. ASSUME NEW h \in Hosts, NEW n \in Gens(h), Attempt(h, n) PROVE ~m'[k].intentional
  <2>1. CASE Configured(h, n)
    BY <1>5, <2>1
  <2>2. CASE Misconfigured(h, n) \/ JumpFails(h, n) \/ JumpStream(h, n)
    BY <1>1, <2>2 DEF Misconfigured, JumpFails, JumpStream
  <2>3. CASE Ready(h, n) \/ HandshakeError(h, n) \/ Close(h, n)
    <3>1. tr[h][n] # "none" /\ \E x : tr' = [tr EXCEPT ![h][n] = x]
      BY <2>3 DEF Ready, HandshakeError, Close
    <3> QED BY <1>1, <3>1
  <2> QED BY <1>8, <2>1, <2>2, <2>3 DEF Attempt
<1>9. ASSUME NEW h \in Hosts, NEW n \in Gens(h), Channel(h, n) PROVE ~m'[k].intentional
  BY <1>3, <1>9 DEF Channel, ChannelOpened, ChannelClosed
<1> QED BY <1>6, <1>7, <1>8, <1>9 DEF Next

\* After a disconnect no prompt, jump, handshake or timer that was under way
\* connects the host, shows it as anything else or starts another attempt:
\* only a connect does (disconnect, and the generation it takes).
THEOREM DisconnectStays == Spec => DisconnectIsFinal
<1>1. IInv /\ IInv' /\ [Next]_vars =>
        [\A h \in Hosts : m'[h].intentional =>
           /\ m'[h].state = "disconnected"
           /\ m'[h].client = NoClient /\ m'[h].promise = NoPromise
           /\ m[h].intentional => \A g \in Gens(h) : tr[h][g] = "none" => tr'[h][g] = "none"]_vars
  <2> SUFFICES ASSUME IInv, IInv', Next, NEW h \in Hosts, m'[h].intentional
               PROVE  /\ m'[h].state = "disconnected"
                      /\ m'[h].client = NoClient /\ m'[h].promise = NoPromise
                      /\ m[h].intentional => \A g \in Gens(h) : tr[h][g] = "none" => tr'[h][g] = "none"
    BY DEF vars
  <2>1. Off(m'[h], tr'[h])
    BY DEF IInv, GoodHosts, Alone, HostGood
  <2>2. m[h].intentional => \A g \in Gens(h) : tr[h][g] = "none" => tr'[h][g] = "none"
    BY OnlyWanted
  <2> QED BY <2>1, <2>2 DEF Off
<1> QED BY <1>1, InvariantHolds, StepGood, PTL DEF Spec, DisconnectIsFinal
=============================================================================
