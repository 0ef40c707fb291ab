------------------------- MODULE TerminalSyncProofs -------------------------
(***************************************************************************)
(* Safety of TerminalSync, for any number of emissions of the PTY and of   *)
(* lost connections, with or without refreshes that time out and a daemon   *)
(* that is given up.                                                       *)
(*                                                                         *)
(* The invariant follows an emission along the pipeline.  Fed: what the     *)
(* client has yet to see of the published output is on the connection, in   *)
(* order, unless a replay is owed.  ListGood and SnapshotGood: an answer on  *)
(* its way is as new as the client, and what it does not cover is behind it. *)
(* Kept: what the client has passed on, in its lane, on the IPC channel and  *)
(* among the renderer's early output, is in order, and nothing after the    *)
(* last replay is missing from what is shown and what is on its way.        *)
(*                                                                         *)
(* HandleAll and Adopted are folds; that they keep what each of their steps *)
(* keeps follows from the least step that would not (StepByStep).           *)
(***************************************************************************)
EXTENDS TerminalSync, SequenceTheorems, WellFoundedInduction, TLAPS

\* Emissions, messages and socket chunks travel one by one, and the emulator
\* parses what it is given at once.  Timeouts and giving up are free.
NoBunching == {"coalesce", "chunk", "slice"} \cap Races = {}

\* The emissions that messages carry.
SeqsOf(M) == {m.seq : m \in {n \in M : n.type = "data"}}
Seqs(s) == SeqsOf(ToSet(s))
HasExit(s) == \E m \in ToSet(s) : m.type = "exit"

\* What may stand behind a message.
Follows(m, n) ==
    /\ m.type = "data" /\ n.type = "data" => m.seq < n.seq
    /\ m.type \in {"data", "snapshot"} /\ n.type = "snapshot" => m.seq <= n.seq
    /\ m.type = "data" /\ n.type = "list" => m.seq <= n.seq \/ n.seq = -1
    /\ m.type = "exit" /\ n.type = "list" => n.seq = -1
    /\ m.type = "list" => n.type # "list"
    /\ m.type = "error" => n.type # "exit"
InTurn(s) == \A i, j \in DOMAIN s : i < j => Follows(s[i], s[j])

Below(S, T) == \A k \in S, l \in T : k < l
Within(S, n) == \A k \in S : k <= n
RisesTo(s, n) == InOrder(s) /\ Within(ToSet(s), n)

-----------------------------------------------------------------------------
\* The invariant.  Of a message:

Honest(m) ==
    /\ m.type = "data" => m.seq \in 1..published /\ m.out = <<m.seq>>
    /\ m.type = "snapshot" => m.seq \in 0..produced /\ m.out = UpTo(m.seq)
    /\ m.type = "exit" => m = Exited /\ ended

\* Of the main process, and what it has sent to the renderer:
OnWay(c) == Seqs(c.ipc) \cup Seqs(c.lane)

InBounds(c) ==
    /\ c.cur <= produced /\ c.replayed <= c.cur
    /\ reply.seq <= c.cur /\ view.covered <= c.cur
    /\ Within(OnWay(c), c.cur) /\ Within(Seqs(view.early), c.cur)
LaneGood(c) == InTurn(c.lane) /\ \A m \in ToSet(c.lane) : m.type = "data" /\ Honest(m)
IpcGood(c) ==
    /\ InTurn(c.ipc)
    /\ \A m \in ToSet(c.ipc) :
        /\ Honest(m)
        /\ m.type = "data" \/ (m.type = "snapshot" /\ m.seq <= c.replayed)
OneBehindTheOther(c) ==
    Below(Seqs(c.ipc), Seqs(c.lane)) /\ Below(Seqs(view.early), OnWay(c))
Live(c) ==
    \A e \in ToSet(c.screen) : e > c.replayed =>
        /\ view.adopted => e \in ToSet(view.shows) \/ (e > view.covered /\ e \in OnWay(c))
        /\ reply # NoReply =>
             e \in ToSet(reply.out) \/ (e > reply.seq /\ e \in Seqs(view.early) \cup OnWay(c))

Kept(c) ==
    /\ c \in Clients
    /\ InBounds(c)
    /\ RisesTo(c.screen, c.cur)
    /\ LaneGood(c) /\ IpcGood(c) /\ OneBehindTheOther(c)
    /\ Live(c)
ExitsGood(c) ==
    /\ c.alive => c.exits = 0
    /\ c.exits <= 1
    /\ c.exits > 0 => ended \/ c.phase = "off"
    /\ c.phase = "boot" => ~c.alive /\ c.exits = 0 /\ c.replayPending
Whole(c) == c.alive /\ ~c.replayPending => c.screen = UpTo(c.cur)

\* Of the renderer:
ViewGood ==
    /\ view.adopted => view.early = <<>>
    /\ InTurn(view.early) /\ \A m \in ToSet(view.early) : m.type = "data" /\ Honest(m)
    /\ RisesTo(view.shows, view.covered)
    /\ reply # NoReply => ~view.adopted /\ reply.seq >= 0 /\ RisesTo(reply.out, reply.seq)

\* Of the connection:
LinkGood ==
    /\ client.phase \in {"boot", "opening", "syncing", "ready"} => up
    /\ ~up => wire = <<>> /\ asked = "none" /\ barrier = NoBarrier
    /\ asked = "list" => client.phase = "syncing" /\ \A m \in ToSet(wire) : m.type # "list"
    /\ asked = "snapshot" => client.phase = "ready"
    /\ barrier # NoBarrier => client.phase = "ready"

ListGood(m) ==
    /\ client.phase = "syncing"
    /\ m.seq = -1 => ended
    /\ m.seq # -1 =>
        /\ m.seq \in client.cur..produced
        /\ (m.seq + 1)..published \subseteq Seqs(wire)
        /\ Within(Seqs(client.queued), m.seq)
        /\ ended => HasExit(wire)
SnapshotGood(m) ==
    /\ client.phase = "ready"
    /\ client.cur <= m.seq
    /\ (m.seq + 1)..published \subseteq Seqs(wire)
WireGood ==
    /\ InTurn(wire)
    /\ \A m \in ToSet(wire) :
        /\ Honest(m)
        /\ m.type = "list" => ListGood(m)
        /\ m.type = "snapshot" => SnapshotGood(m)
        /\ m.type = "error" => client.phase = "ready" /\ ended

QueueGood == \A m \in ToSet(client.queued) : Honest(m) /\ IsEvent(m)

Fed ==
    client.phase = "ready" /\ client.alive /\ ~client.replayPending =>
        (client.cur + 1)..published \subseteq Seqs(wire)
EndIsTold ==
    ended /\ (client.phase = "boot" \/ (client.phase = "ready" /\ client.alive)) => HasExit(wire)

IInv ==
    /\ TypeOK
    /\ Kept(client) /\ ExitsGood(client) /\ Whole(client)
    /\ ViewGood
    /\ LinkGood /\ WireGood /\ QueueGood
    /\ Fed /\ EndIsTold /\ ReplayIsFetched

-----------------------------------------------------------------------------
\* Sequences

\* What is behind the head of a sequence.
LEMMA TailIsPart ==
    ASSUME NEW S, NEW s \in Seq(S), s # <<>>
    PROVE  /\ Head(s) \in S /\ Head(s) = s[1]
           /\ Tail(s) \in Seq(S) /\ Len(Tail(s)) = Len(s) - 1 /\ Len(s) \in Nat \ {0}
           /\ \A i \in DOMAIN Tail(s) : i + 1 \in DOMAIN s /\ Tail(s)[i] = s[i + 1]
           /\ ToSet(s) = {Head(s)} \cup ToSet(Tail(s))
  <1>1. Len(s) \in Nat \ {0} /\ DOMAIN s = 1..Len(s) /\ Head(s) = s[1] /\ Head(s) \in S
    OBVIOUS
  <1>2. Tail(s) \in Seq(S) /\ Len(Tail(s)) = Len(s) - 1 /\ DOMAIN Tail(s) = 1..(Len(s) - 1)
    BY <1>1
  <1>3. \A i \in 1..(Len(s) - 1) : Tail(s)[i] = s[i + 1]
    BY <1>1
  <1>4. ToSet(s) = {Head(s)} \cup ToSet(Tail(s))
    <2>1. ASSUME NEW i \in DOMAIN s PROVE s[i] \in {Head(s)} \cup ToSet(Tail(s))
      <3>1. CASE i = 1
        BY <3>1, <1>1
      <3>2. CASE i # 1
        <4>1. i - 1 \in 1..(Len(s) - 1) /\ Tail(s)[i - 1] = s[i]
          BY <3>2, <1>1, <1>3
        <4> QED BY <4>1, <1>2 DEF ToSet
      <3> QED BY <3>1, <3>2
    <2>2. ASSUME NEW i \in DOMAIN Tail(s) PROVE Tail(s)[i] \in ToSet(s)
      BY <1>1, <1>2, <1>3 DEF ToSet
    <2>3. Head(s) \in ToSet(s)
      BY <1>1 DEF ToSet
    <2> QED BY <2>1, <2>2, <2>3, Zenon DEF ToSet
  <1> QED BY <1>1, <1>2, <1>3, <1>4

LEMMA AppendAdds ==
    ASSUME NEW S, NEW s \in Seq(S), NEW e \in S
    PROVE  /\ Append(s, e) \in Seq(S) /\ Len(Append(s, e)) = Len(s) + 1 /\ Len(s) \in Nat
           /\ \A i \in DOMAIN s : i \in DOMAIN Append(s, e) /\ Append(s, e)[i] = s[i]
           /\ \A i \in DOMAIN Append(s, e) : i \in DOMAIN s \/ i = Len(s) + 1
           /\ Append(s, e)[Len(s) + 1] = e
           /\ ToSet(Append(s, e)) = ToSet(s) \cup {e}
  <1>1. /\ Append(s, e) \in Seq(S) /\ Len(s) \in Nat /\ DOMAIN s = 1..Len(s)
        /\ Len(Append(s, e)) = Len(s) + 1 /\ DOMAIN Append(s, e) = 1..(Len(s) + 1)
        /\ \A i \in 1..Len(s) : Append(s, e)[i] = s[i]
        /\ Append(s, e)[Len(s) + 1] = e
    OBVIOUS
  <1>2. \A i \in 1..(Len(s) + 1) : i \in 1..Len(s) \/ i = Len(s) + 1
    BY <1>1
  <1>3. \A i \in 1..Len(s) : i \in 1..(Len(s) + 1)
    BY <1>1
  <1>4. Len(s) + 1 \in 1..(Len(s) + 1)
    BY <1>1
  <1>5. ToSet(Append(s, e)) = ToSet(s) \cup {e}
    BY <1>1, <1>2, <1>3, <1>4, Zenon DEF ToSet
  <1> QED BY <1>1, <1>2, <1>3, <1>5

LEMMA ConcatJoins ==
    ASSUME NEW S, NEW s \in Seq(S), NEW t \in Seq(S)
    PROVE  /\ s \o t \in Seq(S) /\ Len(s \o t) = Len(s) + Len(t) /\ Len(s) \in Nat /\ Len(t) \in Nat
           /\ \A i \in DOMAIN (s \o t) :
                \/ i \in DOMAIN s /\ (s \o t)[i] = s[i]
                \/ i - Len(s) \in DOMAIN t /\ (s \o t)[i] = t[i - Len(s)] /\ i > Len(s)
           /\ ToSet(s \o t) = ToSet(s) \cup ToSet(t)
  <1>1. /\ s \o t \in Seq(S) /\ Len(s \o t) = Len(s) + Len(t) /\ Len(s) \in Nat /\ Len(t) \in Nat
        /\ DOMAIN s = 1..Len(s) /\ DOMAIN t = 1..Len(t) /\ DOMAIN (s \o t) = 1..(Len(s) + Len(t))
    OBVIOUS
  <1>2. \A i \in 1..Len(s) : i \in 1..(Len(s) + Len(t)) /\ (s \o t)[i] = s[i]
    BY <1>1
  <1>3. \A i \in 1..Len(t) : i + Len(s) \in 1..(Len(s) + Len(t)) /\ (s \o t)[i + Len(s)] = t[i]
    BY <1>1
  <1>4. ASSUME NEW i \in 1..(Len(s) + Len(t))
        PROVE  \/ i \in 1..Len(s) /\ (s \o t)[i] = s[i]
               \/ i - Len(s) \in 1..Len(t) /\ (s \o t)[i] = t[i - Len(s)] /\ i > Len(s)
    BY <1>1
  <1>5. ToSet(s \o t) = ToSet(s) \cup ToSet(t)
    <2>1. \A i \in DOMAIN (s \o t) : (s \o t)[i] \in ToSet(s) \cup ToSet(t)
      BY <1>1, <1>4 DEF ToSet
    <2>2. \A i \in DOMAIN s : s[i] \in ToSet(s \o t)
      BY <1>1, <1>2 DEF ToSet
    <2>3. \A i \in DOMAIN t : t[i] \in ToSet(s \o t)
      <3> SUFFICES ASSUME NEW i \in DOMAIN t PROVE t[i] \in ToSet(s \o t)
        OBVIOUS
      <3>1. i + Len(s) \in DOMAIN (s \o t) /\ (s \o t)[i + Len(s)] = t[i]
        BY <1>1, <1>3
      <3> QED BY <3>1, Zenon DEF ToSet
    <2> QED BY <2>1, <2>2, <2>3, Zenon DEF ToSet
  <1> QED BY <1>1, <1>4, <1>5

\* The head of a sequence, taken off it as the code takes a part of it.
LEMMA HeadIsPart ==
    ASSUME NEW S, NEW s \in Seq(S), s # <<>>
    PROVE  SubSeq(s, 1, 1) = <<Head(s)>> /\ SubSeq(s, 2, Len(s)) = Tail(s)
  <1>1. Len(s) \in Nat \ {0} /\ Head(s) = s[1]
    OBVIOUS
  <1>2. SubSeq(s, 1, 1) = <<Head(s)>>
    <2>1. /\ SubSeq(s, 1, 1) \in Seq(S) /\ Len(SubSeq(s, 1, 1)) = 1
          /\ SubSeq(s, 1, 1)[1] = s[1]
      BY <1>1
    <2>2. <<Head(s)>> \in Seq(S) /\ Len(<<Head(s)>>) = 1 /\ <<Head(s)>>[1] = s[1]
      BY <1>1
    <2>3. \A i \in 1..Len(SubSeq(s, 1, 1)) : SubSeq(s, 1, 1)[i] = <<Head(s)>>[i]
      BY <2>1, <2>2
    <2> QED BY <2>1, <2>2, <2>3, SeqEqual
  <1>3. SubSeq(s, 2, Len(s)) = Tail(s)
    BY TailIsSubSeq, Zenon
  <1> QED BY <1>2, <1>3

LEMMA RemoveTakes ==
    ASSUME NEW S, NEW s \in Seq(S), NEW i \in DOMAIN s
    PROVE  /\ RemoveAt(s, i) \in Seq(S) /\ Len(RemoveAt(s, i)) = Len(s) - 1
           /\ \A k \in DOMAIN RemoveAt(s, i) :
                LET l == IF k < i THEN k ELSE k + 1 IN l \in DOMAIN s /\ RemoveAt(s, i)[k] = s[l]
           /\ \A l \in DOMAIN s : l = i \/ s[l] \in ToSet(RemoveAt(s, i))
           /\ ToSet(RemoveAt(s, i)) \subseteq ToSet(s)
  <1> DEFINE a == SubSeq(s, 1, i - 1)
             b == SubSeq(s, i + 1, Len(s))
  <1>1. Len(s) \in Nat /\ i \in 1..Len(s) /\ DOMAIN s = 1..Len(s)
    OBVIOUS
  <1>2. a \in Seq(S) /\ Len(a) = i - 1 /\ \A k \in 1..(i - 1) : a[k] = s[k]
    BY <1>1
  <1>3. b \in Seq(S) /\ Len(b) = Len(s) - i /\ \A k \in 1..(Len(s) - i) : b[k] = s[k + i]
    BY <1>1
  <1>4. RemoveAt(s, i) = a \o b
    BY DEF RemoveAt
  <1> HIDE DEF a, b
  <1>5. a \o b \in Seq(S) /\ Len(a \o b) = Len(s) - 1 /\ DOMAIN (a \o b) = 1..(Len(s) - 1)
    <2>1. a \o b \in Seq(S) /\ Len(a \o b) = Len(a) + Len(b)
      BY <1>2, <1>3, ConcatProperties, Zenon
    <2>2. Len(a) + Len(b) = Len(s) - 1
      BY <1>1, <1>2, <1>3
    <2>3. DOMAIN (a \o b) = 1..Len(a \o b)
      BY <2>1, LenProperties, Zenon
    <2> QED BY <2>1, <2>2, <2>3
  <1>6. \A k \in 1..(Len(s) - 1) : (a \o b)[k] = IF k < i THEN s[k] ELSE s[k + 1]
    <2> SUFFICES ASSUME NEW k \in 1..(Len(s) - 1)
                 PROVE  (a \o b)[k] = IF k < i THEN s[k] ELSE s[k + 1]
      OBVIOUS
    <2>1. CASE k < i
      BY <2>1, <1>1, <1>2, <1>3
    <2>2. CASE ~ (k < i)
      <3>1. k > Len(a) /\ k <= Len(a) + Len(b)
        BY <2>2, <1>1, <1>2, <1>3
      <3>2. (a \o b)[k] = b[k - Len(a)]
        BY <3>1, <1>1, <1>2, <1>3, SMTT(60)
      <3>3. k - Len(a) \in 1..(Len(s) - i) /\ k - Len(a) + i = k + 1
        BY <2>2, <3>1, <1>1, <1>2, <1>3, SMTT(60)
      <3> QED BY <3>2, <3>3, <2>2, <1>3
    <2> QED BY <2>1, <2>2
  <1>7. ASSUME NEW k \in 1..(Len(s) - 1)
        PROVE  LET l == IF k < i THEN k ELSE k + 1 IN l \in DOMAIN s /\ (a \o b)[k] = s[l]
    <2>1. (IF k < i THEN k ELSE k + 1) \in 1..Len(s)
      BY <1>1
    <2> QED BY <2>1, <1>1, <1>6
  <1>8. ASSUME NEW l \in DOMAIN s, l # i PROVE s[l] \in ToSet(a \o b)
    <2>1. CASE l < i
      <3>1. l \in 1..(Len(s) - 1)
        BY <2>1, <1>1
      <3>2. l \in DOMAIN (a \o b) /\ (a \o b)[l] = s[l]
        BY <2>1, <3>1, <1>5, <1>6
      <3> QED BY <3>2, Zenon DEF ToSet
    <2>2. CASE ~ (l < i)
      <3>1. l - 1 \in 1..(Len(s) - 1) /\ ~ (l - 1 < i) /\ l - 1 + 1 = l
        BY <2>2, <1>8, <1>1
      <3>2. l - 1 \in DOMAIN (a \o b) /\ (a \o b)[l - 1] = s[l]
        BY <3>1, <1>5, <1>6
      <3> QED BY <3>2, Zenon DEF ToSet
    <2> QED BY <2>1, <2>2
  <1>9. ToSet(a \o b) \subseteq ToSet(s)
    BY <1>5, <1>7 DEF ToSet
  <1> QED BY <1>4, <1>5, <1>7, <1>8, <1>9

-----------------------------------------------------------------------------
\* Messages in turn

LEMMA NothingCarried == ToSet(<<>>) = {} /\ Seqs(<<>>) = {} /\ InTurn(<<>>)
  BY DEF ToSet, Seqs, SeqsOf, InTurn

LEMMA SeqsTyped ==
    ASSUME NEW s \in Seq(Messages)
    PROVE  /\ ToSet(s) \subseteq Messages /\ Seqs(s) \subseteq -1..MaxSeq /\ Seqs(s) \subseteq Int
           /\ \A m \in ToSet(s) : m.seq \in -1..MaxSeq /\ (m.type = "data" => m.seq \in Seqs(s))
  <1>1. ToSet(s) \subseteq Messages
    BY DEF ToSet
  <1>2. \A m \in Messages : m.seq \in -1..MaxSeq
    BY DEF Messages
  <1>3. Seqs(s) \subseteq -1..MaxSeq
    BY <1>1, <1>2 DEF Seqs, SeqsOf
  <1>4. Seqs(s) \subseteq Int
    BY <1>3
  <1> QED BY <1>1, <1>2, <1>3, <1>4 DEF Seqs, SeqsOf

\* What is carried by a set of messages and another one, and by two sets.
LEMMA CarriedByMore ==
    ASSUME NEW M, NEW m
    PROVE  SeqsOf(M \cup {m}) = SeqsOf(M) \cup (IF m.type = "data" THEN {m.seq} ELSE {})
  BY DEF SeqsOf

LEMMA CarriedByBoth ==
    ASSUME NEW M, NEW N
    PROVE  SeqsOf(M \cup N) = SeqsOf(M) \cup SeqsOf(N)
  BY DEF SeqsOf

LEMMA InTurnHead ==
    ASSUME NEW s \in Seq(Messages), s # <<>>, InTurn(s)
    PROVE  /\ InTurn(Tail(s))
           /\ \A m \in ToSet(Tail(s)) : Follows(Head(s), m)
           /\ Head(s).type = "data" => \A k \in Seqs(Tail(s)) : Head(s).seq < k
           /\ Seqs(s) = Seqs(Tail(s)) \cup (IF Head(s).type = "data" THEN {Head(s).seq} ELSE {})
  <1>1. /\ Tail(s) \in Seq(Messages) /\ Head(s) = s[1] /\ Len(Tail(s)) = Len(s) - 1 /\ Len(s) \in Nat \ {0}
        /\ \A i \in DOMAIN Tail(s) : i + 1 \in DOMAIN s /\ Tail(s)[i] = s[i + 1]
        /\ ToSet(s) = {Head(s)} \cup ToSet(Tail(s))
    BY TailIsPart
  <1>2. DOMAIN Tail(s) = 1..(Len(s) - 1) /\ DOMAIN s = 1..Len(s)
    BY <1>1
  <1>3. InTurn(Tail(s))
    <2> SUFFICES ASSUME NEW i \in DOMAIN Tail(s), NEW j \in DOMAIN Tail(s), i < j
                 PROVE  Follows(Tail(s)[i], Tail(s)[j])
      BY DEF InTurn
    <2>1. i + 1 \in DOMAIN s /\ j + 1 \in DOMAIN s /\ i + 1 < j + 1
      BY <1>1, <1>2
    <2>2. Follows(s[i + 1], s[j + 1])
      BY <2>1, Zenon DEF InTurn
    <2> QED BY <2>2, <1>1
  <1>4. ASSUME NEW i \in DOMAIN Tail(s) PROVE Follows(Head(s), Tail(s)[i])
    <2>1. 1 \in DOMAIN s /\ i + 1 \in DOMAIN s /\ 1 < i + 1
      BY <1>1, <1>2
    <2>2. Follows(s[1], s[i + 1])
      BY <2>1, Zenon DEF InTurn
    <2> QED BY <2>2, <1>1
  <1>5. \A m \in ToSet(Tail(s)) : Follows(Head(s), m)
    BY <1>4, Zenon DEF ToSet
  <1>6. Head(s).type = "data" => \A k \in Seqs(Tail(s)) : Head(s).seq < k
    BY <1>5 DEF Seqs, SeqsOf, Follows
  <1>7. Seqs(s) = Seqs(Tail(s)) \cup (IF Head(s).type = "data" THEN {Head(s).seq} ELSE {})
    <2>1. ToSet(s) = ToSet(Tail(s)) \cup {Head(s)}
      BY <1>1
    <2> QED BY <2>1, CarriedByMore, Zenon DEF Seqs
  <1> QED BY <1>3, <1>5, <1>6, <1>7

LEMMA InTurnAppend ==
    ASSUME NEW s \in Seq(Messages), NEW e \in Messages
    PROVE  /\ Append(s, e) \in Seq(Messages)
           /\ ToSet(Append(s, e)) = ToSet(s) \cup {e}
           /\ Seqs(Append(s, e)) = Seqs(s) \cup (IF e.type = "data" THEN {e.seq} ELSE {})
           /\ InTurn(s) /\ (\A m \in ToSet(s) : Follows(m, e)) => InTurn(Append(s, e))
  <1>1. /\ Append(s, e) \in Seq(Messages) /\ Len(Append(s, e)) = Len(s) + 1 /\ Len(s) \in Nat
        /\ \A i \in DOMAIN s : Append(s, e)[i] = s[i]
        /\ \A i \in DOMAIN Append(s, e) : i \in DOMAIN s \/ i = Len(s) + 1
        /\ Append(s, e)[Len(s) + 1] = e
        /\ ToSet(Append(s, e)) = ToSet(s) \cup {e}
        /\ DOMAIN s = 1..Len(s)
    BY AppendAdds
  <1>2. Seqs(Append(s, e)) = Seqs(s) \cup (IF e.type = "data" THEN {e.seq} ELSE {})
    BY <1>1, CarriedByMore, Zenon DEF Seqs
  <1>3. ASSUME InTurn(s), \A m \in ToSet(s) : Follows(m, e),
               NEW i \in DOMAIN Append(s, e), NEW j \in DOMAIN Append(s, e), i < j
        PROVE  Follows(Append(s, e)[i], Append(s, e)[j])
    <2>1. i \in DOMAIN s
      BY <1>1, <1>3
    <2>2. CASE j \in DOMAIN s
      <3>1. Follows(s[i], s[j])
        BY <2>1, <2>2, <1>3, Zenon DEF InTurn
      <3> QED BY <3>1, <2>1, <2>2, <1>1
    <2>3. CASE j = Len(s) + 1
      <3>1. Follows(s[i], e)
        BY <2>1, <1>3, Zenon DEF ToSet
      <3> QED BY <3>1, <2>1, <2>3, <1>1
    <2> QED BY <2>2, <2>3, <1>1
  <1> QED BY <1>1, <1>2, <1>3, Zenon DEF InTurn

LEMMA InTurnConcat ==
    ASSUME NEW s \in Seq(Messages), NEW t \in Seq(Messages)
    PROVE  /\ s \o t \in Seq(Messages)
           /\ ToSet(s \o t) = ToSet(s) \cup ToSet(t)
           /\ Seqs(s \o t) = Seqs(s) \cup Seqs(t)
           /\ InTurn(s) /\ InTurn(t) /\ (\A m \in ToSet(s), n \in ToSet(t) : Follows(m, n)) => InTurn(s \o t)
  <1>1. /\ s \o t \in Seq(Messages) /\ Len(s) \in Nat /\ Len(t) \in Nat
        /\ \A i \in DOMAIN (s \o t) :
             \/ i \in DOMAIN s /\ (s \o t)[i] = s[i]
             \/ i - Len(s) \in DOMAIN t /\ (s \o t)[i] = t[i - Len(s)] /\ i > Len(s)
        /\ ToSet(s \o t) = ToSet(s) \cup ToSet(t)
    BY ConcatJoins
  <1>2. Seqs(s \o t) = Seqs(s) \cup Seqs(t)
    BY <1>1, CarriedByBoth, Zenon DEF Seqs
  <1>3. ASSUME InTurn(s), InTurn(t), \A m \in ToSet(s), n \in ToSet(t) : Follows(m, n),
               NEW i \in DOMAIN (s \o t), NEW j \in DOMAIN (s \o t), i < j
        PROVE  Follows((s \o t)[i], (s \o t)[j])
    <2>0. DOMAIN s = 1..Len(s) /\ DOMAIN t = 1..Len(t) /\ i \in Int /\ j \in Int
      BY <1>1
    <2>1. CASE i \in DOMAIN s /\ (s \o t)[i] = s[i]
      <3>1. CASE j \in DOMAIN s /\ (s \o t)[j] = s[j]
        BY <2>1, <3>1, <1>3, Zenon DEF InTurn
      <3>2. CASE j - Len(s) \in DOMAIN t /\ (s \o t)[j] = t[j - Len(s)]
        BY <2>1, <3>2, <1>3, Zenon DEF ToSet
      <3> QED BY <3>1, <3>2, <1>1
    <2>2. CASE i - Len(s) \in DOMAIN t /\ (s \o t)[i] = t[i - Len(s)] /\ i > Len(s)
      <3>1. j - Len(s) \in DOMAIN t /\ (s \o t)[j] = t[j - Len(s)] /\ i - Len(s) < j - Len(s)
        BY <2>2, <2>0, <1>1, <1>3
      <3>2. Follows(t[i - Len(s)], t[j - Len(s)])
        BY <2>2, <3>1, <1>3, Zenon DEF InTurn
      <3> QED BY <2>2, <3>1, <3>2
    <2> QED BY <2>1, <2>2, <1>1
  <1> QED BY <1>1, <1>2, <1>3, Zenon DEF InTurn

\* Taking a response away.
LEMMA InTurnRemove ==
    ASSUME NEW s \in Seq(Messages), NEW i \in DOMAIN s, InTurn(s), ~IsEvent(s[i])
    PROVE  /\ RemoveAt(s, i) \in Seq(Messages) /\ InTurn(RemoveAt(s, i))
           /\ ToSet(RemoveAt(s, i)) \subseteq ToSet(s)
           /\ Seqs(RemoveAt(s, i)) = Seqs(s)
           /\ HasExit(s) => HasExit(RemoveAt(s, i))
  <1> DEFINE r == RemoveAt(s, i)
  <1>1. /\ r \in Seq(Messages) /\ Len(r) = Len(s) - 1
        /\ \A k \in DOMAIN r :
             LET l == IF k < i THEN k ELSE k + 1 IN l \in DOMAIN s /\ r[k] = s[l]
        /\ \A l \in DOMAIN s : l = i \/ s[l] \in ToSet(r)
        /\ ToSet(r) \subseteq ToSet(s)
    BY RemoveTakes
  <1> HIDE DEF r
  <1>2. InTurn(r)
    <2> SUFFICES ASSUME NEW k \in DOMAIN r, NEW l \in DOMAIN r, k < l
                 PROVE  Follows(r[k], r[l])
      BY DEF InTurn
    <2> DEFINE f == IF k < i THEN k ELSE k + 1
               g == IF l < i THEN l ELSE l + 1
    <2>1. f \in DOMAIN s /\ r[k] = s[f] /\ g \in DOMAIN s /\ r[l] = s[g]
      BY <1>1, Zenon
    <2>2. k \in Int /\ l \in Int /\ i \in Int
      BY <1>1
    <2>3. f < g
      BY <2>2
    <2> HIDE DEF f, g
    <2>4. Follows(s[f], s[g])
      BY <2>1, <2>3, Zenon DEF InTurn
    <2> QED BY <2>1, <2>4
  <1>3. ASSUME NEW m \in ToSet(s), IsEvent(m) PROVE m \in ToSet(r)
    <2>1. PICK l \in DOMAIN s : m = s[l]
      BY Zenon DEF ToSet
    <2>2. l # i
      BY <2>1, <1>3
    <2> QED BY <2>1, <2>2, <1>1
  <1>4. Seqs(r) = Seqs(s)
    BY <1>1, <1>3 DEF Seqs, SeqsOf, IsEvent
  <1>5. HasExit(s) => HasExit(r)
    BY <1>1, <1>3 DEF HasExit, IsEvent
  <1> QED BY <1>1, <1>2, <1>4, <1>5 DEF r

-----------------------------------------------------------------------------
\* What is shown

LEMMA PrefixIsWhole ==
    ASSUME NEW n \in Nat
    PROVE  /\ ToSet(UpTo(n)) = 1..n /\ RisesTo(UpTo(n), n)
           /\ \A N \in Nat : n <= N => UpTo(n) \in Seq(1..N)
           /\ UpTo(n) \o <<n + 1>> = UpTo(n + 1)
  <1>1. DOMAIN UpTo(n) = 1..n /\ \A i \in 1..n : UpTo(n)[i] = i
    BY DEF UpTo
  <1>2. ToSet(UpTo(n)) = 1..n
    BY <1>1 DEF ToSet
  <1>3. RisesTo(UpTo(n), n)
    BY <1>1, <1>2 DEF RisesTo, InOrder, Within
  <1>4. ASSUME NEW N \in Nat, n <= N PROVE UpTo(n) \in Seq(1..N)
    BY <1>4 DEF UpTo
  <1>5. UpTo(n) \o <<n + 1>> = UpTo(n + 1)
    <2>1. UpTo(n) \in Seq(Nat) /\ Len(UpTo(n)) = n /\ UpTo(n + 1) \in Seq(Nat) /\ Len(UpTo(n + 1)) = n + 1
      BY DEF UpTo
    <2>2. <<n + 1>> \in Seq(Nat) /\ Len(<<n + 1>>) = 1 /\ <<n + 1>>[1] = n + 1
      OBVIOUS
    <2>3. /\ UpTo(n) \o <<n + 1>> \in Seq(Nat) /\ Len(UpTo(n) \o <<n + 1>>) = n + 1
          /\ \A i \in 1..(n + 1) : (UpTo(n) \o <<n + 1>>)[i] = IF i <= n THEN UpTo(n)[i] ELSE <<n + 1>>[i - n]
      BY <2>1, <2>2, ConcatProperties
    <2>4. \A i \in 1..(n + 1) : (UpTo(n) \o <<n + 1>>)[i] = i
      BY <2>2, <2>3, <1>1
    <2>5. \A i \in 1..(n + 1) : UpTo(n + 1)[i] = i
      BY DEF UpTo
    <2> QED BY <2>1, <2>3, <2>4, <2>5, SeqEqual
  <1> QED BY <1>2, <1>3, <1>4, <1>5

\* An emission that is later than all before it is shown behind them.
LEMMA RisesOn ==
    ASSUME NEW N \in Nat, NEW s \in Seq(1..N), NEW n \in Int, NEW k \in 1..N, RisesTo(s, n), n < k
    PROVE  /\ s \o <<k>> \in Seq(1..N) /\ RisesTo(s \o <<k>>, k)
           /\ ToSet(s \o <<k>>) = ToSet(s) \cup {k}
  <1>1. <<k>> \in Seq(1..N) /\ Len(<<k>>) = 1 /\ <<k>>[1] = k
    OBVIOUS
  <1>2. /\ s \o <<k>> \in Seq(1..N) /\ Len(s) \in Nat /\ Len(s \o <<k>>) = Len(s) + 1
        /\ \A i \in 1..(Len(s) + 1) : (s \o <<k>>)[i] = IF i <= Len(s) THEN s[i] ELSE <<k>>[i - Len(s)]
        /\ ToSet(s \o <<k>>) = ToSet(s) \cup ToSet(<<k>>)
    <2>1. s \o <<k>> \in Seq(1..N) /\ Len(s) \in Nat /\ ToSet(s \o <<k>>) = ToSet(s) \cup ToSet(<<k>>)
      BY <1>1, ConcatJoins, ZenonT(60)
    <2>2. /\ Len(s \o <<k>>) = Len(s) + Len(<<k>>)
          /\ \A i \in 1..(Len(s) + Len(<<k>>)) :
                (s \o <<k>>)[i] = IF i <= Len(s) THEN s[i] ELSE <<k>>[i - Len(s)]
      BY <1>1, ConcatProperties, Zenon
    <2> QED BY <2>1, <2>2, <1>1
  <1>3. ToSet(<<k>>) = {k}
    BY <1>1 DEF ToSet
  <1>4. DOMAIN s = 1..Len(s) /\ DOMAIN (s \o <<k>>) = 1..(Len(s) + 1) /\ \A i \in 1..Len(s) : s[i] \in 1..N
    BY <1>2
  <1>5. \A i \in 1..Len(s) : (s \o <<k>>)[i] = s[i]
    BY <1>2
  <1>6. (s \o <<k>>)[Len(s) + 1] = k
    BY <1>1, <1>2
  <1>7. \A i \in 1..Len(s) : s[i] <= n
    BY <1>4 DEF RisesTo, Within, ToSet
  <1>8. InOrder(s \o <<k>>)
    <2> SUFFICES ASSUME NEW i \in 1..(Len(s) + 1), NEW j \in 1..(Len(s) + 1), i < j
                 PROVE  (s \o <<k>>)[i] < (s \o <<k>>)[j]
      BY <1>4 DEF InOrder
    <2>1. i \in 1..Len(s)
      BY <1>2
    <2>2. CASE j \in 1..Len(s)
      BY <2>1, <2>2, <1>4, <1>5 DEF RisesTo, InOrder
    <2>3. CASE j = Len(s) + 1
      BY <2>1, <2>3, <1>4, <1>5, <1>6, <1>7
    <2>4. j \in 1..Len(s) \/ j = Len(s) + 1
      <3>1. Len(s) \in Nat
        BY <1>2
      <3> QED BY <3>1
    <2> QED BY <2>2, <2>3, <2>4, Zenon
  <1>9. Within(ToSet(s \o <<k>>), k)
    <2>1. \A l \in ToSet(s) : l \in 1..N /\ l <= n
      BY <1>4 DEF RisesTo, Within, ToSet
    <2> QED BY <2>1, <1>2, <1>3 DEF Within
  <1> QED BY <1>2, <1>3, <1>8, <1>9 DEF RisesTo

LEMMA ShownNext ==
    ASSUME NEW s \in Seq(Emissions), NEW n \in Int, NEW k \in Emissions, RisesTo(s, n), n < k,
           NEW t, t = s \o <<k>>
    PROVE  /\ t \in Seq(Emissions) /\ RisesTo(t, k)
           /\ ToSet(t) = ToSet(s) \cup {k}
  <1>1. MaxSeq \in Nat
    BY BoundsAssumption
  <1> QED BY <1>1, RisesOn DEF Emissions

-----------------------------------------------------------------------------
\* One after the other

\* What holds at the start and after each step holds throughout.
LEMMA StepByStep ==
    ASSUME NEW N \in Nat, NEW S, 0 \in S, \A n \in 0..(N - 1) : n \in S => n + 1 \in S
    PROVE  \A n \in 0..N : n \in S
  <1> SUFFICES ASSUME NEW l \in 0..N, l \notin S PROVE FALSE
    OBVIOUS
  <1> DEFINE D == {n \in 0..N : n \notin S}
  <1>1. D \in SUBSET Nat /\ D # {}
    OBVIOUS
  <1>2. PICK d \in D : \A e \in D : ~ (<<e, d>> \in OpToRel(<, Nat))
    BY <1>1, WFMin, NatLessThanWellFounded
  <1>3. \A e \in D : e < d => <<e, d>> \in OpToRel(<, Nat)
    BY <1>1, <1>2 DEF OpToRel
  <1>4. \A e \in D : ~ (e < d)
    BY <1>2, <1>3, Zenon
  <1>5. d \in 0..N /\ d \notin S
    BY <1>2
  <1>6. d - 1 \in 0..(N - 1) /\ d - 1 + 1 = d /\ d - 1 < d /\ d - 1 \in 0..N
    BY <1>5
  <1>7. d - 1 \in S
    <2> HIDE DEF D
    <2>1. d - 1 \notin D
      BY <1>4, <1>6
    <2> QED BY <2>1, <1>6 DEF D
  <1> QED BY <1>5, <1>6, <1>7

LEMMA HandledOneByOne ==
    ASSUME NEW c, NEW s, Len(s) \in Nat
    PROVE  \E f : /\ f[0] = c
                  /\ \A n \in 1..Len(s) : f[n] = Handle(f[n - 1], s[n])
                  /\ HandleAll(c, s) = f[Len(s)]
  <1> DEFINE Table(f, N) == f = [n \in 0..N |-> IF n = 0 THEN c ELSE Handle(f[n - 1], s[n])]
             S == {N \in Nat : \E f : Table(f, N)}
  <1>1. 0 \in S
    <2> DEFINE f == [n \in 0..0 |-> c]
    <2>1. Table(f, 0)
      OBVIOUS
    <2> QED BY <2>1
  <1>2. ASSUME NEW N \in 0..(Len(s) - 1), N \in S PROVE N + 1 \in S
    <2>1. PICK f : Table(f, N)
      BY <1>2
    <2> DEFINE g == [n \in 0..(N + 1) |-> IF n = N + 1 THEN Handle(f[N], s[N + 1]) ELSE f[n]]
    <2>2. ASSUME NEW n \in 0..(N + 1)
          PROVE  g[n] = IF n = 0 THEN c ELSE Handle(g[n - 1], s[n])
      <3>1. CASE n = N + 1
        <4>1. n - 1 = N /\ N \in 0..(N + 1) /\ N # N + 1 /\ n # 0
          BY <3>1
        <4>2. g[N] = f[N] /\ g[n] = Handle(f[N], s[N + 1])
          BY <4>1, <3>1
        <4> QED BY <4>1, <4>2, <3>1
      <3>2. CASE n # N + 1
        <4>1. n \in 0..N /\ g[n] = f[n]
          BY <3>2
        <4>2. CASE n = 0
          BY <4>1, <4>2, <2>1
        <4>3. CASE n # 0
          <5>1. n - 1 \in 0..(N + 1) /\ n - 1 # N + 1
            BY <4>1, <4>3
          <5>2. g[n - 1] = f[n - 1]
            BY <5>1
          <5>3. f[n] = Handle(f[n - 1], s[n])
            BY <2>1, <4>1, <4>3
          <5> QED BY <5>2, <5>3, <4>1, <4>3
        <4> QED BY <4>2, <4>3
      <3> QED BY <3>1, <3>2
    <2>3. Table(g, N + 1)
      BY <2>2
    <2>4. N + 1 \in Nat
      BY <1>2
    <2> HIDE DEF g, Table
    <2>5. \E h : Table(h, N + 1)
      BY <2>3
    <2> QED BY <2>4, <2>5
  <1>3. Len(s) \in S
    <2> HIDE DEF S
    <2>1. \A n \in 0..Len(s) : n \in S
      BY <1>1, <1>2, StepByStep
    <2> QED BY <2>1
  <1>4. PICK f : Table(f, Len(s))
    BY <1>3
  <1> DEFINE after == CHOOSE h : Table(h, Len(s))
  <1>5. Table(after, Len(s))
    BY <1>4, Zenon
  <1>6. HandleAll(c, s) = after[Len(s)]
    BY DEF HandleAll
  <1> HIDE DEF after
  <1>7. after[0] = c /\ \A n \in 1..Len(s) : after[n] = Handle(after[n - 1], s[n])
    BY <1>5
  <1> QED BY <1>6, <1>7

LEMMA AdoptedOneByOne ==
    ASSUME NEW s, Len(s) \in Nat
    PROVE  \E f : /\ f[0] = [shows |-> reply.out, covered |-> reply.seq]
                  /\ \A n \in 1..Len(s) : f[n] = Added(f[n - 1], s[n])
                  /\ Adopted(s) = f[Len(s)]
  <1> DEFINE c == [shows |-> reply.out, covered |-> reply.seq]
             Table(f, N) == f = [n \in 0..N |-> IF n = 0 THEN c ELSE Added(f[n - 1], s[n])]
             S == {N \in Nat : \E f : Table(f, N)}
  <1>1. 0 \in S
    <2> DEFINE f == [n \in 0..0 |-> c]
    <2>1. Table(f, 0)
      OBVIOUS
    <2> QED BY <2>1
  <1>2. ASSUME NEW N \in 0..(Len(s) - 1), N \in S PROVE N + 1 \in S
    <2>1. PICK f : Table(f, N)
      BY <1>2
    <2> DEFINE g == [n \in 0..(N + 1) |-> IF n = N + 1 THEN Added(f[N], s[N + 1]) ELSE f[n]]
    <2>2. ASSUME NEW n \in 0..(N + 1)
          PROVE  g[n] = IF n = 0 THEN c ELSE Added(g[n - 1], s[n])
      <3>1. CASE n = N + 1
        <4>1. n - 1 = N /\ N \in 0..(N + 1) /\ N # N + 1 /\ n # 0
          BY <3>1
        <4>2. g[N] = f[N] /\ g[n] = Added(f[N], s[N + 1])
          BY <4>1, <3>1
        <4> QED BY <4>1, <4>2, <3>1
      <3>2. CASE n # N + 1
        <4>1. n \in 0..N /\ g[n] = f[n]
          BY <3>2
        <4>2. CASE n = 0
          BY <4>1, <4>2, <2>1
        <4>3. CASE n # 0
          <5>1. n - 1 \in 0..(N + 1) /\ n - 1 # N + 1
            BY <4>1, <4>3
          <5>2. g[n - 1] = f[n - 1]
            BY <5>1
          <5>3. f[n] = Added(f[n - 1], s[n])
            BY <2>1, <4>1, <4>3
          <5> QED BY <5>2, <5>3, <4>1, <4>3
        <4> QED BY <4>2, <4>3
      <3> QED BY <3>1, <3>2
    <2>3. Table(g, N + 1)
      BY <2>2
    <2>4. N + 1 \in Nat
      BY <1>2
    <2> HIDE DEF g, Table
    <2>5. \E h : Table(h, N + 1)
      BY <2>3
    <2> QED BY <2>4, <2>5
  <1>3. Len(s) \in S
    <2> HIDE DEF S
    <2>1. \A n \in 0..Len(s) : n \in S
      BY <1>1, <1>2, StepByStep
    <2> QED BY <2>1
  <1>4. PICK f : Table(f, Len(s))
    BY <1>3
  <1> DEFINE after == CHOOSE h : Table(h, Len(s))
  <1>5. Table(after, Len(s))
    BY <1>4, Zenon
  <1>6. Adopted(s) = after[Len(s)]
    BY DEF Adopted
  <1> HIDE DEF after
  <1>7. after[0] = c /\ \A n \in 1..Len(s) : after[n] = Added(after[n - 1], s[n])
    BY <1>5
  <1> QED BY <1>6, <1>7

-----------------------------------------------------------------------------
\* What the helpers of the main process do to it

LEMMA Together == ASSUME NoBunching, NEW parts PROVE Joined(parts) = parts
  BY DEF Joined, NoBunching, May

LEMMA ExitTyped == Exited \in Messages /\ Unknown \in Messages /\ ~IsEvent(Unknown)
  BY BoundsAssumption DEF Exited, Unknown, Messages, IsEvent

\* A client that has sent and shown the same is as good.
LEMMA KeptAlike ==
    ASSUME NEW c, NEW d \in Clients, Kept(c),
           d.cur = c.cur, d.replayed = c.replayed, d.screen = c.screen, d.lane = c.lane, d.ipc = c.ipc
    PROVE  Kept(d)
  BY DEF Kept, InBounds, LaneGood, IpcGood, OneBehindTheOther, Live, OnWay

LEMMA ExitEmitted ==
    ASSUME NoBunching, NEW c \in Clients
    PROVE  LET d == EmitExit(c) IN
           /\ d \in Clients /\ ~d.alive /\ d.exits = c.exits + 1
           /\ d.ipc = c.ipc \o c.lane /\ d.lane = <<>>
           /\ d.cur = c.cur /\ d.replayed = c.replayed /\ d.screen = c.screen
           /\ d.phase = c.phase /\ d.queued = c.queued /\ d.replayPending = c.replayPending
           /\ d.running = c.running /\ d.again = c.again /\ d.missed = c.missed
  <1>1. Joined(c.lane) = c.lane
    BY Together
  <1>2. EmitExit(c) = [c EXCEPT !.alive = FALSE, !.exits = c.exits + 1, !.ipc = c.ipc \o c.lane, !.lane = <<>>]
    BY <1>1 DEF EmitExit, Clients
  <1>3. c.exits + 1 \in Nat /\ c.ipc \o c.lane \in Seq(Messages) /\ <<>> \in Seq(Messages)
    BY DEF Clients
  <1>4. EmitExit(c) \in Clients
    BY <1>2, <1>3, Zenon DEF Clients
  <1> QED BY <1>2, <1>4 DEF Clients

LEMMA EmitExitKeeps ==
    ASSUME NoBunching, NEW c, Kept(c)
    PROVE  Kept(EmitExit(c))
  <1> DEFINE d == EmitExit(c)
  <1>1. c \in Clients
    BY DEF Kept
  <1>2. /\ d \in Clients /\ d.ipc = c.ipc \o c.lane /\ d.lane = <<>>
        /\ d.cur = c.cur /\ d.replayed = c.replayed /\ d.screen = c.screen
    BY <1>1, ExitEmitted
  <1> HIDE DEF d
  <1>3. c.ipc \in Seq(Messages) /\ c.lane \in Seq(Messages)
    BY <1>1 DEF Clients
  <1>4. /\ ToSet(d.ipc) = ToSet(c.ipc) \cup ToSet(c.lane)
        /\ Seqs(d.ipc) = Seqs(c.ipc) \cup Seqs(c.lane)
        /\ InTurn(c.ipc) /\ InTurn(c.lane) /\ (\A m \in ToSet(c.ipc), n \in ToSet(c.lane) : Follows(m, n))
            => InTurn(d.ipc)
    BY <1>2, <1>3, InTurnConcat
  <1>5. ToSet(d.lane) = {} /\ Seqs(d.lane) = {} /\ InTurn(d.lane)
    BY <1>2, NothingCarried
  <1>6. OnWay(d) = OnWay(c)
    BY <1>4, <1>5 DEF OnWay
  <1>7. ASSUME NEW m \in ToSet(c.ipc), NEW n \in ToSet(c.lane) PROVE Follows(m, n)
    <2>1. n.type = "data" /\ (m.type = "data" \/ m.type = "snapshot")
      BY DEF Kept, LaneGood, IpcGood
    <2>2. m.type = "data" => m.seq \in Seqs(c.ipc) /\ n.seq \in Seqs(c.lane)
      BY <2>1 DEF Seqs, SeqsOf
    <2>3. m.type = "data" => m.seq < n.seq
      BY <2>2 DEF Kept, OneBehindTheOther, Below
    <2> QED BY <2>1, <2>3 DEF Follows
  <1>8. IpcGood(d)
    BY <1>2, <1>4, <1>7 DEF Kept, IpcGood, LaneGood
  <1>9. LaneGood(d)
    BY <1>5 DEF LaneGood
  <1>10. OneBehindTheOther(d)
    BY <1>5, <1>6 DEF Kept, OneBehindTheOther, Below
  <1>11. InBounds(d) /\ Live(d) /\ RisesTo(d.screen, d.cur)
    BY <1>2, <1>6 DEF Kept, InBounds, Live
  <1> QED BY <1>2, <1>8, <1>9, <1>10, <1>11 DEF Kept, d

\* Live output that is news.
LEMMA DataProcessed ==
    ASSUME NEW c \in Clients, NEW e \in Messages, c.alive, e.type = "data", Newer(c, e), e.seq \in 0..MaxSeq
    PROVE  LET d == ProcessEvent(c, e) IN
           /\ d \in Clients /\ d.alive /\ d.exits = c.exits
           /\ d.cur = e.seq /\ d.screen = c.screen \o e.out /\ d.lane = Append(c.lane, e)
           /\ d.ipc = c.ipc /\ d.replayed = c.replayed
           /\ d.phase = c.phase /\ d.queued = c.queued /\ d.replayPending = c.replayPending
           /\ d.running = c.running /\ d.again = c.again /\ d.missed = c.missed
  <1>1. ProcessEvent(c, e) = [c EXCEPT !.cur = e.seq, !.screen = c.screen \o e.out, !.lane = Append(c.lane, e)]
    BY DEF ProcessEvent, Clients
  <1>2. e.out \in Seq(Emissions) /\ c.screen \in Seq(Emissions) /\ c.lane \in Seq(Messages)
    BY DEF Clients, Messages
  <1>3. c.screen \o e.out \in Seq(Emissions)
    BY <1>2, ConcatProperties
  <1>4. Append(c.lane, e) \in Seq(Messages)
    BY <1>2
  <1>5. ProcessEvent(c, e) \in Clients
    BY <1>1, <1>3, <1>4, Zenon DEF Clients
  <1> QED BY <1>1, <1>5 DEF Clients

LEMMA DataKeeps ==
    ASSUME TypeOK, NEW c, Kept(c), NEW e \in Messages, c.alive, e.type = "data", Newer(c, e), Honest(e)
    PROVE  /\ Kept(ProcessEvent(c, e))
           /\ e.seq = c.cur + 1 /\ Whole(c) => Whole(ProcessEvent(c, e))
  <1> DEFINE d == ProcessEvent(c, e)
             k == e.seq
  <1>1. c \in Clients
    BY DEF Kept
  <1>2. /\ k \in 1..published /\ e.out = <<k>> /\ k \in Emissions /\ k \in 0..MaxSeq /\ k <= produced
        /\ c.cur < k /\ c.cur \in Nat
    <2>1. k \in 1..published /\ e.out = <<k>>
      BY DEF Honest
    <2>2. produced \in 0..MaxSeq /\ published \in 0..produced /\ MaxSeq \in Nat
      BY BoundsAssumption DEF TypeOK
    <2>3. c.cur \in 0..MaxSeq
      BY <1>1, Zenon DEF Clients
    <2>4. c.cur < k
      BY <2>1, <2>3 DEF Newer
    <2> HIDE DEF k
    <2> QED BY <2>1, <2>2, <2>3, <2>4 DEF Emissions
  <1>3. /\ d \in Clients /\ d.cur = k /\ d.screen = c.screen \o <<k>> /\ d.lane = Append(c.lane, e)
        /\ d.ipc = c.ipc /\ d.replayed = c.replayed /\ d.alive /\ d.replayPending = c.replayPending
    <2>1. e.seq \in 0..MaxSeq /\ e.out = <<k>>
      BY <1>2
    <2>2. /\ d \in Clients /\ d.cur = e.seq /\ d.screen = c.screen \o e.out /\ d.lane = Append(c.lane, e)
          /\ d.ipc = c.ipc /\ d.replayed = c.replayed /\ d.alive /\ d.replayPending = c.replayPending
      <3> HIDE DEF k
      <3> QED BY <1>1, <2>1, DataProcessed, Zenon
    <2> QED BY <2>1, <2>2
  <1> HIDE DEF d
  <1>4. c.screen \in Seq(Emissions) /\ c.lane \in Seq(Messages) /\ c.ipc \in Seq(Messages) /\ c.replayed \in 0..MaxSeq
    BY <1>1 DEF Clients
  <1>5. RisesTo(d.screen, d.cur) /\ ToSet(d.screen) = ToSet(c.screen) \cup {k}
    <2>1. RisesTo(c.screen, c.cur)
      BY DEF Kept
    <2>2. c.cur \in Int /\ c.cur < k
      BY <1>1, <1>2 DEF Clients
    <2> QED BY <2>1, <2>2, <1>2, <1>3, <1>4, ShownNext
  <1>6. /\ ToSet(d.lane) = ToSet(c.lane) \cup {e} /\ Seqs(d.lane) = Seqs(c.lane) \cup {k}
        /\ InTurn(c.lane) /\ (\A m \in ToSet(c.lane) : Follows(m, e)) => InTurn(d.lane)
    BY <1>3, <1>4, InTurnAppend
  <1>7. OnWay(d) = OnWay(c) \cup {k}
    BY <1>3, <1>6 DEF OnWay
  <1>8. ASSUME NEW m \in ToSet(c.lane) PROVE Follows(m, e)
    <2>1. m.type = "data"
      BY DEF Kept, LaneGood
    <2>2. m.seq \in OnWay(c)
      BY <2>1 DEF OnWay, Seqs, SeqsOf
    <2>3. m.seq <= c.cur
      BY <2>2 DEF Kept, InBounds, Within
    <2>4. m.seq \in Int
      <3>1. m \in Messages
        BY <1>4 DEF ToSet
      <3> QED BY <3>1 DEF Messages
    <2> QED BY <2>1, <2>3, <2>4, <1>2 DEF Follows
  <1>9. LaneGood(d)
    BY <1>6, <1>8 DEF Kept, LaneGood
  <1>10. IpcGood(d)
    BY <1>3 DEF Kept, IpcGood
  <1>11. \A l \in OnWay(c) \cup Seqs(view.early) : l \in Int /\ l < k
    <2>1. \A l \in OnWay(c) \cup Seqs(view.early) : l <= c.cur
      BY DEF Kept, InBounds, Within
    <2>2. \A l \in OnWay(c) \cup Seqs(view.early) : l \in Int
      <3>1. view.early \in Seq(Messages)
        BY Zenon DEF TypeOK, Views
      <3>2. ASSUME NEW s \in Seq(Messages) PROVE Seqs(s) \subseteq Int
        BY SeqsTyped
      <3> QED BY <1>4, <3>1, <3>2 DEF OnWay
    <2> QED BY <2>1, <2>2, <1>2
  <1>12. OneBehindTheOther(d)
    BY <1>3, <1>6, <1>7, <1>11 DEF Kept, OneBehindTheOther, Below, OnWay
  <1>13. InBounds(d)
    <2>1. reply.seq \in Int /\ view.covered \in Int
      BY DEF TypeOK, Replies, Views
    <2>2. reply.seq <= k /\ view.covered <= k /\ d.replayed <= k
      BY <2>1, <1>2, <1>3, <1>4 DEF Kept, InBounds
    <2>3. Within(OnWay(d), k) /\ Within(Seqs(view.early), k)
      BY <1>2, <1>7, <1>11 DEF Within
    <2> QED BY <2>2, <2>3, <1>2, <1>3 DEF InBounds
  <1>14. Live(d)
    <2>1. view.covered < k /\ reply.seq < k
      BY <1>2 DEF Kept, InBounds, TypeOK, Replies, Views
    <2> QED BY <2>1, <1>3, <1>5, <1>7 DEF Kept, Live
  <1>15. k = c.cur + 1 /\ Whole(c) => Whole(d)
    <2> SUFFICES ASSUME k = c.cur + 1, c.screen = UpTo(c.cur) PROVE d.screen = UpTo(d.cur)
      BY <1>3 DEF Whole
    <2> QED BY <1>2, <1>3, PrefixIsWhole
  <1> QED BY <1>3, <1>5, <1>9, <1>10, <1>12, <1>13, <1>14, <1>15 DEF Kept, d

-----------------------------------------------------------------------------
\* The daemon goes on

Onward ==
    /\ produced' \in 0..MaxSeq /\ published' \in 0..produced' /\ ended' \in BOOLEAN
    /\ produced <= produced' /\ published <= published' /\ (ended => ended')

LEMMA StaysPut == ASSUME TypeOK, UNCHANGED daemonVars PROVE Onward
  BY DEF TypeOK, Onward, daemonVars

LEMMA HonestStays == ASSUME TypeOK, Onward, NEW m, Honest(m) PROVE Honest(m)'
  <1>1. produced \in Int /\ published \in Int /\ produced' \in Int /\ published' \in Int
    BY DEF TypeOK, Onward
  <1>2. \A k \in 1..published : k \in 1..published'
    BY <1>1 DEF Onward
  <1>3. \A k \in 0..produced : k \in 0..produced'
    BY <1>1 DEF Onward
  <1> QED BY <1>2, <1>3 DEF Honest, Onward

\* What the main process has become is as good when nothing else gets worse.
LEMMA KeptMoves ==
    ASSUME TypeOK, Onward, UNCHANGED viewVars, Kept(client')
    PROVE  Kept(client)'
  <1>1. view' = view /\ reply' = reply
    BY DEF viewVars
  <1>2. InBounds(client)'
    <2>1. client'.cur \in Int /\ produced \in Int /\ produced' \in Int
      BY DEF Kept, Clients, TypeOK, Onward
    <2>2. client'.cur <= produced /\ produced <= produced'
      BY DEF Kept, InBounds, Onward
    <2>3. client'.cur <= produced'
      BY <2>1, <2>2
    <2> QED BY <1>1, <2>3 DEF Kept, InBounds, OnWay, Within, Seqs
  <1>3. LaneGood(client)'
    BY HonestStays DEF Kept, LaneGood, InTurn, Follows
  <1>4. IpcGood(client)'
    BY HonestStays DEF Kept, IpcGood, InTurn, Follows
  <1>5. OneBehindTheOther(client)'
    BY <1>1 DEF Kept, OneBehindTheOther, OnWay, Seqs, Below
  <1>6. Live(client)'
    BY <1>1 DEF Kept, Live, OnWay, Seqs
  <1>7. (client \in Clients)' /\ RisesTo(client.screen, client.cur)'
    BY DEF Kept, RisesTo, Clients, Messages, Emissions
  <1> QED BY <1>2, <1>3, <1>4, <1>5, <1>6, <1>7 DEF Kept

LEMMA ViewStays ==
    ASSUME TypeOK, Onward, UNCHANGED viewVars, ViewGood
    PROVE  ViewGood'
  <1>1. view' = view /\ reply' = reply
    BY DEF viewVars
  <1>2. \A m \in ToSet(view.early) : Honest(m)'
    BY HonestStays DEF ViewGood
  <1> QED BY <1>1, <1>2 DEF ViewGood

LEMMA ExitsStay ==
    ASSUME TypeOK, Onward, ExitsGood(client')
    PROVE  ExitsGood(client)'
  BY DEF ExitsGood, Onward

-----------------------------------------------------------------------------
\* What the main process makes of a message

\* The client but for what concerns its requests and its connection.
Alike(c, d) ==
    /\ d.alive = c.alive /\ d.exits = c.exits /\ d.replayPending = c.replayPending
    /\ d.cur = c.cur /\ d.replayed = c.replayed
    /\ d.screen = c.screen /\ d.lane = c.lane /\ d.ipc = c.ipc

LEMMA AlikeKeeps ==
    ASSUME NEW c, NEW d \in Clients, Kept(c), Alike(c, d)
    PROVE  Kept(d) /\ (Whole(c) => Whole(d))
  BY KeptAlike DEF Alike, Whole

LEMMA Enqueued ==
    ASSUME NEW c \in Clients
    PROVE  LET d == Enqueue(c) IN
           /\ d \in Clients /\ Alike(c, d) /\ d.running /\ d.phase = c.phase /\ d.queued = c.queued
  <1>1. Enqueue(c) \in Clients
    BY Zenon DEF Enqueue, Clients
  <1> QED BY <1>1 DEF Enqueue, Alike, Clients

LEMMA Refreshed ==
    ASSUME NEW c \in Clients
    PROVE  LET d == NextRefresh(c) IN
           d \in Clients /\ Alike(c, d) /\ d.phase = c.phase /\ d.queued = c.queued
  <1>1. c.again \in BOOLEAN
    BY Zenon DEF Clients
  <1>2. NextRefresh(c) \in Clients
    BY <1>1, Zenon DEF NextRefresh, Clients
  <1> QED BY <1>2 DEF NextRefresh, Alike, Clients

\* A replay that is not behind what is shown.
LEMMA SnapshotFields ==
    ASSUME NEW c \in Clients, NEW s \in Messages, s.seq \in 0..MaxSeq, c.alive, Applies(c, s)
    PROVE  LET d == ApplySnapshot(c, s) IN
           /\ d \in Clients /\ d.alive /\ d.exits = c.exits
           /\ d.phase = c.phase /\ d.queued = c.queued
           /\ d.cur = s.seq /\ d.screen = s.out /\ d.lane = <<>> /\ d.ipc = Append(c.ipc, s)
           /\ d.replayPending = FALSE /\ d.replayed = s.seq
  <1>1. /\ ApplySnapshot(c, s) =
             [c EXCEPT !.cur = s.seq, !.screen = s.out, !.lane = <<>>,
                       !.ipc = Append(c.ipc, s), !.replayPending = FALSE, !.replayed = s.seq]
    BY DEF ApplySnapshot, Clients
  <1>2. s.out \in Seq(Emissions) /\ c.ipc \in Seq(Messages) /\ <<>> \in Seq(Messages)
    BY DEF Clients, Messages
  <1>3. Append(c.ipc, s) \in Seq(Messages)
    BY <1>2
  <1>4. ApplySnapshot(c, s) \in Clients
    BY <1>1, <1>2, <1>3, Zenon DEF Clients
  <1> QED BY <1>1, <1>4 DEF Clients

LEMMA SnapshotKeeps ==
    ASSUME TypeOK, NEW c, Kept(c), ExitsGood(c), Whole(c), NEW s \in Messages,
           s.type = "snapshot", Honest(s), c.cur <= s.seq
    PROVE  LET d == ApplySnapshot(c, s) IN
           /\ Kept(d) /\ ExitsGood(d) /\ Whole(d)
           /\ d.alive = c.alive /\ d.phase = c.phase /\ d.queued = c.queued
           /\ c.alive => ~d.replayPending /\ d.cur = s.seq
           /\ d.cur <= s.seq
  <1> DEFINE d == ApplySnapshot(c, s)
  <1>0. c \in Clients /\ c.cur \in 0..MaxSeq /\ c.replayed \in 0..MaxSeq /\ c.alive \in BOOLEAN
    BY DEF Kept, Clients
  <1>1. s.seq \in 0..produced /\ s.out = UpTo(s.seq) /\ produced \in 0..MaxSeq /\ s.seq \in 0..MaxSeq
    BY BoundsAssumption DEF Honest, TypeOK
  <1>2. CASE ~c.alive
    BY <1>2 DEF ApplySnapshot
  <1>3. CASE c.alive /\ ~Applies(c, s)
    <2>1. d = [c EXCEPT !.replayPending = FALSE] /\ ~c.replayPending /\ c.cur = s.seq
      BY <1>0, <1>1, <1>3 DEF ApplySnapshot, Applies
    <2>2. d = c
      BY <2>1, <1>0 DEF Clients
    <2> QED BY <2>1, <2>2, <1>0, <1>3
  <1>4. CASE c.alive /\ Applies(c, s)
    <2>1. /\ d \in Clients /\ d.alive = TRUE /\ d.exits = c.exits
          /\ d.phase = c.phase /\ d.queued = c.queued
          /\ d.cur = s.seq /\ d.screen = UpTo(s.seq) /\ d.lane = <<>> /\ d.ipc = Append(c.ipc, s)
          /\ d.replayPending = FALSE /\ d.replayed = s.seq
      BY <1>0, <1>1, <1>4, SnapshotFields, Zenon
    <2> HIDE DEF d
    <2>2. c.ipc \in Seq(Messages) /\ c.lane \in Seq(Messages)
      BY <1>0 DEF Clients
    <2>3. /\ ToSet(d.ipc) = ToSet(c.ipc) \cup {s} /\ Seqs(d.ipc) = Seqs(c.ipc)
          /\ InTurn(c.ipc) /\ (\A m \in ToSet(c.ipc) : Follows(m, s)) => InTurn(d.ipc)
      BY <2>1, <2>2, InTurnAppend
    <2>4. ToSet(d.lane) = {} /\ Seqs(d.lane) = {} /\ InTurn(d.lane)
      BY <2>1, NothingCarried
    <2>5. OnWay(d) \subseteq OnWay(c) /\ Seqs(d.lane) = {} /\ Seqs(d.ipc) = Seqs(c.ipc)
      BY <2>3, <2>4 DEF OnWay
    <2>6. \A n \in Int : n <= c.cur => n <= s.seq
      BY <1>0, <1>1
    <2>7. InBounds(d)
      <3>1. reply.seq \in Int /\ view.covered \in Int /\ view.early \in Seq(Messages)
        <4>1. reply \in Replies /\ view \in Views
          BY Zenon DEF TypeOK
        <4> QED BY <4>1, BoundsAssumption DEF Replies, Views
      <3>2. \A k \in OnWay(c) \cup Seqs(view.early) : k \in Int
        BY <2>2, <3>1, SeqsTyped DEF OnWay
      <3>3. Within(OnWay(d), s.seq) /\ Within(Seqs(view.early), s.seq)
        BY <3>2, <2>5, <2>6 DEF Kept, InBounds, Within
      <3>4. reply.seq <= s.seq /\ view.covered <= s.seq /\ s.seq <= produced
        BY <3>1, <2>6, <1>1 DEF Kept, InBounds
      <3> QED BY <3>3, <3>4, <2>1, <1>1 DEF InBounds
    <2>8. RisesTo(d.screen, d.cur) /\ Whole(d) /\ ToSet(d.screen) = 1..s.seq
      <3>1. s.seq \in Nat
        BY <1>1
      <3> QED BY <2>1, <3>1, PrefixIsWhole DEF Whole
    <2>9. IpcGood(d)
      <3>1. ASSUME NEW m \in ToSet(c.ipc)
            PROVE  Follows(m, s) /\ (m.type = "snapshot" => m.seq <= s.seq)
        <4>1. m.seq \in Int /\ (m.type = "data" => m.seq \in OnWay(c))
          BY <2>2, SeqsTyped, BoundsAssumption DEF OnWay
        <4>2. m.type = "data" => m.seq <= c.cur
          BY <4>1 DEF Kept, InBounds, Within
        <4>3. m.type = "snapshot" => m.seq <= c.cur
          BY <4>1, <1>0 DEF Kept, InBounds, IpcGood
        <4>4. m.type = "data" \/ m.type = "snapshot"
          BY DEF Kept, IpcGood
        <4> QED BY <4>1, <4>2, <4>3, <4>4, <2>6 DEF Follows
      <3> QED BY <3>1, <2>1, <2>3, <1>1 DEF Kept, IpcGood
    <2>10. LaneGood(d) /\ OneBehindTheOther(d)
      BY <2>4, <2>5 DEF Kept, LaneGood, OneBehindTheOther, Below
    <2>11. Live(d)
      BY <2>1, <2>8, <1>1 DEF Live
    <2>12. ExitsGood(d)
      BY <2>1, <1>4 DEF ExitsGood
    <2>13. d.alive = c.alive /\ d.cur <= s.seq
      <3>1. d.alive = c.alive
        BY <2>1, <1>0, <1>4, Zenon
      <3>2. d.cur <= s.seq
        BY <2>1, <1>1
      <3> QED BY <3>1, <3>2
    <2> QED BY <2>13, <2>1, <2>7, <2>8, <2>9, <2>10, <2>11, <2>12, <1>1 DEF Kept, d
  <1> QED BY <1>2, <1>3, <1>4

\* What stays of a client whatever it is told by an event.
Steady(c, d) ==
    /\ d.phase = c.phase /\ d.queued = c.queued /\ d.replayPending = c.replayPending
    /\ d.running = c.running /\ d.again = c.again /\ d.missed = c.missed

LEMMA ExitEmittedGood ==
    ASSUME NoBunching, NEW c, Kept(c), ExitsGood(c), c.alive, ended
    PROVE  LET d == EmitExit(c) IN
           /\ Kept(d) /\ ExitsGood(d) /\ Whole(d) /\ ~d.alive /\ Steady(c, d)
           /\ d.cur = c.cur /\ d.screen = c.screen
  <1> DEFINE d == EmitExit(c)
  <1>1. c \in Clients
    BY DEF Kept
  <1>2. /\ ~d.alive /\ d.exits = c.exits + 1 /\ d.cur = c.cur /\ d.screen = c.screen /\ Steady(c, d)
    BY <1>1, ExitEmitted DEF Steady
  <1>3. Kept(d)
    BY EmitExitKeeps
  <1> HIDE DEF d
  <1>4. d.exits = 1 /\ d.phase # "boot"
    BY <1>2 DEF ExitsGood, Steady
  <1>5. ExitsGood(d)
    BY <1>2, <1>4 DEF ExitsGood
  <1> QED BY <1>2, <1>3, <1>5 DEF Whole, d

LEMMA HandledReady ==
    ASSUME NoBunching, TypeOK, NEW c, Kept(c), ExitsGood(c), c.phase = "ready",
           NEW e \in Messages, IsEvent(e), Honest(e)
    PROVE  LET d == Handle(c, e) IN
           /\ Kept(d) /\ ExitsGood(d) /\ Steady(c, d)
           /\ d.alive => c.alive /\ e.type # "exit"
           /\ d.alive => d.cur = IF Newer(c, e) THEN e.seq ELSE c.cur
           /\ ~c.alive \/ (e.type = "data" /\ ~Newer(c, e)) => d = c
           /\ Whole(c) /\ (e.type = "data" => e.seq <= c.cur + 1) => Whole(d)
           /\ c.cur <= d.cur /\ (d.cur = c.cur \/ (e.type = "data" /\ d.cur = e.seq))
  <1> DEFINE d == Handle(c, e)
  <1>1. c \in Clients /\ c.cur \in 0..MaxSeq /\ e.seq \in -1..MaxSeq
    BY DEF Kept, Clients, Messages
  <1>2. d = ProcessEvent(c, e)
    BY DEF Handle
  <1>3. CASE ~c.alive
    <2>1. d = c
      BY <1>2, <1>3 DEF ProcessEvent
    <2> HIDE DEF d
    <2> QED BY <2>1, <1>1, <1>3 DEF Steady, d
  <1>4. CASE c.alive /\ e.type = "exit"
    <2>1. d = EmitExit(c) /\ ended
      BY <1>2, <1>4 DEF ProcessEvent, Honest
    <2> HIDE DEF d
    <2>2. Kept(d) /\ ExitsGood(d) /\ Whole(d) /\ ~d.alive /\ Steady(c, d) /\ d.cur = c.cur
      BY <2>1, <1>4, ExitEmittedGood
    <2> QED BY <2>2, <1>1, <1>4 DEF d
  <1>5. CASE c.alive /\ e.type = "data" /\ ~Newer(c, e)
    <2>1. d = c
      BY <1>2, <1>5 DEF ProcessEvent
    <2> HIDE DEF d
    <2> QED BY <2>1, <1>1, <1>5 DEF Steady, d
  <1>6. CASE c.alive /\ e.type = "data" /\ Newer(c, e)
    <2>1. e.seq > c.cur /\ e.seq \in 0..MaxSeq
      BY <1>1, <1>6 DEF Newer
    <2>2. Kept(d) /\ (e.seq = c.cur + 1 /\ Whole(c) => Whole(d))
      BY <1>2, <1>6, DataKeeps
    <2>3. /\ d.alive /\ d.exits = c.exits /\ d.cur = e.seq /\ Steady(c, d)
      <3> DEFINE x == ProcessEvent(c, e)
      <3>1. /\ x.alive /\ x.exits = c.exits /\ x.cur = e.seq
            /\ x.phase = c.phase /\ x.queued = c.queued /\ x.replayPending = c.replayPending
            /\ x.running = c.running /\ x.again = c.again /\ x.missed = c.missed
        BY <1>1, <1>6, <2>1, DataProcessed, Zenon
      <3> HIDE DEF d, x
      <3>2. d = x
        BY <1>2 DEF x
      <3> QED BY <3>1, <3>2 DEF Steady
    <2> HIDE DEF d
    <2>4. ExitsGood(d)
      BY <2>3, <1>6 DEF ExitsGood, Steady
    <2>5. Whole(c) /\ e.seq <= c.cur + 1 => Whole(d)
      <3>1. e.seq <= c.cur + 1 => e.seq = c.cur + 1
        BY <1>1, <2>1
      <3> QED BY <3>1, <2>2
    <2>6. c.cur <= d.cur
      BY <1>1, <2>1, <2>3
    <2> QED BY <2>2, <2>3, <2>4, <2>5, <2>6, <1>6 DEF d
  <1>7. e.type = "data" \/ e.type = "exit"
    BY DEF IsEvent
  <1> QED BY <1>3, <1>4, <1>5, <1>6, <1>7

\* The list that a reconnection weighs the client against.
LEMMA Reconciled ==
    ASSUME NoBunching, TypeOK, NEW c, Kept(c), ExitsGood(c), c.phase = "syncing",
           NEW m \in Messages, m.seq = -1 => ended
    PROVE  LET d == Reconcile(c, m) IN
           /\ Kept(d) /\ ExitsGood(d) /\ d.phase = "syncing" /\ d.queued = c.queued
           /\ d.running = c.running /\ d.missed = c.missed
           /\ d.cur = c.cur /\ d.screen = c.screen
           /\ m.seq = -1 /\ d.alive => Exited \in ToSet(d.queued)
           /\ m.seq # -1 /\ d.alive /\ ~d.replayPending => c.alive /\ ~c.replayPending /\ m.seq <= c.cur
  <1> DEFINE d == Reconcile(c, m)
  <1>1. c \in Clients
    BY DEF Kept
  <1>2. CASE ~c.alive
    <2>1. d = c
      BY <1>2 DEF Reconcile
    <2> HIDE DEF d
    <2> QED BY <2>1, <1>2 DEF d
  <1>3. CASE c.alive /\ Gone(m) /\ Exited \in ToSet(c.queued)
    <2>1. d = c /\ m.seq = -1
      BY <1>3 DEF Reconcile, Gone
    <2> HIDE DEF d
    <2> QED BY <2>1, <1>3 DEF d
  <1>4. CASE c.alive /\ Gone(m) /\ Exited \notin ToSet(c.queued)
    <2>1. d = EmitExit(c) /\ m.seq = -1
      BY <1>4 DEF Reconcile, Gone
    <2> HIDE DEF d
    <2>2. Kept(d) /\ ExitsGood(d) /\ ~d.alive /\ Steady(c, d) /\ d.cur = c.cur /\ d.screen = c.screen
      BY <2>1, <1>4, ExitEmittedGood
    <2> QED BY <2>1, <2>2 DEF Steady, d
  <1>5. CASE c.alive /\ ~Gone(m)
    <2>1. d = [c EXCEPT !.replayPending = Missed(c, m)] /\ m.seq # -1
      BY <1>5 DEF Reconcile, Gone
    <2>2. Missed(c, m) \in BOOLEAN
      BY <1>1 DEF Missed, Clients
    <2>3. d \in Clients
      BY <2>1, <2>2, <1>1, Zenon DEF Clients
    <2>4. /\ d.alive = c.alive /\ d.exits = c.exits /\ d.replayPending = Missed(c, m)
          /\ d.cur = c.cur /\ d.replayed = c.replayed
          /\ d.screen = c.screen /\ d.lane = c.lane /\ d.ipc = c.ipc
          /\ d.phase = c.phase /\ d.queued = c.queued /\ d.running = c.running /\ d.missed = c.missed
      BY <2>1, <2>2, <1>1 DEF Clients
    <2> HIDE DEF d
    <2>5. Kept(d)
      BY <2>3, <2>4, KeptAlike
    <2>6. ExitsGood(d)
      BY <2>4 DEF ExitsGood
    <2>7. ~d.replayPending => ~c.replayPending /\ m.seq <= c.cur
      <3>1. m.seq \in Int /\ c.cur \in Int
        BY <1>1 DEF Messages, Clients
      <3>2. ~Missed(c, m) => ~c.replayPending /\ m.seq <= c.cur
        BY <3>1 DEF Missed
      <3> QED BY <3>2, <2>4, Zenon
    <2> QED BY <2>1, <2>4, <2>5, <2>6, <2>7, <1>5 DEF d
  <1> QED BY <1>2, <1>3, <1>4, <1>5

\* The events queued while a reconnection was under way.
LEMMA Flushed ==
    ASSUME NoBunching, TypeOK, NEW c, Kept(c), ExitsGood(c), c.phase = "syncing",
           \A m \in ToSet(c.queued) : Honest(m) /\ IsEvent(m)
    PROVE  LET d == FlushQueued(c) IN
           /\ Kept(d) /\ ExitsGood(d) /\ d.phase = "ready" /\ d.queued = <<>>
           /\ d.replayPending = c.replayPending /\ d.running = c.running /\ d.missed = c.missed
           /\ d.alive => c.alive /\ ~HasExit(c.queued)
           /\ d.alive /\ Within(Seqs(c.queued), c.cur) => d.cur = c.cur /\ d.screen = c.screen
  <1> DEFINE q == c.queued
             b == [c EXCEPT !.queued = <<>>, !.phase = "ready"]
             d == FlushQueued(c)
  <1>1. c \in Clients /\ q \in Seq(Messages) /\ Len(q) \in Nat
    BY DEF Kept, Clients
  <1>2. b \in Clients
    <2>1. <<>> \in Seq(Messages)
      OBVIOUS
    <2> QED BY <1>1, <2>1, Zenon DEF Clients
  <1>3. /\ b.alive = c.alive /\ b.exits = c.exits /\ b.cur = c.cur /\ b.replayed = c.replayed
        /\ b.screen = c.screen /\ b.lane = c.lane /\ b.ipc = c.ipc
        /\ b.phase = "ready" /\ b.queued = <<>> /\ b.replayPending = c.replayPending
        /\ b.running = c.running /\ b.again = c.again /\ b.missed = c.missed
    BY <1>1 DEF Clients
  <1>4. PICK f : /\ f[0] = b
                 /\ \A n \in 1..Len(q) : f[n] = Handle(f[n - 1], q[n])
                 /\ HandleAll(b, q) = f[Len(q)]
    <2> HIDE DEF b, q
    <2> QED BY <1>1, HandledOneByOne
  <1> HIDE DEF b
  <1>5. d = f[Len(q)]
    BY <1>4 DEF FlushQueued, b
  <1>6. Kept(b)
    BY <1>2, <1>3, KeptAlike
  <1>7. ExitsGood(b)
    BY <1>3 DEF ExitsGood
  <1> DEFINE Good(n) == /\ Kept(f[n]) /\ ExitsGood(f[n]) /\ Steady(b, f[n])
                        /\ f[n].alive => c.alive /\ \A i \in 1..n : q[i].type # "exit"
                        /\ f[n].alive /\ Within(Seqs(q), c.cur) => f[n] = b
             S == {n \in 0..Len(q) : Good(n)}
  <1>8. 0 \in S
    <2>1. Good(0)
      BY <1>3, <1>4, <1>6, <1>7 DEF Steady
    <2> QED BY <2>1, <1>1
  <1>9. ASSUME NEW n \in 0..(Len(q) - 1), n \in S PROVE n + 1 \in S
    <2> DEFINE x == f[n]
               y == f[n + 1]
               e == q[n + 1]
    <2>1. Good(n)
      BY <1>9
    <2>2. n + 1 \in 1..Len(q) /\ n + 1 - 1 = n /\ n + 1 \in 0..Len(q)
      BY <1>1
    <2>3. y = Handle(x, e)
      BY <1>4, <2>2
    <2>4. e \in Messages /\ e \in ToSet(q)
      BY <1>1, <2>2 DEF ToSet
    <2>5. Honest(e) /\ IsEvent(e) /\ x.phase = "ready"
      BY <2>1, <2>4, <1>3 DEF Steady
    <2> HIDE DEF x, y, e
    <2>6. Kept(x) /\ ExitsGood(x) /\ Steady(b, x)
      BY <2>1 DEF x
    <2>7. /\ Kept(y) /\ ExitsGood(y) /\ Steady(x, y)
          /\ y.alive => x.alive /\ e.type # "exit"
          /\ e.type = "data" /\ ~Newer(x, e) => y = x
      BY <2>3, <2>4, <2>5, <2>6, HandledReady
    <2>8. Steady(b, y)
      BY <2>6, <2>7 DEF Steady
    <2>9. y.alive => c.alive /\ \A i \in 1..(n + 1) : q[i].type # "exit"
      <3>1. \A i \in 1..(n + 1) : i \in 1..n \/ i = n + 1
        BY <1>1
      <3> QED BY <3>1, <2>1, <2>7 DEF x, e
    <2>10. y.alive /\ Within(Seqs(q), c.cur) => y = b
      <3> SUFFICES ASSUME y.alive, Within(Seqs(q), c.cur) PROVE y = b
        OBVIOUS
      <3>1. x = b /\ e.type = "data"
        BY <2>1, <2>5, <2>7 DEF x, IsEvent
      <3>2. e.seq \in Seqs(q) /\ e.seq \in Int /\ c.cur \in Int
        BY <3>1, <2>4, <1>1, SeqsTyped DEF Clients
      <3>3. ~Newer(x, e)
        BY <3>1, <3>2, <1>3 DEF Within, Newer
      <3> QED BY <3>1, <3>3, <2>7
    <2>11. Good(n + 1)
      BY <2>7, <2>8, <2>9, <2>10 DEF y
    <2> QED BY <2>2, <2>11
  <1>10. Good(Len(q))
    <2> HIDE DEF S
    <2>1. \A n \in 0..Len(q) : n \in S
      BY <1>1, <1>8, <1>9, StepByStep
    <2>2. Len(q) \in S
      BY <1>1, <2>1
    <2> QED BY <2>2 DEF S
  <1> HIDE DEF d
  <1>11. /\ Kept(d) /\ ExitsGood(d) /\ Steady(b, d)
         /\ d.alive => c.alive /\ \A i \in 1..Len(q) : q[i].type # "exit"
         /\ d.alive /\ Within(Seqs(q), c.cur) => d = b
    BY <1>5, <1>10
  <1>12. (\A i \in 1..Len(q) : q[i].type # "exit") => ~HasExit(q)
    BY <1>1 DEF HasExit, ToSet
  <1> QED BY <1>3, <1>11, <1>12 DEF Steady, d

\* The rest of a reconnection: the list is weighed, then the queue is handled.
LEMMA Synchronized ==
    ASSUME NoBunching, TypeOK, NEW c, Kept(c), ExitsGood(c), Whole(c), c.phase = "syncing",
           \A n \in ToSet(c.queued) : Honest(n) /\ IsEvent(n),
           NEW m \in Messages, m.seq = -1 => ended,
           m.seq # -1 => c.cur <= m.seq /\ Within(Seqs(c.queued), m.seq)
    PROVE  LET d == Synchronize(c, m) IN
           /\ Kept(d) /\ ExitsGood(d) /\ Whole(d) /\ d.phase = "ready" /\ d.queued = <<>>
           /\ d.alive => m.seq # -1 /\ d.running
           /\ d.alive /\ ~d.replayPending => d.cur = m.seq
  <1> DEFINE r == Reconcile(c, m)
             f == FlushQueued(r)
             d == Synchronize(c, m)
  <1>1. /\ Kept(r) /\ ExitsGood(r) /\ r.phase = "syncing" /\ r.queued = c.queued
        /\ r.cur = c.cur /\ r.screen = c.screen
        /\ m.seq = -1 /\ r.alive => Exited \in ToSet(r.queued)
        /\ m.seq # -1 /\ r.alive /\ ~r.replayPending => c.alive /\ ~c.replayPending /\ m.seq <= c.cur
    BY Reconciled
  <1> HIDE DEF r
  <1>2. /\ Kept(f) /\ ExitsGood(f) /\ f.phase = "ready" /\ f.queued = <<>>
        /\ f.replayPending = r.replayPending
        /\ f.alive => r.alive /\ ~HasExit(r.queued)
        /\ f.alive /\ Within(Seqs(r.queued), r.cur) => f.cur = r.cur /\ f.screen = r.screen
    BY <1>1, Flushed
  <1>3. d = IF f.alive /\ m.seq # -1 THEN Enqueue(f) ELSE f
    BY DEF Synchronize, Gone, r
  <1> HIDE DEF f, d
  <1>4. f \in Clients /\ c.cur \in Int /\ m.seq \in Int
    BY <1>1, <1>2 DEF Kept, Clients, Messages
  <1>5. CASE m.seq = -1
    <2>1. ~f.alive
      BY <1>1, <1>2, <1>5 DEF HasExit, Exited
    <2> QED BY <2>1, <1>2, <1>3, <1>5 DEF Whole, d
  <1>6. CASE m.seq # -1 /\ ~f.alive
    BY <1>2, <1>3, <1>6 DEF Whole, d
  <1>7. CASE m.seq # -1 /\ f.alive
    <2>1. d = Enqueue(f)
      BY <1>3, <1>7
    <2>2. /\ d \in Clients /\ Alike(f, d) /\ d.running /\ d.phase = "ready" /\ d.queued = <<>>
      BY <2>1, <1>2, <1>4, Enqueued
    <2>3. Kept(d)
      BY <2>2, <1>2, AlikeKeeps
    <2>4. ExitsGood(d)
      BY <2>2, <1>2 DEF ExitsGood, Alike
    <2>5. d.alive /\ ~d.replayPending => d.cur = m.seq /\ d.screen = UpTo(d.cur)
      <3> SUFFICES ASSUME ~d.replayPending PROVE d.cur = m.seq /\ d.screen = UpTo(d.cur)
        OBVIOUS
      <3>1. c.alive /\ ~c.replayPending /\ m.seq = c.cur
        BY <2>2, <1>1, <1>2, <1>4, <1>7 DEF Alike
      <3>2. c.screen = UpTo(c.cur)
        BY <3>1 DEF Whole
      <3> QED BY <3>1, <3>2, <2>2, <1>1, <1>2, <1>7 DEF Alike
    <2> QED BY <2>2, <2>3, <2>4, <2>5, <1>7 DEF Whole, d
  <1> QED BY <1>5, <1>6, <1>7

-----------------------------------------------------------------------------
\* The steps of the daemon

LEMMA DaemonMoves ==
    ASSUME IInv, Onward, UNCHANGED <<client, viewVars, drops>>
    PROVE  /\ Kept(client)' /\ ExitsGood(client)' /\ Whole(client)'
           /\ ViewGood' /\ QueueGood' /\ ReplayIsFetched'
  <1>1. client' = client /\ UNCHANGED viewVars
    OBVIOUS
  <1>2. Kept(client)' /\ ViewGood' /\ ExitsGood(client)'
    BY <1>1, KeptMoves, ViewStays, ExitsStay DEF IInv
  <1>3. Whole(client)' /\ ReplayIsFetched'
    BY <1>1 DEF IInv, Whole, ReplayIsFetched
  <1>4. QueueGood'
    BY <1>1, HonestStays DEF IInv, QueueGood
  <1> QED BY <1>2, <1>3, <1>4

LEMMA OneMessage ==
    ASSUME NEW s \in Seq(Messages), NEW e \in Messages
    PROVE  /\ Append(s, e) = s \o <<e>> /\ <<e>> \in Seq(Messages)
           /\ ToSet(<<e>>) = {e} /\ InTurn(<<e>>)
           /\ Seqs(<<e>>) = IF e.type = "data" THEN {e.seq} ELSE {}
  <1>1. Append(s, e) = s \o <<e>>
    BY AppendIsConcat
  <1>2. ToSet(<<e>>) = {e} /\ InTurn(<<e>>)
    BY DEF ToSet, InTurn
  <1> QED BY <1>1, <1>2 DEF Seqs, SeqsOf

\* What the daemon adds to the wire.
LEMMA WireGrows ==
    ASSUME IInv, Onward, UNCHANGED client,
           NEW t \in Seq(Messages), wire' = wire \o t, InTurn(t),
           \A m \in ToSet(wire), n \in ToSet(t) : Follows(m, n),
           (published + 1)..published' \subseteq Seqs(t),
           ended' => ended \/ HasExit(t),
           \A m \in ToSet(t) : /\ Honest(m)'
                               /\ m.type = "list" => ListGood(m)'
                               /\ m.type = "snapshot" => SnapshotGood(m)'
                               /\ m.type = "error" => client.phase = "ready" /\ ended'
    PROVE  /\ wire' \in Seq(Messages) /\ WireGood' /\ Fed' /\ EndIsTold'
           /\ ToSet(wire') = ToSet(wire) \cup ToSet(t)
  <1>1. wire \in Seq(Messages)
    BY DEF IInv, TypeOK
  <1>2. /\ wire' \in Seq(Messages)
        /\ ToSet(wire') = ToSet(wire) \cup ToSet(t)
        /\ Seqs(wire') = Seqs(wire) \cup Seqs(t)
        /\ InTurn(wire')
    BY <1>1, InTurnConcat DEF IInv, WireGood
  <1>3. HasExit(wire) \/ HasExit(t) => HasExit(wire')
    BY <1>2 DEF HasExit
  <1>4. published \in Int /\ published' \in Int /\ produced \in Int /\ produced' \in Int /\ produced <= produced'
    BY DEF IInv, TypeOK, Onward
  <1>5. ASSUME NEW a \in Int, (a + 1)..published \subseteq Seqs(wire)
        PROVE  (a + 1)..published' \subseteq Seqs(wire')
    <2>1. \A k \in (a + 1)..published' : k \in (a + 1)..published \/ k \in (published + 1)..published'
      BY <1>4
    <2> QED BY <2>1, <1>2, <1>5
  <1>6. client.cur \in Int
    BY DEF IInv, TypeOK, Clients
  <1>7. ASSUME NEW m \in ToSet(wire), m.type = "list" PROVE ListGood(m)'
    <2>1. ListGood(m)
      BY <1>7 DEF IInv, WireGood
    <2>2. m.seq \in Int
      BY <1>1, SeqsTyped
    <2>3. m.seq \in client.cur..produced => m.seq \in client.cur..produced'
      BY <1>4, <1>6
    <2>4. (m.seq + 1)..published \subseteq Seqs(wire) => (m.seq + 1)..published' \subseteq Seqs(wire')
      BY <2>2, <1>5
    <2> QED BY <2>1, <2>3, <2>4, <1>3 DEF ListGood, Onward
  <1>8. ASSUME NEW m \in ToSet(wire), m.type = "snapshot" PROVE SnapshotGood(m)'
    <2>1. SnapshotGood(m)
      BY <1>8 DEF IInv, WireGood
    <2>2. m.seq \in Int
      BY <1>1, SeqsTyped
    <2>3. (m.seq + 1)..published' \subseteq Seqs(wire')
      BY <2>1, <2>2, <1>5 DEF SnapshotGood
    <2> QED BY <2>1, <2>3 DEF SnapshotGood
  <1>9. \A m \in ToSet(wire) : Honest(m)' /\ (m.type = "error" => client'.phase = "ready" /\ ended')
    BY HonestStays DEF IInv, WireGood, Onward
  <1>10. WireGood'
    BY <1>2, <1>7, <1>8, <1>9 DEF WireGood, InTurn, Follows
  <1>11. Fed'
    BY <1>5, <1>6 DEF IInv, Fed
  <1>12. EndIsTold'
    BY <1>3 DEF IInv, EndIsTold
  <1> QED BY <1>2, <1>10, <1>11, <1>12

LEMMA EmitKeeps ==
    ASSUME IInv, Emit
    PROVE  IInv'
  <1>1. Onward /\ TypeOK'
    BY BoundsAssumption DEF IInv, TypeOK, Emit, Onward, linkVars, viewVars
  <1>2. UNCHANGED <<published, ended, up, asked, barrier, wire, client, reply, view, drops>>
    BY DEF Emit, linkVars, viewVars
  <1>3. /\ Kept(client)' /\ ExitsGood(client)' /\ Whole(client)'
        /\ ViewGood' /\ QueueGood' /\ ReplayIsFetched'
    BY <1>1, <1>2, DaemonMoves DEF viewVars
  <1>4. Fed' /\ EndIsTold' /\ LinkGood'
    BY <1>2 DEF IInv, Fed, EndIsTold, LinkGood, HasExit, Seqs
  <1>5. WireGood'
    <2>1. \A m \in ToSet(wire) : ListGood(m) => ListGood(m)'
      <3>1. \A k : k \in client.cur..produced => k \in client.cur..produced'
        BY <1>1 DEF IInv, TypeOK, Clients, Onward
      <3> QED BY <3>1, <1>2 DEF ListGood, Seqs, HasExit, Within
    <2>2. \A m \in ToSet(wire) : SnapshotGood(m) => SnapshotGood(m)'
      BY <1>2 DEF SnapshotGood, Seqs
    <2>3. \A m \in ToSet(wire) : Honest(m) => Honest(m)'
      BY <1>1, HonestStays DEF IInv
    <2> QED BY <2>1, <2>2, <2>3, <1>2 DEF IInv, WireGood, InTurn, Follows
  <1> QED BY <1>1, <1>3, <1>4, <1>5 DEF IInv

\* Whatever is published reaches the wire when the daemon is connected, and
\* otherwise there is nothing on the wire, nor anybody who counts on it.
LEMMA SentKeeps ==
    ASSUME IInv, Onward, TypeOK', UNCHANGED <<asked, up, client, viewVars, drops>>,
           barrier' \in {barrier, NoBarrier},
           NEW t \in Seq(Messages), wire' = Sent(t), InTurn(t),
           \A m \in ToSet(wire), n \in ToSet(t) : Follows(m, n),
           (published + 1)..published' \subseteq Seqs(t),
           ended' => ended \/ HasExit(t),
           \A m \in ToSet(t) : Honest(m)' /\ IsEvent(m)
    PROVE  IInv'
  <1>1. /\ Kept(client)' /\ ExitsGood(client)' /\ Whole(client)'
        /\ ViewGood' /\ QueueGood' /\ ReplayIsFetched'
    BY DaemonMoves
  <1>2. CASE up
    <2>1. wire' = wire \o t
      BY <1>2 DEF Sent
    <2>2. /\ WireGood' /\ Fed' /\ EndIsTold' /\ ToSet(wire') = ToSet(wire) \cup ToSet(t)
      BY <2>1, WireGrows DEF IsEvent
    <2>3. LinkGood'
      BY <2>2, <1>2 DEF IInv, LinkGood, IsEvent
    <2> QED BY <1>1, <2>2, <2>3 DEF IInv
  <1>3. CASE ~up
    <2>1. wire = <<>> /\ wire' = <<>> /\ client'.phase \notin {"boot", "opening", "syncing", "ready"}
      BY <1>3 DEF IInv, LinkGood, Sent
    <2>2. ToSet(wire') = {} /\ InTurn(wire')
      BY <2>1, NothingCarried
    <2>3. WireGood' /\ Fed' /\ EndIsTold'
      BY <2>1, <2>2 DEF WireGood, Fed, EndIsTold
    <2>4. LinkGood'
      BY <2>1, <1>3 DEF IInv, LinkGood
    <2> QED BY <1>1, <2>3, <2>4 DEF IInv
  <1> QED BY <1>2, <1>3

\* What is pending, as it is sent.
LEMMA PendingSent ==
    ASSUME IInv, NEW n \in 0..(produced - published)
    PROVE  LET t == SubSeq(PendingOutput, 1, n) IN
           /\ t \in Seq(Messages) /\ InTurn(t) /\ Seqs(t) = (published + 1)..(published + n)
           /\ \A m \in ToSet(t) : m.type = "data" /\ m.seq \in (published + 1)..(published + n) /\ m.out = <<m.seq>>
           /\ n = produced - published => PendingOutput = t
  <1> DEFINE P == PendingOutput
             t == SubSeq(P, 1, n)
  <1>1. produced \in 0..MaxSeq /\ published \in 0..produced /\ MaxSeq \in Nat /\ n \in Nat
    BY BoundsAssumption DEF IInv, TypeOK
  <1>2. ASSUME NEW k \in 1..(produced - published)
        PROVE  /\ Data(<<published + k>>) \in Messages
               /\ Data(<<published + k>>).type = "data" /\ Data(<<published + k>>).seq = published + k
               /\ Data(<<published + k>>).out = <<published + k>>
    <2>1. Last(<<published + k>>) = published + k
      BY DEF Last
    <2>2. published + k \in Emissions /\ published + k \in -1..MaxSeq
      BY <1>1 DEF Emissions
    <2>3. <<published + k>> \in Seq(Emissions)
      BY <2>2
    <2> QED BY <2>1, <2>2, <2>3, Zenon DEF Data, Messages
  <1>3. P \in Seq(Messages) /\ Len(P) = produced - published /\ \A k \in 1..(produced - published) : P[k] = Data(<<published + k>>)
    <2>1. P = [k \in 1..(produced - published) |-> Data(<<published + k>>)]
      BY DEF PendingOutput
    <2>2. produced - published \in Nat
      BY <1>1
    <2> HIDE DEF P
    <2>3. \A k \in 1..(produced - published) : P[k] = Data(<<published + k>>) /\ P[k] \in Messages
      BY <2>1, <1>2
    <2>4. P \in [1..(produced - published) -> Messages]
      BY <2>1, <2>3, Zenon
    <2>5. P \in Seq(Messages)
      <3>1. \A N \in Nat : [1..N -> Messages] \subseteq Seq(Messages)
        BY SeqDef
      <3> QED BY <2>2, <2>4, <3>1, Zenon
    <2>6. Len(P) = produced - published
      BY <2>1, <2>2, <2>5
    <2> QED BY <2>3, <2>5, <2>6
  <1> HIDE DEF P
  <1>4. /\ t \in Seq(Messages) /\ Len(t) = n /\ DOMAIN t = 1..n
        /\ \A k \in 1..n : t[k] = P[k]
    BY <1>1, <1>3
  <1>5. ASSUME NEW k \in 1..n
        PROVE  t[k].type = "data" /\ t[k].seq = published + k /\ t[k].out = <<published + k>>
    <2>1. k \in 1..(produced - published)
      BY <1>1
    <2> QED BY <2>1, <1>2, <1>3, <1>4
  <1> HIDE DEF t
  <1>6. InTurn(t)
    <2> SUFFICES ASSUME NEW i \in 1..n, NEW j \in 1..n, i < j PROVE Follows(t[i], t[j])
      BY <1>4 DEF InTurn
    <2>1. t[i].seq < t[j].seq
      BY <1>1, <1>5
    <2> QED BY <2>1, <1>5 DEF Follows
  <1>7. ASSUME NEW m \in ToSet(t)
        PROVE  m.type = "data" /\ m.seq \in (published + 1)..(published + n) /\ m.out = <<m.seq>>
    <2>1. PICK k \in 1..n : m = t[k]
      BY <1>4 DEF ToSet
    <2>2. published + k \in (published + 1)..(published + n)
      BY <1>1
    <2> QED BY <2>1, <2>2, <1>5
  <1>8. ASSUME NEW l \in (published + 1)..(published + n) PROVE l \in Seqs(t)
    <2>1. l - published \in 1..n /\ published + (l - published) = l
      BY <1>1
    <2>2. t[l - published] \in ToSet(t) /\ t[l - published].type = "data" /\ t[l - published].seq = l
      BY <2>1, <1>4, <1>5 DEF ToSet
    <2> QED BY <2>2 DEF Seqs, SeqsOf
  <1>9. Seqs(t) = (published + 1)..(published + n)
    BY <1>7, <1>8 DEF Seqs, SeqsOf
  <1>10. ASSUME n = produced - published PROVE P = t
    BY <1>3, <1>4, <1>10, SeqEqual
  <1> QED BY <1>4, <1>6, <1>7, <1>9, <1>10 DEF t, P

LEMMA FlushKeeps ==
    ASSUME NoBunching, IInv, Flush
    PROVE  IInv'
  <1>1. /\ ~ended /\ published + 1 <= produced /\ published' = published + 1
        /\ wire' = Sent(SubSeq(PendingOutput, 1, 1))
        /\ UNCHANGED <<produced, ended, up, asked, barrier, client, reply, view, drops>>
    BY Together DEF Flush, NoBunching, May, viewVars
  <1>2. produced \in 0..MaxSeq /\ published \in 0..produced /\ MaxSeq \in Nat
    BY BoundsAssumption DEF IInv, TypeOK
  <1> DEFINE t == SubSeq(PendingOutput, 1, 1)
  <1>3. 1 \in 0..(produced - published)
    BY <1>1, <1>2
  <1>4. /\ t \in Seq(Messages) /\ InTurn(t) /\ Seqs(t) = (published + 1)..(published + 1)
        /\ \A m \in ToSet(t) : m.type = "data" /\ m.seq \in (published + 1)..(published + 1) /\ m.out = <<m.seq>>
    BY <1>3, PendingSent
  <1> HIDE DEF t
  <1>5. Onward
    BY <1>1, <1>2 DEF Onward, IInv, TypeOK
  <1>6. wire' \in Seq(Messages)
    <2>1. wire \in Seq(Messages)
      BY DEF IInv, TypeOK
    <2> QED BY <2>1, <1>1, <1>4, ConcatJoins DEF Sent, t
  <1>7. TypeOK'
    BY <1>1, <1>2, <1>6 DEF IInv, TypeOK
  <1>8. ASSUME NEW m \in ToSet(wire), NEW n \in ToSet(t) PROVE Follows(m, n)
    <2>1. n.type = "data" /\ n.seq = published + 1
      BY <1>2, <1>4
    <2>2. Honest(m)
      BY DEF IInv, WireGood
    <2>3. m.type = "data" => m.seq < n.seq
      BY <2>1, <2>2, <1>2 DEF Honest
    <2> QED BY <2>1, <2>3 DEF Follows
  <1>9. ASSUME NEW m \in ToSet(t) PROVE Honest(m)' /\ IsEvent(m)
    <2>1. m.seq \in 1..published'
      BY <1>1, <1>2, <1>4
    <2> QED BY <2>1, <1>4 DEF Honest, IsEvent
  <1>10. (published + 1)..published' \subseteq Seqs(t)
    BY <1>1, <1>4
  <1>11. wire' = Sent(t)
    BY <1>1 DEF t
  <1> QED BY <1>1, <1>4, <1>5, <1>7, <1>8, <1>9, <1>10, <1>11, SentKeeps DEF viewVars

LEMMA ExitKeeps ==
    ASSUME NoBunching, IInv, Exit
    PROVE  IInv'
  <1>1. /\ ~ended /\ ended' = TRUE /\ published' = produced /\ barrier' = NoBarrier
        /\ wire' = Sent(Append(PendingOutput, Exited))
        /\ UNCHANGED <<produced, up, asked, client, reply, view, drops>>
    BY Together DEF Exit, viewVars
  <1>2. produced \in 0..MaxSeq /\ published \in 0..produced /\ MaxSeq \in Nat
    BY BoundsAssumption DEF IInv, TypeOK
  <1> DEFINE p == PendingOutput
             t == Append(p, Exited)
             k == produced - published
  <1>3. k \in 0..k /\ published + k = produced
    BY <1>2
  <1>4. /\ p \in Seq(Messages) /\ InTurn(p) /\ Seqs(p) = (published + 1)..produced
        /\ \A m \in ToSet(p) : m.type = "data" /\ m.seq \in (published + 1)..produced /\ m.out = <<m.seq>>
    BY <1>3, PendingSent
  <1> HIDE DEF p
  <1>5. /\ t \in Seq(Messages) /\ ToSet(t) = ToSet(p) \cup {Exited} /\ Seqs(t) = Seqs(p) /\ InTurn(t)
    <2>1. Exited \in Messages /\ Exited.type = "exit"
      BY ExitTyped DEF Exited
    <2>2. \A m \in ToSet(p) : Follows(m, Exited)
      BY <2>1, <1>4 DEF Follows
    <2> QED BY <2>1, <2>2, <1>4, InTurnAppend
  <1> HIDE DEF t
  <1>6. Onward
    BY <1>1, <1>2 DEF Onward, IInv, TypeOK
  <1>7. wire' \in Seq(Messages)
    <2>1. wire \in Seq(Messages)
      BY DEF IInv, TypeOK
    <2> QED BY <2>1, <1>1, <1>5, ConcatJoins DEF Sent, t, p
  <1>8. TypeOK'
    BY <1>1, <1>2, <1>7 DEF IInv, TypeOK, NoBarrier
  <1>9. ASSUME NEW m \in ToSet(wire), NEW n \in ToSet(t) PROVE Follows(m, n)
    <2>1. Honest(m) /\ (m.type = "error" => ended)
      BY DEF IInv, WireGood
    <2>2. n.type = "exit" \/ (n.type = "data" /\ n.seq \in (published + 1)..produced)
      BY <1>4, <1>5 DEF Exited
    <2>3. m.type = "data" /\ n.type = "data" => m.seq < n.seq
      BY <2>1, <2>2, <1>2 DEF Honest
    <2> QED BY <2>1, <2>2, <2>3, <1>1 DEF Follows
  <1>10. ASSUME NEW m \in ToSet(t) PROVE Honest(m)' /\ IsEvent(m)
    <2>1. CASE m = Exited
      BY <2>1, <1>1 DEF Honest, IsEvent, Exited
    <2>2. CASE m \in ToSet(p)
      <3>1. m.seq \in 1..published'
        BY <2>2, <1>1, <1>2, <1>4
      <3> QED BY <3>1, <2>2, <1>4 DEF Honest, IsEvent
    <2> QED BY <2>1, <2>2, <1>5
  <1>11. (published + 1)..published' \subseteq Seqs(t) /\ HasExit(t)
    BY <1>1, <1>4, <1>5 DEF HasExit, Exited
  <1>12. wire' = Sent(t)
    BY <1>1 DEF t, p
  <1> QED BY <1>1, <1>5, <1>6, <1>8, <1>9, <1>10, <1>11, <1>12, SentKeeps DEF viewVars

\* An answer of the daemon.
LEMMA AnswerKeeps ==
    ASSUME IInv, UNCHANGED <<daemonVars, up, client, viewVars, drops>>, up,
           barrier' \in {barrier, NoBarrier}, asked' \in {"none", asked},
           asked' = "list" => client.phase # "syncing",
           NEW e \in Messages, wire' = Append(wire, e), ~IsEvent(e),
           \A m \in ToSet(wire) : Follows(m, e), Honest(e),
           e.type = "list" => ListGood(e)',
           e.type = "snapshot" => SnapshotGood(e),
           e.type = "error" => client.phase = "ready" /\ ended
    PROVE  IInv'
  <1>1. Onward /\ published' = published /\ UNCHANGED <<produced, ended, reply, view>>
    BY StaysPut DEF IInv, daemonVars, viewVars
  <1>2. /\ Kept(client)' /\ ExitsGood(client)' /\ Whole(client)'
        /\ ViewGood' /\ QueueGood' /\ ReplayIsFetched'
    BY <1>1, DaemonMoves
  <1>3. wire \in Seq(Messages) /\ published \in Int
    BY DEF IInv, TypeOK
  <1>4. /\ wire' = wire \o <<e>> /\ <<e>> \in Seq(Messages)
        /\ ToSet(<<e>>) = {e} /\ InTurn(<<e>>)
    BY <1>3, OneMessage
  <1>5. (published + 1)..published' \subseteq Seqs(<<e>>)
    BY <1>1, <1>3
  <1>6. e.type = "snapshot" => SnapshotGood(e)'
    <2>1. Seqs(wire) \subseteq Seqs(wire')
      BY <1>3, InTurnAppend
    <2> QED BY <2>1, <1>1 DEF SnapshotGood
  <1>7. Honest(e)'
    BY <1>1, HonestStays DEF IInv
  <1>8. /\ wire' \in Seq(Messages) /\ WireGood' /\ Fed' /\ EndIsTold'
        /\ ToSet(wire') = ToSet(wire) \cup {e}
    BY <1>1, <1>4, <1>5, <1>6, <1>7, WireGrows
  <1>9. TypeOK'
    BY <1>1, <1>8 DEF IInv, TypeOK, NoBarrier
  <1>10. LinkGood'
    BY <1>8 DEF IInv, LinkGood
  <1> QED BY <1>2, <1>8, <1>9, <1>10 DEF IInv

LEMMA AnswerListKeeps ==
    ASSUME IInv, AnswerList
    PROVE  IInv'
  <1>1. /\ up /\ asked = "list" /\ asked' = "none" /\ wire' = Append(wire, Listed)
        /\ UNCHANGED <<produced, published, ended, up, barrier, client, reply, view, drops>>
    BY DEF AnswerList, daemonVars, viewVars
  <1>2. produced \in 0..MaxSeq /\ published \in 0..produced /\ MaxSeq \in Nat /\ client.cur \in 0..MaxSeq
    BY BoundsAssumption DEF IInv, TypeOK, Clients
  <1>3. client.phase = "syncing" /\ (\A m \in ToSet(wire) : m.type # "list") /\ client.cur <= produced
    BY <1>1 DEF IInv, LinkGood, Kept, InBounds
  <1>0. PICK e : e = Listed
    OBVIOUS
  <1>4. /\ e \in Messages /\ e.type = "list" /\ (ended => e.seq = -1) /\ (~ended => e.seq = produced)
    <2>1. (IF ended THEN -1 ELSE produced) \in -1..MaxSeq /\ <<>> \in Seq(Emissions)
      BY <1>2
    <2>2. e \in Messages
      BY <1>0, <2>1, Zenon DEF Listed, Messages
    <2> QED BY <1>0, <2>2 DEF Listed
  <1>5. wire' = Append(wire, e)
    BY <1>0, <1>1
  <1>6. ASSUME NEW m \in ToSet(wire) PROVE Follows(m, e)
    <2>1. Honest(m) /\ m.type # "list"
      BY <1>3 DEF IInv, WireGood
    <2>2. CASE ended
      BY <2>1, <2>2, <1>4 DEF Follows
    <2>3. CASE ~ended
      <3>1. m.type = "data" => m.seq <= e.seq
        BY <2>1, <2>3, <1>2, <1>4 DEF Honest
      <3>2. m.type # "exit"
        BY <2>1, <2>3 DEF Honest
      <3> QED BY <2>1, <3>1, <3>2, <1>4 DEF Follows
    <2> QED BY <2>2, <2>3
  <1>7. ListGood(e)'
    <2>1. CASE ended
      BY <2>1, <1>1, <1>3, <1>4 DEF ListGood
    <2>2. CASE ~ended
      <3>1. e.seq = produced
        BY <2>2, <1>4
      <3>2. e.seq \in client.cur..produced /\ (e.seq + 1)..published = {}
        BY <3>1, <1>2, <1>3
      <3>3. Within(Seqs(client.queued), e.seq)
        <4>1. \A m \in ToSet(client.queued) : m.type = "data" => m.seq \in 1..published
          BY DEF IInv, QueueGood, Honest
        <4> QED BY <3>1, <4>1, <1>2 DEF Within, Seqs, SeqsOf
      <3> QED BY <2>2, <3>1, <3>2, <3>3, <1>1, <1>2, <1>3 DEF ListGood
    <2> QED BY <2>1, <2>2
  <1>8. ~IsEvent(e) /\ Honest(e) /\ e.type # "snapshot" /\ e.type # "error"
    BY <1>4 DEF IsEvent, Honest
  <1> QED BY <1>1, <1>4, <1>5, <1>6, <1>7, <1>8, AnswerKeeps DEF daemonVars, viewVars

LEMMA TakeSnapshotKeeps ==
    ASSUME IInv, TakeSnapshot
    PROVE  IInv'
  <1>1. /\ up /\ asked = "snapshot" /\ asked' = "none"
        /\ UNCHANGED <<produced, published, ended, up, client, reply, view, drops>>
    BY DEF TakeSnapshot, daemonVars, viewVars
  <1>2. client.phase = "ready"
    BY <1>1 DEF IInv, LinkGood
  <1>3. CASE ended
    <2>0. PICK e : e = Unknown
      OBVIOUS
    <2>1. wire' = Append(wire, e) /\ barrier' = barrier
      BY <2>0, <1>3 DEF TakeSnapshot
    <2>2. e \in Messages /\ e.type = "error"
      BY <2>0, ExitTyped DEF Unknown
    <2>3. \A m \in ToSet(wire) : Follows(m, e)
      BY <2>2 DEF Follows
    <2>4. ~IsEvent(e) /\ Honest(e)
      BY <2>2 DEF IsEvent, Honest
    <2> QED BY <2>1, <2>2, <2>3, <2>4, <1>1, <1>2, <1>3, AnswerKeeps DEF daemonVars, viewVars
  <1>4. CASE ~ended
    <2>1. barrier' = produced /\ UNCHANGED wire
      BY <1>4 DEF TakeSnapshot
    <2>2. Onward
      BY <1>1, StaysPut DEF IInv, daemonVars
    <2>3. /\ Kept(client)' /\ ExitsGood(client)' /\ Whole(client)'
          /\ ViewGood' /\ QueueGood' /\ ReplayIsFetched'
      BY <1>1, <2>2, DaemonMoves DEF viewVars
    <2>4. TypeOK'
      BY <1>1, <2>1 DEF IInv, TypeOK
    <2>5. LinkGood'
      BY <1>1, <1>2, <2>1 DEF IInv, LinkGood
    <2>6. WireGood' /\ Fed' /\ EndIsTold'
      BY <1>1, <2>1 DEF IInv, WireGood, Fed, EndIsTold, InTurn, Follows, Honest, ListGood, SnapshotGood,
                        HasExit, Seqs, Within
    <2> QED BY <2>3, <2>4, <2>5, <2>6 DEF IInv
  <1> QED BY <1>3, <1>4

LEMMA AnswerSnapshotKeeps ==
    ASSUME NoBunching, IInv, AnswerSnapshot
    PROVE  IInv'
  <1>0. PICK e : e = Snapshot(produced, UpTo(produced))
    OBVIOUS
  <1>1. /\ barrier # NoBarrier /\ barrier' = NoBarrier /\ wire' = Append(wire, e)
        /\ UNCHANGED <<produced, published, ended, up, asked, client, reply, view, drops>>
    BY <1>0 DEF AnswerSnapshot, NoBunching, May, daemonVars, viewVars
  <1>2. produced \in 0..MaxSeq /\ published \in 0..produced /\ MaxSeq \in Nat /\ client.cur \in 0..MaxSeq
    BY BoundsAssumption DEF IInv, TypeOK, Clients
  <1>3. client.phase = "ready" /\ up /\ client.cur <= produced
    BY <1>1 DEF IInv, LinkGood, Kept, InBounds
  <1>4. /\ e \in Messages /\ e.type = "snapshot" /\ e.seq = produced /\ e.out = UpTo(produced)
    <2>1. produced \in -1..MaxSeq /\ produced \in Nat /\ produced <= MaxSeq
      BY <1>2
    <2>2. UpTo(produced) \in Seq(Emissions)
      BY <2>1, <1>2, PrefixIsWhole DEF Emissions
    <2> QED BY <1>0, <2>1, <2>2, Zenon DEF Snapshot, Messages
  <1>5. ASSUME NEW m \in ToSet(wire) PROVE Follows(m, e)
    <2>1. Honest(m)
      BY DEF IInv, WireGood
    <2>2. m.type \in {"data", "snapshot"} => m.seq <= e.seq
      BY <2>1, <1>2, <1>4 DEF Honest
    <2> QED BY <2>2, <1>4 DEF Follows
  <1>6. SnapshotGood(e)
    <2>1. client.cur <= e.seq /\ (e.seq + 1)..published = {}
      BY <1>2, <1>3, <1>4
    <2> QED BY <2>1, <1>3 DEF SnapshotGood
  <1>7. ~IsEvent(e) /\ Honest(e)
    <2>1. produced \in 0..produced
      BY <1>2
    <2> QED BY <2>1, <1>4 DEF IsEvent, Honest
  <1> QED BY <1>1, <1>3, <1>4, <1>5, <1>6, <1>7, AnswerKeeps DEF daemonVars, viewVars

-----------------------------------------------------------------------------
\* The steps of the main process

LEMMA MainMoves ==
    ASSUME IInv, UNCHANGED <<daemonVars, viewVars>>,
           Kept(client'), ExitsGood(client'), Whole(client'),
           \A m \in ToSet(client'.queued) : Honest(m) /\ IsEvent(m)
    PROVE  /\ Kept(client)' /\ ExitsGood(client)' /\ Whole(client)'
           /\ ViewGood' /\ QueueGood' /\ (client \in Clients)'
  <1>1. Onward /\ UNCHANGED viewVars
    BY StaysPut DEF IInv
  <1>2. Kept(client)' /\ ExitsGood(client)' /\ ViewGood'
    BY <1>1, KeptMoves, ExitsStay, ViewStays DEF IInv
  <1>3. Whole(client)'
    BY DEF Whole
  <1>4. QueueGood'
    BY <1>1, HonestStays DEF IInv, QueueGood
  <1>5. (client \in Clients)'
    BY <1>2 DEF Kept
  <1> QED BY <1>2, <1>3, <1>4, <1>5

LEMMA OnlyEvents ==
    ASSUME IInv, client.phase \notin {"syncing", "ready"}, NEW m \in ToSet(wire)
    PROVE  IsEvent(m)
  <1>1. m \in Messages
    <2>1. wire \in Seq(Messages)
      BY DEF IInv, TypeOK
    <2> QED BY <2>1, SeqsTyped
  <1> QED BY <1>1 DEF IInv, WireGood, ListGood, SnapshotGood, Messages, IsEvent

\* A wire without answers.
LEMMA EventsAreGood ==
    ASSUME IInv, UNCHANGED daemonVars, InTurn(wire'),
           \A m \in ToSet(wire') : m \in ToSet(wire) /\ IsEvent(m)
    PROVE  WireGood'
  <1>1. \A m \in ToSet(wire) : Honest(m)'
    BY StaysPut, HonestStays DEF IInv, WireGood
  <1>2. InTurn(wire)'
    BY DEF InTurn, Follows
  <1> QED BY <1>1, <1>2 DEF WireGood, IsEvent

LEMMA SuffixIsPart ==
    ASSUME NEW s \in Seq(Messages), NEW n \in 0..Len(s), InTurn(s)
    PROVE  LET r == SubSeq(s, n + 1, Len(s)) IN
           r \in Seq(Messages) /\ InTurn(r) /\ ToSet(r) \subseteq ToSet(s)
  <1> DEFINE r == SubSeq(s, n + 1, Len(s))
  <1>1. Len(s) \in Nat /\ n \in 0..Len(s) /\ DOMAIN s = 1..Len(s)
    OBVIOUS
  <1>2. r \in Seq(Messages) /\ DOMAIN r = 1..(Len(s) - n) /\ \A k \in 1..(Len(s) - n) : r[k] = s[k + n]
    BY <1>1
  <1> HIDE DEF r
  <1>3. InTurn(r)
    <2> SUFFICES ASSUME NEW i \in 1..(Len(s) - n), NEW j \in 1..(Len(s) - n), i < j
                 PROVE  Follows(r[i], r[j])
      BY <1>2 DEF InTurn
    <2>1. i + n \in DOMAIN s /\ j + n \in DOMAIN s /\ i + n < j + n
      BY <1>1
    <2>2. Follows(s[i + n], s[j + n])
      BY <2>1, Zenon DEF InTurn
    <2> QED BY <2>2, <1>2
  <1>4. ToSet(r) \subseteq ToSet(s)
    <2>1. \A k \in 1..(Len(s) - n) : k + n \in DOMAIN s
      BY <1>1
    <2> QED BY <2>1, <1>2 DEF ToSet
  <1> QED BY <1>2, <1>3, <1>4 DEF r

LEMMA AdoptKeeps ==
    ASSUME IInv, Adopt
    PROVE  IInv'
  <1> DEFINE a == [client EXCEPT !.phase = "ready", !.alive = TRUE]
  <1>1. /\ client.phase = "boot" /\ client' = Enqueue(a) /\ asked' = "snapshot"
        /\ UNCHANGED <<produced, published, ended, up, barrier, wire, reply, view, drops>>
    BY DEF Adopt, daemonVars, viewVars
  <1>2. client \in Clients /\ Kept(client) /\ client.exits = 0 /\ client.replayPending
    BY <1>1 DEF IInv, TypeOK, ExitsGood
  <1>3. a \in Clients
    BY <1>2, Zenon DEF Clients
  <1>4. /\ a.alive /\ a.exits = 0 /\ a.replayPending /\ a.phase = "ready" /\ a.queued = client.queued
        /\ a.cur = client.cur /\ a.replayed = client.replayed
        /\ a.screen = client.screen /\ a.lane = client.lane /\ a.ipc = client.ipc
    BY <1>2 DEF Clients
  <1> HIDE DEF a
  <1>5. Kept(a)
    BY <1>2, <1>3, <1>4, KeptAlike
  <1>6. /\ client' \in Clients /\ Alike(a, client') /\ client'.running
        /\ client'.phase = "ready" /\ client'.queued = client.queued
    BY <1>1, <1>3, <1>4, Enqueued
  <1>7. Kept(client')
    BY <1>5, <1>6, AlikeKeeps
  <1>8. client'.alive /\ client'.exits = 0 /\ client'.replayPending
    BY <1>4, <1>6 DEF Alike
  <1>9. /\ Kept(client)' /\ ExitsGood(client)' /\ Whole(client)'
        /\ ViewGood' /\ QueueGood' /\ (client \in Clients)'
    <2>1. ExitsGood(client') /\ Whole(client')
      BY <1>6, <1>8 DEF ExitsGood, Whole
    <2>2. \A m \in ToSet(client'.queued) : Honest(m) /\ IsEvent(m)
      BY <1>6 DEF IInv, QueueGood
    <2> QED BY <2>1, <2>2, <1>1, <1>7, MainMoves DEF daemonVars, viewVars
  <1>10. WireGood'
    BY <1>1, OnlyEvents, EventsAreGood DEF daemonVars, IInv, WireGood
  <1>11. TypeOK'
    BY <1>1, <1>9 DEF IInv, TypeOK
  <1>12. LinkGood'
    BY <1>1, <1>6 DEF IInv, LinkGood
  <1>13. Fed' /\ EndIsTold' /\ ReplayIsFetched'
    BY <1>1, <1>6, <1>8 DEF IInv, Fed, EndIsTold, ReplayIsFetched, HasExit
  <1> QED BY <1>9, <1>10, <1>11, <1>12, <1>13 DEF IInv

LEMMA DropKeeps ==
    ASSUME IInv, Drop
    PROVE  IInv'
  <1>1. /\ drops < MaxDrops /\ drops' = drops + 1
        /\ up' = FALSE /\ asked' = "none" /\ barrier' = NoBarrier /\ wire' = <<>>
        /\ client' = [client EXCEPT !.phase = "down", !.queued = <<>>]
        /\ UNCHANGED <<produced, published, ended, reply, view>>
        /\ client.phase \in {"opening", "syncing", "ready"}
    BY DEF Drop, daemonVars, viewVars
  <1>2. client \in Clients /\ Kept(client) /\ ExitsGood(client) /\ Whole(client)
    BY DEF IInv, TypeOK
  <1>3. client' \in Clients
    <2>1. <<>> \in Seq(Messages)
      OBVIOUS
    <2> QED BY <2>1, <1>1, <1>2, Zenon DEF Clients
  <1>4. Alike(client, client') /\ client'.phase = "down" /\ client'.queued = <<>>
    BY <1>1, <1>2 DEF Alike, Clients
  <1>5. Kept(client') /\ Whole(client')
    BY <1>2, <1>3, <1>4, AlikeKeeps
  <1>6. ExitsGood(client')
    BY <1>1, <1>2, <1>4 DEF ExitsGood, Alike
  <1>7. ToSet(client'.queued) = {} /\ ToSet(wire') = {} /\ InTurn(wire')
    BY <1>1, <1>4, NothingCarried
  <1>8. /\ Kept(client)' /\ ExitsGood(client)' /\ Whole(client)'
        /\ ViewGood' /\ QueueGood' /\ (client \in Clients)'
    BY <1>1, <1>5, <1>6, <1>7, MainMoves DEF daemonVars, viewVars
  <1>9. WireGood'
    BY <1>7 DEF WireGood
  <1>10. TypeOK'
    <2>1. drops' \in 0..MaxDrops
      BY <1>1, BoundsAssumption DEF IInv, TypeOK
    <2>2. wire' \in Seq(Messages) /\ barrier' \in -1..produced'
      BY <1>1 DEF IInv, TypeOK, NoBarrier
    <2> QED BY <2>1, <2>2, <1>1, <1>8 DEF IInv, TypeOK
  <1>11. LinkGood' /\ Fed' /\ EndIsTold' /\ ReplayIsFetched'
    BY <1>1, <1>4 DEF LinkGood, Fed, EndIsTold, ReplayIsFetched
  <1> QED BY <1>8, <1>9, <1>10, <1>11 DEF IInv

LEMMA OpenKeeps ==
    ASSUME IInv, Open
    PROVE  IInv'
  <1>1. /\ client.phase = "down" /\ up' = TRUE
        /\ client' = [client EXCEPT !.phase = "opening"]
        /\ UNCHANGED <<produced, published, ended, asked, barrier, wire, reply, view, drops>>
    BY DEF Open, daemonVars, viewVars
  <1>2. client \in Clients /\ Kept(client) /\ ExitsGood(client) /\ Whole(client)
    BY DEF IInv, TypeOK
  <1>3. client' \in Clients
    BY <1>1, <1>2, Zenon DEF Clients
  <1>4. Alike(client, client') /\ client'.phase = "opening" /\ client'.queued = client.queued
    BY <1>1, <1>2 DEF Alike, Clients
  <1>5. Kept(client') /\ Whole(client')
    BY <1>2, <1>3, <1>4, AlikeKeeps
  <1>6. ExitsGood(client')
    BY <1>1, <1>2, <1>4 DEF ExitsGood, Alike
  <1>7. /\ Kept(client)' /\ ExitsGood(client)' /\ Whole(client)'
        /\ ViewGood' /\ QueueGood' /\ (client \in Clients)'
    BY <1>1, <1>4, <1>5, <1>6, MainMoves DEF IInv, QueueGood, daemonVars, viewVars
  <1>8. WireGood'
    BY <1>1, OnlyEvents, EventsAreGood DEF daemonVars, IInv, WireGood
  <1>9. TypeOK'
    BY <1>1, <1>7 DEF IInv, TypeOK
  <1>10. LinkGood' /\ Fed' /\ EndIsTold' /\ ReplayIsFetched'
    BY <1>1, <1>4 DEF IInv, LinkGood, Fed, EndIsTold, ReplayIsFetched
  <1> QED BY <1>7, <1>8, <1>9, <1>10 DEF IInv

LEMMA AttachKeeps ==
    ASSUME IInv, Attach
    PROVE  IInv'
  <1>1. /\ client.phase = "opening" /\ asked' = "list"
        /\ client' = [client EXCEPT !.phase = "syncing", !.queued = <<>>]
        /\ UNCHANGED <<produced, published, ended, up, barrier, reply, view, drops>>
    BY DEF Attach, daemonVars, viewVars
  <1>2. client \in Clients /\ Kept(client) /\ ExitsGood(client) /\ Whole(client)
        /\ wire \in Seq(Messages) /\ InTurn(wire)
    BY DEF IInv, TypeOK, WireGood
  <1>3. client' \in Clients
    <2>1. <<>> \in Seq(Messages)
      OBVIOUS
    <2> QED BY <2>1, <1>1, <1>2, Zenon DEF Clients
  <1>4. Alike(client, client') /\ client'.phase = "syncing" /\ client'.queued = <<>>
    BY <1>1, <1>2 DEF Alike, Clients
  <1>5. Kept(client') /\ Whole(client')
    BY <1>2, <1>3, <1>4, AlikeKeeps
  <1>6. ExitsGood(client')
    BY <1>1, <1>2, <1>4 DEF ExitsGood, Alike
  <1>7. ToSet(client'.queued) = {}
    BY <1>4, NothingCarried
  <1>8. /\ Kept(client)' /\ ExitsGood(client)' /\ Whole(client)'
        /\ ViewGood' /\ QueueGood' /\ (client \in Clients)'
    BY <1>1, <1>5, <1>6, <1>7, MainMoves DEF daemonVars, viewVars
  <1>9. wire' \in Seq(Messages) /\ InTurn(wire') /\ ToSet(wire') \subseteq ToSet(wire)
    <2>1. PICK n \in 0..Len(wire) : wire' = SubSeq(wire, n + 1, Len(wire))
      BY DEF Attach
    <2> QED BY <2>1, <1>2, SuffixIsPart
  <1>10. \A m \in ToSet(wire') : m \in ToSet(wire) /\ IsEvent(m)
    BY <1>1, <1>9, OnlyEvents
  <1>11. WireGood'
    BY <1>1, <1>9, <1>10, EventsAreGood DEF daemonVars
  <1>12. TypeOK'
    BY <1>1, <1>8, <1>9 DEF IInv, TypeOK
  <1>13. LinkGood'
    BY <1>1, <1>4, <1>10 DEF IInv, LinkGood, IsEvent
  <1>14. Fed' /\ EndIsTold' /\ ReplayIsFetched'
    BY <1>1, <1>4 DEF Fed, EndIsTold, ReplayIsFetched
  <1> QED BY <1>8, <1>11, <1>12, <1>13, <1>14 DEF IInv

LEMMA GiveUpKeeps ==
    ASSUME NoBunching, IInv, GiveUp
    PROVE  IInv'
  <1> DEFINE a == IF client.alive THEN EmitExit(client) ELSE client
  <1>1. /\ client.phase = "down"
        /\ client' = [a EXCEPT !.phase = "off", !.running = FALSE, !.again = FALSE]
        /\ UNCHANGED <<produced, published, ended, up, asked, barrier, wire, reply, view, drops>>
    BY DEF GiveUp, daemonVars, linkVars, viewVars
  <1>2. client \in Clients /\ Kept(client) /\ ExitsGood(client) /\ Whole(client)
    BY DEF IInv, TypeOK
  <1>3. /\ Kept(a) /\ ~a.alive /\ a.queued = client.queued /\ a.exits \in {client.exits, client.exits + 1}
        /\ a.exits <= 1
    <2>1. CASE client.alive
      <3>1. a = EmitExit(client) /\ client.exits = 0
        BY <2>1, <1>2 DEF ExitsGood
      <3>2. /\ ~EmitExit(client).alive /\ EmitExit(client).exits = client.exits + 1
            /\ EmitExit(client).queued = client.queued
        BY <1>2, ExitEmitted
      <3>3. Kept(EmitExit(client))
        BY <1>2, EmitExitKeeps
      <3> HIDE DEF a
      <3> QED BY <3>1, <3>2, <3>3
    <2>2. CASE ~client.alive
      BY <2>2, <1>2 DEF ExitsGood
    <2> QED BY <2>1, <2>2
  <1> HIDE DEF a
  <1>4. a \in Clients
    BY <1>3 DEF Kept
  <1>5. client' \in Clients
    BY <1>1, <1>4, Zenon DEF Clients
  <1>6. Alike(a, client') /\ client'.phase = "off" /\ client'.queued = client.queued
    BY <1>1, <1>3, <1>4 DEF Alike, Clients
  <1>7. Kept(client')
    BY <1>3, <1>5, <1>6, AlikeKeeps
  <1>8. ExitsGood(client') /\ Whole(client')
    BY <1>3, <1>6 DEF ExitsGood, Alike, Whole
  <1>9. /\ Kept(client)' /\ ExitsGood(client)' /\ Whole(client)'
        /\ ViewGood' /\ QueueGood' /\ (client \in Clients)'
    BY <1>1, <1>6, <1>7, <1>8, MainMoves DEF IInv, QueueGood, daemonVars, viewVars
  <1>10. WireGood'
    BY <1>1, OnlyEvents, EventsAreGood DEF daemonVars, IInv, WireGood
  <1>11. TypeOK'
    BY <1>1, <1>9 DEF IInv, TypeOK
  <1>12. LinkGood' /\ Fed' /\ EndIsTold' /\ ReplayIsFetched'
    BY <1>1, <1>6 DEF IInv, LinkGood, Fed, EndIsTold, ReplayIsFetched
  <1> QED BY <1>9, <1>10, <1>11, <1>12 DEF IInv

LEMMA RefreshTimesOutKeeps ==
    ASSUME IInv, RefreshTimesOut
    PROVE  IInv'
  <1> DEFINE a == NextRefresh(client)
  <1>1. /\ client.phase = "ready" /\ client' = [a EXCEPT !.missed = TRUE]
        /\ asked' \in {"snapshot", "none"} /\ barrier' = NoBarrier
        /\ wire' = wire \/ \E i \in Answers : wire' = RemoveAt(wire, i)
        /\ UNCHANGED <<produced, published, ended, up, reply, view, drops>>
    BY DEF RefreshTimesOut, daemonVars, viewVars
  <1>2. client \in Clients /\ Kept(client) /\ ExitsGood(client) /\ Whole(client)
        /\ wire \in Seq(Messages) /\ InTurn(wire)
    BY DEF IInv, TypeOK, WireGood
  <1>3. a \in Clients /\ Alike(client, a) /\ a.phase = "ready" /\ a.queued = client.queued
    BY <1>1, <1>2, Refreshed
  <1> HIDE DEF a
  <1>4. client' \in Clients
    BY <1>1, <1>3, Zenon DEF Clients
  <1>5. /\ Alike(client, client') /\ client'.phase = "ready" /\ client'.queued = client.queued
        /\ client'.missed
    BY <1>1, <1>3 DEF Alike, Clients
  <1>6. Kept(client') /\ Whole(client')
    BY <1>2, <1>4, <1>5, AlikeKeeps
  <1>7. ExitsGood(client')
    BY <1>1, <1>2, <1>5 DEF ExitsGood, Alike
  <1>8. /\ Kept(client)' /\ ExitsGood(client)' /\ Whole(client)'
        /\ ViewGood' /\ QueueGood' /\ (client \in Clients)'
    BY <1>1, <1>5, <1>6, <1>7, MainMoves DEF IInv, QueueGood, daemonVars, viewVars
  <1>9. /\ wire' \in Seq(Messages) /\ InTurn(wire') /\ ToSet(wire') \subseteq ToSet(wire)
        /\ Seqs(wire') = Seqs(wire) /\ (HasExit(wire) => HasExit(wire'))
    <2>1. CASE wire' = wire
      BY <2>1, <1>2
    <2>2. ASSUME NEW i \in Answers, wire' = RemoveAt(wire, i) PROVE <1>9!:
      <3>1. i \in DOMAIN wire /\ ~IsEvent(wire[i])
        BY DEF Answers
      <3> QED BY <3>1, <2>2, <1>2, InTurnRemove
    <2> QED BY <2>1, <2>2, <1>1
  <1>10. WireGood'
    <2>1. \A m \in ToSet(wire') : Honest(m)'
      BY <1>1, <1>9, StaysPut, HonestStays DEF IInv, WireGood, daemonVars
    <2>2. \A m \in ToSet(wire') : m.type # "list"
      BY <1>1, <1>9 DEF IInv, WireGood, ListGood
    <2>3. ASSUME NEW m \in ToSet(wire'), m.type = "snapshot" PROVE SnapshotGood(m)'
      <3>1. SnapshotGood(m)
        BY <2>3, <1>9 DEF IInv, WireGood
      <3> QED BY <3>1, <1>1, <1>5, <1>9 DEF SnapshotGood, Alike
    <2>4. \A m \in ToSet(wire') : m.type = "error" => client'.phase = "ready" /\ ended'
      BY <1>1, <1>5, <1>9 DEF IInv, WireGood
    <2>5. InTurn(wire)'
      BY <1>9 DEF InTurn, Follows
    <2> QED BY <2>1, <2>2, <2>3, <2>4, <2>5 DEF WireGood
  <1>11. TypeOK'
    <2>1. barrier' \in -1..produced'
      BY <1>1 DEF IInv, TypeOK, NoBarrier
    <2> QED BY <2>1, <1>1, <1>8, <1>9 DEF IInv, TypeOK
  <1>12. LinkGood'
    BY <1>1, <1>5 DEF IInv, LinkGood
  <1>13. Fed' /\ EndIsTold' /\ ReplayIsFetched'
    BY <1>1, <1>5, <1>9 DEF IInv, Fed, EndIsTold, ReplayIsFetched, Alike
  <1> QED BY <1>8, <1>10, <1>11, <1>12, <1>13 DEF IInv

LEMMA DeliverKeeps ==
    ASSUME NoBunching, IInv, Deliver
    PROVE  IInv'
  <1> DEFINE h == Head(client.lane)
             i == Append(client.ipc, h)
             l == Tail(client.lane)
  <1>1. /\ client \in Clients /\ Kept(client) /\ ExitsGood(client) /\ Whole(client)
        /\ client.lane \in Seq(Messages) /\ client.ipc \in Seq(Messages)
    BY DEF IInv, TypeOK, Clients
  <1>2. client.lane # <<>> /\ h \in Messages /\ l \in Seq(Messages)
    <2>1. client.lane # <<>>
      BY DEF Deliver
    <2> QED BY <2>1, <1>1, TailIsPart
  <1>3. /\ client' = [client EXCEPT !.ipc = i, !.lane = l]
        /\ UNCHANGED <<produced, published, ended, up, asked, barrier, wire, reply, view, drops>>
    <2>1. SubSeq(client.lane, 1, 1) = <<h>> /\ SubSeq(client.lane, 2, Len(client.lane)) = l
      BY <1>1, <1>2, HeadIsPart
    <2>2. client.ipc \o <<h>> = i
      BY <1>1, <1>2, OneMessage
    <2>3. client' = [client EXCEPT !.ipc = client.ipc \o Joined(SubSeq(client.lane, 1, 1)),
                                   !.lane = SubSeq(client.lane, 2, Len(client.lane))]
      <3>1. PICK n \in 1..1 :
               client' = [client EXCEPT !.ipc  = @ \o Joined(SubSeq(client.lane, 1, n)),
                                        !.lane = SubSeq(@, n + 1, Len(@))]
        BY Zenon DEF Deliver, NoBunching, May
      <3>2. n = 1 /\ n + 1 = 2
        BY <3>1
      <3> QED BY <3>1, <3>2, <1>1 DEF Clients
    <2>4. Joined(SubSeq(client.lane, 1, 1)) = <<h>>
      BY <2>1, Together
    <2> QED BY <2>1, <2>2, <2>3, <2>4 DEF Deliver, daemonVars, linkVars, viewVars
  <1>4. /\ i \in Seq(Messages) /\ ToSet(i) = ToSet(client.ipc) \cup {h}
        /\ Seqs(i) = Seqs(client.ipc) \cup (IF h.type = "data" THEN {h.seq} ELSE {})
        /\ InTurn(client.ipc) /\ (\A m \in ToSet(client.ipc) : Follows(m, h)) => InTurn(i)
    BY <1>1, <1>2, InTurnAppend
  <1>5. InTurn(client.lane) /\ InTurn(client.ipc)
    BY <1>1 DEF Kept, LaneGood, IpcGood
  <1>6. ToSet(client.lane) = {h} \cup ToSet(l)
    BY <1>1, <1>2, TailIsPart
  <1>7. h.type = "data" /\ Honest(h)
    BY <1>1, <1>6 DEF Kept, LaneGood
  <1>8. InTurn(l) /\ (\A k \in Seqs(l) : h.seq < k) /\ Seqs(client.lane) = Seqs(l) \cup {h.seq}
    BY <1>1, <1>2, <1>5, <1>7, InTurnHead
  <1> HIDE DEF h, i, l
  <1>9. client' \in Clients
    BY <1>1, <1>2, <1>3, <1>4, Zenon DEF Clients
  <1>10. /\ client'.ipc = i /\ client'.lane = l
         /\ client'.cur = client.cur /\ client'.replayed = client.replayed /\ client'.screen = client.screen
         /\ client'.alive = client.alive /\ client'.exits = client.exits
         /\ client'.replayPending = client.replayPending /\ Steady(client, client')
    BY <1>1, <1>3 DEF Clients, Steady
  <1>11. OnWay(client') = OnWay(client)
    BY <1>4, <1>7, <1>8, <1>10 DEF OnWay
  <1>12. \A k \in Seqs(client.ipc), n \in Seqs(client.lane) : k < n
    BY <1>1 DEF Kept, OneBehindTheOther, Below
  <1>13. ASSUME NEW m \in ToSet(client.ipc) PROVE Follows(m, h)
    <2>1. m.type = "data" \/ m.type = "snapshot"
      BY <1>1 DEF Kept, IpcGood
    <2>2. m.type = "data" => m.seq < h.seq
      BY <1>1, <1>8, <1>12, SeqsTyped
    <2> QED BY <2>1, <2>2, <1>7 DEF Follows
  <1>14. IpcGood(client')
    BY <1>1, <1>4, <1>5, <1>7, <1>10, <1>13 DEF Kept, IpcGood
  <1>15. LaneGood(client')
    BY <1>1, <1>6, <1>8, <1>10 DEF Kept, LaneGood
  <1>16. OneBehindTheOther(client')
    <2>1. \A k \in Seqs(i), n \in Seqs(l) : k < n
      BY <1>4, <1>7, <1>8, <1>12
    <2> QED BY <2>1, <1>1, <1>10, <1>11 DEF Kept, OneBehindTheOther, Below
  <1>17. InBounds(client') /\ Live(client') /\ RisesTo(client'.screen, client'.cur)
    BY <1>1, <1>10, <1>11 DEF Kept, InBounds, Live
  <1>18. Kept(client')
    BY <1>9, <1>14, <1>15, <1>16, <1>17 DEF Kept
  <1>19. ExitsGood(client') /\ Whole(client')
    BY <1>1, <1>10 DEF ExitsGood, Whole, Steady
  <1>20. /\ Kept(client)' /\ ExitsGood(client)' /\ Whole(client)'
         /\ ViewGood' /\ QueueGood' /\ (client \in Clients)'
    BY <1>3, <1>10, <1>18, <1>19, MainMoves DEF IInv, QueueGood, Steady, daemonVars, viewVars
  <1>21. TypeOK'
    BY <1>3, <1>20 DEF IInv, TypeOK
  <1>22. /\ client'.phase = client.phase /\ client'.queued = client.queued
         /\ client'.running = client.running /\ client'.missed = client.missed
    BY <1>10 DEF Steady
  <1>23. WireGood' /\ LinkGood'
    BY <1>3, <1>10, <1>22 DEF IInv, WireGood, LinkGood, InTurn, Follows, Honest, ListGood, SnapshotGood,
                              HasExit, Seqs, Within
  <1>24. Fed' /\ EndIsTold' /\ ReplayIsFetched'
    BY <1>3, <1>10, <1>22 DEF IInv, Fed, EndIsTold, ReplayIsFetched, HasExit, Seqs
  <1> QED BY <1>20, <1>21, <1>23, <1>24 DEF IInv

\* One message is read.
LEMMA ReadOne ==
    ASSUME NoBunching, IInv, Read
    PROVE  /\ client.phase \in {"boot", "syncing", "ready"} /\ wire # <<>> /\ wire' = Tail(wire)
           /\ UNCHANGED <<produced, published, ended, up, barrier, reply, view, drops>>
           /\ \/ IsEvent(Head(wire)) /\ client' = Handle(client, Head(wire)) /\ asked' = asked
              \/ /\ ~IsEvent(Head(wire)) /\ client' = Resume(client, Head(wire))
                 /\ asked' = IF client'.running THEN "snapshot" ELSE asked
  <1> DEFINE m == Head(wire)
             chunk == SubSeq(wire, 1, 1)
             handled == HandleAll(client, chunk)
             responses == {n \in ToSet(chunk) : ~IsEvent(n)}
  <1>1. /\ client.phase \in {"boot", "syncing", "ready"}
        /\ 1 <= Len(wire) /\ wire' = SubSeq(wire, 2, Len(wire))
        /\ \/ responses = {} /\ client' = handled /\ UNCHANGED asked
           \/ \E n \in responses :
                 client' = Resume(handled, n) /\ asked' = IF client'.running THEN "snapshot" ELSE asked
        /\ UNCHANGED <<produced, published, ended, up, barrier, reply, view, drops>>
    BY DEF Read, NoBunching, May, daemonVars, viewVars
  <1>2. wire \in Seq(Messages)
    BY DEF IInv, TypeOK
  <1>3. wire # <<>>
    BY <1>1, <1>2
  <1>4. chunk = <<m>> /\ wire' = Tail(wire)
    BY <1>1, <1>2, <1>3, HeadIsPart
  <1>5. ToSet(chunk) = {m}
    BY <1>4 DEF ToSet
  <1> HIDE DEF m
  <1>6. handled = Handle(client, m)
    <2>1. Len(<<m>>) = 1 /\ <<m>>[1] = m
      OBVIOUS
    <2>2. Len(<<m>>) \in Nat
      BY <2>1
    <2>3. PICK f : /\ f[0] = client
                   /\ \A n \in 1..Len(<<m>>) : f[n] = Handle(f[n - 1], <<m>>[n])
                   /\ HandleAll(client, <<m>>) = f[Len(<<m>>)]
      BY <2>2, HandledOneByOne
    <2>4. f[1] = Handle(f[1 - 1], <<m>>[1])
      BY <2>1, <2>3
    <2>5. f[1] = Handle(client, m)
      BY <2>1, <2>3, <2>4
    <2> QED BY <2>1, <2>3, <2>5, <1>4
  <1>7. ~IsEvent(m) => Handle(client, m) = client
    BY DEF Handle
  <1> HIDE DEF chunk, handled
  <1>8. CASE IsEvent(m)
    <2>1. responses = {}
      BY <1>5, <1>8
    <2> QED BY <2>1, <1>1, <1>3, <1>4, <1>6, <1>8 DEF m
  <1>9. CASE ~IsEvent(m)
    <2>1. responses = {m}
      BY <1>5, <1>9
    <2> HIDE DEF responses
    <2> QED BY <2>1, <1>1, <1>3, <1>4, <1>6, <1>7, <1>9 DEF m
  <1> QED BY <1>8, <1>9

\* What is left on the wire when its first message has been read.
LEMMA WireReads ==
    ASSUME IInv, wire # <<>>, wire' = Tail(wire), UNCHANGED daemonVars
    PROVE  LET m == Head(wire) IN
           /\ m \in Messages /\ m \in ToSet(wire) /\ Honest(m)
           /\ wire' \in Seq(Messages) /\ InTurn(wire') /\ InTurn(wire)'
           /\ ToSet(wire) = {m} \cup ToSet(wire')
           /\ \A n \in ToSet(wire') : Follows(m, n) /\ Honest(n)'
           /\ Seqs(wire) = Seqs(wire') \cup (IF m.type = "data" THEN {m.seq} ELSE {})
           /\ m.type = "data" => \A k \in Seqs(wire') : m.seq < k
           /\ HasExit(wire) => m.type = "exit" \/ HasExit(wire')
  <1> DEFINE m == Head(wire)
  <1>1. wire \in Seq(Messages) /\ InTurn(wire)
    BY DEF IInv, TypeOK, WireGood
  <1>2. m \in Messages /\ wire' \in Seq(Messages) /\ ToSet(wire) = {m} \cup ToSet(wire')
    BY <1>1, TailIsPart
  <1>3. /\ InTurn(wire') /\ \A n \in ToSet(wire') : Follows(m, n)
        /\ m.type = "data" => \A k \in Seqs(wire') : m.seq < k
        /\ Seqs(wire) = Seqs(wire') \cup (IF m.type = "data" THEN {m.seq} ELSE {})
    BY <1>1, InTurnHead
  <1> HIDE DEF m
  <1>4. \A n \in ToSet(wire) : Honest(n) /\ Honest(n)'
    BY StaysPut, HonestStays DEF IInv, WireGood
  <1>5. HasExit(wire) => m.type = "exit" \/ HasExit(wire')
    BY <1>2 DEF HasExit
  <1>6. InTurn(wire)'
    BY <1>3 DEF InTurn, Follows
  <1> QED BY <1>2, <1>3, <1>4, <1>5, <1>6 DEF m

\* Before the terminal is adopted.
LEMMA ReadBootKeeps ==
    ASSUME NoBunching, IInv, Read, client.phase = "boot"
    PROVE  IInv'
  <1>1. PICK m : m = Head(wire)
    OBVIOUS
  <1>2. /\ wire # <<>> /\ wire' = Tail(wire)
        /\ UNCHANGED <<produced, published, ended, up, barrier, reply, view, drops>>
        /\ \/ IsEvent(m) /\ client' = Handle(client, m) /\ asked' = asked
           \/ ~IsEvent(m)
    BY <1>1, ReadOne
  <1>3. /\ m \in ToSet(wire) /\ ToSet(wire) = {m} \cup ToSet(wire')
        /\ wire' \in Seq(Messages) /\ InTurn(wire')
        /\ HasExit(wire) => m.type = "exit" \/ HasExit(wire')
    BY <1>1, <1>2, WireReads DEF daemonVars
  <1>4. IsEvent(m) /\ \A n \in ToSet(wire') : IsEvent(n)
    BY <1>3, OnlyEvents
  <1>5. asked' = asked /\ client' = IF m.type = "exit" THEN [client EXCEPT !.phase = "off"] ELSE client
    BY <1>2, <1>4 DEF Handle
  <1>6. client \in Clients /\ Kept(client) /\ ExitsGood(client) /\ Whole(client)
    BY DEF IInv, TypeOK
  <1>7. client' \in Clients
    <2>1. [client EXCEPT !.phase = "off"] \in Clients
      BY <1>6, Zenon DEF Clients
    <2> QED BY <2>1, <1>5, <1>6
  <1>8. /\ Alike(client, client') /\ client'.queued = client.queued
        /\ client'.phase = IF m.type = "exit" THEN "off" ELSE "boot"
    BY <1>5, <1>6 DEF Alike, Clients
  <1>9. Kept(client') /\ Whole(client')
    BY <1>6, <1>7, <1>8, AlikeKeeps
  <1>10. ExitsGood(client')
    BY <1>6, <1>8 DEF ExitsGood, Alike
  <1>11. /\ Kept(client)' /\ ExitsGood(client)' /\ Whole(client)'
         /\ ViewGood' /\ QueueGood' /\ (client \in Clients)'
    BY <1>2, <1>8, <1>9, <1>10, MainMoves DEF IInv, QueueGood, daemonVars, viewVars
  <1>12. WireGood'
    BY <1>2, <1>3, <1>4, EventsAreGood DEF daemonVars
  <1>13. TypeOK'
    BY <1>2, <1>3, <1>5, <1>11 DEF IInv, TypeOK
  <1>14. LinkGood' /\ Fed' /\ EndIsTold' /\ ReplayIsFetched'
    BY <1>2, <1>3, <1>5, <1>8 DEF IInv, LinkGood, Fed, EndIsTold, ReplayIsFetched
  <1> QED BY <1>11, <1>12, <1>13, <1>14 DEF IInv

\* An event while the client synchronizes.
LEMMA ReadQueuedKeeps ==
    ASSUME NoBunching, IInv, Read, client.phase = "syncing", IsEvent(Head(wire))
    PROVE  IInv'
  <1>1. PICK m : m = Head(wire)
    OBVIOUS
  <1>2. /\ wire # <<>> /\ wire' = Tail(wire) /\ IsEvent(m) /\ client' = Handle(client, m) /\ asked' = asked
        /\ UNCHANGED <<produced, published, ended, up, barrier, reply, view, drops>>
    BY <1>1, ReadOne
  <1>3. /\ m \in Messages /\ Honest(m)
        /\ wire' \in Seq(Messages) /\ InTurn(wire)'
        /\ ToSet(wire) = {m} \cup ToSet(wire')
        /\ \A n \in ToSet(wire') : Follows(m, n) /\ Honest(n)'
        /\ Seqs(wire) = Seqs(wire') \cup (IF m.type = "data" THEN {m.seq} ELSE {})
        /\ HasExit(wire) => m.type = "exit" \/ HasExit(wire')
    BY <1>1, <1>2, WireReads DEF daemonVars
  <1>4. /\ client \in Clients /\ Kept(client) /\ ExitsGood(client) /\ Whole(client)
        /\ client.queued \in Seq(Messages)
    BY DEF IInv, TypeOK, Clients
  <1>5. client' = [client EXCEPT !.queued = Append(client.queued, m)]
    BY <1>2, <1>4 DEF Handle, Clients
  <1>6. /\ Append(client.queued, m) \in Seq(Messages)
        /\ ToSet(Append(client.queued, m)) = ToSet(client.queued) \cup {m}
        /\ Seqs(Append(client.queued, m)) = Seqs(client.queued) \cup (IF m.type = "data" THEN {m.seq} ELSE {})
    BY <1>3, <1>4, InTurnAppend
  <1>7. client' \in Clients
    BY <1>4, <1>5, <1>6, Zenon DEF Clients
  <1>8. Alike(client, client') /\ client'.queued = Append(client.queued, m) /\ client'.phase = "syncing"
    BY <1>4, <1>5 DEF Alike, Clients
  <1>9. Kept(client') /\ Whole(client')
    BY <1>4, <1>7, <1>8, AlikeKeeps
  <1>10. ExitsGood(client')
    BY <1>4, <1>8 DEF ExitsGood, Alike
  <1>11. \A n \in ToSet(client'.queued) : Honest(n) /\ IsEvent(n)
    BY <1>2, <1>3, <1>6, <1>8 DEF IInv, QueueGood
  <1>12. /\ Kept(client)' /\ ExitsGood(client)' /\ Whole(client)'
         /\ ViewGood' /\ QueueGood' /\ (client \in Clients)'
    BY <1>2, <1>9, <1>10, <1>11, MainMoves DEF daemonVars, viewVars
  <1>13. ASSUME NEW n \in ToSet(wire'), n.type = "list" PROVE ListGood(n)'
    <2>1. ListGood(n)
      BY <1>3, <1>13 DEF IInv, WireGood
    <2>2. Follows(m, n) /\ m.seq \in Int /\ n.seq \in Int
      <3>1. n \in Messages
        BY <1>3, SeqsTyped
      <3>2. \A x \in Messages : x.seq \in Int
        BY DEF Messages
      <3> QED BY <3>1, <3>2, <1>3
    <2>3. n.seq # -1 => m.type = "data"
      BY <2>2, <1>2, <1>13 DEF Follows, IsEvent
    <2>4. n.seq # -1 => m.seq <= n.seq
      BY <2>2, <2>3, <1>13 DEF Follows
    <2>5. n.seq # -1 => (n.seq + 1)..published \subseteq Seqs(wire')
      BY <2>1, <2>2, <2>4, <1>3 DEF ListGood
    <2>6. n.seq # -1 => Within(Seqs(client'.queued), n.seq)
      BY <2>1, <2>4, <1>6, <1>8 DEF ListGood, Within
    <2>7. n.seq # -1 /\ ended => HasExit(wire')
      BY <2>1, <2>3, <1>3 DEF ListGood
    <2> QED BY <2>1, <2>5, <2>6, <2>7, <1>2, <1>8 DEF ListGood, Alike
  <1>14. WireGood'
    <2>1. \A n \in ToSet(wire') : n.type # "snapshot" /\ n.type # "error"
      BY <1>3 DEF IInv, WireGood, SnapshotGood
    <2> QED BY <2>1, <1>3, <1>13 DEF WireGood
  <1>15. TypeOK'
    BY <1>2, <1>3, <1>12 DEF IInv, TypeOK
  <1>16. LinkGood' /\ Fed' /\ EndIsTold' /\ ReplayIsFetched'
    BY <1>2, <1>3, <1>8 DEF IInv, LinkGood, Fed, EndIsTold, ReplayIsFetched
  <1> QED BY <1>12, <1>14, <1>15, <1>16 DEF IInv

\* An event once the client is in touch.
LEMMA ReadEventKeeps ==
    ASSUME NoBunching, IInv, Read, client.phase = "ready", IsEvent(Head(wire))
    PROVE  IInv'
  <1>1. PICK m : m = Head(wire)
    OBVIOUS
  <1>2. /\ wire # <<>> /\ wire' = Tail(wire) /\ IsEvent(m) /\ client' = Handle(client, m) /\ asked' = asked
        /\ UNCHANGED <<produced, published, ended, up, barrier, reply, view, drops>>
    BY <1>1, ReadOne
  <1>3. /\ m \in Messages /\ Honest(m)
        /\ wire' \in Seq(Messages) /\ InTurn(wire)'
        /\ ToSet(wire) = {m} \cup ToSet(wire')
        /\ \A n \in ToSet(wire') : Follows(m, n) /\ Honest(n)'
        /\ Seqs(wire) = Seqs(wire') \cup (IF m.type = "data" THEN {m.seq} ELSE {})
        /\ m.type = "data" => \A k \in Seqs(wire') : m.seq < k
        /\ HasExit(wire) => m.type = "exit" \/ HasExit(wire')
    BY <1>1, <1>2, WireReads DEF daemonVars
  <1>4. Kept(client) /\ ExitsGood(client) /\ Whole(client) /\ client.cur \in Int /\ TypeOK
    BY DEF IInv, TypeOK, Clients
  <1>5. \A x \in Messages : x.seq \in Int
    BY DEF Messages
  <1>6. /\ Kept(client') /\ ExitsGood(client') /\ Steady(client, client')
        /\ client'.alive => client.alive /\ m.type # "exit"
        /\ client'.alive => client'.cur = IF Newer(client, m) THEN m.seq ELSE client.cur
        /\ Whole(client) /\ (m.type = "data" => m.seq <= client.cur + 1) => Whole(client')
        /\ client'.cur = client.cur \/ (m.type = "data" /\ client'.cur = m.seq)
    BY <1>2, <1>3, <1>4, HandledReady
  <1>7. /\ client'.phase = "ready" /\ client'.queued = client.queued
        /\ client'.replayPending = client.replayPending
        /\ client'.running = client.running /\ client'.missed = client.missed
    BY <1>6 DEF Steady
  <1>8. m.type = "data" => m.seq \in 1..published
    BY <1>3 DEF Honest
  <1>9. client.alive /\ ~client.replayPending => (client.cur + 1)..published \subseteq Seqs(wire)
    BY DEF IInv, Fed
  <1>10. Whole(client')
    <2> SUFFICES ASSUME client'.alive, ~client'.replayPending PROVE Whole(client')
      BY DEF Whole
    <2>1. client.alive /\ ~client.replayPending /\ m.type = "data"
      BY <1>2, <1>6, <1>7 DEF IsEvent
    <2>2. m.seq <= client.cur + 1
      <3> SUFFICES ASSUME m.seq > client.cur + 1 PROVE FALSE
        BY <1>3, <1>4, <1>5
      <3>1. published \in Int
        BY <1>4 DEF TypeOK
      <3>2. client.cur + 1 \in (client.cur + 1)..published
        BY <3>1, <1>4, <1>8, <2>1
      <3>3. client.cur + 1 \in Seqs(wire)
        BY <3>2, <2>1, <1>9
      <3> QED BY <3>3, <2>1, <1>3, <1>4, <1>5
    <2> QED BY <2>1, <2>2, <1>4, <1>6
  <1>11. \A n \in ToSet(client'.queued) : Honest(n) /\ IsEvent(n)
    BY <1>7 DEF IInv, QueueGood
  <1>12. /\ Kept(client)' /\ ExitsGood(client)' /\ Whole(client)'
         /\ ViewGood' /\ QueueGood' /\ (client \in Clients)'
    BY <1>2, <1>6, <1>10, <1>11, MainMoves DEF daemonVars, viewVars
  <1>13. ASSUME NEW n \in ToSet(wire'), n.type = "snapshot" PROVE SnapshotGood(n)'
    <2>1. SnapshotGood(n) /\ Follows(m, n)
      BY <1>3, <1>13 DEF IInv, WireGood
    <2>2. m.seq \in Int /\ n.seq \in Int
      <3>1. n \in Messages
        BY <1>3, SeqsTyped
      <3> QED BY <3>1, <1>3, <1>5
    <2>3. m.type = "data" => m.seq <= n.seq
      BY <2>1, <1>13 DEF Follows
    <2>4. client'.cur <= n.seq
      BY <2>1, <2>3, <1>6 DEF SnapshotGood
    <2>5. (n.seq + 1)..published \subseteq Seqs(wire')
      BY <2>1, <2>2, <2>3, <1>3 DEF SnapshotGood
    <2> QED BY <2>4, <2>5, <1>2, <1>7 DEF SnapshotGood
  <1>14. WireGood'
    <2>1. \A n \in ToSet(wire') : n.type # "list" /\ (n.type = "error" => ended)
      BY <1>3 DEF IInv, WireGood, ListGood
    <2> QED BY <2>1, <1>2, <1>3, <1>7, <1>13 DEF WireGood
  <1>15. TypeOK'
    BY <1>2, <1>3, <1>12 DEF IInv, TypeOK
  <1>16. LinkGood'
    BY <1>2, <1>7 DEF IInv, LinkGood
  <1>17. Fed'
    <2> SUFFICES ASSUME client'.alive, ~client'.replayPending, NEW k \in (client'.cur + 1)..published
                 PROVE  k \in Seqs(wire')
      BY <1>2 DEF Fed
    <2>1. client.alive /\ ~client.replayPending /\ m.type = "data"
      BY <1>2, <1>6, <1>7 DEF IsEvent
    <2>2. client'.cur = IF m.seq > client.cur THEN m.seq ELSE client.cur
      BY <1>6 DEF Newer
    <2>3. m.seq \in Int /\ published \in Int
      BY <1>3, <1>4, <1>5 DEF TypeOK
    <2>4. k \in (client.cur + 1)..published /\ k # m.seq
      BY <2>2, <2>3, <1>4
    <2> QED BY <2>1, <2>4, <1>3, <1>9
  <1>18. EndIsTold' /\ ReplayIsFetched'
    BY <1>2, <1>3, <1>6, <1>7 DEF IInv, EndIsTold, ReplayIsFetched
  <1> QED BY <1>12, <1>14, <1>15, <1>16, <1>17, <1>18 DEF IInv

\* The list that a reconnection has asked for.
LEMMA ReadListKeeps ==
    ASSUME NoBunching, IInv, Read, client.phase = "syncing", ~IsEvent(Head(wire))
    PROVE  IInv'
  <1>1. PICK m : m = Head(wire)
    OBVIOUS
  <1>2. /\ wire # <<>> /\ wire' = Tail(wire) /\ ~IsEvent(m) /\ client' = Resume(client, m)
        /\ asked' = IF client'.running THEN "snapshot" ELSE asked
        /\ UNCHANGED <<produced, published, ended, up, barrier, reply, view, drops>>
    BY <1>1, ReadOne
  <1>3. /\ m \in Messages /\ m \in ToSet(wire)
        /\ wire' \in Seq(Messages) /\ InTurn(wire')
        /\ ToSet(wire) = {m} \cup ToSet(wire')
        /\ \A n \in ToSet(wire') : Follows(m, n) /\ Honest(n)'
        /\ Seqs(wire) = Seqs(wire') \cup (IF m.type = "data" THEN {m.seq} ELSE {})
        /\ HasExit(wire) => m.type = "exit" \/ HasExit(wire')
    BY <1>1, <1>2, WireReads DEF daemonVars
  <1>4. /\ TypeOK /\ Kept(client) /\ ExitsGood(client) /\ Whole(client)
        /\ \A n \in ToSet(client.queued) : Honest(n) /\ IsEvent(n)
    BY DEF IInv, QueueGood
  <1>5. m.type = "list" /\ ListGood(m)
    BY <1>2, <1>3 DEF IInv, WireGood, SnapshotGood, Messages, IsEvent
  <1>6. m.seq # -1 => client.cur <= m.seq /\ Within(Seqs(client.queued), m.seq)
    BY <1>3, <1>4, <1>5 DEF ListGood, Clients, TypeOK
  <1>7. m.seq = -1 => ended
    BY <1>5 DEF ListGood
  <1>8. client' = Synchronize(client, m)
    BY <1>2 DEF Resume
  <1>9. /\ Kept(client') /\ ExitsGood(client') /\ Whole(client')
        /\ client'.phase = "ready" /\ client'.queued = <<>>
        /\ client'.alive => m.seq # -1 /\ client'.running
        /\ client'.alive /\ ~client'.replayPending => client'.cur = m.seq
    BY <1>3, <1>4, <1>6, <1>7, <1>8, Synchronized
  <1>10. ToSet(client'.queued) = {}
    BY <1>9, NothingCarried
  <1>11. /\ Kept(client)' /\ ExitsGood(client)' /\ Whole(client)'
         /\ ViewGood' /\ QueueGood' /\ (client \in Clients)'
    BY <1>2, <1>9, <1>10, MainMoves DEF daemonVars, viewVars
  <1>12. \A n \in ToSet(wire') : n \in ToSet(wire) /\ IsEvent(n)
    <2> SUFFICES ASSUME NEW n \in ToSet(wire') PROVE IsEvent(n)
      BY <1>3
    <2>1. n \in Messages
      BY <1>3, SeqsTyped
    <2>2. n.type # "list"
      BY <1>3, <1>5 DEF Follows
    <2>3. n.type # "snapshot" /\ n.type # "error"
      BY <1>3 DEF IInv, WireGood, SnapshotGood
    <2> QED BY <2>1, <2>2, <2>3 DEF Messages, IsEvent
  <1>13. WireGood'
    BY <1>2, <1>3, <1>12, EventsAreGood DEF daemonVars
  <1>14. asked # "list" /\ barrier = NoBarrier /\ up
    BY <1>3, <1>5 DEF IInv, LinkGood
  <1>15. TypeOK'
    BY <1>2, <1>3, <1>11 DEF IInv, TypeOK
  <1>16. LinkGood'
    BY <1>2, <1>9, <1>14 DEF IInv, LinkGood
  <1>17. Fed' /\ EndIsTold' /\ ReplayIsFetched'
    BY <1>2, <1>3, <1>5, <1>9 DEF ListGood, Fed, EndIsTold, ReplayIsFetched
  <1> QED BY <1>11, <1>13, <1>15, <1>16, <1>17 DEF IInv

\* The answer to a refresh, if any: a replay, or the news that there is none.
LEMMA ReadReplayKeeps ==
    ASSUME NoBunching, IInv, Read, client.phase = "ready", ~IsEvent(Head(wire))
    PROVE  IInv'
  <1>1. PICK m : m = Head(wire)
    OBVIOUS
  <1>2. /\ wire # <<>> /\ wire' = Tail(wire) /\ ~IsEvent(m) /\ client' = Resume(client, m)
        /\ asked' = IF client'.running THEN "snapshot" ELSE asked
        /\ UNCHANGED <<produced, published, ended, up, barrier, reply, view, drops>>
    BY <1>1, ReadOne
  <1>3. /\ m \in Messages /\ m \in ToSet(wire) /\ Honest(m)
        /\ wire' \in Seq(Messages) /\ InTurn(wire)'
        /\ ToSet(wire) = {m} \cup ToSet(wire')
        /\ \A n \in ToSet(wire') : Follows(m, n) /\ Honest(n)'
        /\ Seqs(wire) = Seqs(wire') \cup (IF m.type = "data" THEN {m.seq} ELSE {})
        /\ HasExit(wire) => m.type = "exit" \/ HasExit(wire')
    BY <1>1, <1>2, WireReads DEF daemonVars
  <1>4. /\ TypeOK /\ Kept(client) /\ ExitsGood(client) /\ Whole(client) /\ client \in Clients
        /\ client.cur \in Int
    BY DEF IInv, TypeOK, Clients
  <1>5. \A x \in Messages : x.seq \in Int
    BY DEF Messages
  <1>6. CASE m.type = "snapshot"
    <2> DEFINE a == ApplySnapshot(client, m)
    <2>1. client.cur <= m.seq /\ (m.seq + 1)..published \subseteq Seqs(wire')
      BY <1>3, <1>6 DEF IInv, WireGood, SnapshotGood
    <2>2. /\ Kept(a) /\ ExitsGood(a) /\ Whole(a)
          /\ a.alive = client.alive /\ a.phase = client.phase /\ a.queued = client.queued
          /\ client.alive => ~a.replayPending /\ a.cur = m.seq
          /\ a.cur <= m.seq
      BY <1>3, <1>4, <1>6, <2>1, SnapshotKeeps
    <2>3. client' = NextRefresh(a)
      BY <1>2, <1>6 DEF Resume
    <2> HIDE DEF a
    <2>4. a \in Clients
      BY <2>2 DEF Kept
    <2>5. client' \in Clients /\ Alike(a, client') /\ client'.phase = "ready" /\ client'.queued = client.queued
      BY <2>2, <2>3, <2>4, Refreshed
    <2>6. Kept(client') /\ Whole(client')
      BY <2>2, <2>5, AlikeKeeps
    <2>7. ExitsGood(client')
      BY <2>2, <2>5 DEF ExitsGood, Alike
    <2>8. client'.cur <= m.seq /\ (client'.alive => ~client'.replayPending /\ client'.cur = m.seq)
      BY <2>2, <2>5 DEF Alike
    <2>9. \A n \in ToSet(client'.queued) : Honest(n) /\ IsEvent(n)
      BY <2>5 DEF IInv, QueueGood
    <2>10. /\ Kept(client)' /\ ExitsGood(client)' /\ Whole(client)'
           /\ ViewGood' /\ QueueGood' /\ (client \in Clients)'
      BY <1>2, <2>6, <2>7, <2>9, MainMoves DEF daemonVars, viewVars
    <2>11. ASSUME NEW n \in ToSet(wire'), n.type = "snapshot" PROVE SnapshotGood(n)'
      <3>1. SnapshotGood(n) /\ m.seq <= n.seq
        BY <1>3, <1>6, <2>11 DEF IInv, WireGood, Follows
      <3>2. n \in Messages
        BY <1>3, SeqsTyped
      <3>3. client'.cur \in Int
        BY <2>5 DEF Clients
      <3>4. client'.cur <= n.seq
        BY <3>1, <3>2, <3>3, <2>8, <1>3, <1>5
      <3> QED BY <3>1, <3>4, <2>5, <1>2, <1>3, <1>6 DEF SnapshotGood
    <2>12. WireGood'
      <3>1. \A n \in ToSet(wire') : n.type # "list" /\ (n.type = "error" => ended)
        BY <1>3 DEF IInv, WireGood, ListGood
      <3> QED BY <3>1, <2>5, <2>11, <1>2, <1>3 DEF WireGood
    <2>13. TypeOK'
      BY <1>2, <1>3, <2>10 DEF IInv, TypeOK
    <2>14. LinkGood'
      BY <1>2, <2>5 DEF IInv, LinkGood
    <2>15. Fed' /\ EndIsTold' /\ ReplayIsFetched'
      BY <1>2, <1>3, <1>6, <2>1, <2>2, <2>5, <2>8 DEF IInv, Fed, EndIsTold, ReplayIsFetched, Alike
    <2> QED BY <2>10, <2>12, <2>13, <2>14, <2>15 DEF IInv
  <1>7. CASE m.type # "snapshot"
    <2>1. m.type = "error" /\ ended
      BY <1>2, <1>3, <1>7 DEF IInv, WireGood, ListGood, Messages, IsEvent
    <2>2. client' = NextRefresh(client)
      BY <1>2, <1>7 DEF Resume
    <2>3. /\ client' \in Clients /\ Alike(client, client')
          /\ client'.phase = "ready" /\ client'.queued = client.queued
      BY <2>2, <1>4, Refreshed
    <2>4. Kept(client') /\ Whole(client') /\ ExitsGood(client')
      <3>1. Kept(client') /\ Whole(client')
        BY <2>3, <1>4, AlikeKeeps
      <3> QED BY <3>1, <2>3, <1>4 DEF ExitsGood, Alike
    <2>5. \A n \in ToSet(client'.queued) : Honest(n) /\ IsEvent(n)
      BY <2>3 DEF IInv, QueueGood
    <2>6. /\ Kept(client)' /\ ExitsGood(client)' /\ Whole(client)'
          /\ ViewGood' /\ QueueGood' /\ (client \in Clients)'
      BY <1>2, <2>4, <2>5, MainMoves DEF daemonVars, viewVars
    <2>7. ~HasExit(wire)
      <3>1. \A n \in ToSet(wire') : n.type # "exit"
        BY <1>3, <2>1 DEF Follows
      <3> QED BY <3>1, <1>3, <2>1 DEF HasExit
    <2>8. ~client'.alive
      BY <2>1, <2>3, <2>7 DEF IInv, EndIsTold, Alike
    <2>9. WireGood'
      <3>1. \A n \in ToSet(wire') : n.type # "list" /\ (n.type = "snapshot" => SnapshotGood(n)')
        BY <1>2, <1>3, <2>1, <2>3 DEF IInv, WireGood, ListGood, SnapshotGood, Alike
      <3> QED BY <3>1, <2>1, <2>3, <1>2, <1>3 DEF WireGood
    <2>10. TypeOK'
      BY <1>2, <1>3, <2>6 DEF IInv, TypeOK
    <2>11. LinkGood'
      BY <1>2, <2>3 DEF IInv, LinkGood
    <2>12. Fed' /\ EndIsTold' /\ ReplayIsFetched'
      BY <2>3, <2>8 DEF Fed, EndIsTold, ReplayIsFetched
    <2> QED BY <2>6, <2>9, <2>10, <2>11, <2>12 DEF IInv
  <1> QED BY <1>6, <1>7

LEMMA ReadKeeps ==
    ASSUME NoBunching, IInv, Read
    PROVE  IInv'
  <1>1. client.phase \in {"boot", "syncing", "ready"}
    BY DEF Read
  <1> QED BY <1>1, ReadBootKeeps, ReadQueuedKeeps, ReadListKeeps, ReadEventKeeps, ReadReplayKeeps

-----------------------------------------------------------------------------
\* The steps of the renderer

\* What a terminal shows when it is adopted.
LEMMA AdoptedShows ==
    ASSUME TypeOK, ViewGood, reply # NoReply
    PROVE  LET a == Adopted(view.early) IN
           /\ a.shows \in Seq(Emissions) /\ a.covered \in 0..MaxSeq /\ RisesTo(a.shows, a.covered)
           /\ a.covered = reply.seq \/ a.covered \in Seqs(view.early)
           /\ reply.seq <= a.covered
           /\ ToSet(reply.out) \subseteq ToSet(a.shows)
           /\ \A k \in Seqs(view.early) : k > reply.seq => k \in ToSet(a.shows)
  <1>1. PICK s : s = view.early
    OBVIOUS
  <1>2. /\ s \in Seq(Messages) /\ Len(s) \in Nat /\ DOMAIN s = 1..Len(s) /\ InTurn(s)
        /\ \A i \in 1..Len(s) : s[i] \in ToSet(s)
    <2>1. s \in Seq(Messages)
      BY <1>1 DEF TypeOK, Views
    <2> QED BY <2>1, <1>1 DEF ViewGood, ToSet
  <1>3. /\ reply.seq \in 0..MaxSeq /\ reply.out \in Seq(Emissions) /\ RisesTo(reply.out, reply.seq)
        /\ MaxSeq \in Nat
    BY BoundsAssumption DEF TypeOK, Replies, ViewGood
  <1>4. ASSUME NEW i \in 1..Len(s)
        PROVE  s[i].type = "data" /\ s[i].seq \in 1..MaxSeq /\ s[i].out = <<s[i].seq>>
    <2>1. s[i].type = "data" /\ Honest(s[i])
      BY <1>1, <1>2 DEF ViewGood
    <2>2. produced \in 0..MaxSeq /\ published \in 0..produced
      BY DEF TypeOK
    <2>3. s[i].seq \in 1..published /\ s[i].out = <<s[i].seq>>
      BY <2>1 DEF Honest
    <2> QED BY <2>1, <2>2, <2>3, <1>3
  <1>5. PICK f : /\ f[0] = [shows |-> reply.out, covered |-> reply.seq]
                 /\ \A n \in 1..Len(s) : f[n] = Added(f[n - 1], s[n])
                 /\ Adopted(s) = f[Len(s)]
    BY <1>2, AdoptedOneByOne
  <1> DEFINE Good(n) ==
               /\ f[n].shows \in Seq(Emissions) /\ f[n].covered \in 0..MaxSeq
               /\ RisesTo(f[n].shows, f[n].covered) /\ reply.seq <= f[n].covered
               /\ f[n].covered = reply.seq \/ \E i \in 1..n : f[n].covered = s[i].seq
               /\ ToSet(reply.out) \subseteq ToSet(f[n].shows)
               /\ \A i \in 1..n : s[i].seq > reply.seq => s[i].seq \in ToSet(f[n].shows)
             S == {n \in 0..Len(s) : Good(n)}
  <1>6. 0 \in S
    <2>1. Good(0)
      BY <1>3, <1>5
    <2> QED BY <2>1, <1>2
  <1>7. ASSUME NEW n \in 0..(Len(s) - 1), n \in S PROVE n + 1 \in S
    <2> DEFINE x == f[n]
               y == f[n + 1]
               k == s[n + 1].seq
    <2>1. Good(n)
      BY <1>7
    <2>2. n + 1 \in 1..Len(s) /\ n + 1 - 1 = n /\ n + 1 \in 0..Len(s) /\ \A i \in 1..(n + 1) : i \in 1..n \/ i = n + 1
      BY <1>2
    <2>3. y = Added(x, s[n + 1])
      BY <1>5, <2>2
    <2>4. k \in 1..MaxSeq /\ s[n + 1].out = <<k>> /\ s[n + 1].type = "data"
      BY <1>4, <2>2
    <2>5. ASSUME NEW i \in 1..n PROVE s[i].seq < k
      <3>1. i \in 1..Len(s) /\ i < n + 1 /\ s[i].type = "data"
        BY <1>2, <1>4
      <3>2. Follows(s[i], s[n + 1])
        BY <3>1, <2>2, <1>2, Zenon DEF InTurn
      <3> QED BY <3>1, <3>2, <2>4 DEF Follows
    <2>6. y.shows = (IF k > reply.seq THEN x.shows \o <<k>> ELSE x.shows) /\ y.covered = Larger(x.covered, k)
      BY <2>3, <2>4 DEF Added, Uncovered
    <2> HIDE DEF x, y, k
    <2>7. /\ x.shows \in Seq(Emissions) /\ x.covered \in 0..MaxSeq
          /\ RisesTo(x.shows, x.covered) /\ reply.seq <= x.covered
          /\ x.covered = reply.seq \/ \E i \in 1..n : x.covered = s[i].seq
          /\ ToSet(reply.out) \subseteq ToSet(x.shows)
          /\ \A i \in 1..n : s[i].seq > reply.seq => s[i].seq \in ToSet(x.shows)
      BY <2>1 DEF x
    <2>8. CASE k > reply.seq
      <3>1. x.covered < k
        BY <2>5, <2>7, <2>8
      <3>2. y.shows = x.shows \o <<k>> /\ y.covered = k
        BY <3>1, <2>4, <2>6, <2>7, <2>8 DEF Larger
      <3>3. /\ y.shows \in Seq(Emissions) /\ RisesTo(y.shows, k)
            /\ ToSet(y.shows) = ToSet(x.shows) \cup {k}
        <4>1. x.covered \in Int
          BY <2>7
        <4>2. x.shows \in Seq(Emissions) /\ k \in Emissions /\ RisesTo(x.shows, x.covered)
          BY <2>4, <2>7 DEF Emissions
        <4> QED BY <4>1, <4>2, <3>1, <3>2, ShownNext
      <3>4. reply.seq <= k /\ k \in 0..MaxSeq /\ k = s[n + 1].seq /\ n + 1 \in 1..(n + 1)
        BY <2>4, <2>8, <1>3 DEF k
      <3>5. Good(n + 1)
        BY <3>2, <3>3, <3>4, <2>2, <2>7 DEF y
      <3> QED BY <3>5, <2>2
    <2>9. CASE ~ (k > reply.seq)
      <3>1. y.shows = x.shows /\ y.covered = x.covered
        BY <2>4, <2>6, <2>7, <2>9, <1>3 DEF Larger
      <3>2. s[n + 1].seq = k /\ \A i \in 1..n : i \in 1..(n + 1)
        BY DEF k
      <3>3. Good(n + 1)
        BY <3>1, <3>2, <2>2, <2>7, <2>9 DEF y
      <3> QED BY <3>3, <2>2
    <2> QED BY <2>8, <2>9
  <1>8. Good(Len(s))
    <2> HIDE DEF S
    <2>1. \A n \in 0..Len(s) : n \in S
      BY <1>2, <1>6, <1>7, StepByStep
    <2>2. Len(s) \in S
      BY <1>2, <2>1
    <2> QED BY <2>2 DEF S
  <1>9. \A k \in Seqs(s) : \E i \in 1..Len(s) : k = s[i].seq
    BY <1>2 DEF Seqs, SeqsOf, ToSet
  <1>10. \A i \in 1..Len(s) : s[i].seq \in Seqs(s)
    BY <1>2, <1>4 DEF Seqs, SeqsOf
  <1> QED BY <1>1, <1>5, <1>8, <1>9, <1>10, ZenonT(60)

\* A step of the renderer leaves the rest as it was.
LEMMA RendererMoves ==
    ASSUME IInv, UNCHANGED <<daemonVars, linkVars, drops>>, client' \in Clients, Steady(client, client'),
           client'.alive = client.alive, client'.exits = client.exits,
           client'.cur = client.cur, client'.screen = client.screen,
           reply' \in Replies, view' \in Views, Kept(client)', ViewGood'
    PROVE  IInv'
  <1>1. UNCHANGED <<produced, published, ended, up, asked, barrier, wire, drops>>
    BY DEF daemonVars, linkVars
  <1>2. /\ client'.phase = client.phase /\ client'.queued = client.queued
        /\ client'.replayPending = client.replayPending
        /\ client'.running = client.running /\ client'.missed = client.missed
    BY DEF Steady
  <1>3. ExitsGood(client)' /\ Whole(client)'
    BY <1>1, <1>2 DEF IInv, ExitsGood, Whole
  <1>4. QueueGood'
    BY <1>1, <1>2 DEF IInv, QueueGood, Honest
  <1>5. WireGood' /\ LinkGood'
    BY <1>1, <1>2 DEF IInv, WireGood, LinkGood, InTurn, Follows, Honest, ListGood, SnapshotGood,
                      HasExit, Seqs, Within
  <1>6. Fed' /\ EndIsTold' /\ ReplayIsFetched'
    BY <1>1, <1>2 DEF IInv, Fed, EndIsTold, ReplayIsFetched, HasExit, Seqs
  <1>7. TypeOK'
    <2>1. wire' \in Seq(Messages)
      BY <1>1 DEF IInv, TypeOK
    <2> QED BY <2>1, <1>1 DEF IInv, TypeOK
  <1> QED BY <1>3, <1>4, <1>5, <1>6, <1>7 DEF IInv

LEMMA ListKeeps ==
    ASSUME IInv, List
    PROVE  IInv'
  <1>1. /\ ~view.adopted /\ client' = client
        /\ reply' = [seq |-> client.cur, out |-> client.screen]
        /\ view' = [view EXCEPT !.listed = TRUE]
        /\ UNCHANGED <<daemonVars, linkVars, drops>>
    BY DEF List
  <1>2. UNCHANGED <<produced, published, ended>>
    BY <1>1 DEF daemonVars
  <1>3. client \in Clients /\ Kept(client) /\ view \in Views /\ client.cur \in 0..MaxSeq /\ client.screen \in Seq(Emissions)
    BY DEF IInv, TypeOK, Clients
  <1>4. view' \in Views
    BY <1>1, <1>3, Zenon DEF Views
  <1>5. /\ view'.adopted = view.adopted /\ view'.early = view.early
        /\ view'.covered = view.covered /\ view'.shows = view.shows
    BY <1>1, <1>3 DEF Views
  <1>6. reply' \in Replies /\ reply'.seq = client.cur /\ reply'.out = client.screen
    <2>1. client.cur \in -1..MaxSeq
      BY <1>3
    <2> QED BY <2>1, <1>1, <1>3, Zenon DEF Replies
  <1>7. InBounds(client)'
    BY <1>1, <1>2, <1>3, <1>5, <1>6 DEF Kept, InBounds, OnWay, Seqs, Within
  <1>8. Live(client)'
    BY <1>1, <1>5, <1>6 DEF Live
  <1>9. LaneGood(client)' /\ IpcGood(client)' /\ OneBehindTheOther(client)'
    BY <1>1, <1>2, <1>3, <1>5 DEF Kept, LaneGood, IpcGood, OneBehindTheOther, InTurn, Follows, Honest, OnWay, Seqs, Below
  <1>10. Kept(client)'
    BY <1>1, <1>3, <1>7, <1>8, <1>9 DEF Kept
  <1>11. ViewGood'
    <2>1. \A m \in ToSet(view.early) : Honest(m)'
      BY <1>2 DEF IInv, ViewGood, Honest
    <2>2. RisesTo(reply'.out, reply'.seq) /\ reply'.seq >= 0
      BY <1>3, <1>6 DEF Kept
    <2>3. InTurn(view.early)'
      BY <1>5 DEF IInv, ViewGood, InTurn, Follows
    <2> QED BY <2>1, <2>2, <2>3, <1>1, <1>5 DEF IInv, ViewGood
  <1> QED BY <1>1, <1>3, <1>4, <1>6, <1>10, <1>11, RendererMoves DEF Steady

LEMMA AdoptionKeeps ==
    ASSUME IInv, Adoption
    PROVE  IInv'
  <1>1. PICK a : a = Adopted(view.early)
    OBVIOUS
  <1>2. /\ reply # NoReply /\ client' = client /\ reply' = NoReply
        /\ view' = [view EXCEPT !.adopted = TRUE, !.early = <<>>, !.shows = a.shows, !.covered = a.covered]
        /\ UNCHANGED <<daemonVars, linkVars, drops>>
    BY <1>1 DEF Adoption
  <1>3. UNCHANGED <<produced, published, ended>>
    BY <1>2 DEF daemonVars
  <1>4. /\ client \in Clients /\ Kept(client) /\ view \in Views /\ client.cur \in Int
        /\ ViewGood /\ TypeOK /\ reply.seq \in Int /\ view.early \in Seq(Messages)
    BY DEF IInv, TypeOK, Clients, Replies, Views
  <1>5. /\ a.shows \in Seq(Emissions) /\ a.covered \in 0..MaxSeq /\ RisesTo(a.shows, a.covered)
        /\ a.covered = reply.seq \/ a.covered \in Seqs(view.early)
        /\ reply.seq <= a.covered
        /\ ToSet(reply.out) \subseteq ToSet(a.shows)
        /\ \A k \in Seqs(view.early) : k > reply.seq => k \in ToSet(a.shows)
    BY <1>1, <1>2, <1>4, AdoptedShows
  <1>6. view' \in Views
    <2>1. <<>> \in Seq(Messages)
      OBVIOUS
    <2> QED BY <2>1, <1>2, <1>4, <1>5, Zenon DEF Views
  <1>7. /\ view'.adopted /\ view'.early = <<>> /\ view'.shows = a.shows /\ view'.covered = a.covered
    BY <1>2, <1>4 DEF Views
  <1>8. ToSet(view'.early) = {} /\ Seqs(view'.early) = {} /\ InTurn(view'.early)
    BY <1>7, NothingCarried
  <1>9. reply' \in Replies /\ reply'.seq = -1
    <2>1. -1 \in -1..MaxSeq /\ <<>> \in Seq(Emissions)
      BY BoundsAssumption
    <2> QED BY <2>1, <1>2, Zenon DEF NoReply, Replies
  <1>10. InBounds(client)'
    <2>1. a.covered <= client.cur /\ client.cur >= 0
      BY <1>4, <1>5 DEF Kept, InBounds, Within, Clients
    <2>2. OnWay(client)' = OnWay(client) /\ Seqs(view.early)' = {}
      BY <1>2, <1>8 DEF OnWay, Seqs
    <2> QED BY <2>1, <2>2, <1>2, <1>3, <1>4, <1>7, <1>9 DEF Kept, InBounds, Within
  <1>11. Live(client)'
    <2> SUFFICES ASSUME NEW e \in ToSet(client.screen), e > client.replayed
                 PROVE  e \in ToSet(a.shows) \/ (e > a.covered /\ e \in OnWay(client))
      BY <1>2, <1>7 DEF Live, OnWay, Seqs
    <2>1. e \in ToSet(reply.out) \/ (e > reply.seq /\ e \in Seqs(view.early) \cup OnWay(client))
      BY <1>2, <1>4 DEF Kept, Live
    <2>2. CASE e > reply.seq /\ e \in OnWay(client)
      <3>1. \A k \in Seqs(view.early) : k < e
        BY <2>2, <1>4 DEF Kept, OneBehindTheOther, Below
      <3>2. e \in Int /\ a.covered \in Int
        <4>1. e \in Seqs(client.ipc) \cup Seqs(client.lane)
          BY <2>2 DEF OnWay
        <4>2. client.ipc \in Seq(Messages) /\ client.lane \in Seq(Messages)
          BY <1>4 DEF Clients
        <4> QED BY <4>1, <4>2, SeqsTyped, <1>5
      <3>3. a.covered < e
        BY <3>1, <3>2, <2>2, <1>4, <1>5
      <3> QED BY <3>2, <3>3, <2>2
    <2> QED BY <2>1, <2>2, <1>5
  <1>12. LaneGood(client)' /\ IpcGood(client)'
    BY <1>2, <1>3, <1>4 DEF Kept, LaneGood, IpcGood, InTurn, Follows, Honest
  <1>13. OneBehindTheOther(client)'
    BY <1>2, <1>4, <1>8 DEF Kept, OneBehindTheOther, OnWay, Seqs, Below
  <1>14. Kept(client)'
    BY <1>2, <1>4, <1>10, <1>11, <1>12, <1>13 DEF Kept
  <1>15. ViewGood'
    BY <1>2, <1>5, <1>7, <1>8 DEF ViewGood, InTurn
  <1> QED BY <1>2, <1>4, <1>6, <1>9, <1>14, <1>15, RendererMoves DEF Steady

LEMMA ReceiveKeeps ==
    ASSUME IInv, Receive
    PROVE  IInv'
  <1>1. PICK m : m = Head(client.ipc)
    OBVIOUS
  <1>2. /\ client.ipc # <<>> /\ client' = [client EXCEPT !.ipc = Tail(client.ipc)]
        /\ \/ /\ m.type = "data" /\ ~view.adopted
              /\ view' = [view EXCEPT !.early = Append(view.early, m)]
           \/ /\ m.type = "data" /\ view.adopted
              /\ view' = IF m.seq <= view.covered THEN view
                         ELSE [view EXCEPT !.covered = m.seq, !.shows = view.shows \o m.out]
           \/ /\ m.type = "snapshot"
              /\ view' = IF ~view.adopted \/ m.seq <= view.covered THEN view
                         ELSE [view EXCEPT !.covered = m.seq, !.shows = m.out]
        /\ UNCHANGED <<daemonVars, linkVars, reply, drops>>
    <2>1. client \in Clients /\ view \in Views
      BY DEF IInv, TypeOK
    <2> QED BY <2>1, <1>1 DEF Receive, Covered, Clients, Views
  <1>3. UNCHANGED <<produced, published, ended>>
    BY <1>2 DEF daemonVars
  <1>4. /\ client \in Clients /\ Kept(client) /\ view \in Views /\ ViewGood
        /\ client.ipc \in Seq(Messages) /\ client.lane \in Seq(Messages) /\ view.early \in Seq(Messages)
        /\ client.cur \in 0..MaxSeq /\ client.replayed \in 0..MaxSeq /\ view.covered \in 0..MaxSeq
        /\ view.shows \in Seq(Emissions) /\ reply \in Replies /\ reply.seq \in Int
    <2>1. /\ client \in Clients /\ Kept(client) /\ view \in Views /\ ViewGood /\ reply \in Replies
      BY DEF IInv, TypeOK
    <2>2. reply.seq \in -1..MaxSeq
      BY <2>1, Zenon DEF Replies
    <2> QED BY <2>1, <2>2 DEF Clients, Views
  <1>5. PICK i : i = Tail(client.ipc)
    OBVIOUS
  <1>6. m \in Messages /\ i \in Seq(Messages) /\ ToSet(client.ipc) = {m} \cup ToSet(i)
    BY <1>1, <1>2, <1>4, <1>5, TailIsPart
  <1>7. /\ InTurn(i) /\ (m.type = "data" => \A k \in Seqs(i) : m.seq < k)
        /\ Seqs(client.ipc) = Seqs(i) \cup (IF m.type = "data" THEN {m.seq} ELSE {})
    BY <1>1, <1>2, <1>4, <1>5, InTurnHead DEF Kept, IpcGood
  <1>8. client' \in Clients
    BY <1>2, <1>4, <1>5, <1>6, Zenon DEF Clients
  <1>9. /\ client'.ipc = i /\ client'.lane = client.lane
        /\ client'.cur = client.cur /\ client'.replayed = client.replayed /\ client'.screen = client.screen
        /\ client'.alive = client.alive /\ client'.exits = client.exits /\ Steady(client, client')
    BY <1>2, <1>4, <1>5 DEF Clients, Steady
  <1>10. OnWay(client) = OnWay(client') \cup (IF m.type = "data" THEN {m.seq} ELSE {})
    BY <1>7, <1>9 DEF OnWay
  <1>11. ASSUME m.type = "data", NEW k \in OnWay(client') PROVE m.seq < k
    <2>1. m.seq \in Seqs(client.ipc)
      BY <1>7, <1>11
    <2>2. k \in Seqs(client.lane) => m.seq < k
      BY <2>1, <1>4 DEF Kept, OneBehindTheOther, Below
    <2> QED BY <2>2, <1>7, <1>9, <1>11 DEF OnWay
  <1>12. /\ Honest(m) /\ (m.type = "snapshot" => m.seq <= client.replayed)
         /\ m.seq \in -1..MaxSeq /\ (m.type = "data" => m.seq \in OnWay(client) /\ m.seq <= client.cur)
    <2>1. Honest(m) /\ (m.type = "snapshot" => m.seq <= client.replayed)
      BY <1>4, <1>6 DEF Kept, IpcGood
    <2>2. m.type = "data" => m.seq \in OnWay(client)
      BY <1>10
    <2>3. m.type = "data" => m.seq <= client.cur
      BY <2>2, <1>4 DEF Kept, InBounds, Within
    <2> QED BY <2>1, <2>2, <2>3, <1>6 DEF Messages
  <1>13. LaneGood(client)' /\ IpcGood(client)'
    <2>1. LaneGood(client)'
      BY <1>3, <1>4, <1>9 DEF Kept, LaneGood, InTurn, Follows, Honest
    <2>2. \A n \in ToSet(i) : Honest(n)' /\ (n.type = "data" \/ (n.type = "snapshot" /\ n.seq <= client.replayed))
      BY <1>3, <1>4, <1>6 DEF Kept, IpcGood, Honest
    <2>3. InTurn(client.ipc)'
      BY <1>7, <1>9 DEF InTurn, Follows
    <2> QED BY <2>1, <2>2, <2>3, <1>9 DEF IpcGood
  <1>14. RisesTo(client'.screen, client'.cur) /\ Below(Seqs(client'.ipc), Seqs(client'.lane))
    BY <1>4, <1>7, <1>9 DEF Kept, OneBehindTheOther, Below
  <1>15. OnWay(client') \subseteq OnWay(client) /\ OnWay(client)' = OnWay(client')
    BY <1>10 DEF OnWay, Seqs
  <1>16. \A k \in OnWay(client) \cup Seqs(view.early) : k \in Int /\ k <= client.cur
    BY <1>4, SeqsTyped DEF OnWay, Kept, InBounds, Within
  <1>17. client.cur <= produced /\ client.replayed <= client.cur /\ reply.seq <= client.cur /\ view.covered <= client.cur
    BY <1>4 DEF Kept, InBounds
  <1>18. \A k \in Seqs(view.early), l \in OnWay(client) : k < l
    BY <1>4 DEF Kept, OneBehindTheOther, Below
  <1>19. ASSUME NEW e \in ToSet(client.screen), e > client.replayed
         PROVE  /\ view.adopted => e \in ToSet(view.shows) \/ (e > view.covered /\ e \in OnWay(client))
                /\ reply # NoReply =>
                     e \in ToSet(reply.out) \/ (e > reply.seq /\ e \in Seqs(view.early) \cup OnWay(client))
    BY <1>4, <1>19 DEF Kept, Live
  \* Early output is kept for the terminal that is still to be adopted.
  <1>20. CASE m.type = "data" /\ ~view.adopted
    <2> DEFINE early == Append(view.early, m)
    <2>1. /\ early \in Seq(Messages) /\ ToSet(early) = ToSet(view.early) \cup {m}
          /\ Seqs(early) = Seqs(view.early) \cup {m.seq}
          /\ InTurn(view.early) /\ (\A n \in ToSet(view.early) : Follows(n, m)) => InTurn(early)
      BY <1>4, <1>6, <1>20, InTurnAppend
    <2>2. view' = [view EXCEPT !.early = early]
      BY <1>2, <1>20
    <2> HIDE DEF early
    <2>3. view' \in Views
      BY <2>1, <2>2, <1>4, Zenon DEF Views
    <2>4. /\ view'.early = early /\ view'.adopted = view.adopted
          /\ view'.covered = view.covered /\ view'.shows = view.shows
      BY <2>2, <1>4 DEF Views
    <2>5. ASSUME NEW n \in ToSet(view.early) PROVE Follows(n, m)
      <3>1. n.type = "data"
        BY <1>4 DEF ViewGood
      <3>2. n.seq \in Seqs(view.early)
        BY <3>1, <1>4, SeqsTyped
      <3> QED BY <3>1, <3>2, <1>12, <1>18, <1>20 DEF Follows
    <2>6. ViewGood'
      <3>1. \A n \in ToSet(early) : n.type = "data" /\ Honest(n)'
        BY <2>1, <1>3, <1>4, <1>12, <1>20 DEF ViewGood, Honest
      <3>2. InTurn(view.early)'
        BY <2>1, <2>4, <2>5, <1>4 DEF ViewGood, InTurn, Follows
      <3> QED BY <3>1, <3>2, <2>4, <1>2, <1>4, <1>20 DEF ViewGood
    <2>7. Seqs(view.early)' = Seqs(early)
      BY <2>4 DEF Seqs
    <2>8. InBounds(client)'
      <3>1. Within(Seqs(early), client.cur) /\ Within(OnWay(client'), client.cur)
        BY <2>1, <1>12, <1>15, <1>16, <1>20 DEF Within
      <3> QED BY <3>1, <2>4, <2>7, <1>2, <1>3, <1>9, <1>15, <1>17 DEF InBounds, Within
    <2>9. OneBehindTheOther(client)'
      <3>1. Below(Seqs(early), OnWay(client'))
        BY <2>1, <1>11, <1>15, <1>18, <1>20 DEF Below
      <3> QED BY <3>1, <2>7, <1>14, <1>15 DEF OneBehindTheOther, Below, Seqs
    <2>10. Live(client)'
      <3>1. Seqs(view.early) \cup OnWay(client) = Seqs(early) \cup OnWay(client')
        BY <2>1, <1>10, <1>20
      <3> QED BY <3>1, <2>4, <2>7, <1>2, <1>9, <1>15, <1>19, <1>20 DEF Live
    <2>11. Kept(client)'
      BY <2>8, <2>9, <2>10, <1>8, <1>9, <1>13, <1>14 DEF Kept, RisesTo, Clients, Messages, Emissions
    <2> QED BY <2>3, <2>6, <2>11, <1>2, <1>4, <1>8, <1>9, RendererMoves
  \* Whatever it has of it already, the terminal leaves aside.
  <1>21. CASE view' = view /\ (m.type = "data" => view.adopted /\ m.seq <= view.covered)
    <2>1. ViewGood'
      <3>1. \A n \in ToSet(view.early) : Honest(n)'
        BY <1>3, <1>4 DEF ViewGood, Honest
      <3> QED BY <3>1, <1>2, <1>4, <1>21 DEF ViewGood
    <2>2. InBounds(client)'
      <3>1. Within(Seqs(view.early), client.cur) /\ Within(OnWay(client'), client.cur)
        BY <1>15, <1>16 DEF Within
      <3> QED BY <3>1, <1>2, <1>3, <1>9, <1>15, <1>17, <1>21 DEF InBounds, Within, Seqs
    <2>3. OneBehindTheOther(client)'
      <3>1. Below(Seqs(view.early), OnWay(client'))
        BY <1>15, <1>18 DEF Below
      <3> QED BY <3>1, <1>14, <1>15, <1>21 DEF OneBehindTheOther, Below, Seqs
    <2>4. Live(client)'
      <3> SUFFICES ASSUME NEW e \in ToSet(client.screen), e > client.replayed
                   PROVE  /\ view.adopted => e \in ToSet(view.shows) \/ (e > view.covered /\ e \in OnWay(client'))
                          /\ reply # NoReply =>
                               e \in ToSet(reply.out) \/ (e > reply.seq /\ e \in Seqs(view.early) \cup OnWay(client'))
        BY <1>2, <1>9, <1>15, <1>21 DEF Live, Seqs
      <3>1. e > view.covered /\ e \in OnWay(client) /\ view.adopted => e \in OnWay(client')
        BY <1>4, <1>10, <1>12, <1>21
      <3>2. m.type = "data" => reply = NoReply
        BY <1>4, <1>21 DEF ViewGood
      <3> QED BY <3>1, <3>2, <1>10, <1>19
    <2>5. Kept(client)'
      BY <2>2, <2>3, <2>4, <1>8, <1>9, <1>13, <1>14 DEF Kept, RisesTo, Clients, Messages, Emissions
    <2> QED BY <2>1, <2>5, <1>2, <1>4, <1>8, <1>9, <1>21, RendererMoves
  \* What is new it shows, a replay instead of all it has shown.
  <1>22. CASE /\ view.adopted /\ view.covered < m.seq
              /\ \/ m.type = "data" /\ view' = [view EXCEPT !.covered = m.seq, !.shows = view.shows \o m.out]
                 \/ m.type = "snapshot" /\ view' = [view EXCEPT !.covered = m.seq, !.shows = m.out]
    <2>1. PICK shows : /\ view' = [view EXCEPT !.covered = m.seq, !.shows = shows]
                       /\ \/ m.type = "data" /\ shows = view.shows \o m.out
                          \/ m.type = "snapshot" /\ shows = m.out
      BY <1>22
    <2>2. m.seq \in 0..MaxSeq /\ view.early = <<>> /\ reply = NoReply /\ RisesTo(view.shows, view.covered)
      BY <1>4, <1>12, <1>22 DEF ViewGood
    <2>31. m.type = "data" => m.out = <<m.seq>> /\ m.seq \in Emissions
      <3>1. m.type = "data" => m.out = <<m.seq>> /\ m.seq \in 1..published
        BY <1>12 DEF Honest
      <3>2. published \in Int /\ produced \in Int /\ published <= produced /\ produced <= MaxSeq
        BY BoundsAssumption DEF IInv, TypeOK
      <3> QED BY <3>1, <3>2, BoundsAssumption DEF Emissions
    <2>32. m.type = "data" => shows = view.shows \o <<m.seq>>
      BY <2>1, <2>31
    <2>3. shows \in Seq(Emissions) /\ RisesTo(shows, m.seq)
      <3>1. CASE m.type = "data"
        <4>1. m.seq \in Emissions /\ shows = view.shows \o <<m.seq>> /\ view.covered \in Int
          BY <3>1, <2>31, <2>32, <1>4
        <4> QED BY <4>1, <2>2, <1>4, <1>22, ShownNext
      <3>2. CASE m.type = "snapshot"
        <4>1. shows = UpTo(m.seq) /\ m.seq \in Nat
          BY <3>2, <2>1, <2>2, <1>12 DEF Honest
        <4>2. shows \in Seq(Emissions)
          BY <3>2, <2>1, <1>6 DEF Messages
        <4> QED BY <4>1, <4>2, PrefixIsWhole
      <3> QED BY <3>1, <3>2, <2>1
    <2>4. view' \in Views
      BY <2>1, <2>2, <2>3, <1>4, Zenon DEF Views
    <2>5. /\ view'.early = view.early /\ view'.adopted = view.adopted
          /\ view'.covered = m.seq /\ view'.shows = shows
      BY <2>1, <1>4 DEF Views
    <2>6. ViewGood'
      BY <2>2, <2>3, <2>5, <1>2, <1>22, NothingCarried DEF ViewGood, InTurn
    <2>7. InBounds(client)'
      <3>1. Within(Seqs(view.early), client.cur) /\ Within(OnWay(client'), client.cur)
        BY <1>15, <1>16 DEF Within
      <3>2. m.seq <= client.cur
        <4>1. CASE m.type = "data"
          BY <4>1, <1>12
        <4>2. CASE m.type = "snapshot"
          <5>1. m.seq <= client.replayed
            BY <4>2, <1>12
          <5>2. client.replayed <= client.cur /\ client.cur \in Int /\ client.replayed \in Int /\ m.seq \in Int
            BY <1>17, <1>4, <2>2
          <5> QED BY <5>1, <5>2
        <4> QED BY <4>1, <4>2, <2>1
      <3> QED BY <3>1, <3>2, <2>5, <1>2, <1>3, <1>9, <1>15, <1>17 DEF InBounds, Within, Seqs
    <2>8. OneBehindTheOther(client)'
      <3>1. Below(Seqs(view.early), OnWay(client'))
        BY <1>15, <1>18 DEF Below
      <3> QED BY <3>1, <2>5, <1>14, <1>15 DEF OneBehindTheOther, Below, Seqs
    <2>9. Live(client)'
      <3> SUFFICES ASSUME NEW e \in ToSet(client.screen), e > client.replayed
                   PROVE  e \in ToSet(shows) \/ (e > m.seq /\ e \in OnWay(client'))
        BY <2>2, <2>5, <1>2, <1>9, <1>15 DEF Live
      <3>1. e \in ToSet(view.shows) \/ (e > view.covered /\ e \in OnWay(client))
        BY <1>19, <1>22
      <3>2. CASE m.type = "data"
        <4>1. /\ shows \in Seq(Emissions) /\ RisesTo(shows, m.seq)
              /\ ToSet(shows) = ToSet(view.shows) \cup {m.seq}
          <5>1. m.seq \in Emissions /\ shows = view.shows \o <<m.seq>> /\ view.covered \in Int
            BY <3>2, <2>31, <2>32, <1>4
          <5>2. view.shows \in Seq(Emissions) /\ RisesTo(view.shows, view.covered) /\ view.covered < m.seq
            BY <2>2, <1>4, <1>22
          <5> QED BY <5>1, <5>2, ShownNext
        <4>2. e \in OnWay(client') => e > m.seq
          BY <3>2, <2>2, <1>11, <1>15, <1>16
        <4> QED BY <4>1, <4>2, <3>1, <3>2, <1>10
      <3>3. CASE m.type = "snapshot"
        <4>1. e \in Int
          <5>1. client.screen \in Seq(Emissions)
            BY <1>4 DEF Clients
          <5>2. ToSet(client.screen) \subseteq Int
            <6>1. ASSUME NEW j \in DOMAIN client.screen PROVE client.screen[j] \in Emissions
              BY <5>1
            <6> QED BY <6>1 DEF Emissions, ToSet
          <5> QED BY <5>2
        <4>2. m.seq < e
          BY <4>1, <3>3, <2>2, <1>4, <1>12
        <4>3. e \notin ToSet(view.shows)
          BY <4>1, <4>2, <2>2, <1>4, <1>22 DEF RisesTo, Within
        <4> QED BY <4>2, <4>3, <3>1, <3>3, <1>10
      <3> QED BY <3>2, <3>3, <2>1
    <2>10. Kept(client)'
      BY <2>7, <2>8, <2>9, <1>8, <1>9, <1>13, <1>14 DEF Kept, RisesTo, Clients, Messages, Emissions
    <2> QED BY <2>4, <2>6, <2>10, <1>2, <1>4, <1>8, <1>9, RendererMoves
  <1> QED
    <2>1. m.seq \in Int /\ view.covered \in Int
      BY <1>4, <1>12
    <2> QED BY <2>1, <1>2, <1>20, <1>21, <1>22

-----------------------------------------------------------------------------
\* The invariant, and what it says

LEMMA Initially ==
    ASSUME Init
    PROVE  IInv
  <1>1. /\ produced \in 0..1 /\ published = produced /\ ended = FALSE
        /\ up = TRUE /\ asked = "none" /\ barrier = NoBarrier /\ wire = <<>>
        /\ reply = NoReply
        /\ view = [listed |-> FALSE, adopted |-> FALSE, early |-> <<>>,
                   covered |-> 0, shows |-> <<>>]
        /\ drops = 0
    BY DEF Init
  <1>2. PICK restored \in BOOLEAN :
        /\ restored \/ produced = 0
        /\ client = [phase  |-> IF restored THEN "boot" ELSE "ready",
                     alive  |-> ~restored, queued |-> <<>>, cur |-> produced,
                     replayPending |-> restored, replayed |-> produced,
                     running |-> FALSE, again |-> FALSE, missed |-> FALSE, exits |-> 0,
                     screen |-> <<>>, lane |-> <<>>, ipc |-> <<>>]
    BY DEF Init
  <1>3. /\ client.phase \in {"boot", "ready"} /\ (client.phase = "boot" <=> restored)
        /\ (client.alive <=> ~restored) /\ (client.replayPending <=> restored)
        /\ client.cur = produced /\ client.replayed = produced /\ client.exits = 0
        /\ client.queued = <<>> /\ client.screen = <<>> /\ client.lane = <<>> /\ client.ipc = <<>>
    BY <1>2
  <1>4. /\ view.adopted = FALSE /\ view.early = <<>> /\ view.covered = 0 /\ view.shows = <<>>
        /\ reply.seq = -1
    BY <1>1 DEF NoReply
  <1>5. produced \in 0..MaxSeq /\ 0 \in 0..MaxSeq /\ produced >= 0 /\ 0 \in 0..MaxDrops
    BY <1>1, BoundsAssumption
  <1>6. TypeOK
    <2>1. client \in Clients
      BY <1>2, <1>5 DEF Clients
    <2>2. view \in Views
      BY <1>1, <1>5 DEF Views
    <2>3. reply \in Replies
      <3>1. -1 \in -1..MaxSeq
        BY BoundsAssumption
      <3> QED BY <3>1, <1>1 DEF Replies, NoReply
    <2>4. barrier \in -1..produced /\ published \in 0..produced
      BY <1>1 DEF NoBarrier
    <2>5. produced \in 0..MaxSeq /\ drops \in 0..MaxDrops /\ wire \in Seq(Messages)
      BY <1>1, <1>5
    <2>6. ended \in BOOLEAN /\ up \in BOOLEAN /\ asked \in {"none", "list", "snapshot"}
      BY <1>1, Zenon
    <2> QED BY <2>1, <2>2, <2>3, <2>4, <2>5, <2>6, Zenon DEF TypeOK
  <1>7. Seqs(<<>>) = {} /\ ToSet(<<>>) = {} /\ InTurn(<<>>)
    BY NothingCarried
  <1>8. RisesTo(<<>>, client.cur) /\ RisesTo(<<>>, 0)
    BY <1>7 DEF RisesTo, InOrder, Within
  <1>9. OnWay(client) = {}
    BY <1>3, <1>7 DEF OnWay
  <1>10. Kept(client)
    <2>1. InBounds(client)
      BY <1>3, <1>4, <1>5, <1>7, <1>9 DEF InBounds, Within
    <2>2. LaneGood(client) /\ IpcGood(client)
      BY <1>3, <1>7 DEF LaneGood, IpcGood
    <2>4. OneBehindTheOther(client)
      BY <1>3, <1>4, <1>7, <1>9 DEF OneBehindTheOther, Below
    <2>3. Live(client)
      BY <1>3, <1>7 DEF Live
    <2> QED BY <2>1, <2>2, <2>3, <2>4, <1>3, <1>6, <1>8 DEF Kept, TypeOK
  <1>11. ExitsGood(client)
    BY <1>3 DEF ExitsGood
  <1>12. Whole(client)
    <2>1. <<>> = UpTo(0)
      BY DEF UpTo
    <2> QED BY <2>1, <1>2, <1>3 DEF Whole
  <1>13. ViewGood
    BY <1>1, <1>4, <1>7, <1>8 DEF ViewGood
  <1>14. LinkGood /\ WireGood /\ QueueGood
    BY <1>1, <1>3, <1>7 DEF LinkGood, WireGood, QueueGood
  <1>15. Fed /\ EndIsTold /\ ReplayIsFetched
    <2>1. (client.cur + 1)..published = {}
      BY <1>1, <1>3, <1>5
    <2> QED BY <2>1, <1>1, <1>3 DEF Fed, EndIsTold, ReplayIsFetched
  <1> QED BY <1>6, <1>10, <1>11, <1>12, <1>13, <1>14, <1>15 DEF IInv

LEMMA Stuttering ==
    ASSUME IInv, UNCHANGED vars
    PROVE  IInv'
  BY DEF vars, daemonVars, linkVars, viewVars, IInv, TypeOK, Kept, InBounds, LaneGood, IpcGood,
         OneBehindTheOther, Live, OnWay, ExitsGood, Whole, ViewGood, LinkGood, WireGood, ListGood,
         SnapshotGood, QueueGood, Fed, EndIsTold, ReplayIsFetched, Honest, InTurn, RisesTo,
         Seqs, HasExit

LEMMA EveryStep ==
    ASSUME NoBunching, IInv, [Next]_vars
    PROVE  IInv'
  <1>1. CASE UNCHANGED vars
    BY <1>1, Stuttering
  <1>2. CASE Main
    BY <1>2, AdoptKeeps, ReadKeeps, OpenKeeps, AttachKeeps, GiveUpKeeps, RefreshTimesOutKeeps,
       DeliverKeeps, Zenon DEF Main
  <1>3. CASE Daemon
    BY <1>3, EmitKeeps, FlushKeeps, ExitKeeps, AnswerListKeeps, TakeSnapshotKeeps,
       AnswerSnapshotKeeps, Zenon DEF Daemon
  <1>4. CASE Drop
    BY <1>4, DropKeeps
  <1>5. CASE Renderer
    BY <1>5, ListKeeps, AdoptionKeeps, ReceiveKeeps, Zenon DEF Renderer
  <1> QED BY <1>1, <1>2, <1>3, <1>4, <1>5 DEF Next

\* What both places show stays in order.
LEMMA InOrderByInvariant == IInv => OutputInOrder
  BY DEF IInv, Kept, ViewGood, RisesTo, OutputInOrder, ScreenInOrder, ViewInOrder

\* With nothing on its way, live output is nowhere but in what is shown.
LEMMA RepairedByInvariant ==
    ASSUME IInv
    PROVE  GapsAreRepaired
  <1>1. ScreenComplete /\ ReplayIsFetched
    BY DEF IInv, Whole, ScreenComplete
  <1>2. ViewKeepsLive
    <2> SUFFICES ASSUME Settled, NEW e \in ToSet(client.screen), e > client.replayed
                 PROVE  e \in ToSet(view.shows)
      BY DEF ViewKeepsLive
    <2>1. OnWay(client) = {}
      BY NothingCarried DEF Settled, OnWay
    <2>2. e \in ToSet(view.shows) \/ e \in OnWay(client)
      BY DEF IInv, Kept, Live, Settled
    <2> QED BY <2>1, <2>2
  <1> QED BY <1>1, <1>2 DEF GapsAreRepaired

LEMMA ExitsByInvariant == IInv => ExitIsTrueOnce
  BY DEF IInv, ExitsGood, ExitIsTrueOnce, ReportedOnce, ExitIsTrue

-----------------------------------------------------------------------------
\* The theorems

\* In every run without bunching the invariant holds.
LEMMA Invariance ==
    ASSUME NoBunching
    PROVE  Spec => []IInv
  <1>1. Init => IInv
    BY Initially
  <1>2. IInv /\ [Next]_vars => IInv'
    BY EveryStep
  <1> QED BY <1>1, <1>2, PTL DEF Spec

\* Every variable stays in its type: no message, sequence number or queue of
\* the terminal's output ever takes a value that the code does not expect.
THEOREM TypeCorrect ==
    ASSUME NoBunching
    PROVE  Spec => []TypeOK
  <1>1. IInv => TypeOK
    BY DEF IInv
  <1> QED BY <1>1, Invariance, PTL

\* Neither the main process's screen nor the renderer's terminal ever shows an
\* emission twice or behind a later one: for any number of emissions and of lost
\* connections, and whichever of live output, the output kept while synchronizing
\* or before adoption, replays and the answer to terminal.list comes first
\* (processEvent, applySnapshot, TerminalPanel's merge of early output).
THEOREM ShownInOrder ==
    ASSUME NoBunching
    PROVE  Spec => []OutputInOrder
  <1> QED BY InOrderByInvariant, Invariance, PTL

\* No gap hides behind a sequence number, a replay that is owed is being fetched
\* unless its request has timed out, and what was printed after the last replay
\* reaches the adopted terminal (reconcileBackends, enqueueSnapshotRefresh,
\* applySnapshot, the terminal.resync handler).
THEOREM NoGapStays ==
    ASSUME NoBunching
    PROVE  Spec => []GapsAreRepaired
  <1>1. IInv => GapsAreRepaired
    BY RepairedByInvariant
  <1> QED BY <1>1, Invariance, PTL

\* A terminal is reported as exited at most once, and only when its process has
\* ended or the daemon was given up (emitExit, reconcileBackends, reconnect).
THEOREM ExitsAreTrue ==
    ASSUME NoBunching
    PROVE  Spec => []ExitIsTrueOnce
  <1> QED BY ExitsByInvariant, Invariance, PTL

=============================================================================
