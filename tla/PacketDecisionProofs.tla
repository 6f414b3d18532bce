------------------------- MODULE PacketDecisionProofs -------------------------
(***************************************************************************)
(* Packet decisions for any number of packet threads, flows, apps, rules   *)
(* and commands: a decision is the one of the snapshot the packet holds,   *)
(* whatever the per-thread and per-app caches hold; only accepted packets  *)
(* make a flow established; conntrack keeps its shared budget; a lookup in *)
(* the compiled classifier answers as the rules say; and a stats object    *)
(* counts hits of one definition.                                          *)
(***************************************************************************)
EXTENDS PacketDecision, FiniteSetTheorems, SequenceTheorems, WellFoundedInduction, TLAPS

Fields == {"pc", "stage", "pkt", "tele", "snap", "ct", "view", "by", "key", "dec", "verdict", "full"}
Places == {"snapshot", "caps", "fast", "create", "evaluate", "domain", "commit", "insert",
           "observe", "reserve", "observed", "finish"}
Views == {NoView} \cup [state : {"NEW", "ESTABLISHED", "INVALID"}, dir : {"ORIG", "REPLY", "ANY"}, create : BOOLEAN]

\* A thread with a packet.
IsBusy(x) ==
  /\ DOMAIN x = Fields
  /\ x.pc \in Places /\ x.stage \in {"iface", "rules", "domain"} /\ x.pkt \in Packets
  /\ {x.tele, x.ct, x.verdict, x.full} \subseteq BOOLEAN
  /\ x.view \in Views /\ x.by \in {"none", "packet", "telemetry"}

\* Each thread is idle or has a packet; caches and chains have their shape.
ThreadInv == DOMAIN th = Threads /\ \A t \in Threads : th[t] = IdleThread \/ IsBusy(th[t])
Entry == [s0 : Nat, s1 : Nat, rev : BOOLEAN, expired : BOOLEAN, by : {"packet", "telemetry"}, seen : BOOLEAN]
ShapeInv ==
  /\ DOMAIN cache = Threads /\ \A t \in Threads : DOMAIN cache[t] = Families
  /\ DOMAIN caps = Uids
  /\ chain \in [Flows -> Seq(Entry)] /\ total \in Nat

\* The snapshots somebody may decide with: the published one, the empty one a
\* packet starts with, and those packets hold.
Busy == {t \in Threads : th[t].pc # "idle"}
Unread == [epoch |-> 0, rules |-> << >>]
Held == {hot, Unread} \cup {th[t].snap : t \in Busy}

\* An epoch names one snapshot, and whatever a cache keeps under an epoch is
\* what the snapshot of that epoch says.
SnapInv ==
  /\ epoch \in Nat \ {0} /\ hot.epoch = epoch
  /\ \A a \in Held : a.epoch \in 0..epoch
  /\ \A a, b \in Held : a.epoch = b.epoch => a.rules = b.rules
SlotInv ==
  \A t \in Threads, fam \in Families :
    LET slot == cache[t][fam]
    IN /\ slot.epoch \in 0..epoch
       /\ slot # NoSlot => \A a \in Held : a.epoch = slot.epoch => slot.dec = evaluate(a.rules, slot.key)
CapsInv ==
  \A u \in Uids :
    /\ caps[u].epoch \in 0..epoch
    /\ \A a \in Held : a.epoch = caps[u].epoch =>
                         caps[u].mask = {fam \in Families : uidUsesCt(a.rules, u, fam)}

\* The key of a packet has the conntrack state when a rule of its snapshot asks.
NeedsCt(x) == uidUsesCt(x.snap.rules, FlowKey[x.pkt.flow].uid, FamilyOf[x.pkt.flow])
DecidedRight(x) ==
  /\ x.pc \in {"snapshot", "caps"} => x.key = << >>
  /\ x.pc \in {"snapshot", "caps", "evaluate"} => x.stage = "rules"
  /\ x.pc \in {"fast", "create", "evaluate"} /\ x.stage = "rules" => (NeedsCt(x) => x.ct)
  /\ x.key # << >> => /\ x.dec = evaluate(x.snap.rules, x.key)
                      /\ NeedsCt(x) => x.key.eq["ctState"] \in {"NEW", "ESTABLISHED", "INVALID"}
DecInv == \A t \in Busy : DecidedRight(th[t])

\* An accepted packet is behind every accepting verdict, and behind every entry
\* that a packet made.
AcceptInv ==
  \A t \in Busy :
    /\ th[t].verdict \/ th[t].by = "packet" => th[t].pkt.flow \in accepted
    /\ th[t].pc = "insert" => th[t].verdict
Sound(c, acc) ==
  \A f \in Flows : \A i \in DOMAIN c[f] :
    /\ c[f][i].by = "packet" => f \in acc
    /\ i > 1 => c[f][i].expired
ChainInv == Sound(chain, accepted)

\* Between counting an entry and linking it a thread has its shard, in which its
\* flow has no live entry.
Holding == {t \in Threads : th[t].pc \in {"insert", "reserve", "observed"}}
HoldInv ==
  \A t \in Holding :
    /\ ~Found(th[t].pkt.flow)
    /\ \A o \in Holding \ {t} : th[o].pkt.flow \notin InShard(th[t].pkt.flow)

\* The entries counted and not linked yet, and those of them that will be linked.
Counted == {t \in Threads : th[t].pc \in {"insert", "observed"}}
Linking == {t \in Counted : ~th[t].full}
CapInv ==
  /\ total = Entries(chain) + Cardinality(Counted)
  /\ Entries(chain) + Cardinality(Linking) <= MaxEntries

\* The inductive invariant of the packet threads and the rules.
PacketInv ==
  /\ ThreadInv /\ ShapeInv /\ SnapInv /\ SlotInv /\ CapsInv /\ DecInv
  /\ AcceptInv /\ ChainInv /\ HoldInv /\ CapInv

-----------------------------------------------------------------------------
(* Chains of entries. *)

Chains == [Flows -> Seq(Entry)]
Cells(c) == UNION {{f} \X DOMAIN c[f] : f \in Flows}
Top(c, f) == c[f] # << >> /\ ~c[f][1].expired

LEMMA CellsMember ==
    ASSUME NEW c \in Chains, NEW f \in Flows, NEW i
    PROVE  <<f, i>> \in Cells(c) <=> i \in 1..Len(c[f])
<1>1. c[f] \in Seq(Entry) /\ DOMAIN c[f] = 1..Len(c[f])
  BY DEF Chains
<1> QED BY <1>1 DEF Cells

LEMMA CellsPairs ==
    ASSUME NEW c \in Chains, NEW z \in Cells(c)
    PROVE  \E f \in Flows, i \in Nat : z = <<f, i>> /\ i \in 1..Len(c[f])
<1>1. PICK f \in Flows : z \in {f} \X DOMAIN c[f]
  BY DEF Cells
<1>2. DOMAIN c[f] = 1..Len(c[f]) /\ Len(c[f]) \in Nat
  BY DEF Chains
<1>3. PICK i \in 1..Len(c[f]) : z = <<f, i>>
  BY <1>1, <1>2
<1> QED BY <1>2, <1>3

\* There are finitely many entries.
LEMMA CellsFinite ==
    ASSUME NEW c \in Chains
    PROVE  IsFiniteSet(Cells(c)) /\ Entries(c) = Cardinality(Cells(c)) /\ Entries(c) \in Nat
<1> DEFINE T == {{f} \X DOMAIN c[f] : f \in Flows}
           g == [f \in Flows |-> {f} \X DOMAIN c[f]]
<1>1. IsFiniteSet(T)
  <2>1. g \in Surjection(Flows, T)
    BY DEF Surjection
  <2> QED BY <2>1, FS_Surjection, ConntrackStateAssumption
<1>2. \A S \in T : IsFiniteSet(S)
  <2> SUFFICES ASSUME NEW f \in Flows PROVE IsFiniteSet({f} \X DOMAIN c[f])
    OBVIOUS
  <2>1. DOMAIN c[f] = 1..Len(c[f]) /\ Len(c[f]) \in Int
    BY DEF Chains
  <2>2. IsFiniteSet(1..Len(c[f])) /\ IsFiniteSet({f})
    <3>1. 1 \in Int
      OBVIOUS
    <3> QED BY <2>1, <3>1, FS_Interval, FS_Singleton
  <2> QED BY <2>1, <2>2, FS_Product
<1>3. IsFiniteSet(UNION T)
  BY <1>1, <1>2, FS_UNION
<1> QED BY <1>3, FS_CardinalityType DEF Cells, Entries

\* Chains of the same lengths have the same number of entries.
LEMMA SameLengths ==
    ASSUME NEW c \in Chains, NEW d \in Chains, \A f \in Flows : Len(d[f]) = Len(c[f])
    PROVE  Entries(d) = Entries(c)
<1>1. \A f \in Flows : DOMAIN d[f] = DOMAIN c[f]
  BY DEF Chains
<1> QED BY <1>1 DEF Entries

\* Shorter chains have no more entries.
LEMMA Shorter ==
    ASSUME NEW c \in Chains, NEW d \in Chains, \A f \in Flows : Len(d[f]) <= Len(c[f])
    PROVE  Entries(d) <= Entries(c)
<1>1. Cells(d) \subseteq Cells(c)
  <2> SUFFICES ASSUME NEW z \in Cells(d) PROVE z \in Cells(c)
    OBVIOUS
  <2>1. PICK f \in Flows, i \in Nat : z = <<f, i>> /\ i \in 1..Len(d[f])
    BY CellsPairs
  <2>2. Len(d[f]) \in Nat /\ Len(c[f]) \in Nat
    BY DEF Chains
  <2>3. i \in 1..Len(c[f])
    BY <2>1, <2>2
  <2> QED BY <2>1, <2>3, CellsMember
<1> QED BY <1>1, CellsFinite, FS_Subset

\* One entry more.
LEMMA OneLonger ==
    ASSUME NEW c \in Chains, NEW d \in Chains, NEW f \in Flows, Len(d[f]) = Len(c[f]) + 1,
           \A g \in Flows : g # f => Len(d[g]) = Len(c[g])
    PROVE  Entries(d) = Entries(c) + 1
<1> DEFINE n == Len(c[f]) + 1
           z == <<f, n>>
<1>1. Len(c[f]) \in Nat /\ \A g \in Flows : Len(c[g]) \in Nat /\ Len(d[g]) \in Nat
  BY DEF Chains
<1>2. z \notin Cells(c)
  <2>1. n \notin 1..Len(c[f])
    BY <1>1
  <2> QED BY <2>1, CellsMember
<1>3. Cells(d) = Cells(c) \cup {z}
  <2>1. ASSUME NEW y \in Cells(d) PROVE y \in Cells(c) \cup {z}
    <3>1. PICK g \in Flows, i \in Nat : y = <<g, i>> /\ i \in 1..Len(d[g])
      BY CellsPairs
    <3>2. CASE g = f /\ i = n
      BY <3>1, <3>2
    <3>3. CASE ~(g = f /\ i = n)
      <4>1. i \in 1..Len(c[g])
        BY <1>1, <3>1, <3>3
      <4> QED BY <3>1, <4>1, CellsMember
    <3> QED BY <3>2, <3>3
  <2>2. ASSUME NEW y \in Cells(c) PROVE y \in Cells(d)
    <3>1. PICK g \in Flows, i \in Nat : y = <<g, i>> /\ i \in 1..Len(c[g])
      BY CellsPairs
    <3>2. i \in 1..Len(d[g])
      BY <1>1, <3>1
    <3> QED BY <3>1, <3>2, CellsMember
  <2>3. z \in Cells(d)
    <3>1. n \in 1..Len(d[f])
      BY <1>1
    <3> QED BY <3>1, CellsMember
  <2> QED BY <2>1, <2>2, <2>3
<1> HIDE DEF z
<1>4. Cardinality(Cells(c) \cup {z}) = Cardinality(Cells(c)) + 1
  BY <1>2, CellsFinite, FS_AddElement
<1> QED BY <1>3, <1>4, CellsFinite

\* What a sweep keeps stays where it is.
LEMMA SweptFacts ==
    ASSUME NEW c \in Chains, NEW S
    PROVE  /\ Swept(c, S) \in Chains
           /\ \A f \in Flows : /\ Len(Swept(c, S)[f]) <= Len(c[f])
                               /\ \A i \in DOMAIN Swept(c, S)[f] : i \in DOMAIN c[f] /\ Swept(c, S)[f][i] = c[f][i]
                               /\ Top(Swept(c, S), f) <=> Top(c, f)
           /\ Entries(Swept(c, S)) <= Entries(c)
           /\ Entries(Swept(c, S)) \in Nat /\ Entries(c) \in Nat
<1>1. ASSUME NEW f \in Flows
      PROVE  /\ Live(c[f]) \in Seq(Entry) /\ Len(Live(c[f])) <= Len(c[f])
             /\ \A i \in DOMAIN Live(c[f]) : i \in DOMAIN c[f] /\ Live(c[f])[i] = c[f][i]
             /\ (Live(c[f]) # << >> /\ ~Live(c[f])[1].expired) <=> (c[f] # << >> /\ ~c[f][1].expired)
  <2>1. c[f] \in Seq(Entry) /\ Len(c[f]) \in Nat /\ DOMAIN c[f] = 1..Len(c[f])
    BY DEF Chains
  <2>2. CASE c[f] # << >> /\ ~c[f][1].expired
    <3> DEFINE e == c[f][1]
    <3>1. Len(c[f]) >= 1 /\ e \in Entry /\ Live(c[f]) = <<e>>
      BY <2>1, <2>2 DEF Live
    <3>2. ~e.expired
      BY <2>2
    <3> HIDE DEF e
    <3>3. <<e>> \in Seq(Entry) /\ Len(<<e>>) = 1 /\ DOMAIN <<e>> = {1} /\ <<e>>[1] = e /\ <<e>> # << >>
      BY <3>1
    <3>4. 1 \in DOMAIN c[f] /\ e = c[f][1]
      BY <2>1, <3>1 DEF e
    <3> QED BY <2>1, <2>2, <3>1, <3>2, <3>3, <3>4
  <2>3. CASE ~(c[f] # << >> /\ ~c[f][1].expired)
    <3>1. Live(c[f]) = << >>
      BY <2>3 DEF Live
    <3>2. << >> \in Seq(Entry) /\ Len(<< >>) = 0 /\ DOMAIN << >> = {}
      OBVIOUS
    <3> QED BY <2>1, <2>3, <3>1, <3>2
  <2> QED BY <2>2, <2>3
<1>2. Swept(c, S) \in Chains
  BY <1>1 DEF Swept, Chains
<1>3. ASSUME NEW f \in Flows
      PROVE  /\ Len(Swept(c, S)[f]) <= Len(c[f])
             /\ \A i \in DOMAIN Swept(c, S)[f] : i \in DOMAIN c[f] /\ Swept(c, S)[f][i] = c[f][i]
             /\ Top(Swept(c, S), f) <=> Top(c, f)
  <2>1. CASE f \in S
    <3>1. Swept(c, S)[f] = Live(c[f])
      BY <2>1 DEF Swept
    <3> QED BY <1>1, <3>1 DEF Top
  <2>2. CASE f \notin S
    <3>1. Swept(c, S)[f] = c[f] /\ Len(c[f]) \in Nat
      BY <2>2 DEF Swept, Chains
    <3> QED BY <3>1 DEF Top
  <2> QED BY <2>1, <2>2
<1> QED BY <1>2, <1>3, Shorter, CellsFinite

-----------------------------------------------------------------------------
(* Threads. *)

\* Thread t goes on as x.
Goes(t, x) ==
  /\ th' = [th EXCEPT ![t] = x]
  /\ x = IdleThread \/ (IsBusy(x) /\ x.snap \in Held)

LEMMA GoesFacts ==
    ASSUME PacketInv, NEW t \in Threads, NEW x, Goes(t, x)
    PROVE  /\ ThreadInv' /\ th'[t] = x /\ \A o \in Threads : o # t => th'[o] = th[o]
           /\ hot' = hot => Held' \subseteq Held
           /\ Busy' \subseteq Busy \cup {t} /\ (x = IdleThread => t \notin Busy')
<1>1. th'[t] = x /\ (\A o \in Threads : o # t => th'[o] = th[o]) /\ DOMAIN th' = Threads
  BY DEF Goes, PacketInv, ThreadInv
<1>2. ThreadInv'
  <2>1. IsBusy(x)' <=> IsBusy(x)
    OBVIOUS
  <2>2. \A o \in Threads : th'[o] = IdleThread \/ IsBusy(th'[o])
    BY <1>1 DEF Goes, PacketInv, ThreadInv
  <2> QED BY <1>1, <2>2 DEF ThreadInv
<1>3. Busy' \subseteq Busy \cup {t} /\ (x = IdleThread => t \notin Busy')
  BY <1>1 DEF Busy, IdleThread
<1>4. ASSUME hot' = hot, NEW a \in Held' PROVE a \in Held
  <2>1. CASE a = hot' \/ a = Unread
    BY <1>4, <2>1 DEF Held
  <2>2. CASE \E o \in Busy' : a = th'[o].snap
    <3>1. PICK o \in Busy' : a = th'[o].snap
      BY <2>2
    <3>2. CASE o = t
      <4>1. x # IdleThread
        BY <1>3, <3>1, <3>2
      <4> QED BY <1>1, <3>1, <3>2, <4>1 DEF Goes
    <3>3. CASE o # t
      <4>1. o \in Busy /\ o \in Threads
        BY <1>3, <3>1, <3>3 DEF Busy
      <4> QED BY <1>1, <3>1, <3>3, <4>1 DEF Held
    <3> QED BY <3>2, <3>3
  <2> QED BY <1>4, <2>1, <2>2 DEF Held
<1> QED BY <1>1, <1>2, <1>3, <1>4

\* Caches that stay as they are stay right.
LEMMA CachesKept ==
    ASSUME PacketInv, UNCHANGED <<epoch, hot>>, Held' \subseteq Held
    PROVE  SnapInv' /\ (cache' = cache => SlotInv') /\ (caps' = caps => CapsInv')
<1>1. SnapInv'
  BY DEF PacketInv, SnapInv
<1>2. ASSUME cache' = cache PROVE SlotInv'
  BY <1>2 DEF PacketInv, SlotInv
<1>3. ASSUME caps' = caps PROVE CapsInv'
  BY <1>3 DEF PacketInv, CapsInv
<1> QED BY <1>1, <1>2, <1>3

\* What is known of a thread with a packet.
LEMMA BusyFacts ==
    ASSUME PacketInv, NEW t \in Threads, th[t].pc # "idle"
    PROVE  /\ IsBusy(th[t]) /\ th[t].snap \in Held /\ DecidedRight(th[t])
           /\ th[t].verdict \/ th[t].by = "packet" => th[t].pkt.flow \in accepted
           /\ th[t].pc = "insert" => th[t].verdict
           /\ th[t].pkt.flow \in Flows
<1>1. t \in Busy /\ IsBusy(th[t])
  BY DEF Busy, PacketInv, ThreadInv, IdleThread
<1>2. th[t].pkt.flow \in Flows
  BY <1>1, ConntrackStateAssumption DEF IsBusy
<1> QED BY <1>1, <1>2 DEF PacketInv, DecInv, AcceptInv, Held

\* The part of the invariant that is about the packets and their decisions.
LEMMA PacketMoves ==
    ASSUME PacketInv, NEW t \in Threads, NEW x, Goes(t, x), UNCHANGED <<epoch, hot>>,
           accepted \subseteq accepted',
           x # IdleThread =>
             /\ DecidedRight(x)
             /\ x.verdict \/ x.by = "packet" => x.pkt.flow \in accepted'
             /\ x.pc = "insert" => x.verdict
    PROVE  /\ ThreadInv' /\ SnapInv' /\ DecInv' /\ AcceptInv'
           /\ cache' = cache => SlotInv'
           /\ caps' = caps => CapsInv'
<1>1. /\ ThreadInv' /\ th'[t] = x /\ \A o \in Threads : o # t => th'[o] = th[o]
      /\ Held' \subseteq Held
      /\ Busy' \subseteq Busy \cup {t} /\ (x = IdleThread => t \notin Busy')
  BY GoesFacts
<1>2. \A o \in Busy' : o \in Threads /\ ((o = t /\ x # IdleThread) \/ (o # t /\ o \in Busy /\ th'[o] = th[o]))
  BY <1>1 DEF Busy
<1>3. DecInv'
  <2> SUFFICES ASSUME NEW o \in Busy' PROVE DecidedRight(th'[o])
    BY DEF DecInv, DecidedRight, NeedsCt
  <2> QED BY <1>1, <1>2 DEF PacketInv, DecInv
<1>4. AcceptInv'
  BY <1>1, <1>2 DEF PacketInv, AcceptInv
<1> QED BY <1>1, <1>3, <1>4, CachesKept

\* The part that is about conntrack, when entries only go or change.
LEMMA ConntrackQuiet ==
    ASSUME PacketInv, chain' \in Chains, Holding' = Holding, \A o \in Holding : th'[o] = th[o],
           total' = total - (Entries(chain) - Entries(chain')), Entries(chain') <= Entries(chain),
           \A f \in Flows : Top(chain', f) => Top(chain, f)
    PROVE  total' \in Nat /\ HoldInv' /\ CapInv'
<1>1. chain \in Chains /\ total \in Nat
  BY DEF PacketInv, ShapeInv, Chains
<1>2. HoldInv'
  <2> SUFFICES ASSUME NEW o \in Holding
               PROVE  /\ ~Top(chain', th'[o].pkt.flow)
                      /\ \A q \in Holding \ {o} : th'[q].pkt.flow \notin InShard(th'[o].pkt.flow)
    BY DEF HoldInv, Found, Top, InShard
  <2>1. th[o].pc # "idle" /\ o \in Threads
    BY DEF Holding
  <2>2. th[o].pkt.flow \in Flows
    BY <2>1, BusyFacts
  <2> QED BY <2>2 DEF PacketInv, HoldInv, Found, Top
<1>3. Counted' = Counted /\ Linking' = Linking
  <2>1. \A o \in Threads : th'[o].pc \in {"insert", "reserve", "observed"} <=> th[o].pc \in {"insert", "reserve", "observed"}
    BY DEF Holding
  <2>2. \A o \in Threads : th[o].pc \in {"insert", "reserve", "observed"} => th'[o] = th[o]
    BY DEF Holding
  <2> QED BY <2>1, <2>2 DEF Counted, Linking
<1>4. Cardinality(Counted) \in Nat /\ Cardinality(Linking) \in Nat
  BY PacketDecisionAssumption, FS_Subset, FS_CardinalityType DEF Counted, Linking
<1>5. Entries(chain) \in Nat /\ Entries(chain') \in Nat
  BY <1>1, CellsFinite
<1>6. total = Entries(chain) + Cardinality(Counted) /\ Entries(chain) + Cardinality(Linking) <= MaxEntries
  BY DEF PacketInv, CapInv
<1> DEFINE k == Cardinality(Counted)
           l == Cardinality(Linking)
           n == Entries(chain)
           m == Entries(chain')
<1>7. total' = m + k /\ m + l <= MaxEntries /\ total' \in Nat
  <2>1. k \in Nat /\ l \in Nat /\ n \in Nat /\ m \in Nat /\ MaxEntries \in Nat
    BY <1>4, <1>5, ConntrackStateAssumption
  <2>2. total' = total - (n - m) /\ total = n + k /\ n + l <= MaxEntries /\ m <= n
    BY <1>6
  <2> HIDE DEF k, l, n, m
  <2> QED BY <2>1, <2>2
<1> QED BY <1>2, <1>3, <1>7 DEF CapInv

\* A thread that neither had an entry counted nor gets one.
LEMMA Passes ==
    ASSUME PacketInv, NEW t \in Threads, NEW x, Goes(t, x), t \notin Holding,
           x.pc \notin {"insert", "reserve", "observed"}
    PROVE  Holding' = Holding /\ \A o \in Holding : th'[o] = th[o]
<1>1. th'[t] = x /\ \A o \in Threads : o # t => th'[o] = th[o]
  BY GoesFacts
<1> QED BY <1>1 DEF Holding

\* Both parts together, for a step of a thread that leaves the caches alone.
LEMMA StepKeeps ==
    ASSUME PacketInv, NEW t \in Threads, NEW x, Goes(t, x), UNCHANGED <<epoch, hot, cache, caps>>,
           accepted \subseteq accepted',
           x # IdleThread =>
             /\ DecidedRight(x)
             /\ x.verdict \/ x.by = "packet" => x.pkt.flow \in accepted'
             /\ x.pc = "insert" => x.verdict,
           chain' \in Chains, total' \in Nat, ChainInv', HoldInv', CapInv'
    PROVE  PacketInv'
<1>1. ThreadInv' /\ SnapInv' /\ DecInv' /\ AcceptInv' /\ SlotInv' /\ CapsInv'
  BY PacketMoves
<1>2. ShapeInv'
  BY DEF PacketInv, ShapeInv, Chains
<1> QED BY <1>1, <1>2 DEF PacketInv

\* A chain that stays as it is, while more packets may be accepted.
LEMMA ChainSame ==
    ASSUME PacketInv, UNCHANGED <<chain, total>>, accepted \subseteq accepted'
    PROVE  /\ ChainInv' /\ chain' \in Chains /\ total' \in Nat /\ chain \in Chains
           /\ total' = total - (Entries(chain) - Entries(chain')) /\ Entries(chain') <= Entries(chain)
           /\ \A f \in Flows : Top(chain', f) => Top(chain, f)
<1>1. chain \in Chains /\ total \in Nat
  BY DEF PacketInv, ShapeInv, Chains
<1>2. Entries(chain) \in Nat
  BY <1>1, CellsFinite
<1>3. ChainInv'
  BY DEF PacketInv, ChainInv, Sound
<1>4. Entries(chain') = Entries(chain)
  OBVIOUS
<1>5. total' = total - (Entries(chain) - Entries(chain')) /\ Entries(chain') <= Entries(chain)
  BY <1>1, <1>2, <1>4
<1> QED BY <1>1, <1>3, <1>5

\* A step of a thread that looks at conntrack at most.
LEMMA QuietPacket ==
    ASSUME PacketInv, NEW t \in Threads, NEW x, Goes(t, x), UNCHANGED <<epoch, hot, cache, caps, chain, total>>,
           accepted \subseteq accepted', t \notin Holding, x.pc \notin {"insert", "reserve", "observed"},
           x # IdleThread =>
             /\ DecidedRight(x)
             /\ x.verdict \/ x.by = "packet" => x.pkt.flow \in accepted'
    PROVE  PacketInv'
<1>1. /\ ChainInv' /\ chain' \in Chains /\ total' \in Nat
      /\ total' = total - (Entries(chain) - Entries(chain')) /\ Entries(chain') <= Entries(chain)
      /\ \A f \in Flows : Top(chain', f) => Top(chain, f)
  BY ChainSame
<1>2. Holding' = Holding /\ \A o \in Holding : th'[o] = th[o]
  BY Passes
<1>3. HoldInv' /\ CapInv'
  BY <1>1, <1>2, ConntrackQuiet
<1> QED BY <1>1, <1>3, StepKeeps

-----------------------------------------------------------------------------
(* The steps of a packet outside conntrack. *)

LEMMA ArriveKeeps ==
    ASSUME PacketInv, NEW t \in Threads, NEW a \in Arrivals, Arrive(t, a.pkt, a.tele, a.iface, a.on)
    PROVE  PacketInv'
<1> DEFINE no == FALSE
           none == << >>
           pc == IF a.iface THEN IF a.tele /\ a.pkt.l4 THEN "fast" ELSE "finish"
                 ELSE IF a.on THEN "snapshot" ELSE "domain"
           stage == IF a.iface THEN "iface" ELSE "rules"
           x == [pc |-> pc, stage |-> stage, pkt |-> a.pkt, tele |-> a.tele, snap |-> Unread, ct |-> no,
                 view |-> NoView, by |-> "none", key |-> none, dec |-> NoMatch, verdict |-> no, full |-> no]
<1>1. /\ th[t].pc = "idle" /\ th' = [th EXCEPT ![t] = x]
      /\ UNCHANGED <<ruleVars, ctVars, cache, caps, hits, accepted>>
  BY DEF Arrive, Unread
<1>2. /\ pc \in {"fast", "finish", "snapshot", "domain"} /\ stage \in {"iface", "rules"}
      /\ (pc = "snapshot" => stage = "rules") /\ (pc = "fast" => stage = "iface")
  OBVIOUS
<1>3. a.pkt \in Packets /\ a.tele \in BOOLEAN
  BY PacketDecisionAssumption
<1>4. no \in BOOLEAN /\ ~no /\ NoView \in Views /\ none = << >>
  BY DEF Views
<1> HIDE DEF no, none, pc, stage
<1>5. /\ DOMAIN x = Fields /\ x.pc = pc /\ x.stage = stage /\ x.pkt = a.pkt /\ x.tele = a.tele
      /\ x.snap = Unread /\ x.ct = no /\ x.view = NoView /\ x.by = "none" /\ x.key = none
      /\ x.verdict = no /\ x.full = no
  BY DEF Fields
<1> HIDE DEF x
<1>6. IsBusy(x)
  BY <1>2, <1>3, <1>4, <1>5 DEF IsBusy, Places
<1>7. Goes(t, x)
  BY <1>1, <1>5, <1>6 DEF Goes, Held
<1>8. DecidedRight(x)
  BY <1>2, <1>4, <1>5 DEF DecidedRight
<1>9. ~x.verdict /\ x.by # "packet" /\ x.pc \notin {"insert", "reserve", "observed"}
  BY <1>2, <1>4, <1>5
<1>10. t \notin Holding
  BY <1>1 DEF Holding
<1> QED BY <1>1, <1>7, <1>8, <1>9, <1>10, QuietPacket DEF ruleVars, ctVars

LEMMA TakeSnapshotKeeps == ASSUME PacketInv, NEW t \in Threads, TakeSnapshot(t) PROVE PacketInv'
<1> DEFINE x == [th[t] EXCEPT !.pc = "caps", !.snap = hot]
<1>1. /\ th[t].pc = "snapshot" /\ th' = [th EXCEPT ![t] = x]
      /\ UNCHANGED <<ruleVars, ctVars, cache, caps, hits, accepted>>
  BY DEF TakeSnapshot, PacketInv, ThreadInv
<1>2. /\ IsBusy(th[t]) /\ DecidedRight(th[t])
      /\ th[t].verdict \/ th[t].by = "packet" => th[t].pkt.flow \in accepted
  BY <1>1, BusyFacts
<1>3. /\ DOMAIN x = Fields /\ x.pc = "caps" /\ x.stage = th[t].stage /\ x.pkt = th[t].pkt
      /\ x.tele = th[t].tele /\ x.snap = hot /\ x.ct = th[t].ct /\ x.view = th[t].view
      /\ x.by = th[t].by /\ x.key = th[t].key /\ x.verdict = th[t].verdict /\ x.full = th[t].full
  BY <1>2 DEF IsBusy, Fields
<1> HIDE DEF x
<1>4. IsBusy(x)
  BY <1>2, <1>3 DEF IsBusy, Places
<1>5. Goes(t, x)
  BY <1>1, <1>3, <1>4 DEF Goes, Held
<1>6. DecidedRight(x)
  BY <1>1, <1>2, <1>3 DEF DecidedRight
<1>7. t \notin Holding /\ (x.verdict \/ x.by = "packet" => x.pkt.flow \in accepted)
  BY <1>1, <1>2, <1>3 DEF Holding
<1> QED BY <1>1, <1>3, <1>5, <1>6, <1>7, QuietPacket DEF ruleVars, ctVars

\* A mask cached under the epoch of the packet's snapshot is the snapshot's.
LEMMA LoadCapsKeeps == ASSUME PacketInv, NEW t \in Threads, LoadCaps(t) PROVE PacketInv'
<1> DEFINE u == Uid(t)
           snap == th[t].snap
           mask == usesCtMask(u, snap)
           ct == Fam(t) \in mask \/ th[t].tele
           pc == IF ct /\ th[t].pkt.l4 THEN "fast" ELSE "evaluate"
           x == [th[t] EXCEPT !.pc = pc, !.ct = ct]
           y == [epoch |-> snap.epoch, mask |-> mask]
<1>1. /\ th[t].pc = "caps" /\ th' = [th EXCEPT ![t] = x] /\ caps' = [caps EXCEPT ![u] = y]
      /\ UNCHANGED <<ruleVars, ctVars, cache, hits, accepted>>
  BY DEF LoadCaps, PacketInv, ThreadInv
<1>2. /\ IsBusy(th[t]) /\ snap \in Held /\ DecidedRight(th[t]) /\ th[t].pkt.flow \in Flows
      /\ th[t].verdict \/ th[t].by = "packet" => th[t].pkt.flow \in accepted
  BY <1>1, BusyFacts
<1>3. u \in Uids /\ u = FlowKey[th[t].pkt.flow].uid /\ Fam(t) = FamilyOf[th[t].pkt.flow] /\ Fam(t) \in Families
  BY <1>2, PacketDecisionAssumption, ConntrackStateAssumption DEF Uid, Fam, Families
<1>4. mask = {fam \in Families : uidUsesCt(snap.rules, u, fam)}
  BY <1>2, <1>3 DEF usesCtMask, PacketInv, CapsInv
<1>5. ct \in BOOLEAN /\ (uidUsesCt(snap.rules, u, Fam(t)) => ct) /\ pc \in {"fast", "evaluate"}
  BY <1>2, <1>3, <1>4 DEF IsBusy
<1> HIDE DEF u, snap, mask, ct, pc
<1>6. /\ DOMAIN x = Fields /\ x.pc = pc /\ x.stage = th[t].stage /\ x.pkt = th[t].pkt
      /\ x.tele = th[t].tele /\ x.snap = th[t].snap /\ x.ct = ct /\ x.view = th[t].view
      /\ x.by = th[t].by /\ x.key = th[t].key /\ x.verdict = th[t].verdict /\ x.full = th[t].full
  BY <1>2 DEF IsBusy, Fields
<1> HIDE DEF x
<1>7. IsBusy(x) /\ x.snap = snap
  BY <1>2, <1>5, <1>6 DEF IsBusy, Places, snap
<1>8. Goes(t, x)
  BY <1>1, <1>2, <1>7 DEF Goes
<1>9. DecidedRight(x)
  BY <1>1, <1>2, <1>3, <1>5, <1>6, <1>7 DEF DecidedRight, NeedsCt
<1>10. t \notin Holding /\ (x.verdict \/ x.by = "packet" => x.pkt.flow \in accepted) /\ x.pc \notin {"insert", "reserve", "observed"}
  BY <1>1, <1>2, <1>5, <1>6 DEF Holding
<1>11. ThreadInv' /\ SnapInv' /\ DecInv' /\ AcceptInv' /\ SlotInv' /\ Held' \subseteq Held
  BY <1>1, <1>8, <1>9, <1>10, PacketMoves, GoesFacts DEF ruleVars
<1>12. DOMAIN caps = Uids /\ DOMAIN caps' = Uids /\ caps'[u] = y /\ \A v \in Uids : v # u => caps'[v] = caps[v]
  BY <1>1, <1>3 DEF PacketInv, ShapeInv
<1>13. CapsInv'
  <2>1. epoch' = epoch /\ snap.epoch \in 0..epoch /\ y.epoch = snap.epoch /\ y.mask = mask
    BY <1>1, <1>2 DEF ruleVars, PacketInv, SnapInv
  <2>2. \A a \in Held : a.epoch = snap.epoch => a.rules = snap.rules
    BY <1>2 DEF PacketInv, SnapInv
  <2>3. ASSUME NEW v \in Uids
        PROVE  /\ caps'[v].epoch \in 0..epoch
               /\ \A a \in Held' : a.epoch = caps'[v].epoch =>
                                     caps'[v].mask = {fam \in Families : uidUsesCt(a.rules, v, fam)}
    <3>1. CASE v = u
      BY <1>4, <1>11, <1>12, <2>1, <2>2, <3>1
    <3>2. CASE v # u
      BY <1>11, <1>12, <3>2 DEF PacketInv, CapsInv
    <3> QED BY <3>1, <3>2
  <2> QED BY <2>1, <2>3 DEF CapsInv
<1>14. ShapeInv'
  BY <1>1, <1>12 DEF PacketInv, ShapeInv, ctVars
<1>15. /\ ChainInv' /\ HoldInv' /\ CapInv'
  <2>1. /\ ChainInv' /\ chain' \in Chains /\ total' \in Nat
        /\ total' = total - (Entries(chain) - Entries(chain')) /\ Entries(chain') <= Entries(chain)
        /\ \A f \in Flows : Top(chain', f) => Top(chain, f)
    BY <1>1, ChainSame DEF ctVars
  <2>2. Holding' = Holding /\ \A o \in Holding : th'[o] = th[o]
    BY <1>8, <1>10, Passes
  <2> QED BY <2>1, <2>2, ConntrackQuiet
<1> QED BY <1>11, <1>13, <1>14, <1>15 DEF PacketInv

\* A key says what conntrack said, when the packet asked it.
LEMMA KeyFacts ==
    ASSUME NEW p, p.flow \in Flows, NEW ct \in BOOLEAN, NEW view \in Views
    PROVE  ct => KeyOf(p, ct, view).eq["ctState"] \in {"NEW", "ESTABLISHED", "INVALID"}
<1> SUFFICES ASSUME ct PROVE KeyOf(p, ct, view).eq["ctState"] \in {"NEW", "ESTABLISHED", "INVALID"}
  OBVIOUS
<1> DEFINE e == FlowKey[p.flow].eq
           a == IF p.rev THEN "IN" ELSE "OUT"
           b == IF ~ct THEN "ANY" ELSE IF view = NoView THEN "INVALID" ELSE view.state
           c == IF ~ct \/ view = NoView THEN "ANY" ELSE view.dir
<1>1. DOMAIN e = EqSet
  BY PacketDecisionAssumption
<1>2. "ctState" \in EqSet
  <2>1. EqFields[5] = "ctState" /\ 5 \in DOMAIN EqFields
    BY DEF EqFields
  <2> QED BY <2>1 DEF EqSet, Range
<1>3. KeyOf(p, ct, view).eq = [e EXCEPT !["dir"] = a, !["ctState"] = b, !["ctDir"] = c]
  BY DEF KeyOf
<1>4. b \in {"NEW", "ESTABLISHED", "INVALID"}
  BY DEF Views, NoView
<1> HIDE DEF a, b, c, e
<1>5. [e EXCEPT !["dir"] = a, !["ctState"] = b, !["ctDir"] = c]["ctState"] = b
  BY <1>1, <1>2
<1> QED BY <1>3, <1>4, <1>5

\* The decision is the snapshot's, from the cache or not.
LEMMA EvaluateKeeps == ASSUME PacketInv, NEW t \in Threads, Evaluate(t) PROVE PacketInv'
<1> DEFINE snap == th[t].snap
           k == KeyOf(th[t].pkt, th[t].ct, th[t].view)
           f == Fam(t)
           slot == cache[t][f]
           d == IF cacheFresh(slot, snap, k) THEN slot.dec ELSE evaluate(snap.rules, k)
           pc == IF d.kind \in {"ALLOW", "BLOCK"} THEN "commit" ELSE "domain"
           yes == (d.kind = "ALLOW")
           x == [th[t] EXCEPT !.pc = pc, !.key = k, !.dec = d, !.verdict = yes]
           y == [epoch |-> snap.epoch, key |-> k, dec |-> d]
<1>1. /\ th[t].pc = "evaluate" /\ th' = [th EXCEPT ![t] = x] /\ cache' = [cache EXCEPT ![t][f] = y]
      /\ accepted' = (IF yes THEN accepted \cup {th[t].pkt.flow} ELSE accepted)
      /\ UNCHANGED <<ruleVars, ctVars, caps, hits>>
  BY DEF Evaluate, PacketInv, ThreadInv
<1>2. /\ IsBusy(th[t]) /\ snap \in Held /\ DecidedRight(th[t]) /\ th[t].pkt.flow \in Flows
      /\ th[t].by = "packet" => th[t].pkt.flow \in accepted
  BY <1>1, BusyFacts
<1>3. f \in Families /\ f = FamilyOf[th[t].pkt.flow]
  BY <1>2, ConntrackStateAssumption DEF Fam, Families
<1>4. d = evaluate(snap.rules, k)
  BY <1>2, <1>3 DEF cacheFresh, PacketInv, SlotInv
<1>5. NeedsCt(th[t]) => k.eq["ctState"] \in {"NEW", "ESTABLISHED", "INVALID"}
  <2>1. NeedsCt(th[t]) => th[t].ct
    BY <1>1, <1>2 DEF DecidedRight
  <2> QED BY <1>2, <2>1, KeyFacts DEF IsBusy
<1>6. yes \in BOOLEAN /\ pc \in {"commit", "domain"}
  OBVIOUS
<1> HIDE DEF snap, k, f, d, pc, yes, slot
<1>7. /\ DOMAIN x = Fields /\ x.pc = pc /\ x.stage = th[t].stage /\ x.pkt = th[t].pkt
      /\ x.tele = th[t].tele /\ x.snap = th[t].snap /\ x.ct = th[t].ct /\ x.view = th[t].view
      /\ x.by = th[t].by /\ x.key = k /\ x.dec = d /\ x.verdict = yes /\ x.full = th[t].full
  BY <1>2 DEF IsBusy, Fields
<1> HIDE DEF x
<1>8. IsBusy(x) /\ x.snap = snap
  BY <1>2, <1>6, <1>7 DEF IsBusy, Places, snap
<1>9. Goes(t, x)
  BY <1>1, <1>2, <1>8 DEF Goes
<1>10. DecidedRight(x)
  <2>1. NeedsCt(x) <=> NeedsCt(th[t])
    BY <1>7 DEF NeedsCt
  <2> QED BY <1>4, <1>5, <1>6, <1>7, <1>8, <2>1 DEF DecidedRight
<1>11. accepted \subseteq accepted' /\ (x.verdict \/ x.by = "packet" => x.pkt.flow \in accepted')
  BY <1>1, <1>2, <1>7
<1>12. t \notin Holding /\ x.pc \notin {"insert", "reserve", "observed"}
  BY <1>1, <1>6, <1>7 DEF Holding
<1>13. ThreadInv' /\ SnapInv' /\ DecInv' /\ AcceptInv' /\ CapsInv' /\ Held' \subseteq Held
  BY <1>1, <1>9, <1>10, <1>11, <1>12, PacketMoves, GoesFacts DEF ruleVars
<1>14. /\ DOMAIN cache' = Threads /\ \A o \in Threads : DOMAIN cache'[o] = Families
       /\ cache'[t][f] = y
       /\ \A o \in Threads, g \in Families : o # t \/ g # f => cache'[o][g] = cache[o][g]
  BY <1>1, <1>3 DEF PacketInv, ShapeInv
<1>15. SlotInv'
  <2>1. epoch' = epoch /\ snap.epoch \in 0..epoch /\ y.epoch = snap.epoch /\ y.key = k /\ y.dec = d
    BY <1>1, <1>2 DEF ruleVars, PacketInv, SnapInv
  <2>2. \A a \in Held : a.epoch = snap.epoch => a.rules = snap.rules
    BY <1>2 DEF PacketInv, SnapInv
  <2>3. ASSUME NEW o \in Threads, NEW g \in Families
        PROVE  /\ cache'[o][g].epoch \in 0..epoch
               /\ cache'[o][g] # NoSlot =>
                    \A a \in Held' : a.epoch = cache'[o][g].epoch =>
                                       cache'[o][g].dec = evaluate(a.rules, cache'[o][g].key)
    <3>1. CASE o = t /\ g = f
      BY <1>4, <1>13, <1>14, <2>1, <2>2, <3>1
    <3>2. CASE ~(o = t /\ g = f)
      <4>1. cache'[o][g] = cache[o][g]
        BY <1>14, <3>2
      <4> QED BY <1>13, <4>1 DEF PacketInv, SlotInv
    <3> QED BY <3>1, <3>2
  <2> QED BY <2>1, <2>3 DEF SlotInv
<1>16. ShapeInv'
  BY <1>1, <1>14 DEF PacketInv, ShapeInv, ctVars
<1>17. /\ ChainInv' /\ HoldInv' /\ CapInv'
  <2>1. /\ ChainInv' /\ chain' \in Chains /\ total' \in Nat
        /\ total' = total - (Entries(chain) - Entries(chain')) /\ Entries(chain') <= Entries(chain)
        /\ \A g \in Flows : Top(chain', g) => Top(chain, g)
    BY <1>1, <1>11, ChainSame DEF ctVars
  <2>2. Holding' = Holding /\ \A o \in Holding : th'[o] = th[o]
    BY <1>9, <1>12, Passes
  <2> QED BY <2>1, <2>2, ConntrackQuiet
<1> QED BY <1>13, <1>15, <1>16, <1>17 DEF PacketInv

LEMMA DomainKeeps == ASSUME PacketInv, NEW t \in Threads, NEW leak \in BOOLEAN, Domain(t, leak) PROVE PacketInv'
<1> DEFINE pc == IF th[t].tele /\ th[t].view = NoView /\ th[t].pkt.l4 THEN "fast" ELSE "commit"
           ok == ~leak
           x == [th[t] EXCEPT !.pc = pc, !.stage = "domain", !.verdict = ok]
<1>1. /\ th[t].pc = "domain" /\ th' = [th EXCEPT ![t] = x]
      /\ accepted' = (IF leak THEN accepted ELSE accepted \cup {th[t].pkt.flow})
      /\ UNCHANGED <<ruleVars, ctVars, cache, caps, hits>>
  BY DEF Domain, PacketInv, ThreadInv
<1>2. /\ IsBusy(th[t]) /\ DecidedRight(th[t]) /\ th[t].snap \in Held
      /\ th[t].by = "packet" => th[t].pkt.flow \in accepted
  BY <1>1, BusyFacts
<1>3. pc \in {"fast", "commit"} /\ ok \in BOOLEAN /\ (ok => ~leak)
  OBVIOUS
<1> HIDE DEF pc, ok
<1>4. /\ DOMAIN x = Fields /\ x.pc = pc /\ x.stage = "domain" /\ x.pkt = th[t].pkt /\ x.dec = th[t].dec
      /\ x.tele = th[t].tele /\ x.snap = th[t].snap /\ x.ct = th[t].ct /\ x.view = th[t].view
      /\ x.by = th[t].by /\ x.key = th[t].key /\ x.verdict = ok /\ x.full = th[t].full
  BY <1>2 DEF IsBusy, Fields
<1> HIDE DEF x
<1>5. IsBusy(x)
  BY <1>2, <1>3, <1>4 DEF IsBusy, Places
<1>6. Goes(t, x)
  BY <1>1, <1>2, <1>4, <1>5 DEF Goes
<1>7. DecidedRight(x)
  BY <1>1, <1>2, <1>3, <1>4 DEF DecidedRight, NeedsCt
<1>8. t \notin Holding /\ x.pc \notin {"insert", "reserve", "observed"}
  BY <1>1, <1>3, <1>4 DEF Holding
<1>9. accepted \subseteq accepted' /\ (x.verdict \/ x.by = "packet" => x.pkt.flow \in accepted')
  BY <1>1, <1>2, <1>3, <1>4
<1> QED BY <1>1, <1>6, <1>7, <1>8, <1>9, QuietPacket DEF ruleVars, ctVars

LEMMA FinishKeeps == ASSUME PacketInv, NEW t \in Threads, Finish(t) PROVE PacketInv'
<1>1. /\ th[t].pc = "finish" /\ th' = [th EXCEPT ![t] = IdleThread]
      /\ UNCHANGED <<ruleVars, ctVars, cache, caps, accepted>>
  BY DEF Finish
<1>2. Goes(t, IdleThread)
  BY <1>1 DEF Goes
<1>3. t \notin Holding /\ IdleThread.pc \notin {"insert", "reserve", "observed"}
  BY <1>1 DEF Holding, IdleThread
<1> QED BY <1>1, <1>2, <1>3, QuietPacket DEF ruleVars, ctVars

-----------------------------------------------------------------------------
(* What conntrack does to the entries of a flow. *)

LEMMA SweptSound ==
    ASSUME NEW c \in Chains, NEW acc, Sound(c, acc), NEW S
    PROVE  Sound(Swept(c, S), acc)
<1> DEFINE d == Swept(c, S)
<1>1. \A f \in Flows : \A i \in DOMAIN d[f] : i \in DOMAIN c[f] /\ d[f][i] = c[f][i]
  BY SweptFacts
<1> HIDE DEF d
<1>2. Sound(d, acc)
  BY <1>1 DEF Sound
<1> QED BY <1>2 DEF d

\* The newest entry of a flow changes.
LEMMA HeadFacts ==
    ASSUME NEW c \in Chains, NEW f \in Flows, c[f] # << >>, NEW e \in Entry, e.by = c[f][1].by,
           NEW acc, Sound(c, acc)
    PROVE  LET d == [c EXCEPT ![f] = [c[f] EXCEPT ![1] = e]]
           IN /\ d \in Chains /\ Entries(d) = Entries(c) /\ Entries(c) \in Nat /\ Sound(d, acc)
              /\ \A g \in Flows : Top(d, g) => Top(c, g) \/ g = f
<1> DEFINE q == c[f]
           r == [q EXCEPT ![1] = e]
           d == [c EXCEPT ![f] = r]
<1>1. q \in Seq(Entry) /\ Len(q) \in Nat /\ Len(q) > 0 /\ DOMAIN q = 1..Len(q)
  BY DEF Chains
<1>2. r \in Seq(Entry) /\ Len(r) = Len(q) /\ DOMAIN r = DOMAIN q /\ r[1] = e /\ \A i \in DOMAIN q : i # 1 => r[i] = q[i]
  BY <1>1
<1> HIDE DEF r
<1>3. d \in Chains /\ d[f] = r /\ \A g \in Flows : g # f => d[g] = c[g]
  BY <1>2 DEF Chains
<1> HIDE DEF d
<1>4. Entries(d) = Entries(c) /\ Entries(c) \in Nat
  <2>1. \A g \in Flows : Len(d[g]) = Len(c[g])
    BY <1>2, <1>3
  <2> QED BY <1>3, <2>1, SameLengths, CellsFinite
<1>5. Sound(d, acc)
  <2> SUFFICES ASSUME NEW g \in Flows, NEW i \in DOMAIN d[g]
               PROVE  (d[g][i].by = "packet" => g \in acc) /\ (i > 1 => d[g][i].expired)
    BY DEF Sound
  <2>1. CASE g # f
    BY <1>3, <2>1 DEF Sound
  <2>2. CASE g = f
    <3>1. i \in DOMAIN q /\ d[g][i] = r[i]
      BY <1>2, <1>3, <2>2
    <3>2. CASE i = 1
      <4>1. 1 \in DOMAIN c[f]
        BY <1>1
      <4>2. c[f][1].by = "packet" => f \in acc
        BY <4>1 DEF Sound
      <4> QED BY <1>2, <2>2, <3>1, <3>2, <4>2
    <3>3. CASE i # 1
      <4>1. d[g][i] = c[f][i] /\ i \in DOMAIN c[f]
        BY <1>2, <3>1, <3>3
      <4> QED BY <2>2, <4>1 DEF Sound
    <3> QED BY <3>2, <3>3
  <2> QED BY <2>1, <2>2
<1>6. \A g \in Flows : Top(d, g) => Top(c, g) \/ g = f
  BY <1>3 DEF Top
<1> QED BY <1>3, <1>4, <1>5, <1>6 DEF d, r

\* An entry is linked in front; those behind it are expired.
LEMMA PushFacts ==
    ASSUME NEW c \in Chains, NEW f \in Flows, ~Top(c, f), NEW e \in Entry,
           NEW acc, Sound(c, acc), e.by = "packet" => f \in acc
    PROVE  LET d == [c EXCEPT ![f] = <<e>> \o c[f]]
           IN /\ d \in Chains /\ Entries(d) = Entries(c) + 1 /\ Entries(c) \in Nat /\ Sound(d, acc)
              /\ \A g \in Flows : Top(d, g) => Top(c, g) \/ g = f
<1> DEFINE q == c[f]
           r == <<e>> \o q
           d == [c EXCEPT ![f] = r]
<1>1. q \in Seq(Entry) /\ Len(q) \in Nat /\ DOMAIN q = 1..Len(q)
  BY DEF Chains
<1>2. /\ r \in Seq(Entry) /\ Len(r) = Len(q) + 1 /\ DOMAIN r = 1..(Len(q) + 1) /\ r[1] = e
      /\ \A i \in 2..(Len(q) + 1) : r[i] = q[i - 1]
  BY <1>1
<1> HIDE DEF r
<1>3. d \in Chains /\ d[f] = r /\ \A g \in Flows : g # f => d[g] = c[g]
  BY <1>2 DEF Chains
<1> HIDE DEF d
<1>4. Entries(d) = Entries(c) + 1 /\ Entries(c) \in Nat
  <2>1. Len(d[f]) = Len(c[f]) + 1 /\ \A g \in Flows : g # f => Len(d[g]) = Len(c[g])
    BY <1>2, <1>3
  <2> QED BY <1>3, <2>1, OneLonger, CellsFinite
<1>5. Sound(d, acc)
  <2> SUFFICES ASSUME NEW g \in Flows, NEW i \in DOMAIN d[g]
               PROVE  (d[g][i].by = "packet" => g \in acc) /\ (i > 1 => d[g][i].expired)
    BY DEF Sound
  <2>1. CASE g # f
    BY <1>3, <2>1 DEF Sound
  <2>2. CASE g = f
    <3>1. i \in 1..(Len(q) + 1) /\ d[g][i] = r[i]
      BY <1>2, <1>3, <2>2
    <3>2. CASE i = 1
      BY <1>2, <2>2, <3>1, <3>2
    <3>3. CASE i # 1
      <4> DEFINE j == i - 1
      <4>1. j \in 1..Len(q) /\ i \in 2..(Len(q) + 1) /\ i > 1
        BY <1>1, <3>1, <3>3
      <4>2. d[g][i] = q[j] /\ j \in DOMAIN q
        BY <1>1, <1>2, <3>1, <4>1
      <4> HIDE DEF j
      <4>3. (q[j].by = "packet" => f \in acc) /\ (j > 1 => q[j].expired)
        BY <4>2 DEF Sound
      <4>4. j = 1 => q[j].expired
        <5>1. Len(q) # 0
          BY <1>1, <4>1
        <5>2. q # << >>
          BY <5>1
        <5> QED BY <5>2 DEF Top
      <4>5. j = 1 \/ j > 1
        BY <1>1, <4>1
      <4> QED BY <2>2, <4>2, <4>3, <4>4, <4>5
    <3> QED BY <3>2, <3>3
  <2> QED BY <2>1, <2>2
<1>6. \A g \in Flows : Top(d, g) => Top(c, g) \/ g = f
  BY <1>3 DEF Top
<1> QED BY <1>3, <1>4, <1>5, <1>6 DEF d, r

\* An entry is evicted; when it was the newest, the next one is expired.
LEMMA EvictFacts ==
    ASSUME NEW c \in Chains, NEW f \in Flows, NEW n \in DOMAIN c[f], NEW acc, Sound(c, acc)
    PROVE  LET d == [c EXCEPT ![f] = RemoveAt(c[f], n)]
           IN /\ d \in Chains /\ Entries(c) = Entries(d) + 1 /\ Entries(d) \in Nat /\ Sound(d, acc)
              /\ \A g \in Flows : Top(d, g) => Top(c, g)
<1> DEFINE q == c[f]
           r == RemoveAt(q, n)
           d == [c EXCEPT ![f] = r]
           l == SubSeq(q, 1, n - 1)
           m == SubSeq(q, n + 1, Len(q))
<1>1. q \in Seq(Entry) /\ Len(q) \in Nat /\ DOMAIN q = 1..Len(q) /\ n \in 1..Len(q)
  BY DEF Chains
<1>2. l \in Seq(Entry) /\ Len(l) = n - 1 /\ \A i \in 1..(n - 1) : l[i] = q[i]
  BY <1>1
<1>3. m \in Seq(Entry) /\ Len(m) = Len(q) - n /\ \A i \in 1..(Len(q) - n) : m[i] = q[i + n]
  <2> DEFINE b == n + 1
             z == Len(q)
  <2>1. b \in Int /\ z \in Int /\ b <= z + 1 /\ z - b + 1 = z - n /\ \A i \in b..z : q[i] \in Entry
    BY <1>1
  <2>2. \A i \in 1..(z - n) : b + i - 1 = i + n
    BY <1>1
  <2> HIDE DEF b, z
  <2>3. /\ SubSeq(q, b, z) \in Seq(Entry) /\ Len(SubSeq(q, b, z)) = (IF b <= z THEN z - b + 1 ELSE 0)
        /\ \A i \in 1..(z - b + 1) : SubSeq(q, b, z)[i] = q[b + i - 1]
    BY <2>1, SubSeqProperties
  <2>4. Len(SubSeq(q, b, z)) = z - n
    BY <2>1, <2>3
  <2>5. \A i \in 1..(z - n) : SubSeq(q, b, z)[i] = q[i + n]
    BY <2>1, <2>2, <2>3
  <2> QED BY <2>3, <2>4, <2>5 DEF b, z
<1>4. r = l \o m
  BY DEF RemoveAt
<1> HIDE DEF l, m, r
<1>0. /\ l \o m \in Seq(Entry) /\ Len(l \o m) = Len(l) + Len(m)
      /\ \A i \in 1..(Len(l) + Len(m)) : (l \o m)[i] = IF i <= Len(l) THEN l[i] ELSE m[i - Len(l)]
  BY <1>2, <1>3, ConcatProperties
<1>5. r \in Seq(Entry) /\ Len(r) = Len(q) - 1 /\ DOMAIN r = 1..(Len(q) - 1)
  <2> DEFINE a == Len(l)
             b == Len(m)
             z == Len(q)
  <2>1. a = n - 1 /\ b = z - n /\ z \in Nat /\ n \in Nat
    BY <1>1, <1>2, <1>3
  <2>2. Len(r) = a + b
    BY <1>0, <1>4
  <2> HIDE DEF a, b, z
  <2>3. Len(r) = z - 1
    BY <2>1, <2>2
  <2>4. r \in Seq(Entry)
    BY <1>0, <1>4
  <2>5. DOMAIN r = 1..Len(r)
    BY <2>4, LenProperties
  <2> QED BY <2>3, <2>4, <2>5 DEF z
<1>6. \A i \in 1..(Len(q) - 1) : r[i] = q[IF i < n THEN i ELSE i + 1]
  <2> SUFFICES ASSUME NEW i \in 1..(Len(q) - 1) PROVE r[i] = q[IF i < n THEN i ELSE i + 1]
    OBVIOUS
  <2>1. CASE i < n
    <3>1. i \in 1..(n - 1) /\ i \in 1..Len(l)
      BY <1>1, <1>2, <2>1
    <3>2. (l \o m)[i] = l[i]
      BY <1>2, <1>3, <3>1
    <3> QED BY <1>2, <1>4, <2>1, <3>1, <3>2
  <2>2. CASE ~(i < n)
    <3> DEFINE j == i - Len(l)
    <3>1. j \in 1..(Len(q) - n) /\ j + n = i + 1 /\ i \in 1..(Len(l) + Len(m)) /\ ~(i <= Len(l))
      BY <1>1, <1>2, <1>3, <2>2, SMTT(30)
    <3>2. (l \o m)[i] = m[j]
      BY <1>0, <3>1
    <3> HIDE DEF j
    <3> QED BY <1>3, <1>4, <2>2, <3>1, <3>2
  <2> QED BY <2>1, <2>2
<1>7. d \in Chains /\ d[f] = r /\ \A g \in Flows : g # f => d[g] = c[g]
  BY <1>5 DEF Chains
<1> HIDE DEF d
<1>8. Entries(c) = Entries(d) + 1 /\ Entries(d) \in Nat
  <2>1. Len(c[f]) = Len(d[f]) + 1 /\ \A g \in Flows : g # f => Len(c[g]) = Len(d[g])
    BY <1>1, <1>5, <1>7
  <2> QED BY <1>7, <2>1, OneLonger, CellsFinite
<1>9. ASSUME NEW i \in DOMAIN r
      PROVE  /\ r[i].by = "packet" => f \in acc
             /\ i > 1 => r[i].expired
             /\ r[i] = q[i] \/ r[i].expired
  <2> DEFINE j == IF i < n THEN i ELSE i + 1
  <2>1. i \in 1..(Len(q) - 1) /\ r[i] = q[j] /\ j \in 1..Len(q) /\ (i > 1 => j > 1) /\ (j = i \/ j > 1)
    BY <1>1, <1>5, <1>6
  <2> HIDE DEF j
  <2>2. (q[j].by = "packet" => f \in acc) /\ (j > 1 => q[j].expired)
    BY <1>1, <2>1 DEF Sound
  <2> QED BY <2>1, <2>2
<1>10. Sound(d, acc)
  BY <1>7, <1>9 DEF Sound
<1>11. \A g \in Flows : Top(d, g) => Top(c, g)
  <2> SUFFICES ASSUME Top(d, f) PROVE Top(c, f)
    BY <1>7 DEF Top
  <2>1. r # << >> /\ ~r[1].expired
    BY <1>7 DEF Top
  <2>2. Len(r) \in Nat \ {0}
    BY <1>5, <2>1, EmptySeq
  <2>3. 1 \in DOMAIN r /\ Len(q) # 0
    <3> DEFINE z == Len(q)
    <3>1. z \in Nat /\ z - 1 \in Nat \ {0} /\ DOMAIN r = 1..(z - 1)
      BY <1>1, <1>5, <2>2
    <3> HIDE DEF z
    <3>2. 1 \in 1..(z - 1) /\ z # 0
      BY <3>1
    <3> QED BY <3>1, <3>2 DEF z
  <2>4. r[1] = q[1]
    BY <1>9, <2>1, <2>3
  <2>5. q # << >>
    BY <2>3
  <2> QED BY <2>1, <2>4, <2>5 DEF Top
<1> QED BY <1>7, <1>8, <1>10, <1>11 DEF d, r

-----------------------------------------------------------------------------
(* A thread that goes on inside conntrack. *)

\* What a packet carries through conntrack unchanged.
Follows(r, x) ==
  /\ DOMAIN x = Fields
  /\ x.stage = r.stage /\ x.pkt = r.pkt /\ x.tele = r.tele /\ x.snap = r.snap
  /\ x.ct = r.ct /\ x.key = r.key /\ x.dec = r.dec /\ x.verdict = r.verdict
  /\ x.view \in Views /\ x.by \in {"none", "packet", "telemetry"} /\ x.full \in BOOLEAN

LEMMA Advance ==
    ASSUME PacketInv, NEW t \in Threads,
           th[t].pc \in {"fast", "create", "commit", "insert", "observe", "reserve", "observed"},
           NEW x, th' = [th EXCEPT ![t] = x], Follows(th[t], x),
           x.pc \in {"create", "evaluate", "commit", "insert", "observe", "reserve", "observed", "finish"},
           x.pc \in {"create", "evaluate"} => th[t].pc \in {"fast", "create"},
           x.pc = "evaluate" => th[t].stage = "rules"
    PROVE  /\ Goes(t, x) /\ DecidedRight(x) /\ th[t].pkt.flow \in Flows
           /\ th'[t] = x /\ \A o \in Threads : o # t => th'[o] = th[o]
<1>1. IsBusy(th[t]) /\ DecidedRight(th[t]) /\ th[t].snap \in Held /\ th[t].pkt.flow \in Flows
  BY BusyFacts
<1>2. IsBusy(x)
  BY <1>1 DEF IsBusy, Follows, Places
<1>3. Goes(t, x)
  BY <1>1, <1>2 DEF Goes, Follows
<1>4. DecidedRight(x)
  <2>1. NeedsCt(x) <=> NeedsCt(th[t])
    BY DEF NeedsCt, Follows
  <2>2. /\ x.stage = th[t].stage /\ x.key = th[t].key /\ x.ct = th[t].ct
        /\ x.dec = th[t].dec /\ x.snap = th[t].snap
    BY DEF Follows
  <2> QED BY <1>1, <2>1, <2>2 DEF DecidedRight
<1>5. th'[t] = x /\ \A o \in Threads : o # t => th'[o] = th[o]
  BY DEF PacketInv, ThreadInv
<1> QED BY <1>1, <1>3, <1>4, <1>5

LEMMA ShardFacts ==
    ASSUME NEW f \in Flows, NEW g \in Flows
    PROVE  f \in InShard(f) /\ (f \in InShard(g) <=> g \in InShard(f))
BY DEF InShard

\* Who holds a shard, when thread t goes on as x.
LEMMA HoldKept ==
    ASSUME PacketInv, NEW t \in Threads, NEW x, Goes(t, x), x.pkt = th[t].pkt, th[t].pkt.flow \in Flows,
           \A f \in Flows : Top(chain', f) => Top(chain, f) \/ (f = th[t].pkt.flow /\ t \in Holding),
           x.pc \in {"insert", "reserve", "observed"} =>
             ~Top(chain', th[t].pkt.flow) /\ (t \in Holding \/ ShardFree(t))
    PROVE  HoldInv'
<1>1. th'[t] = x /\ \A o \in Threads : o # t => th'[o] = th[o]
  BY GoesFacts
<1> DEFINE fl(o) == th[o].pkt.flow
<1>2. \A o \in Holding' : o \in Threads /\ fl(o) \in Flows /\ th'[o].pkt.flow = fl(o) /\ (o # t => o \in Holding)
  <2> SUFFICES ASSUME NEW o \in Holding'
               PROVE  o \in Threads /\ fl(o) \in Flows /\ th'[o].pkt.flow = fl(o) /\ (o # t => o \in Holding)
    OBVIOUS
  <2>1. o \in Threads /\ (o # t => o \in Holding)
    BY <1>1 DEF Holding
  <2>2. o \in Holding => fl(o) \in Flows
    BY BusyFacts DEF Holding
  <2> QED BY <1>1, <2>1, <2>2
<1>3. \A o, p \in Holding : o # p => fl(p) \notin InShard(fl(o))
  BY DEF PacketInv, HoldInv
<1>4. \A o \in Holding : ~Top(chain, fl(o))
  BY DEF PacketInv, HoldInv, Found, Top
<1>5. t \in Holding' => ~Top(chain', fl(t)) /\ (t \in Holding \/ ShardFree(t))
  BY <1>1 DEF Holding
<1>6. ASSUME NEW o \in Holding', NEW p \in Holding', o # p PROVE fl(p) \notin InShard(fl(o))
  <2>1. CASE o \in Holding /\ p \in Holding
    BY <1>3, <1>6, <2>1
  <2>2. CASE o \notin Holding
    <3>1. o = t /\ p \in Holding /\ ShardFree(t)
      BY <1>2, <1>5, <1>6, <2>2
    <3>2. p \in others(t) /\ th[p].pc \in {"insert", "reserve", "observed"}
      BY <1>6, <3>1 DEF Holding, others
    <3> QED BY <3>1, <3>2 DEF ShardFree
  <2>3. CASE p \notin Holding
    <3>1. p = t /\ o \in Holding /\ ShardFree(t)
      BY <1>2, <1>5, <1>6, <2>3
    <3>2. o \in others(t) /\ th[o].pc \in {"insert", "reserve", "observed"}
      BY <1>6, <3>1 DEF Holding, others
    <3>3. fl(o) \notin InShard(fl(p))
      BY <3>1, <3>2 DEF ShardFree
    <3> QED BY <1>2, <1>6, <3>3, ShardFacts
  <2> QED BY <2>1, <2>2, <2>3
<1>7. ASSUME NEW o \in Holding' PROVE ~Top(chain', fl(o))
  <2>1. CASE o = t
    BY <1>5, <1>7, <2>1
  <2>2. CASE o # t
    <3>1. o \in Holding /\ fl(o) \in Flows /\ ~Top(chain, fl(o))
      BY <1>2, <1>4, <1>7, <2>2
    <3>2. t \in Holding => fl(o) # fl(t)
      BY <1>3, <2>2, <3>1, ShardFacts
    <3> QED BY <3>1, <3>2
  <2> QED BY <2>1, <2>2
<1> HIDE DEF fl
<1>8. \A o \in Holding' : th'[o].pkt.flow = fl(o)
  BY <1>2
<1> QED BY <1>6, <1>7, <1>8 DEF HoldInv, Found, Top, InShard

\* How many entries are counted and not linked, with and without thread t.
LEMMA Counts ==
    ASSUME PacketInv, NEW t \in Threads, NEW x, Goes(t, x)
    PROVE  \E k, l \in Nat :
             /\ l <= k
             /\ Cardinality(Counted) = IF th[t].pc \in {"insert", "observed"} THEN k + 1 ELSE k
             /\ Cardinality(Counted') = IF x.pc \in {"insert", "observed"} THEN k + 1 ELSE k
             /\ Cardinality(Linking) = IF th[t].pc \in {"insert", "observed"} /\ ~th[t].full THEN l + 1 ELSE l
             /\ Cardinality(Linking') = IF x.pc \in {"insert", "observed"} /\ ~x.full THEN l + 1 ELSE l
<1>1. th'[t] = x /\ \A o \in Threads : o # t => th'[o] = th[o]
  BY GoesFacts
<1> DEFINE K == Counted \ {t}
           L == Linking \ {t}
<1>2. IsFiniteSet(K) /\ IsFiniteSet(L) /\ t \notin K /\ t \notin L /\ L \subseteq K
  BY PacketDecisionAssumption, FS_Subset DEF Counted, Linking
<1>3. Cardinality(K) \in Nat /\ Cardinality(L) \in Nat /\ Cardinality(L) <= Cardinality(K)
  BY <1>2, FS_CardinalityType, FS_Subset
<1>4. Cardinality(K \cup {t}) = Cardinality(K) + 1 /\ Cardinality(L \cup {t}) = Cardinality(L) + 1
  BY <1>2, FS_AddElement
<1>5. Counted = IF th[t].pc \in {"insert", "observed"} THEN K \cup {t} ELSE K
  BY DEF Counted
<1>6. Counted' = IF x.pc \in {"insert", "observed"} THEN K \cup {t} ELSE K
  BY <1>1 DEF Counted
<1>7. Linking = IF th[t].pc \in {"insert", "observed"} /\ ~th[t].full THEN L \cup {t} ELSE L
  BY DEF Linking, Counted
<1>8. Linking' = IF x.pc \in {"insert", "observed"} /\ ~x.full THEN L \cup {t} ELSE L
  BY <1>1 DEF Linking, Counted
<1> HIDE DEF K, L
<1> DEFINE k == Cardinality(K)
           l == Cardinality(L)
<1>9. /\ k \in Nat /\ l \in Nat /\ l <= k
      /\ Cardinality(Counted) = IF th[t].pc \in {"insert", "observed"} THEN k + 1 ELSE k
      /\ Cardinality(Counted') = IF x.pc \in {"insert", "observed"} THEN k + 1 ELSE k
      /\ Cardinality(Linking) = IF th[t].pc \in {"insert", "observed"} /\ ~th[t].full THEN l + 1 ELSE l
      /\ Cardinality(Linking') = IF x.pc \in {"insert", "observed"} /\ ~x.full THEN l + 1 ELSE l
  BY <1>3, <1>4, <1>5, <1>6, <1>7, <1>8
<1> QED BY <1>9

\* The budget, when thread t goes on as x: the count moves with the entries and
\* with what t has counted, and an entry is counted to be linked only below the
\* budget.
LEMMA CapKept ==
    ASSUME PacketInv, NEW t \in Threads, NEW x, Goes(t, x), chain' \in Chains,
           NEW before \in 0..1, before = IF th[t].pc \in {"insert", "observed"} THEN 1 ELSE 0,
           NEW after \in 0..1, after = IF x.pc \in {"insert", "observed"} THEN 1 ELSE 0,
           total' = total - (Entries(chain) - Entries(chain')) + (after - before),
           \/ Entries(chain') <= Entries(chain) /\ after = 0
           \/ Entries(chain') <= Entries(chain) /\ after = 1 /\ before = 0 /\ (~x.full => total' <= MaxEntries)
           \/ Entries(chain') = Entries(chain) + 1 /\ before = 1 /\ ~th[t].full /\ after = 0
    PROVE  CapInv' /\ total' \in Nat
<1>1. PICK k, l \in Nat :
        /\ l <= k
        /\ Cardinality(Counted) = IF th[t].pc \in {"insert", "observed"} THEN k + 1 ELSE k
        /\ Cardinality(Counted') = IF x.pc \in {"insert", "observed"} THEN k + 1 ELSE k
        /\ Cardinality(Linking) = IF th[t].pc \in {"insert", "observed"} /\ ~th[t].full THEN l + 1 ELSE l
        /\ Cardinality(Linking') = IF x.pc \in {"insert", "observed"} /\ ~x.full THEN l + 1 ELSE l
  BY Counts
<1>2. chain \in Chains /\ total \in Nat
  BY DEF PacketInv, ShapeInv, Chains
<1> DEFINE n == Entries(chain)
           m == Entries(chain')
           lb == Cardinality(Linking)
           la == Cardinality(Linking')
<1>3. n \in Nat /\ m \in Nat /\ MaxEntries \in Nat
  BY <1>2, CellsFinite, ConntrackStateAssumption
<1>4. total = n + k + before /\ n + lb <= MaxEntries
  <2>1. total = n + Cardinality(Counted) /\ n + lb <= MaxEntries
    BY DEF PacketInv, CapInv
  <2>2. Cardinality(Counted) = k + before
    BY <1>1
  <2> QED BY <1>3, <2>1, <2>2
<1>5. lb \in {l, l + 1} /\ (before = 1 /\ ~th[t].full => lb = l + 1)
  BY <1>1
<1>6. la \in {l, l + 1} /\ (after = 0 \/ x.full => la = l)
  BY <1>1
<1>7. Cardinality(Counted') = k + after
  BY <1>1
<1> HIDE DEF n, m, lb, la
<1>8. total' = m + k + after /\ total' \in Nat
  <2>1. total' = total - (n - m) + (after - before)
    BY DEF n, m
  <2> QED BY <1>3, <1>4, <2>1
<1>9. m + la <= MaxEntries
  <2>1. CASE m <= n /\ after = 0
    BY <1>1, <1>3, <1>4, <1>5, <1>6, <2>1
  <2>2. CASE m <= n /\ after = 1 /\ before = 0 /\ (~x.full => total' <= MaxEntries)
    <3>1. CASE x.full
      <4>1. la = l
        BY <1>6, <3>1
      <4> QED BY <1>1, <1>3, <1>4, <1>5, <2>2, <4>1
    <3>2. CASE ~x.full
      <4>1. total' <= MaxEntries
        BY <2>2, <3>2
      <4> QED BY <1>1, <1>3, <1>6, <1>8, <2>2, <4>1
    <3> QED BY <3>1, <3>2
  <2>3. CASE m = n + 1 /\ before = 1 /\ ~th[t].full /\ after = 0
    <3>1. lb = l + 1 /\ la = l
      BY <1>5, <1>6, <2>3
    <3> QED BY <1>1, <1>3, <1>4, <2>3, <3>1
  <2> QED BY <2>1, <2>2, <2>3 DEF n, m
<1> QED BY <1>3, <1>7, <1>8, <1>9 DEF CapInv, n, m, la, lb

-----------------------------------------------------------------------------
(* The steps of a packet in conntrack. *)

\* Thread t goes on inside conntrack as x.
Onward(t, x) ==
  /\ th[t].pc \in {"fast", "create", "commit", "insert", "observe", "reserve", "observed"}
  /\ th' = [th EXCEPT ![t] = x] /\ Follows(th[t], x)
  /\ x.pc \in {"create", "evaluate", "commit", "insert", "observe", "reserve", "observed", "finish"}
  /\ x.pc \in {"create", "evaluate"} => th[t].pc \in {"fast", "create"}
  /\ x.pc = "evaluate" => th[t].stage = "rules"
  /\ x.by = "packet" => th[t].pkt.flow \in accepted
  /\ x.pc = "insert" => th[t].verdict
  /\ UNCHANGED <<epoch, hot, cache, caps, accepted>>

LEMMA ConntrackStep ==
    ASSUME PacketInv, NEW t \in Threads, NEW x, Onward(t, x), chain' \in Chains, Sound(chain', accepted),
           \A f \in Flows : Top(chain', f) => Top(chain, f) \/ (f = th[t].pkt.flow /\ t \in Holding),
           x.pc \in {"insert", "reserve", "observed"} =>
             ~Top(chain', th[t].pkt.flow) /\ (t \in Holding \/ ShardFree(t)),
           Goes(t, x) => CapInv' /\ total' \in Nat
    PROVE  PacketInv'
<1>1. Goes(t, x) /\ DecidedRight(x) /\ th[t].pkt.flow \in Flows
  BY Advance DEF Onward
<1>2. x.pkt = th[t].pkt /\ x.verdict = th[t].verdict
  BY DEF Onward, Follows
<1>3. HoldInv'
  BY <1>1, <1>2, HoldKept
<1>4. ChainInv'
  BY DEF ChainInv, Sound, Onward
<1>5. th[t].verdict => th[t].pkt.flow \in accepted
  BY BusyFacts DEF Onward
<1> QED BY <1>1, <1>2, <1>3, <1>4, <1>5, StepKeeps DEF Onward

\* ... without counting an entry or linking one.
LEMMA Looks ==
    ASSUME PacketInv, NEW t \in Threads, NEW x, Onward(t, x), chain' \in Chains, Sound(chain', accepted),
           \A f \in Flows : Top(chain', f) => Top(chain, f),
           x.pc = "reserve" => ~Top(chain', th[t].pkt.flow) /\ ShardFree(t),
           {th[t].pc, x.pc} \cap {"insert", "observed"} = {},
           total' = total - (Entries(chain) - Entries(chain')), Entries(chain') <= Entries(chain)
    PROVE  PacketInv'
<1> DEFINE zero == 0
<1>0. th[t].pc \notin {"insert", "observed"} /\ x.pc \notin {"insert", "observed"}
  OBVIOUS
<1>1. /\ zero \in 0..1 /\ zero = (IF th[t].pc \in {"insert", "observed"} THEN 1 ELSE 0)
      /\ zero = (IF x.pc \in {"insert", "observed"} THEN 1 ELSE 0) /\ zero = 0
  BY <1>0
<1>2. total' = total - (Entries(chain) - Entries(chain')) + (zero - zero)
  <2>1. Entries(chain) \in Nat /\ Entries(chain') \in Nat /\ total \in Nat
    BY CellsFinite DEF PacketInv, ShapeInv, Chains
  <2> QED BY <2>1
<1> HIDE DEF zero
<1>3. Goes(t, x) => CapInv' /\ total' \in Nat
  BY <1>1, <1>2, CapKept
<1> QED BY <1>3, ConntrackStep

\* ... while no thread moves.
LEMMA ThreadsSame ==
    ASSUME PacketInv, UNCHANGED <<th, epoch, hot, cache, caps, accepted>>, chain' \in Chains,
           Sound(chain', accepted), \A f \in Flows : Top(chain', f) => Top(chain, f),
           total' = total - (Entries(chain) - Entries(chain')), Entries(chain') <= Entries(chain)
    PROVE  PacketInv'
<1>1. Holding' = Holding /\ Busy' = Busy /\ Held' = Held
  BY DEF Holding, Busy, Held
<1>2. total' \in Nat /\ HoldInv' /\ CapInv'
  BY <1>1, ConntrackQuiet
<1>3. SnapInv' /\ SlotInv' /\ CapsInv'
  BY <1>1, CachesKept
<1>4. ThreadInv' /\ DecInv' /\ AcceptInv'
  BY <1>1 DEF PacketInv, ThreadInv, DecInv, AcceptInv
<1>5. ShapeInv' /\ ChainInv'
  BY <1>2 DEF PacketInv, ShapeInv, Chains, ChainInv
<1> QED BY <1>2, <1>3, <1>4, <1>5 DEF PacketInv

\* The ways a thread's record changes.
LEMMA GoMoves ==
    ASSUME PacketInv, NEW t \in Threads, th[t].pc # "idle", NEW pc,
           Go(t, pc)
    PROVE  \E x : th' = [th EXCEPT ![t] = x] /\ Follows(th[t], x) /\ x.pc = pc /\ x.by = th[t].by /\ x.full = th[t].full
<1> DEFINE x == [th[t] EXCEPT !.pc = pc]
<1>1. IsBusy(th[t]) /\ DOMAIN th = Threads
  BY BusyFacts DEF PacketInv, ThreadInv
<1>2. th' = [th EXCEPT ![t] = x]
  BY <1>1 DEF Go
<1>3. Follows(th[t], x) /\ x.pc = pc /\ x.by = th[t].by /\ x.full = th[t].full
  BY <1>1 DEF IsBusy, Fields, Follows
<1> HIDE DEF x
<1> QED BY <1>2, <1>3

Reserved(t, pc, full) == th' = [th EXCEPT ![t].pc = pc, ![t].full = full]

LEMMA FullMoves ==
    ASSUME PacketInv, NEW t \in Threads, th[t].pc # "idle", NEW pc, NEW full \in BOOLEAN,
           Reserved(t, pc, full)
    PROVE  \E x : th' = [th EXCEPT ![t] = x] /\ Follows(th[t], x) /\ x.pc = pc /\ x.by = th[t].by /\ x.full = full
<1> DEFINE x == [th[t] EXCEPT !.pc = pc, !.full = full]
<1>1. IsBusy(th[t]) /\ DOMAIN th = Threads
  BY BusyFacts DEF PacketInv, ThreadInv
<1>2. th' = [th EXCEPT ![t] = x]
  BY <1>1 DEF Reserved
<1>3. Follows(th[t], x) /\ x.pc = pc /\ x.by = th[t].by /\ x.full = full
  BY <1>1 DEF IsBusy, Fields, Follows
<1> HIDE DEF x
<1> QED BY <1>2, <1>3

LEMMA ViewMoves ==
    ASSUME PacketInv, NEW t \in Threads, th[t].pc # "idle", NEW pc, NEW view \in Views,
           th' = [th EXCEPT ![t].pc = pc, ![t].view = view]
    PROVE  \E x : th' = [th EXCEPT ![t] = x] /\ Follows(th[t], x) /\ x.pc = pc /\ x.by = th[t].by
<1> DEFINE x == [th[t] EXCEPT !.pc = pc, !.view = view]
<1>1. IsBusy(th[t]) /\ DOMAIN th = Threads
  BY BusyFacts DEF PacketInv, ThreadInv
<1>2. th' = [th EXCEPT ![t] = x]
  BY <1>1 DEF Go
<1>3. Follows(th[t], x) /\ x.pc = pc /\ x.by = th[t].by
  BY <1>1 DEF IsBusy, Fields, Follows
<1> HIDE DEF x
<1> QED BY <1>2, <1>3

Answered(t, pc, view, by) == th' = [th EXCEPT ![t].pc = pc, ![t].view = view, ![t].by = by]

LEMMA HitMoves ==
    ASSUME PacketInv, NEW t \in Threads, th[t].pc # "idle", NEW pc, NEW view \in Views, NEW by \in {"packet", "telemetry"},
           Answered(t, pc, view, by)
    PROVE  \E x : th' = [th EXCEPT ![t] = x] /\ Follows(th[t], x) /\ x.pc = pc /\ x.by = by
<1> DEFINE x == [th[t] EXCEPT !.pc = pc, !.view = view, !.by = by]
<1>1. IsBusy(th[t]) /\ DOMAIN th = Threads
  BY BusyFacts DEF PacketInv, ThreadInv
<1>2. th' = [th EXCEPT ![t] = x]
  BY <1>1 DEF Answered
<1>3. Follows(th[t], x) /\ x.pc = pc /\ x.by = by
  BY <1>1 DEF IsBusy, Fields, Follows
<1> HIDE DEF x
<1> QED BY <1>2, <1>3

\* A packet leaves its entry an entry, made by who made it, and gets a view.
LEMMA EntryFacts ==
    ASSUME NEW e \in Entry, NEW p
    PROVE  updateExisting(e, p) \in Entry /\ updateExisting(e, p).by = e.by /\ viewOf(e, p) \in Views
<1> DEFINE no == FALSE
           IsLike(d) == d \in Entry /\ d.by = e.by
<1>0. no \in BOOLEAN
  OBVIOUS
<1>1. \A a, b \in Nat : IsLike([e EXCEPT !.s0 = a, !.s1 = b, !.expired = no]) /\ IsLike([e EXCEPT !.s0 = a, !.expired = no])
  <2> HIDE DEF no
  <2> QED BY <1>0 DEF Entry
<1>2. e.s0 \in Nat /\ e.s1 \in Nat
  BY DEF Entry
<1>3. \A s, n \in Nat : bumpAtLeast(s, n) \in Nat
  BY DEF bumpAtLeast
<1>4. IsLike(tcpUpdate(e, p))
  <2> DEFINE src == IF p.rev THEN e.s1 ELSE e.s0
             dst == IF p.rev THEN e.s0 ELSE e.s1
             src1 == IF "SYN" \in p.flags THEN bumpAtLeast(src, SYN_SENT) ELSE src
             src2 == IF "FIN" \in p.flags THEN bumpAtLeast(src1, CLOSING) ELSE src1
             dst2 == IF "ACK" \notin p.flags THEN dst
                     ELSE IF dst = SYN_SENT THEN ESTABLISHED
                     ELSE IF dst = CLOSING THEN FIN_WAIT_2 ELSE dst
  <2>1. src1 \in Nat /\ src2 \in Nat /\ dst2 \in Nat /\ TIME_WAIT \in Nat
    BY <1>2, <1>3 DEF SYN_SENT, CLOSING, ESTABLISHED, FIN_WAIT_2, TIME_WAIT
  <2> DEFINE a == IF p.rev THEN dst2 ELSE src2
             b == IF p.rev THEN src2 ELSE dst2
  <2>2. a \in Nat /\ b \in Nat
    BY <2>1
  <2>3. tcpUpdate(e, p) = IF "RST" \in p.flags THEN [e EXCEPT !.s0 = TIME_WAIT, !.s1 = TIME_WAIT, !.expired = no]
                          ELSE [e EXCEPT !.s0 = a, !.s1 = b, !.expired = no]
    BY DEF tcpUpdate
  <2> HIDE DEF a, b, no, IsLike
  <2> QED BY <1>1, <2>1, <2>2, <2>3
<1>5. IsLike(icmpUpdate(e, p)) /\ IsLike(otherUpdate(e, p))
  <2> DEFINE a == IF p.rev THEN REPLIED ELSE e.s0
             b == IF p.rev THEN BIDIR ELSE IF e.s0 = FIRST THEN MULTIPLE ELSE e.s0
  <2>1. a \in Nat /\ b \in Nat
    BY <1>2 DEF REPLIED, BIDIR, FIRST, MULTIPLE
  <2>2. icmpUpdate(e, p) = [e EXCEPT !.s0 = a, !.expired = no] /\ otherUpdate(e, p) = [e EXCEPT !.s0 = b, !.expired = no]
    BY DEF icmpUpdate, otherUpdate
  <2> HIDE DEF a, b, no, IsLike
  <2> QED BY <1>1, <2>1, <2>2
<1>6. IsLike(updateExisting(e, p))
  BY <1>4, <1>5 DEF updateExisting
<1>7. viewOf(e, p) \in Views
  <2>1. \A s \in {"NEW", "ESTABLISHED", "INVALID"} : \A r : View(s, r) \in Views
    BY DEF View, Views
  <2>2. InvalidView \in Views
    BY DEF InvalidView, Views
  <2> QED BY <2>1, <2>2 DEF viewOf
<1> QED BY <1>6, <1>7

LEMMA AfterFacts ==
    ASSUME PacketInv, NEW t \in Threads, th[t].pc # "idle"
    PROVE  /\ AfterCommit(t) \in {"observe", "finish"}
           /\ AfterInspect(t) \in {"evaluate", "commit", "observe", "finish"}
           /\ AfterInspect(t) = "evaluate" => th[t].stage = "rules"
<1>1. th[t].stage \in {"iface", "rules", "domain"}
  BY BusyFacts DEF IsBusy
<1>2. AfterCommit(t) \in {"observe", "finish"}
  BY DEF AfterCommit
<1> QED BY <1>1, <1>2 DEF AfterInspect

\* The state conntrack is in before any step.
LEMMA ChainFacts ==
    ASSUME PacketInv
    PROVE  chain \in Chains /\ total \in Nat /\ Sound(chain, accepted) /\ Entries(chain) \in Nat
BY CellsFinite DEF PacketInv, ShapeInv, Chains, ChainInv

LEMMA InspectHitKeeps ==
    ASSUME PacketInv, NEW t \in Threads, th[t].pc \in {"fast", "create"}, InspectHit(t),
           UNCHANGED <<ruleVars, cache, caps, hits, accepted, work>>
    PROVE  PacketInv'
<1> DEFINE f == th[t].pkt.flow
           p == Oriented(th[t].pkt)
           e == chain[f][1]
           d == [chain EXCEPT ![f] = [chain[f] EXCEPT ![1] = updateExisting(e, p)]]
<1>1. chain \in Chains /\ total \in Nat /\ Sound(chain, accepted) /\ Entries(chain) \in Nat
  BY ChainFacts
<1>2. f \in Flows /\ IsBusy(th[t])
  BY BusyFacts
<1>3. /\ Found(f) /\ chain' = d /\ total' = total
      /\ th' = [th EXCEPT ![t].pc = AfterInspect(t), ![t].view = viewOf(e, p), ![t].by = e.by]
  BY DEF InspectHit
<1>4. chain[f] # << >> /\ e \in Entry /\ 1 \in DOMAIN chain[f]
  <2>1. chain[f] # << >> /\ chain[f] \in Seq(Entry)
    BY <1>1, <1>2, <1>3 DEF Found, Chains
  <2>2. Len(chain[f]) \in Nat \ {0} /\ DOMAIN chain[f] = 1..Len(chain[f])
    BY <2>1, EmptySeq
  <2> QED BY <2>1, <2>2
<1>5. updateExisting(e, p) \in Entry /\ updateExisting(e, p).by = e.by /\ viewOf(e, p) \in Views
  BY <1>4, EntryFacts
<1>6. e.by \in {"packet", "telemetry"} /\ (e.by = "packet" => f \in accepted)
  BY <1>1, <1>2, <1>4 DEF Entry, Sound
<1> DEFINE u == updateExisting(e, p)
<1> HIDE DEF u
<1>7. /\ chain' \in Chains /\ Entries(chain') = Entries(chain) /\ Sound(chain', accepted)
      /\ \A g \in Flows : Top(chain', g) => Top(chain, g) \/ g = f
  <2>1. u \in Entry /\ u.by = chain[f][1].by /\ chain' = [chain EXCEPT ![f] = [chain[f] EXCEPT ![1] = u]]
    BY <1>3, <1>5 DEF u
  <2> HIDE DEF e, f
  <2> QED BY <1>1, <1>2, <1>4, <2>1, HeadFacts
<1>8. PICK x : th' = [th EXCEPT ![t] = x] /\ Follows(th[t], x) /\ x.pc = AfterInspect(t) /\ x.by = e.by
  <2> DEFINE v == viewOf(e, p)
             b == e.by
             pc == AfterInspect(t)
  <2>1. th[t].pc # "idle" /\ v \in Views /\ b \in {"packet", "telemetry"}
    BY <1>5, <1>6
  <2>2. Answered(t, pc, v, b)
    BY <1>3 DEF Answered
  <2> HIDE DEF v, b, pc
  <2>3. \E x : th' = [th EXCEPT ![t] = x] /\ Follows(th[t], x) /\ x.pc = pc /\ x.by = b
    BY <2>1, <2>2, HitMoves
  <2> QED BY <2>3 DEF pc, b
<1>9. /\ AfterInspect(t) \in {"evaluate", "commit", "observe", "finish"}
      /\ AfterInspect(t) = "evaluate" => th[t].stage = "rules"
  BY AfterFacts
<1>10. Onward(t, x)
  BY <1>6, <1>8, <1>9 DEF Onward, ruleVars
<1>11. \A g \in Flows : Top(chain', g) => Top(chain, g)
  BY <1>3, <1>7 DEF Found, Top
<1>12. total' = total - (Entries(chain) - Entries(chain')) /\ Entries(chain') <= Entries(chain)
  <2> DEFINE n == Entries(chain)
  <2>1. n \in Nat /\ total \in Nat /\ total' = total /\ Entries(chain') = n
    BY <1>1, <1>3, <1>7
  <2> HIDE DEF n
  <2>2. total' = total - (n - Entries(chain')) /\ Entries(chain') <= n
    BY <2>1
  <2> QED BY <2>2 DEF n
<1>13. x.pc # "reserve" /\ {th[t].pc, x.pc} \cap {"insert", "observed"} = {}
  BY <1>8, <1>9
<1> QED BY <1>7, <1>10, <1>11, <1>12, <1>13, Looks

\* A sweep of some flows.
LEMMA SweepFacts ==
    ASSUME PacketInv, NEW S
    PROVE  /\ Swept(chain, S) \in Chains /\ Sound(Swept(chain, S), accepted)
           /\ Entries(Swept(chain, S)) \in Nat /\ Entries(Swept(chain, S)) <= Entries(chain)
           /\ \A f \in Flows : Top(Swept(chain, S), f) <=> Top(chain, f)
           /\ total - (Entries(chain) - Entries(Swept(chain, S))) \in Nat
<1>1. chain \in Chains /\ total \in Nat /\ Sound(chain, accepted) /\ Entries(chain) \in Nat
  BY ChainFacts
<1>2. /\ Swept(chain, S) \in Chains /\ Sound(Swept(chain, S), accepted)
      /\ Entries(Swept(chain, S)) \in Nat /\ Entries(Swept(chain, S)) <= Entries(chain)
      /\ \A f \in Flows : Top(Swept(chain, S), f) <=> Top(chain, f)
  BY <1>1, SweptFacts, SweptSound
<1>3. total >= Entries(chain)
  <2>1. total = Entries(chain) + Cardinality(Counted) /\ Cardinality(Counted) \in Nat
    BY PacketDecisionAssumption, FS_Subset, FS_CardinalityType DEF PacketInv, CapInv, Counted
  <2> QED BY <1>1, <2>1
<1> QED BY <1>1, <1>2, <1>3

LEMMA InspectFastKeeps == ASSUME PacketInv, NEW t \in Threads, InspectFast(t) PROVE PacketInv'
<1> DEFINE f == th[t].pkt.flow
<1>1. th[t].pc = "fast" /\ UNCHANGED <<ruleVars, cache, caps, hits, accepted, work>>
  BY DEF InspectFast
<1>2. f \in Flows /\ (th[t].by = "packet" => f \in accepted)
  BY <1>1, BusyFacts
<1>3. /\ AfterInspect(t) \in {"evaluate", "commit", "observe", "finish"}
      /\ AfterInspect(t) = "evaluate" => th[t].stage = "rules"
  BY <1>1, AfterFacts
<1>4. ASSUME UNCHANGED ctVars, NEW pc \in {"create", AfterInspect(t)}, NEW x, th' = [th EXCEPT ![t] = x],
             Follows(th[t], x), x.pc = pc, x.by = th[t].by
      PROVE  PacketInv'
  <2>1. Onward(t, x)
    BY <1>1, <1>2, <1>3, <1>4 DEF Onward, ruleVars
  <2>2. /\ chain' \in Chains /\ Sound(chain', accepted) /\ \A g \in Flows : Top(chain', g) => Top(chain, g)
        /\ total' = total - (Entries(chain) - Entries(chain')) /\ Entries(chain') <= Entries(chain)
    <3>1. chain' = chain /\ total' = total
      BY <1>4 DEF ctVars
    <3>2. Sound(chain, accepted)
      BY ChainFacts
    <3> QED BY <3>1, <3>2, ChainSame, <1>1
  <2>3. x.pc # "reserve" /\ {th[t].pc, x.pc} \cap {"insert", "observed"} = {}
    BY <1>1, <1>3, <1>4
  <2> QED BY <2>1, <2>2, <2>3, Looks
<1>5. CASE ~Keyed(th[t].pkt)
  <2>1. InvalidView \in Views /\ th[t].pc # "idle"
    BY <1>1 DEF InvalidView, Views
  <2>2. th' = [th EXCEPT ![t].pc = AfterInspect(t), ![t].view = InvalidView] /\ UNCHANGED ctVars
    BY <1>5 DEF InspectFast
  <2>3. PICK x : th' = [th EXCEPT ![t] = x] /\ Follows(th[t], x) /\ x.pc = AfterInspect(t) /\ x.by = th[t].by
    BY <2>1, <2>2, ViewMoves
  <2> QED BY <1>4, <2>2, <2>3
<1>6. CASE Keyed(th[t].pkt) /\ InspectHit(t)
  BY <1>1, <1>6, InspectHitKeeps
<1>7. CASE Keyed(th[t].pkt) /\ Go(t, "create") /\ UNCHANGED ctVars
  <2>1. PICK x : th' = [th EXCEPT ![t] = x] /\ Follows(th[t], x) /\ x.pc = "create" /\ x.by = th[t].by
    BY <1>1, <1>7, GoMoves
  <2> QED BY <1>4, <1>7, <2>1
<1>8. CASE /\ Keyed(th[t].pkt) /\ UNCHANGED th /\ chain' = Swept(chain, InShard(f))
           /\ total' = total - (Entries(chain) - Entries(chain'))
  <2>1. /\ chain' \in Chains /\ Sound(chain', accepted) /\ Entries(chain') <= Entries(chain)
        /\ \A g \in Flows : Top(chain', g) => Top(chain, g)
    BY <1>8, SweepFacts
  <2> QED BY <1>1, <1>8, <2>1, ThreadsSame DEF ruleVars
<1> QED BY <1>5, <1>6, <1>7, <1>8 DEF InspectFast

LEMMA InspectCreateKeeps == ASSUME PacketInv, NEW t \in Threads, InspectCreate(t) PROVE PacketInv'
<1> DEFINE f == th[t].pkt.flow
<1>1. th[t].pc = "create" /\ UNCHANGED <<ruleVars, cache, caps, hits, accepted, work>>
  BY DEF InspectCreate
<1>2. th[t].by = "packet" => f \in accepted
  BY <1>1, BusyFacts
<1>3. CASE Found(f) /\ InspectHit(t)
  BY <1>1, <1>3, InspectHitKeeps
<1>4. CASE ~Found(f)
  <2>1. PICK S \in {{}, InShard(f)} :
          LET n == total - (Entries(chain) - Entries(Swept(chain, S)))
          IN /\ chain' = Swept(chain, S) /\ total' = n
             /\ th' = [th EXCEPT ![t].pc = AfterInspect(t),
                         ![t].view = IF n >= MaxEntries \/ ~ValidNew(th[t].pkt) THEN InvalidView
                                     ELSE [state |-> "NEW", dir |-> "ORIG", create |-> TRUE]]
    BY <1>4 DEF InspectCreate
  <2> DEFINE view == IF total - (Entries(chain) - Entries(Swept(chain, S))) >= MaxEntries \/ ~ValidNew(th[t].pkt)
                     THEN InvalidView ELSE [state |-> "NEW", dir |-> "ORIG", create |-> TRUE]
  <2>2. view \in Views
    BY DEF Views, InvalidView
  <2>3. th' = [th EXCEPT ![t].pc = AfterInspect(t), ![t].view = view] /\ th[t].pc # "idle"
    BY <1>1, <2>1
  <2> HIDE DEF view
  <2>4. PICK x : th' = [th EXCEPT ![t] = x] /\ Follows(th[t], x) /\ x.pc = AfterInspect(t) /\ x.by = th[t].by
    BY <2>2, <2>3, ViewMoves
  <2>5. /\ AfterInspect(t) \in {"evaluate", "commit", "observe", "finish"}
        /\ AfterInspect(t) = "evaluate" => th[t].stage = "rules"
    BY <1>1, AfterFacts
  <2>6. Onward(t, x)
    BY <1>1, <1>2, <2>4, <2>5 DEF Onward, ruleVars
  <2>7. /\ chain' \in Chains /\ Sound(chain', accepted) /\ Entries(chain') <= Entries(chain)
        /\ \A g \in Flows : Top(chain', g) => Top(chain, g)
    BY <2>1, SweepFacts
  <2>8. x.pc # "reserve" /\ {th[t].pc, x.pc} \cap {"insert", "observed"} = {}
    BY <1>1, <2>4, <2>5
  <2>9. total' = total - (Entries(chain) - Entries(chain'))
    BY <2>1
  <2> QED BY <2>6, <2>7, <2>8, <2>9, Looks
<1> QED BY <1>3, <1>4 DEF InspectCreate

\* A thread goes on without counting an entry.
LEMMA GoLooks ==
    ASSUME PacketInv, NEW t \in Threads, th[t].pc \in {"commit", "observe"},
           NEW pc \in {"observe", "reserve", "finish"}, Go(t, pc),
           UNCHANGED <<ruleVars, cache, caps, hits, accepted, work>>, chain' \in Chains, Sound(chain', accepted),
           \A f \in Flows : Top(chain', f) => Top(chain, f),
           pc = "reserve" => ~Top(chain', th[t].pkt.flow) /\ ShardFree(t),
           total' = total - (Entries(chain) - Entries(chain')), Entries(chain') <= Entries(chain)
    PROVE  PacketInv'
<1>1. PICK x : th' = [th EXCEPT ![t] = x] /\ Follows(th[t], x) /\ x.pc = pc /\ x.by = th[t].by
  BY GoMoves
<1>2. th[t].by = "packet" => th[t].pkt.flow \in accepted
  BY BusyFacts
<1>3. Onward(t, x)
  BY <1>1, <1>2 DEF Onward, ruleVars
<1>4. {th[t].pc, x.pc} \cap {"insert", "observed"} = {}
  BY <1>1
<1> QED BY <1>1, <1>3, <1>4, Looks

LEMMA SameChain ==
    ASSUME PacketInv, UNCHANGED ctVars
    PROVE  /\ chain' \in Chains /\ Sound(chain', accepted) /\ \A f \in Flows : Top(chain', f) => Top(chain, f)
           /\ total' = total - (Entries(chain) - Entries(chain')) /\ Entries(chain') <= Entries(chain)
<1>1. chain' = chain /\ total' = total
  BY DEF ctVars
<1>2. chain \in Chains /\ total \in Nat /\ Sound(chain, accepted) /\ Entries(chain) \in Nat
  BY ChainFacts
<1> DEFINE n == Entries(chain)
<1>3. n \in Nat /\ Entries(chain') = n
  BY <1>1, <1>2
<1> HIDE DEF n
<1>4. total' = total - (n - Entries(chain')) /\ Entries(chain') <= n
  BY <1>1, <1>2, <1>3
<1> QED BY <1>1, <1>2, <1>4 DEF n

LEMMA CommitReserveKeeps == ASSUME PacketInv, NEW t \in Threads, CommitReserve(t) PROVE PacketInv'
<1> DEFINE f == th[t].pkt.flow
<1>1. th[t].pc = "commit" /\ UNCHANGED <<ruleVars, cache, caps, hits, accepted, work>>
  BY DEF CommitReserve
<1>2. CASE Go(t, AfterCommit(t)) /\ UNCHANGED ctVars
  <2>1. AfterCommit(t) \in {"observe", "finish"}
    BY <1>1, AfterFacts
  <2> QED BY <1>1, <1>2, <2>1, SameChain, GoLooks
<1>3. CASE mustCommit(t) /\ ~Found(f)
  <2>1. PICK S \in {{}, InShard(f)} :
          LET n == total - (Entries(chain) - Entries(Swept(chain, S)))
          IN /\ chain' = Swept(chain, S) /\ total' = n + 1
             /\ th' = [th EXCEPT ![t].pc = "insert", ![t].full = n >= MaxEntries]
    BY <1>3 DEF CommitReserve
  <2> DEFINE n == total - (Entries(chain) - Entries(Swept(chain, S)))
             full == n >= MaxEntries
  <2>2. /\ chain' \in Chains /\ Sound(chain', accepted) /\ Entries(chain') <= Entries(chain)
        /\ (\A g \in Flows : Top(chain', g) => Top(chain, g)) /\ n \in Nat
    BY <2>1, SweepFacts
  <2>3. full \in BOOLEAN /\ Reserved(t, "insert", full) /\ total' = n + 1
    BY <2>1 DEF Reserved
  <2>4. n = total - (Entries(chain) - Entries(chain')) /\ (~full => n + 1 <= MaxEntries)
    <3>1. MaxEntries \in Nat
      BY ConntrackStateAssumption
    <3>2. n = total - (Entries(chain) - Entries(chain'))
      BY <2>1
    <3> HIDE DEF n
    <3> QED BY <2>2, <3>1, <3>2
  <2> HIDE DEF full, n
  <2>5. PICK x : th' = [th EXCEPT ![t] = x] /\ Follows(th[t], x) /\ x.pc = "insert" /\ x.by = th[t].by /\ x.full = full
    BY <1>1, <2>3, FullMoves
  <2>6. (th[t].by = "packet" => f \in accepted) /\ th[t].verdict /\ f \in Flows
    BY <1>1, <1>3, BusyFacts DEF mustCommit
  <2>7. Onward(t, x)
    BY <1>1, <2>5, <2>6 DEF Onward, ruleVars
  <2>8. ~Top(chain', f) /\ ShardFree(t)
    BY <1>3, <2>2, <2>6 DEF Found, Top, CommitReserve
  <2>9. Goes(t, x) => CapInv' /\ total' \in Nat
    <3> DEFINE zero == 0
               one == 1
    <3>1. zero \in 0..1 /\ zero = (IF th[t].pc \in {"insert", "observed"} THEN 1 ELSE 0)
      BY <1>1
    <3>2. one \in 0..1 /\ one = (IF x.pc \in {"insert", "observed"} THEN 1 ELSE 0)
      BY <2>5
    <3>3. total' = total - (Entries(chain) - Entries(chain')) + (one - zero)
      BY <2>2, <2>3, <2>4
    <3>4. Entries(chain') <= Entries(chain) /\ one = 1 /\ zero = 0 /\ (~x.full => total' <= MaxEntries)
      BY <2>2, <2>3, <2>4, <2>5
    <3> HIDE DEF zero, one
    <3> QED BY <2>2, <3>1, <3>2, <3>3, <3>4, CapKept
  <2> QED BY <2>2, <2>7, <2>8, <2>9, ConntrackStep
<1> QED BY <1>2, <1>3 DEF CommitReserve

\* The entry counted is linked, or given back.
LEMMA InsertKeeps ==
    ASSUME PacketInv, NEW t \in Threads, th[t].pc \in {"insert", "observed"}, NEW by \in {"packet", "telemetry"},
           by = "packet" => th[t].pc = "insert", InsertOrUndo(t, by), NEW pc \in {"observe", "finish"}, Go(t, pc),
           UNCHANGED <<ruleVars, cache, caps, hits, accepted, work>>
    PROVE  PacketInv'
<1> DEFINE f == th[t].pkt.flow
           e == NewEntry(th[t].pkt, by)
           zero == 0
           one == 1
<1>1. PICK x : /\ th' = [th EXCEPT ![t] = x] /\ Follows(th[t], x) /\ x.pc = pc /\ x.by = th[t].by
               /\ x.full = th[t].full
  BY GoMoves
<1>2. /\ (th[t].verdict \/ th[t].by = "packet" => f \in accepted) /\ f \in Flows /\ IsBusy(th[t])
      /\ th[t].pc = "insert" => th[t].verdict
  BY BusyFacts
<1>3. Onward(t, x)
  BY <1>1, <1>2 DEF Onward, ruleVars
<1>4. t \in Holding /\ ~Top(chain, f)
  <2>1. t \in Holding
    BY DEF Holding
  <2> QED BY <2>1 DEF PacketInv, HoldInv, Found, Top
<1>5. chain \in Chains /\ total \in Nat /\ Sound(chain, accepted) /\ Entries(chain) \in Nat
  BY ChainFacts
<1>6. one \in 0..1 /\ one = 1 /\ one = (IF th[t].pc \in {"insert", "observed"} THEN 1 ELSE 0)
  OBVIOUS
<1>7. zero \in 0..1 /\ zero = 0 /\ zero = (IF x.pc \in {"insert", "observed"} THEN 1 ELSE 0)
  BY <1>1
<1>8. x.pc \notin {"insert", "reserve", "observed"}
  BY <1>1
<1> HIDE DEF zero, one
<1>9. CASE th[t].full
  <2>1. chain' = chain /\ total' = total - 1
    BY <1>9 DEF InsertOrUndo
  <2>2. /\ chain' \in Chains /\ Sound(chain', accepted) /\ Entries(chain') = Entries(chain)
        /\ \A g \in Flows : Top(chain', g) => Top(chain, g)
    BY <1>5, <2>1
  <2>3. total' = total - (Entries(chain) - Entries(chain')) + (zero - one) /\ Entries(chain') <= Entries(chain)
    BY <1>5, <1>6, <1>7, <2>1, <2>2
  <2>4. Goes(t, x) => CapInv' /\ total' \in Nat
    BY <1>6, <1>7, <2>2, <2>3, CapKept
  <2> QED BY <1>3, <1>8, <2>2, <2>4, ConntrackStep
<1>10. CASE ~th[t].full
  <2>1. chain' = [chain EXCEPT ![f] = <<e>> \o chain[f]] /\ total' = total
    BY <1>10 DEF InsertOrUndo
  <2>2. e \in Entry /\ e.by = by
    <3> DEFINE s == by = "telemetry"
               no == FALSE
               a == IF ProtoOf[th[t].pkt.flow] = "TCP" THEN SYN_SENT ELSE FIRST
               r == th[t].pkt.rev
    <3>1. s \in BOOLEAN /\ no \in BOOLEAN /\ a \in Nat /\ CLOSED \in Nat /\ r \in BOOLEAN
      BY <1>2, ConntrackStateAssumption DEF IsBusy, SYN_SENT, FIRST, CLOSED
    <3>2. e = [s0 |-> a, s1 |-> CLOSED, rev |-> r, expired |-> no, by |-> by, seen |-> s]
      BY DEF NewEntry
    <3> HIDE DEF s, no, a, r
    <3> QED BY <3>1, <3>2 DEF Entry
  <2>3. e.by = "packet" => f \in accepted
    BY <1>2, <2>2
  <2> HIDE DEF e, f
  <2>4. /\ chain' \in Chains /\ Entries(chain') = Entries(chain) + 1 /\ Sound(chain', accepted)
        /\ \A g \in Flows : Top(chain', g) => Top(chain, g) \/ g = f
    BY <1>2, <1>4, <1>5, <2>1, <2>2, <2>3, PushFacts
  <2>5. total' = total - (Entries(chain) - Entries(chain')) + (zero - one)
    <3> DEFINE n == Entries(chain)
    <3>1. n \in Nat /\ total \in Nat /\ Entries(chain') = n + 1 /\ total' = total
      BY <1>5, <2>1, <2>4
    <3> HIDE DEF n
    <3>2. total' = total - (n - Entries(chain')) + (zero - one)
      BY <1>6, <1>7, <3>1
    <3> QED BY <3>2 DEF n
  <2>6. Goes(t, x) => CapInv' /\ total' \in Nat
    BY <1>6, <1>7, <1>10, <2>4, <2>5, CapKept
  <2> QED BY <1>3, <1>4, <1>8, <2>4, <2>6, ConntrackStep DEF f
<1> QED BY <1>9, <1>10

LEMMA ObserveReserveKeeps == ASSUME PacketInv, NEW t \in Threads, ObserveReserve(t) PROVE PacketInv'
<1> DEFINE f == th[t].pkt.flow
           pc == IF ValidNew(th[t].pkt) THEN "reserve" ELSE "finish"
<1>1. th[t].pc = "observe" /\ UNCHANGED <<ruleVars, cache, caps, hits, accepted, work>>
  BY DEF ObserveReserve
<1>2. f \in Flows /\ pc \in {"observe", "reserve", "finish"}
  BY <1>1, BusyFacts
<1>3. chain \in Chains /\ total \in Nat /\ Sound(chain, accepted) /\ Entries(chain) \in Nat
  BY ChainFacts
<1>4. CASE Found(f)
  <2> DEFINE e == chain[f][1]
             yes == TRUE
             u == [e EXCEPT !.seen = yes]
  <2>1. chain' = [chain EXCEPT ![f] = [chain[f] EXCEPT ![1] = u]] /\ total' = total /\ Go(t, "finish")
    BY <1>4 DEF ObserveReserve
  <2>2. chain[f] # << >> /\ e \in Entry /\ yes \in BOOLEAN
    BY <1>2, <1>3, <1>4 DEF Found, Chains
  <2> HIDE DEF yes
  <2>3. u \in Entry /\ u.by = e.by
    BY <2>2 DEF Entry
  <2> HIDE DEF u, f
  <2>4. /\ chain' \in Chains /\ Entries(chain') = Entries(chain) /\ Sound(chain', accepted)
        /\ \A g \in Flows : Top(chain', g) => Top(chain, g) \/ g = f
    BY <1>2, <1>3, <2>1, <2>2, <2>3, HeadFacts
  <2>5. \A g \in Flows : Top(chain', g) => Top(chain, g)
    BY <1>4, <2>4 DEF Found, Top
  <2>6. total' = total - (Entries(chain) - Entries(chain')) /\ Entries(chain') <= Entries(chain)
    <3> DEFINE n == Entries(chain)
    <3>1. n \in Nat /\ Entries(chain') = n /\ total' = total
      BY <1>3, <2>1, <2>4
    <3> HIDE DEF n
    <3>2. total' = total - (n - Entries(chain')) /\ Entries(chain') <= n
      BY <1>3, <3>1
    <3> QED BY <3>2 DEF n
  <2> QED BY <1>1, <2>1, <2>4, <2>5, <2>6, GoLooks
<1>5. CASE ~Found(f)
  <2>1. PICK S \in {{}, InShard(f)} :
          LET c == Swept(chain, S)
              n == total - (Entries(chain) - Entries(c))
          IN \/ chain' = c /\ total' = n /\ (Go(t, pc) \/ Go(t, "finish"))
             \/ chain' \in Evicted(c, f) /\ total' = n - 1 /\ Go(t, pc)
    BY <1>5 DEF ObserveReserve
  <2> DEFINE c == Swept(chain, S)
             n == total - (Entries(chain) - Entries(c))
  <2>2. /\ c \in Chains /\ Sound(c, accepted) /\ Entries(c) <= Entries(chain) /\ Entries(c) \in Nat
        /\ (\A g \in Flows : Top(c, g) => Top(chain, g))
    BY SweepFacts
  <2>3. ShardFree(t) /\ ~Top(chain, f)
    BY <1>5 DEF ObserveReserve, Found, Top
  <2>4. CASE chain' = c /\ total' = n /\ (Go(t, pc) \/ Go(t, "finish"))
    <3>1. PICK q \in {"observe", "reserve", "finish"} : Go(t, q)
      BY <1>2, <2>4
    <3>2. /\ chain' \in Chains /\ Sound(chain', accepted) /\ Entries(chain') <= Entries(chain)
          /\ (\A g \in Flows : Top(chain', g) => Top(chain, g))
          /\ total' = total - (Entries(chain) - Entries(chain'))
      BY <2>2, <2>4
    <3>3. ~Top(chain', f)
      BY <1>2, <2>3, <3>2
    <3> QED BY <1>1, <2>3, <3>1, <3>2, <3>3, GoLooks
  <2>5. CASE chain' \in Evicted(c, f) /\ total' = n - 1 /\ Go(t, pc)
    <3> HIDE DEF c
    <3>0. PICK g \in InShard(f) : \E i \in DOMAIN c[g] : chain' = [c EXCEPT ![g] = RemoveAt(c[g], i)]
      BY <2>5 DEF Evicted
    <3>1. PICK i \in DOMAIN c[g] : chain' = [c EXCEPT ![g] = RemoveAt(c[g], i)]
      BY <3>0
    <3>2. g \in Flows
      BY DEF InShard
    <3>3. /\ chain' \in Chains /\ Entries(c) = Entries(chain') + 1 /\ Entries(chain') \in Nat
          /\ Sound(chain', accepted) /\ \A h \in Flows : Top(chain', h) => Top(c, h)
      BY <2>2, <3>1, <3>2, EvictFacts
    <3>4. total' = total - (Entries(chain) - Entries(chain')) /\ Entries(chain') <= Entries(chain)
      BY <1>3, <2>2, <2>5, <3>3
    <3>5. (\A h \in Flows : Top(chain', h) => Top(chain, h)) /\ ~Top(chain', f)
      BY <1>2, <2>2, <2>3, <3>3
    <3> HIDE DEF pc
    <3> QED BY <1>1, <1>2, <2>3, <2>5, <3>3, <3>4, <3>5, GoLooks
  <2> QED BY <2>1, <2>4, <2>5
<1> QED BY <1>4, <1>5

LEMMA ObserveCountKeeps == ASSUME PacketInv, NEW t \in Threads, ObserveCount(t) PROVE PacketInv'
<1> DEFINE f == th[t].pkt.flow
           full == total >= TeleCap
           zero == 0
           one == 1
<1>1. /\ th[t].pc = "reserve" /\ chain' = chain /\ total' = total + 1
      /\ UNCHANGED <<ruleVars, cache, caps, hits, accepted, work>>
      /\ Reserved(t, "observed", full)
  BY DEF ObserveCount, Reserved
<1>2. chain \in Chains /\ total \in Nat /\ Sound(chain, accepted) /\ Entries(chain) \in Nat
  BY ChainFacts
<1>3. full \in BOOLEAN /\ (~full => total' <= MaxEntries)
  BY <1>1, <1>2, PacketDecisionAssumption, ConntrackStateAssumption
<1> HIDE DEF full
<1>4. PICK x : /\ th' = [th EXCEPT ![t] = x] /\ Follows(th[t], x) /\ x.pc = "observed" /\ x.by = th[t].by
               /\ x.full = full
  BY <1>1, <1>3, FullMoves
<1>5. (th[t].by = "packet" => f \in accepted) /\ f \in Flows
  BY <1>1, BusyFacts
<1>6. Onward(t, x)
  BY <1>1, <1>4, <1>5 DEF Onward, ruleVars
<1>7. t \in Holding /\ ~Top(chain', f)
  <2>1. t \in Holding
    BY <1>1 DEF Holding
  <2> QED BY <1>1, <2>1 DEF PacketInv, HoldInv, Found, Top
<1>8. /\ chain' \in Chains /\ Sound(chain', accepted) /\ Entries(chain') = Entries(chain)
      /\ \A g \in Flows : Top(chain', g) => Top(chain, g)
  BY <1>1, <1>2
<1>9. zero \in 0..1 /\ zero = 0 /\ zero = (IF th[t].pc \in {"insert", "observed"} THEN 1 ELSE 0)
  BY <1>1
<1>10. one \in 0..1 /\ one = 1 /\ one = (IF x.pc \in {"insert", "observed"} THEN 1 ELSE 0)
  BY <1>4
<1> HIDE DEF zero, one
<1>11. total' = total - (Entries(chain) - Entries(chain')) + (one - zero) /\ Entries(chain') <= Entries(chain)
  BY <1>1, <1>2, <1>8, <1>9, <1>10
<1>12. Goes(t, x) => CapInv' /\ total' \in Nat
  BY <1>3, <1>4, <1>8, <1>9, <1>10, <1>11, CapKept
<1> QED BY <1>6, <1>7, <1>8, <1>12, ConntrackStep

LEMMA ExpireKeeps == ASSUME PacketInv, NEW f \in Flows, Expire(f) PROVE PacketInv'
<1> DEFINE e == chain[f][1]
           yes == TRUE
           u == [e EXCEPT !.expired = yes]
<1>1. /\ Found(f) /\ chain' = [chain EXCEPT ![f] = [chain[f] EXCEPT ![1] = u]] /\ total' = total
      /\ UNCHANGED <<ruleVars, th, cache, caps, hits, accepted, work>>
  BY DEF Expire
<1>2. chain \in Chains /\ total \in Nat /\ Sound(chain, accepted) /\ Entries(chain) \in Nat
  BY ChainFacts
<1>3. chain[f] # << >> /\ e \in Entry /\ yes \in BOOLEAN
  BY <1>1, <1>2 DEF Found, Chains
<1> HIDE DEF yes
<1>4. u \in Entry /\ u.by = e.by
  BY <1>3 DEF Entry
<1> HIDE DEF u
<1>5. /\ chain' \in Chains /\ Entries(chain') = Entries(chain) /\ Sound(chain', accepted)
      /\ \A g \in Flows : Top(chain', g) => Top(chain, g) \/ g = f
  BY <1>1, <1>2, <1>3, <1>4, HeadFacts
<1>6. \A g \in Flows : Top(chain', g) => Top(chain, g)
  BY <1>1, <1>5 DEF Found, Top
<1>7. total' = total - (Entries(chain) - Entries(chain')) /\ Entries(chain') <= Entries(chain)
  <2> DEFINE n == Entries(chain)
  <2>1. n \in Nat /\ Entries(chain') = n /\ total' = total
    BY <1>1, <1>2, <1>5
  <2> HIDE DEF n
  <2>2. total' = total - (n - Entries(chain')) /\ Entries(chain') <= n
    BY <1>2, <2>1
  <2> QED BY <2>2 DEF n
<1> QED BY <1>1, <1>5, <1>6, <1>7, ThreadsSame DEF ruleVars

-----------------------------------------------------------------------------
(* The commands. *)

\* Nothing is published, or a snapshot of the next epoch.
Publishes == UNCHANGED <<epoch, hot>> \/ (epoch' = epoch + 1 /\ hot'.epoch = epoch + 1)

LEMMA CommandPublishes ==
    ASSUME RuleCommand \/ (resetAll /\ UNCHANGED saved) \/ restorePolicySnapshot
    PROVE  Publishes
<1>1. ASSUME NEW new, NEW next, applyNewRules(new, next) PROVE Publishes
  BY <1>1 DEF applyNewRules, Publishes
<1>2. ASSUME NEW u, NEW r, addFromKv(u, r) PROVE Publishes
  BY <1>1, <1>2 DEF addFromKv
<1>3. ASSUME NEW i, NEW r, updateFromKv(i, r) PROVE Publishes
  BY <1>1, <1>3 DEF updateFromKv
<1>4. ASSUME NEW i, removeRule(i) PROVE Publishes
  BY <1>1, <1>4 DEF removeRule
<1>5. ASSUME NEW i, NEW on, enableRule(i, on) PROVE Publishes
  BY <1>1, <1>5 DEF enableRule
<1>6. ASSUME NEW u, NEW payload, IpRulesApply(u, payload) PROVE Publishes
  BY <1>1, <1>6 DEF IpRulesApply, replaceRulesForUid
<1>7. ASSUME policySnapshot PROVE Publishes
  BY <1>7 DEF policySnapshot, Publishes
<1>8. ASSUME RuleCommand PROVE Publishes
  BY <1>2, <1>3, <1>4, <1>5, <1>6, <1>7, <1>8 DEF RuleCommand
<1>9. ASSUME resetAll PROVE Publishes
  BY <1>9 DEF resetAll, Publishes
<1>10. ASSUME restorePolicySnapshot PROVE Publishes
  BY <1>1, <1>10 DEF restorePolicySnapshot
<1> QED BY <1>8, <1>9, <1>10

\* A new epoch is one no cache and no packet has met.
LEMMA PublishKeeps ==
    ASSUME PacketInv, Publishes, UNCHANGED <<th, cache, caps>>
    PROVE  ThreadInv' /\ SnapInv' /\ SlotInv' /\ CapsInv' /\ DecInv'
<1>1. Busy' = Busy
  BY DEF Busy
<1>2. ThreadInv' /\ DecInv'
  BY <1>1 DEF PacketInv, ThreadInv, DecInv
<1>3. CASE UNCHANGED <<epoch, hot>>
  <2>1. Held' = Held
    BY <1>1, <1>3 DEF Held
  <2> QED BY <1>2, <1>3, <2>1, CachesKept
<1>4. CASE epoch' = epoch + 1 /\ hot'.epoch = epoch + 1
  <2>1. Held' \subseteq Held \cup {hot'}
    BY <1>1 DEF Held
  <2>2. epoch \in Nat \ {0} /\ \A a \in Held : a.epoch \in 0..epoch
    BY DEF PacketInv, SnapInv
  <2>3. \A a \in Held : a.epoch \in 0..epoch' /\ a.epoch # hot'.epoch
    BY <1>4, <2>2
  <2>4. hot'.epoch \in 0..epoch' /\ epoch' \in Nat \ {0} /\ hot'.epoch = epoch'
    BY <1>4, <2>2
  <2>5. SnapInv'
    <3>1. \A a, b \in Held' : a.epoch = b.epoch => a.rules = b.rules
      BY <2>1, <2>3 DEF PacketInv, SnapInv
    <3>2. \A a \in Held' : a.epoch \in 0..epoch'
      BY <2>1, <2>3, <2>4
    <3> QED BY <2>4, <3>1, <3>2 DEF SnapInv
  <2>6. \A n \in 0..epoch : n \in 0..epoch' /\ n # hot'.epoch
    BY <1>4, <2>2
  <2>7. SlotInv'
    <3> SUFFICES ASSUME NEW t \in Threads, NEW fam \in Families
                 PROVE  /\ cache[t][fam].epoch \in 0..epoch'
                        /\ cache[t][fam] # NoSlot =>
                             \A a \in Held' : a.epoch = cache[t][fam].epoch =>
                                                cache[t][fam].dec = evaluate(a.rules, cache[t][fam].key)
      BY DEF SlotInv
    <3>1. /\ cache[t][fam].epoch \in 0..epoch
          /\ cache[t][fam] # NoSlot =>
               \A a \in Held : a.epoch = cache[t][fam].epoch =>
                                 cache[t][fam].dec = evaluate(a.rules, cache[t][fam].key)
      BY DEF PacketInv, SlotInv
    <3> QED BY <2>1, <2>6, <3>1
  <2>8. CapsInv'
    <3> SUFFICES ASSUME NEW u \in Uids
                 PROVE  /\ caps[u].epoch \in 0..epoch'
                        /\ \A a \in Held' : a.epoch = caps[u].epoch =>
                                              caps[u].mask = {fam \in Families : uidUsesCt(a.rules, u, fam)}
      BY DEF CapsInv
    <3>1. /\ caps[u].epoch \in 0..epoch
          /\ \A a \in Held : a.epoch = caps[u].epoch =>
                               caps[u].mask = {fam \in Families : uidUsesCt(a.rules, u, fam)}
      BY DEF PacketInv, CapsInv
    <3> QED BY <2>1, <2>6, <3>1
  <2> QED BY <1>2, <2>5, <2>7, <2>8
<1> QED BY <1>3, <1>4 DEF Publishes

LEMMA RuleCommandKeeps == ASSUME PacketInv, RuleCommand PROVE PacketInv'
<1>1. UNCHANGED <<th, cache, caps, chain, total, accepted>>
  BY DEF RuleCommand, Command, ctVars
<1>2. ThreadInv' /\ SnapInv' /\ SlotInv' /\ CapsInv' /\ DecInv'
  BY <1>1, CommandPublishes, PublishKeeps
<1>3. Holding' = Holding /\ Busy' = Busy /\ Counted' = Counted /\ Linking' = Linking
  BY <1>1 DEF Holding, Busy, Counted, Linking
<1>4. ShapeInv' /\ AcceptInv' /\ ChainInv' /\ HoldInv'
  BY <1>1, <1>3 DEF PacketInv, ShapeInv, AcceptInv, ChainInv, Sound, HoldInv, Found
<1>5. CapInv'
  BY <1>1, <1>3 DEF PacketInv, CapInv
<1> QED BY <1>2, <1>4, <1>5 DEF PacketInv

\* Chains without entries.
LEMMA EmptyChains ==
    ASSUME NEW c, c = [f \in Flows |-> << >>]
    PROVE  c \in Chains /\ Entries(c) = 0 /\ \A acc : Sound(c, acc)
<1>1. c \in Chains
  BY DEF Chains
<1>2. \A f \in Flows : DOMAIN c[f] = {}
  BY EmptySeq
<1>3. Cells(c) = {}
  BY <1>2 DEF Cells
<1>4. Entries(c) = 0
  BY <1>1, <1>3, CellsFinite, FS_EmptySet
<1> QED BY <1>1, <1>2, <1>4 DEF Sound

\* With every thread idle nothing is held, counted or decided.
LEMMA IdleFacts ==
    ASSUME \A t \in Threads : th[t].pc = "idle"
    PROVE  Busy = {} /\ Holding = {} /\ Counted = {} /\ Linking = {} /\ Cardinality(Counted) = 0 /\ Cardinality(Linking) = 0
BY FS_EmptySet DEF Busy, Holding, Counted, Linking

LEMMA BoundaryKeeps == ASSUME PacketInv, BoundaryCommand PROVE PacketInv'
<1>1. /\ UNCHANGED <<th, cache, caps>> /\ chain' = [f \in Flows |-> << >>] /\ total' = 0
      /\ \A t \in Threads : th[t].pc = "idle"
  BY DEF BoundaryCommand, Command, Quiet
<1>2. ThreadInv' /\ SnapInv' /\ SlotInv' /\ CapsInv' /\ DecInv'
  <2>1. Publishes
    BY CommandPublishes DEF BoundaryCommand
  <2> QED BY <1>1, <2>1, PublishKeeps
<1>3. chain' \in Chains /\ Entries(chain') = 0 /\ ChainInv'
  BY <1>1, EmptyChains DEF ChainInv
<1>4. Busy' = {} /\ Holding' = {} /\ Cardinality(Counted') = 0 /\ Cardinality(Linking') = 0
  <2>1. Busy' = Busy /\ Holding' = Holding /\ Counted' = Counted /\ Linking' = Linking
    BY <1>1 DEF Busy, Holding, Counted, Linking
  <2> QED BY <1>1, <2>1, IdleFacts
<1>5. AcceptInv' /\ HoldInv'
  BY <1>4 DEF AcceptInv, HoldInv
<1>6. CapInv'
  BY <1>1, <1>3, <1>4, ConntrackStateAssumption DEF CapInv
<1>7. ShapeInv'
  BY <1>1, <1>3 DEF PacketInv, ShapeInv, Chains
<1> QED BY <1>2, <1>3, <1>5, <1>6, <1>7 DEF PacketInv

LEMMA InitKeeps == Init => PacketInv
<1> SUFFICES ASSUME Init PROVE PacketInv
  OBVIOUS
<1>1. epoch = 2 /\ hot = [epoch |-> epoch, rules |-> rules]
  BY DEF Init, RulesInit, restore
<1>2. /\ th = [t \in Threads |-> IdleThread] /\ cache = [t \in Threads |-> [fam \in Families |-> NoSlot]]
      /\ caps = [u \in Uids |-> [epoch |-> 0, mask |-> {}]]
      /\ chain = [f \in Flows |-> << >>] /\ total = 0
  BY DEF Init, CtInit
<1>3. ThreadInv /\ \A t \in Threads : th[t].pc = "idle"
  BY <1>2 DEF ThreadInv, IdleThread
<1>4. Busy = {} /\ Holding = {} /\ Cardinality(Counted) = 0 /\ Cardinality(Linking) = 0
  BY <1>3, IdleFacts
<1>5. Held = {hot, Unread}
  BY <1>4 DEF Held
<1>6. hot.epoch = 2 /\ Unread.epoch = 0 /\ Unread.rules = << >>
  BY <1>1 DEF Unread
<1>7. SnapInv
  BY <1>1, <1>5, <1>6 DEF SnapInv
<1>8. SlotInv
  BY <1>1, <1>2 DEF SlotInv, NoSlot
<1>9. CapsInv
  <2>1. \A u, fam : ~uidUsesCt(<< >>, u, fam)
    BY DEF uidUsesCt
  <2> QED BY <1>1, <1>2, <1>5, <1>6, <2>1 DEF CapsInv
<1>10. chain \in Chains /\ Entries(chain) = 0 /\ ChainInv
  BY <1>2, EmptyChains DEF ChainInv
<1>11. ShapeInv
  BY <1>2, <1>10 DEF ShapeInv, Chains
<1>12. CapInv
  BY <1>2, <1>4, <1>10, ConntrackStateAssumption DEF CapInv
<1>13. AcceptInv /\ HoldInv /\ DecInv
  BY <1>4 DEF AcceptInv, HoldInv, DecInv
<1> QED BY <1>3, <1>7, <1>8, <1>9, <1>10, <1>11, <1>12, <1>13 DEF PacketInv

-----------------------------------------------------------------------------
(* Sets of numbers have their ends, and sort sorts.                        *)

LEMMA LeastNat == ASSUME NEW T, T \subseteq Nat, T # {} PROVE Min(T) \in T /\ \A y \in T : Min(T) <= y
<1> DEFINE R == {ss \in Nat \X Nat : ss[1] < ss[2]}
<1>1. IsWellFoundedOn(R, Nat)
  BY NatLessThanWellFounded DEF OpToRel
<1> HIDE DEF R
<1>2. PICK x \in T : \A y \in T : ~(<<y, x>> \in R)
  BY <1>1, WFMin
<1>3. \A y \in T : ~(y < x)
  BY <1>2 DEF R
<1>4. \A y \in T : x <= y
  BY <1>3
<1> QED BY <1>4 DEF Min

LEMMA GreatestInt ==
  ASSUME NEW S, S \subseteq Int, IsFiniteSet(S), S # {}
  PROVE  Max(S) \in S /\ \A y \in S : Max(S) >= y
<1> DEFINE HasTop(U) == \E x \in U : \A y \in U : x >= y
           Bad == {U \in SUBSET S : U # {} /\ ~HasTop(U)}
           R == StrictSubsetOrdering(S)
<1>1. IsWellFoundedOn(R, FiniteSubsetsOf(S))
  BY FS_StrictSubsetOrderingWellFounded
<1>2. IsWellFoundedOn(R, SUBSET S)
  BY <1>1, FS_FiniteSubsetsOfFinite, Zenon
<1>3. Bad = {}
  <2> SUFFICES ASSUME Bad # {} PROVE FALSE
    OBVIOUS
  <2>1. PICK U \in Bad : \A V \in Bad : ~(<<V, U>> \in R)
    <3> HIDE DEF R
    <3>1. Bad \subseteq SUBSET S
      OBVIOUS
    <3> HIDE DEF Bad
    <3> QED BY <1>2, <3>1, WFMin
  <2>2. PICK x \in U : TRUE
    OBVIOUS
  <2> DEFINE V == U \ {x}
  <2>3. V \in SUBSET S /\ <<V, U>> \in R
    BY <2>2 DEF StrictSubsetOrdering
  <2>4. V = {} \/ HasTop(V)
    BY <2>1, <2>3
  <2>5. CASE V = {}
    BY <2>5, <2>2
  <2>6. CASE HasTop(V)
    <3>1. PICK z \in V : \A y \in V : z >= y
      BY <2>6
    <3>2. \A y \in U : y \in Int /\ (y = x \/ y \in V)
      OBVIOUS
    <3>3. CASE z >= x
      BY <3>1, <3>2, <3>3
    <3>4. CASE x > z
      BY <3>1, <3>2, <3>4
    <3> QED BY <3>1, <3>2, <3>3, <3>4
  <2> QED BY <2>4, <2>5, <2>6
<1>4. HasTop(S)
  BY <1>3
<1> QED BY <1>4 DEF Max

\* A strict total order on S.
IsOrder(R, S) ==
  /\ \A x \in S : <<x, x>> \notin R
  /\ \A x, y, z \in S : <<x, y>> \in R /\ <<y, z>> \in R => <<x, z>> \in R
  /\ \A x, y \in S : x # y => <<x, y>> \in R \/ <<y, x>> \in R

Below(S, R, x) == {y \in S : <<y, x>> \in R}

LEMMA Ranks ==
  ASSUME NEW S, NEW R, IsFiniteSet(S), IsOrder(R, S)
  PROVE  /\ \A x \in S : Cardinality(Below(S, R, x)) \in 0..(Cardinality(S) - 1)
         /\ \A x, y \in S : <<x, y>> \in R => Cardinality(Below(S, R, x)) < Cardinality(Below(S, R, y))
<1> DEFINE B(x) == Below(S, R, x)
<1>0. Cardinality(S) \in Nat
  BY FS_CardinalityType
<1>1. \A x \in S : B(x) \in SUBSET S /\ x \notin B(x)
  BY DEF Below, IsOrder
<1>2. \A x \in S : IsFiniteSet(B(x)) /\ Cardinality(B(x)) \in Nat /\ Cardinality(B(x)) < Cardinality(S)
  <2> TAKE x \in S
  <2> HIDE DEF B
  <2>1. IsFiniteSet(B(x)) /\ Cardinality(B(x)) <= Cardinality(S) /\ (Cardinality(S) = Cardinality(B(x)) => S = B(x))
    BY <1>1, FS_Subset
  <2> QED BY <1>0, <1>1, <2>1, FS_CardinalityType
<1>3. ASSUME NEW x \in S, NEW y \in S, <<x, y>> \in R
      PROVE  Cardinality(B(x)) < Cardinality(B(y))
  <2>1. B(x) \in SUBSET B(y) /\ x \in B(y)
    BY <1>3 DEF Below, IsOrder
  <2> HIDE DEF B
  <2>2. Cardinality(B(x)) <= Cardinality(B(y)) /\ (Cardinality(B(y)) = Cardinality(B(x)) => B(y) = B(x))
    BY <1>2, <2>1, FS_Subset
  <2> QED BY <1>1, <1>2, <2>1, <2>2
<1>4. \A x \in S : Cardinality(B(x)) \in 0..(Cardinality(S) - 1)
  <2> HIDE DEF B
  <2> QED BY <1>0, <1>2
<1> QED BY <1>3, <1>4

LEMMA Sorted ==
  ASSUME NEW S, NEW R, IsFiniteSet(S), IsOrder(R, S)
  PROVE  /\ Cardinality(S) \in Nat
         /\ DOMAIN sort(S, R) = 1..Cardinality(S)
         /\ \A n \in 1..Cardinality(S) : sort(S, R)[n] \in S
         /\ \A x \in S : \E n \in 1..Cardinality(S) : sort(S, R)[n] = x
         /\ \A m, n \in 1..Cardinality(S) : m < n => <<sort(S, R)[m], sort(S, R)[n]>> \in R
<1> DEFINE N == Cardinality(S)
           rank(x) == Cardinality(Below(S, R, x))
           f == [x \in S |-> rank(x)]
<1>1. N \in Nat
  BY FS_CardinalityType
<1>2. \A x \in S : rank(x) \in 0..(N - 1)
  BY Ranks
<1>3. \A x, y \in S : <<x, y>> \in R => rank(x) < rank(y)
  BY Ranks
<1>4. sort(S, R) = [n \in 1..N |-> CHOOSE x \in S : rank(x) = n - 1]
  BY DEF sort, Below
<1> HIDE DEF rank, N
<1>5. \A x, y \in S : rank(x) = rank(y) => x = y
  <2> TAKE x, y \in S
  <2>1. x # y => rank(x) < rank(y) \/ rank(y) < rank(x)
    BY <1>3 DEF IsOrder
  <2> QED BY <2>1, <1>2, <1>1
<1>6. f \in Injection(S, 0..(N - 1))
  BY <1>2, <1>5 DEF Injection, IsInjective
<1>7. IsFiniteSet(0..(N - 1)) /\ Cardinality(0..(N - 1)) = N
  BY <1>1, FS_Interval
<1>8. f \in Surjection(S, 0..(N - 1))
  <2> HIDE DEF f
  <2> QED BY <1>6, <1>7, FS_Injection DEF N
<1>9. ASSUME NEW n \in 1..N PROVE \E x \in S : rank(x) = n - 1
  <2>1. n - 1 \in 0..(N - 1)
    BY <1>1
  <2>2. \A m \in 0..(N - 1) : \E x \in S : f[x] = m
    <3> HIDE DEF f
    <3> QED BY <1>8 DEF Surjection
  <2>3. PICK x \in S : f[x] = n - 1
    BY <2>1, <2>2
  <2>4. rank(x) = n - 1
    BY <2>3
  <2> QED BY <2>4
<1>10. \A n \in 1..N : sort(S, R)[n] \in S /\ rank(sort(S, R)[n]) = n - 1
  BY <1>4, <1>9
<1>11. DOMAIN sort(S, R) = 1..N
  BY <1>4
<1>12. ASSUME NEW x \in S PROVE \E n \in 1..N : sort(S, R)[n] = x
  <2>1. rank(x) + 1 \in 1..N /\ rank(x) + 1 - 1 = rank(x)
    BY <1>1, <1>2
  <2>2. \A n \in 1..N : n = rank(x) + 1 => sort(S, R)[n] = x
    <3> TAKE n \in 1..N
    <3> HAVE n = rank(x) + 1
    <3>1. sort(S, R)[n] \in S /\ rank(sort(S, R)[n]) = n - 1
      BY <1>10
    <3>2. n - 1 = rank(x)
      BY <1>2
    <3> QED BY <3>1, <3>2, <1>5
  <2> QED BY <2>1, <2>2
<1>13. ASSUME NEW m \in 1..N, NEW n \in 1..N, m < n PROVE <<sort(S, R)[m], sort(S, R)[n]>> \in R
  <2> DEFINE x == sort(S, R)[m]
             y == sort(S, R)[n]
  <2>1. x \in S /\ y \in S /\ rank(x) = m - 1 /\ rank(y) = n - 1
    BY <1>10
  <2> HIDE DEF x, y
  <2>2. rank(x) < rank(y)
    BY <2>1, <1>13, <1>1
  <2>3. x # y /\ ~(<<y, x>> \in R)
    BY <2>1, <2>2, <1>3
  <2>4. <<x, y>> \in R
    BY <2>1, <2>3 DEF IsOrder
  <2> QED BY <2>4 DEF x, y
<1> QED BY <1>1, <1>10, <1>11, <1>12, <1>13 DEF N

-----------------------------------------------------------------------------
(* The classifier of a rule map: its ids are finitely many numbers and its *)
(* rules are as the parsers leave them.                                    *)

MapOk(rs) ==
  /\ IsFiniteSet(DOMAIN rs) /\ DOMAIN rs \subseteq Nat
  /\ \A i \in DOMAIN rs : Parsed(rs[i].def)

LEMMA ImageFinite ==
  ASSUME NEW S, IsFiniteSet(S), NEW f, DOMAIN f = S
  PROVE  IsFiniteSet({f[x] : x \in S})
<1> DEFINE T == {f[x] : x \in S}
           g == [x \in S |-> f[x]]
<1>1. g \in Surjection(S, T)
  BY DEF Surjection
<1> HIDE DEF g, T
<1>2. IsFiniteSet(T)
  BY <1>1, FS_Surjection
<1> QED BY <1>2 DEF T

LEMMA MaxPriorityFacts ==
  ASSUME NEW rs, MapOk(rs), NEW view \in SUBSET DOMAIN rs, NEW sig
  PROVE  /\ maxPriority(rs, view, sig) \in Int /\ maxPriority(rs, view, sig) >= MinPriority
         /\ \A i \in view : maskSigForRule(rs[i].def) = sig => rs[i].def.priority <= maxPriority(rs, view, sig)
         /\ maxPriority(rs, view, sig) # MinPriority =>
              \E i \in view : maskSigForRule(rs[i].def) = sig /\ rs[i].def.priority = maxPriority(rs, view, sig)
<1> DEFINE A == {j \in view : maskSigForRule(rs[j].def) = sig}
           f == [i \in A |-> rs[i].def.priority]
           P == {rs[i].def.priority : i \in A}
           U == {MinPriority} \cup P
<1>1. IsFiniteSet(A)
  BY FS_Subset DEF MapOk
<1>2. \A i \in A : rs[i].def.priority \in Int
  BY DEF MapOk, Parsed
<1>3. IsFiniteSet(P)
  <2>1. P = {f[i] : i \in A}
    OBVIOUS
  <2>2. DOMAIN f = A
    OBVIOUS
  <2> HIDE DEF f, A, P
  <2> QED BY <1>1, <2>1, <2>2, ImageFinite
<1>4. U \subseteq Int /\ IsFiniteSet(U) /\ U # {} /\ MinPriority \in U /\ P \subseteq U
  <2>1. MinPriority \in Int
    BY IpRulesAssumption
  <2>2. P \subseteq Int
    BY <1>2
  <2> HIDE DEF P
  <2> QED BY <1>3, <2>1, <2>2, FS_Union, FS_Singleton
<1>5. maxPriority(rs, view, sig) = Max(U)
  BY DEF maxPriority
<1>6. Max(U) \in U /\ \A y \in U : Max(U) >= y
  <2> HIDE DEF U
  <2> QED BY <1>4, GreatestInt
<1>7. Max(U) \in Int /\ Max(U) >= MinPriority
  BY <1>4, <1>6
<1>8. \A i \in A : rs[i].def.priority <= Max(U)
  BY <1>2, <1>4, <1>6
<1>9. Max(U) # MinPriority => \E i \in A : rs[i].def.priority = Max(U)
  <2> HIDE DEF A
  <2> QED BY <1>6
<1> HIDE DEF U
<1> QED BY <1>5, <1>7, <1>8, <1>9

-----------------------------------------------------------------------------
(* Mask signatures are totally ordered.                                    *)

Sigs == [eq : [EqSet -> BOOLEAN], prefix : [Sides -> Nat], exact : [Sides -> BOOLEAN]]

LEMMA EqSetIs == EqSet = {"dir", "iface", "ifindex", "proto", "ctState", "ctDir"}
  BY DEF EqSet, EqFields, Range

LEMMA SigOfRule == ASSUME NEW r, Parsed(r) PROVE maskSigForRule(r) \in Sigs
<1>1. \A s \in Sides : r.cidr[s] # Open => r.cidr[s].prefix \in Nat
  BY DEF Parsed
<1> QED BY <1>1 DEF maskSigForRule, Sigs, AnyPrefix

LEMMA SixAndFour ==
  ASSUME NEW x \in Seq(Int), NEW y \in Seq(Int), Len(x) = 6, Len(y) = 4
  PROVE  /\ x \o y \in [1..10 -> Int]
         /\ \A i \in 1..6 : (x \o y)[i] = x[i]
         /\ (x \o y)[7] = y[1] /\ (x \o y)[8] = y[2] /\ (x \o y)[9] = y[3] /\ (x \o y)[10] = y[4]
<1> DEFINE z == x \o y
<1>1. /\ z \in Seq(Int) /\ Len(z) = Len(x) + Len(y)
      /\ \A i \in 1..(Len(x) + Len(y)) : z[i] = IF i <= Len(x) THEN x[i] ELSE y[i - Len(x)]
  BY ConcatProperties
<1> HIDE DEF z
<1>2. Len(z) = 10 /\ \A i \in 1..10 : z[i] = IF i <= 6 THEN x[i] ELSE y[i - 6]
  BY <1>1
<1>3. z \in [1..10 -> Int]
  <2>1. z \in [1..Len(z) -> Int]
    BY <1>1, LenProperties
  <2> QED BY <1>2, <2>1
<1>4. \A i \in 1..6 : z[i] = x[i]
  BY <1>2
<1>5. z[7] = y[1] /\ z[8] = y[2] /\ z[9] = y[3] /\ z[10] = y[4]
  BY <1>2
<1> QED BY <1>3, <1>4, <1>5 DEF z

LEMMA SigFieldsAre ==
  ASSUME NEW sig \in Sigs
  PROVE  /\ SigFields(sig) \in [1..10 -> Int]
         /\ \A i \in 1..6 : SigFields(sig)[i] = IF sig.eq[EqFields[i]] THEN 1 ELSE 0
         /\ SigFields(sig)[7] = sig.prefix["src"] /\ SigFields(sig)[8] = sig.prefix["dst"]
         /\ SigFields(sig)[9] = IF sig.exact["src"] THEN 1 ELSE 0
         /\ SigFields(sig)[10] = IF sig.exact["dst"] THEN 1 ELSE 0
<1> DEFINE x == [i \in 1..6 |-> IF sig.eq[EqFields[i]] THEN 1 ELSE 0]
           y == << sig.prefix["src"], sig.prefix["dst"],
                   IF sig.exact["src"] THEN 1 ELSE 0, IF sig.exact["dst"] THEN 1 ELSE 0 >>
<1>1. x \in Seq(Int) /\ Len(x) = 6
  BY DEF Sigs
<1>2. y \in Seq(Int) /\ Len(y) = 4 /\ \A i \in 1..4 : y[i] \in Int
  BY DEF Sigs, Sides
<1>3. SigFields(sig) = x \o y
  BY DEF SigFields
<1>4. y[1] = sig.prefix["src"] /\ y[2] = sig.prefix["dst"]
  OBVIOUS
<1>5. y[3] = (IF sig.exact["src"] THEN 1 ELSE 0) /\ y[4] = (IF sig.exact["dst"] THEN 1 ELSE 0)
  OBVIOUS
<1>6. \A i \in 1..6 : x[i] \in Int /\ x[i] = IF sig.eq[EqFields[i]] THEN 1 ELSE 0
  OBVIOUS
<1> HIDE DEF x, y
<1>8. x \o y \in [1..10 -> Int]
  BY <1>1, <1>2, SixAndFour
<1>9. /\ \A i \in 1..6 : (x \o y)[i] = x[i]
      /\ (x \o y)[7] = y[1] /\ (x \o y)[8] = y[2] /\ (x \o y)[9] = y[3] /\ (x \o y)[10] = y[4]
  BY <1>1, <1>2, SixAndFour
<1> QED BY <1>3, <1>4, <1>5, <1>6, <1>8, <1>9

LEMMA SigFieldsTell ==
  ASSUME NEW a \in Sigs, NEW b \in Sigs, SigFields(a) = SigFields(b)
  PROVE  a = b
<1>1. \A i \in 1..6 : a.eq[EqFields[i]] = b.eq[EqFields[i]]
  <2> TAKE i \in 1..6
  <2>1. (IF a.eq[EqFields[i]] THEN 1 ELSE 0) = (IF b.eq[EqFields[i]] THEN 1 ELSE 0)
    BY SigFieldsAre
  <2>2. EqFields[i] \in EqSet
    BY EqSetIs DEF EqFields
  <2>3. a.eq[EqFields[i]] \in BOOLEAN /\ b.eq[EqFields[i]] \in BOOLEAN
    BY <2>2 DEF Sigs
  <2> QED BY <2>1, <2>3
<1>2. \A f \in EqSet : a.eq[f] = b.eq[f]
  <2> TAKE f \in EqSet
  <2>1. PICK i \in 1..6 : f = EqFields[i]
    BY EqSetIs DEF EqFields
  <2> QED BY <1>1, <2>1
<1>3. a.prefix["src"] = b.prefix["src"] /\ a.prefix["dst"] = b.prefix["dst"]
  BY SigFieldsAre
<1>4. /\ (IF a.exact["src"] THEN 1 ELSE 0) = (IF b.exact["src"] THEN 1 ELSE 0)
      /\ (IF a.exact["dst"] THEN 1 ELSE 0) = (IF b.exact["dst"] THEN 1 ELSE 0)
  BY SigFieldsAre
<1>5. a.exact["src"] = b.exact["src"] /\ a.exact["dst"] = b.exact["dst"]
  <2>1. \A s \in Sides : a.exact[s] \in BOOLEAN /\ b.exact[s] \in BOOLEAN
    BY DEF Sigs
  <2> QED BY <1>4, <2>1 DEF Sides
<1>6. a.eq = b.eq
  <2>1. a.eq \in [EqSet -> BOOLEAN] /\ b.eq \in [EqSet -> BOOLEAN]
    BY DEF Sigs
  <2> QED BY <1>2, <2>1
<1>7. a.prefix = b.prefix /\ a.exact = b.exact
  BY <1>3, <1>5 DEF Sigs, Sides
<1> QED BY <1>6, <1>7 DEF Sigs

LEMMA MaskSigLessOrders ==
  /\ \A a \in Sigs : ~MaskSigLess(a, a)
  /\ \A a, b, c \in Sigs : MaskSigLess(a, b) /\ MaskSigLess(b, c) => MaskSigLess(a, c)
  /\ \A a, b \in Sigs : a # b => MaskSigLess(a, b) \/ MaskSigLess(b, a)
<1> DEFINE F(a) == SigFields(a)
           Lex(x, y) == \E i \in 1..10 : x[i] < y[i] /\ \A j \in 1..(i - 1) : x[j] = y[j]
<1>1. \A a \in Sigs : F(a) \in [1..10 -> Int]
  BY SigFieldsAre
<1>2. \A a, b \in Sigs : MaskSigLess(a, b) <=> Lex(F(a), F(b))
  BY <1>1 DEF MaskSigLess
<1>3. \A x \in [1..10 -> Int] : ~Lex(x, x)
  OBVIOUS
<1>4. ASSUME NEW x \in [1..10 -> Int], NEW y \in [1..10 -> Int], NEW z \in [1..10 -> Int], Lex(x, y), Lex(y, z)
      PROVE  Lex(x, z)
  <2>1. PICK i \in 1..10 : x[i] < y[i] /\ \A j \in 1..(i - 1) : x[j] = y[j]
    BY <1>4
  <2>2. PICK m \in 1..10 : y[m] < z[m] /\ \A j \in 1..(m - 1) : y[j] = z[j]
    BY <1>4
  <2>3. CASE i <= m
    <3>1. x[i] < z[i] /\ \A j \in 1..(i - 1) : x[j] = z[j]
      BY <2>1, <2>2, <2>3
    <3> QED BY <3>1
  <2>4. CASE m < i
    <3>1. x[m] < z[m] /\ \A j \in 1..(m - 1) : x[j] = z[j]
      BY <2>1, <2>2, <2>4
    <3> QED BY <3>1
  <2> QED BY <2>3, <2>4
<1>5. ASSUME NEW x \in [1..10 -> Int], NEW y \in [1..10 -> Int], x # y
      PROVE  Lex(x, y) \/ Lex(y, x)
  <2> DEFINE D == {i \in 1..10 : x[i] # y[i]}
  <2>1. D \subseteq Nat /\ D # {}
    BY <1>5
  <2>2. Min(D) \in D /\ \A i \in D : Min(D) <= i
    <3> HIDE DEF D
    <3> QED BY <2>1, LeastNat
  <2>3. PICK i \in D : \A j \in D : i <= j
    BY <2>2
  <2>4. \A j \in 1..(i - 1) : x[j] = y[j]
    BY <2>3
  <2>5. x[i] \in Int /\ y[i] \in Int /\ x[i] # y[i] /\ i \in 1..10
    BY <2>3
  <2>6. CASE x[i] < y[i]
    BY <2>4, <2>5, <2>6
  <2>7. CASE y[i] < x[i]
    BY <2>4, <2>5, <2>7
  <2> QED BY <2>5, <2>6, <2>7
<1> HIDE DEF Lex
<1>6. \A a \in Sigs : ~MaskSigLess(a, a)
  BY <1>1, <1>2, <1>3
<1>7. ASSUME NEW a \in Sigs, NEW b \in Sigs, NEW c \in Sigs, MaskSigLess(a, b), MaskSigLess(b, c) PROVE MaskSigLess(a, c)
  BY <1>1, <1>2, <1>4, <1>7
<1>8. ASSUME NEW a \in Sigs, NEW b \in Sigs, a # b PROVE MaskSigLess(a, b) \/ MaskSigLess(b, a)
  <2>1. F(a) # F(b)
    BY <1>8, SigFieldsTell
  <2> QED BY <1>1, <1>2, <1>5, <2>1
<1> QED BY <1>6, <1>7, <1>8

-----------------------------------------------------------------------------
(* A rule matches a packet only if their masked keys are the same.         *)

LEMMA FullBytes ==
  ASSUME NEW p \in 0..AddrBits
  PROVE  p \div ByteBits \in 0..AddrBytes
<1>1. ByteBits \in Nat \ {0} /\ AddrBytes \in Nat /\ p \in Nat /\ p <= AddrBytes * ByteBits
  BY IpRulesAssumption DEF AddrBits
<1> DEFINE q == p \div ByteBits
           rem == p % ByteBits
<1>2. q \in Int /\ rem \in 0..(ByteBits - 1) /\ p = ByteBits * q + rem
  BY <1>1, SMT
<1>3. q >= 0
  BY <1>1, SMT
<1> HIDE DEF q, rem
<1>4. q <= AddrBytes
  <2> SUFFICES ASSUME q >= AddrBytes + 1 PROVE FALSE
    BY <1>1, <1>2
  <2>1. ByteBits * q >= ByteBits * (AddrBytes + 1)
    BY <1>1, <1>2, SMT
  <2>2. ByteBits * (AddrBytes + 1) = AddrBytes * ByteBits + ByteBits
    BY <1>1, SMT
  <2> QED BY <1>1, <1>2, <2>1, <2>2, SMT
<1> QED BY <1>2, <1>3, <1>4 DEF q

LEMMA SameNet6 ==
  ASSUME NEW c, NEW ip, c # Open, c.prefix \in 0..AddrBits
  PROVE  matchesCidrV6(c, ip) <=> maskIpV6(c.addr, c.prefix) = maskIpV6(ip, c.prefix)
<1> DEFINE full == c.prefix \div ByteBits
           rem == c.prefix % ByteBits
           at(a, i) == IF i < full THEN byte(a, i) ELSE IF i = full /\ rem # 0 THEN headBits(byte(a, i), rem) ELSE 0
<1>1. full \in 0..AddrBytes /\ AddrBytes \in Nat
  BY FullBytes, IpRulesAssumption
<1>2. maskIpV6(c.addr, c.prefix) = [i \in 0..(AddrBytes - 1) |-> at(c.addr, i)]
  BY DEF maskIpV6
<1>3. maskIpV6(ip, c.prefix) = [i \in 0..(AddrBytes - 1) |-> at(ip, i)]
  BY DEF maskIpV6
<1>4. matchesCidrV6(c, ip) <=>
        /\ \A i \in 0..(full - 1) : byte(c.addr, i) = byte(ip, i)
        /\ rem = 0 \/ full >= AddrBytes \/ headBits(byte(c.addr, full), rem) = headBits(byte(ip, full), rem)
  BY DEF matchesCidrV6
<1> HIDE DEF full, rem
<1>5. ASSUME matchesCidrV6(c, ip), NEW i \in 0..(AddrBytes - 1) PROVE at(c.addr, i) = at(ip, i)
  <2>1. CASE i < full
    <3>1. i \in 0..(full - 1)
      BY <1>1, <2>1
    <3> QED BY <1>4, <1>5, <2>1, <3>1
  <2>2. CASE i = full
    <3>1. ~(full >= AddrBytes) /\ ~(i < full)
      BY <1>1, <2>2
    <3> QED BY <1>4, <1>5, <2>2, <3>1
  <2>3. CASE ~(i < full) /\ i # full
    BY <2>3
  <2> QED BY <2>1, <2>2, <2>3
<1>6. ASSUME \A i \in 0..(AddrBytes - 1) : at(c.addr, i) = at(ip, i) PROVE matchesCidrV6(c, ip)
  <2>1. ASSUME NEW i \in 0..(full - 1) PROVE byte(c.addr, i) = byte(ip, i)
    <3>1. i \in 0..(AddrBytes - 1) /\ i < full
      BY <1>1
    <3> QED BY <1>6, <3>1
  <2>2. ASSUME rem # 0, ~(full >= AddrBytes) PROVE headBits(byte(c.addr, full), rem) = headBits(byte(ip, full), rem)
    <3>1. full \in 0..(AddrBytes - 1) /\ ~(full < full)
      BY <1>1, <2>2
    <3>2. at(c.addr, full) = at(ip, full)
      BY <1>6, <3>1
    <3> QED BY <2>2, <3>1, <3>2
  <2> QED BY <1>4, <2>1, <2>2
<1>7. (\A i \in 0..(AddrBytes - 1) : at(c.addr, i) = at(ip, i)) <=> maskIpV6(c.addr, c.prefix) = maskIpV6(ip, c.prefix)
  <2> HIDE DEF at
  <2>1. ASSUME maskIpV6(c.addr, c.prefix) = maskIpV6(ip, c.prefix), NEW i \in 0..(AddrBytes - 1)
        PROVE  at(c.addr, i) = at(ip, i)
    <3>1. maskIpV6(c.addr, c.prefix)[i] = at(c.addr, i)
      BY <1>2
    <3>2. maskIpV6(ip, c.prefix)[i] = at(ip, i)
      BY <1>3
    <3> QED BY <2>1, <3>1, <3>2
  <2>2. ASSUME \A i \in 0..(AddrBytes - 1) : at(c.addr, i) = at(ip, i)
        PROVE  maskIpV6(c.addr, c.prefix) = maskIpV6(ip, c.prefix)
    BY <1>2, <1>3, <2>2
  <2> QED BY <2>1, <2>2
<1> QED BY <1>5, <1>6, <1>7

\* A rule for the uid and family of a key.
Concerns(r, k) == Parsed(r) /\ r.uid = k.uid /\ r.family = k.family /\ k.family \in {"ipv4", "ipv6"}

\* The ports of the key are what the rule asks for.
PortsFit(r, k) ==
  /\ k.portsAvailable \/ \A s \in Sides : isAny(r.port[s])
  /\ \A s \in Sides : matchesPort(r.port[s], k.port[s])

MaskOf(family, a, prefix) == IF family = "ipv4" THEN maskV4(a, prefix) ELSE maskIpV6(a, prefix)

LEMMA NetsAgree ==
  ASSUME NEW r, NEW k, Concerns(r, k), NEW s \in Sides
  PROVE  (IF r.family = "ipv4" THEN matchesCidrV4(r.cidr[s], k.ip[s]) ELSE matchesCidrV6(r.cidr[s], k.ip[s]))
           <=> r.cidr[s] = Open \/ MaskOf(k.family, r.cidr[s].addr, r.cidr[s].prefix) = MaskOf(k.family, k.ip[s], r.cidr[s].prefix)
<1>1. r.cidr[s] # Open => r.cidr[s].prefix \in 0..AddrBits
  BY DEF Concerns, Parsed
<1>2. r.cidr[s] # Open => (matchesCidrV6(r.cidr[s], k.ip[s]) <=>
          maskIpV6(r.cidr[s].addr, r.cidr[s].prefix) = maskIpV6(k.ip[s], r.cidr[s].prefix))
  BY <1>1, SameNet6
<1>3. r.cidr[s] = Open => matchesCidrV6(r.cidr[s], k.ip[s])
  BY DEF matchesCidrV6
<1>4. matchesCidrV4(r.cidr[s], k.ip[s]) <=>
        r.cidr[s] = Open \/ maskV4(r.cidr[s].addr, r.cidr[s].prefix) = maskV4(k.ip[s], r.cidr[s].prefix)
  BY DEF matchesCidrV4
<1>5. r.family = k.family
  BY DEF Concerns
<1> QED BY <1>2, <1>3, <1>4, <1>5 DEF MaskOf

LEMMA MatchesIs ==
  ASSUME NEW r, NEW k, Concerns(r, k)
  PROVE  matches(r, k) <=>
           /\ PortsFit(r, k)
           /\ \A f \in EqSet : r.eq[f] = Open \/ r.eq[f] = k.eq[f]
           /\ \A s \in Sides : r.cidr[s] = Open \/
                MaskOf(k.family, r.cidr[s].addr, r.cidr[s].prefix) = MaskOf(k.family, k.ip[s], r.cidr[s].prefix)
<1> DEFINE net(s) == IF r.family = "ipv4" THEN matchesCidrV4(r.cidr[s], k.ip[s]) ELSE matchesCidrV6(r.cidr[s], k.ip[s])
           fits(s) == r.cidr[s] = Open \/ MaskOf(k.family, r.cidr[s].addr, r.cidr[s].prefix) = MaskOf(k.family, k.ip[s], r.cidr[s].prefix)
<1>1. matches(r, k) <=> matchesRest(r, k) /\ \A s \in Sides : net(s)
  BY DEF matches, matchesV4, matchesV6
<1>2. \A s \in Sides : net(s) <=> fits(s)
  BY NetsAgree
<1>3. matchesRest(r, k) <=> PortsFit(r, k) /\ \A f \in EqSet : r.eq[f] = Open \/ r.eq[f] = k.eq[f]
  BY DEF matchesRest, PortsFit, Concerns
<1> HIDE DEF net, fits
<1>4. matches(r, k) <=> PortsFit(r, k) /\ (\A f \in EqSet : r.eq[f] = Open \/ r.eq[f] = k.eq[f]) /\ \A s \in Sides : fits(s)
  BY <1>1, <1>2, <1>3
<1> QED BY <1>4 DEF fits

MaskedKeyOf(family, sig, eq, ip, port) ==
  [eq   |-> [f \in EqSet |-> IF sig.eq[f] THEN eq[f] ELSE 0],
   ip   |-> [s \in Sides |-> IF sig.prefix[s] = AnyPrefix THEN 0 ELSE MaskOf(family, ip[s], sig.prefix[s])],
   port |-> [s \in Sides |-> IF sig.exact[s] THEN port[s] ELSE 0]]

LEMMA MaskedKeyIs ==
  ASSUME NEW family, NEW sig, NEW eq, NEW ip, NEW port
  PROVE  maskedKey(family, sig, eq, ip, port) = MaskedKeyOf(family, sig, eq, ip, port)
<1>1. CASE family = "ipv4"
  <2>1. \A a, p : MaskOf(family, a, p) = maskV4(a, p)
    BY <1>1 DEF MaskOf
  <2>2. [s \in Sides |-> IF sig.prefix[s] = AnyPrefix THEN 0 ELSE maskV4(ip[s], sig.prefix[s])]
        = [s \in Sides |-> IF sig.prefix[s] = AnyPrefix THEN 0 ELSE MaskOf(family, ip[s], sig.prefix[s])]
    BY <2>1
  <2> QED BY <1>1, <2>2 DEF maskedKey, maskedKeyV4, MaskedKeyOf
<1>2. CASE family # "ipv4"
  <2>1. \A a, p : MaskOf(family, a, p) = maskIpV6(a, p)
    BY <1>2 DEF MaskOf
  <2>2. [s \in Sides |-> IF sig.prefix[s] = AnyPrefix THEN 0 ELSE maskIpV6(ip[s], sig.prefix[s])]
        = [s \in Sides |-> IF sig.prefix[s] = AnyPrefix THEN 0 ELSE MaskOf(family, ip[s], sig.prefix[s])]
    BY <2>1
  <2> QED BY <1>2, <2>2 DEF maskedKey, maskedKeyV6, MaskedKeyOf
<1> QED BY <1>1, <1>2

LEMMA KeysAgree ==
  ASSUME NEW r, NEW k, Concerns(r, k)
  PROVE  maskedKeyFromRule(maskSigForRule(r), r) = maskedKeyFromPacket(maskSigForRule(r), k) <=>
           /\ \A f \in EqSet : r.eq[f] = Open \/ r.eq[f] = k.eq[f]
           /\ \A s \in Sides : r.cidr[s] = Open \/
                MaskOf(k.family, r.cidr[s].addr, r.cidr[s].prefix) = MaskOf(k.family, k.ip[s], r.cidr[s].prefix)
           /\ \A s \in Sides : r.port[s].kind = "EXACT" => r.port[s].lo = k.port[s]
<1> DEFINE sig == maskSigForRule(r)
           ip == [s \in Sides |-> IF r.cidr[s] = Open THEN 0 ELSE r.cidr[s].addr]
           port == [s \in Sides |-> r.port[s].lo]
           eqA(f) == IF sig.eq[f] THEN r.eq[f] ELSE 0
           eqB(f) == IF sig.eq[f] THEN k.eq[f] ELSE 0
           ipA(s) == IF sig.prefix[s] = AnyPrefix THEN 0 ELSE MaskOf(k.family, ip[s], sig.prefix[s])
           ipB(s) == IF sig.prefix[s] = AnyPrefix THEN 0 ELSE MaskOf(k.family, k.ip[s], sig.prefix[s])
           portA(s) == IF sig.exact[s] THEN port[s] ELSE 0
           portB(s) == IF sig.exact[s] THEN k.port[s] ELSE 0
           A == [eq |-> [f \in EqSet |-> eqA(f)], ip |-> [s \in Sides |-> ipA(s)], port |-> [s \in Sides |-> portA(s)]]
           B == [eq |-> [f \in EqSet |-> eqB(f)], ip |-> [s \in Sides |-> ipB(s)], port |-> [s \in Sides |-> portB(s)]]
<1>1. maskedKeyFromRule(sig, r) = A
  <2>1. maskedKeyFromRule(sig, r) = MaskedKeyOf(r.family, sig, r.eq, ip, port)
    BY MaskedKeyIs DEF maskedKeyFromRule
  <2>2. r.family = k.family
    BY DEF Concerns
  <2> QED BY <2>1, <2>2 DEF MaskedKeyOf
<1>2. maskedKeyFromPacket(sig, k) = B
  BY MaskedKeyIs DEF maskedKeyFromPacket, MaskedKeyOf
<1>3. \A f \in EqSet : eqA(f) = eqB(f) <=> (r.eq[f] = Open \/ r.eq[f] = k.eq[f])
  BY DEF maskSigForRule
<1>4. \A s \in Sides : sig.prefix[s] = AnyPrefix <=> r.cidr[s] = Open
  <2>1. \A s \in Sides : r.cidr[s] # Open => r.cidr[s].prefix \in 0..AddrBits
    BY DEF Concerns, Parsed
  <2>2. AddrBits < AnyPrefix /\ AddrBits \in Nat
    BY IpRulesAssumption DEF AddrBits
  <2>3. \A s \in Sides : r.cidr[s] # Open => r.cidr[s].prefix # AnyPrefix
    BY <2>1, <2>2 DEF AnyPrefix
  <2> QED BY <2>3 DEF maskSigForRule
<1>5. \A s \in Sides : ipA(s) = ipB(s) <=> (r.cidr[s] = Open \/
        MaskOf(k.family, r.cidr[s].addr, r.cidr[s].prefix) = MaskOf(k.family, k.ip[s], r.cidr[s].prefix))
  <2> TAKE s \in Sides
  <2>1. CASE r.cidr[s] = Open
    BY <1>4, <2>1
  <2>2. CASE r.cidr[s] # Open
    <3>1. sig.prefix[s] # AnyPrefix /\ sig.prefix[s] = r.cidr[s].prefix /\ ip[s] = r.cidr[s].addr
      BY <1>4, <2>2 DEF maskSigForRule
    <3> HIDE DEF sig, ip
    <3> QED BY <2>2, <3>1
  <2> QED BY <2>1, <2>2
<1>6. \A s \in Sides : portA(s) = portB(s) <=> (r.port[s].kind = "EXACT" => r.port[s].lo = k.port[s])
  BY DEF maskSigForRule
<1>7. A = B <=> (\A f \in EqSet : eqA(f) = eqB(f)) /\ (\A s \in Sides : ipA(s) = ipB(s)) /\ (\A s \in Sides : portA(s) = portB(s))
  <2> HIDE DEF eqA, eqB, ipA, ipB, portA, portB
  <2>1. ASSUME A = B PROVE (\A f \in EqSet : eqA(f) = eqB(f)) /\ (\A s \in Sides : ipA(s) = ipB(s)) /\ (\A s \in Sides : portA(s) = portB(s))
    <3>1. A.eq = B.eq /\ A.ip = B.ip /\ A.port = B.port
      BY <2>1, Zenon
    <3>2. \A f \in EqSet : A.eq[f] = eqA(f) /\ B.eq[f] = eqB(f)
      OBVIOUS
    <3>3. \A s \in Sides : A.ip[s] = ipA(s) /\ B.ip[s] = ipB(s)
      OBVIOUS
    <3>4. \A s \in Sides : A.port[s] = portA(s) /\ B.port[s] = portB(s)
      OBVIOUS
    <3> HIDE DEF A, B
    <3> QED BY <3>1, <3>2, <3>3, <3>4
  <2>2. ASSUME \A f \in EqSet : eqA(f) = eqB(f), \A s \in Sides : ipA(s) = ipB(s), \A s \in Sides : portA(s) = portB(s)
        PROVE  A = B
    <3>1. [f \in EqSet |-> eqA(f)] = [f \in EqSet |-> eqB(f)]
      BY <2>2
    <3>2. [s \in Sides |-> ipA(s)] = [s \in Sides |-> ipB(s)]
      BY <2>2
    <3>3. [s \in Sides |-> portA(s)] = [s \in Sides |-> portB(s)]
      BY <2>2
    <3> QED BY <3>1, <3>2, <3>3, Zenon
  <2> QED BY <2>1, <2>2
<1> HIDE DEF A, B, eqA, eqB, ipA, ipB, portA, portB
<1> QED BY <1>1, <1>2, <1>3, <1>5, <1>6, <1>7 DEF sig

\* A rule that matches is in the bucket the lookup reads.
LEMMA MatchesAgrees ==
  ASSUME NEW r, NEW k, Concerns(r, k), matches(r, k)
  PROVE  maskedKeyFromRule(maskSigForRule(r), r) = maskedKeyFromPacket(maskSigForRule(r), k)
<1>1. \A s \in Sides : r.port[s].kind = "EXACT" => r.port[s].lo = k.port[s]
  BY MatchesIs DEF PortsFit, matchesPort
<1> QED BY <1>1, MatchesIs, KeysAgree

\* The rules of a bucket without a port range match all, or none.
LEMMA ExactsAlike ==
  ASSUME NEW q, NEW r, NEW k, Concerns(q, k), Concerns(r, k), maskSigForRule(q) = maskSigForRule(r),
         maskedKeyFromRule(maskSigForRule(q), q) = maskedKeyFromPacket(maskSigForRule(q), k),
         maskedKeyFromRule(maskSigForRule(r), r) = maskedKeyFromPacket(maskSigForRule(r), k),
         ~hasRangePorts(q), ~hasRangePorts(r), matches(q, k)
  PROVE  matches(r, k)
<1>1. \A s \in Sides : q.port[s].kind \in {"ANY", "EXACT"} /\ r.port[s].kind \in {"ANY", "EXACT"}
  BY DEF Concerns, Parsed, hasRangePorts
<1>2. \A s \in Sides : q.port[s].kind = "EXACT" <=> r.port[s].kind = "EXACT"
  <2>1. \A s \in Sides : maskSigForRule(q).exact[s] <=> q.port[s].kind = "EXACT"
    BY DEF maskSigForRule
  <2>2. \A s \in Sides : maskSigForRule(r).exact[s] <=> r.port[s].kind = "EXACT"
    BY DEF maskSigForRule
  <2> QED BY <2>1, <2>2
<1>3. \A s \in Sides : r.port[s].kind = "EXACT" => r.port[s].lo = k.port[s]
  BY KeysAgree
<1>4. k.portsAvailable \/ \A s \in Sides : isAny(q.port[s])
  BY MatchesIs DEF PortsFit
<1>5. k.portsAvailable \/ \A s \in Sides : isAny(r.port[s])
  BY <1>1, <1>2, <1>4 DEF isAny
<1>6. \A s \in Sides : matchesPort(r.port[s], k.port[s])
  BY <1>1, <1>3 DEF matchesPort
<1>7. PortsFit(r, k)
  BY <1>5, <1>6 DEF PortsFit
<1> QED BY <1>7, MatchesIs, KeysAgree

-----------------------------------------------------------------------------
(* The best rule of a bucket.                                              *)

Members(rs, view, sig, mk, range) ==
  {i \in view : /\ maskSigForRule(rs[i].def) = sig
                /\ maskedKeyFromRule(sig, rs[i].def) = mk
                /\ hasRangePorts(rs[i].def) = range}

LEMMA BucketSorted ==
  ASSUME NEW rs, MapOk(rs), NEW view \in SUBSET DOMAIN rs, NEW sig, NEW mk, NEW range \in BOOLEAN
  PROVE  LET S == Members(rs, view, sig, mk, range)
             b == bucket(rs, view, sig, mk, range)
         IN /\ Cardinality(S) \in Nat /\ DOMAIN b = 1..Cardinality(S)
            /\ b = << >> <=> S = {}
            /\ \A n \in DOMAIN b : b[n] \in S
            /\ \A i \in S : \E n \in DOMAIN b : b[n] = i
            /\ \A m, n \in DOMAIN b : m <= n => rs[b[m]].def.priority >= rs[b[n]].def.priority
<1> DEFINE S == Members(rs, view, sig, mk, range)
           b == bucket(rs, view, sig, mk, range)
           R == ruleLess(rs, S)
<1>1. b = sort(S, R)
  BY DEF bucket, Members
<1>2. IsFiniteSet(S) /\ S \subseteq DOMAIN rs
  BY FS_Subset DEF Members, MapOk
<1>3. \A i \in S : i \in Nat /\ rs[i].def.priority \in Int
  BY <1>2 DEF MapOk, Parsed
<1> HIDE DEF S, b
<1>4. \A x, y \in S : <<x, y>> \in R <=>
        \/ rs[x].def.priority > rs[y].def.priority
        \/ rs[x].def.priority = rs[y].def.priority /\ x < y
  BY DEF ruleLess
<1> HIDE DEF R
<1>5. IsOrder(R, S)
  <2>1. \A x \in S : <<x, x>> \notin R
    BY <1>3, <1>4
  <2>2. ASSUME NEW x \in S, NEW y \in S, NEW z \in S, <<x, y>> \in R, <<y, z>> \in R PROVE <<x, z>> \in R
    BY <1>3, <1>4, <2>2
  <2>3. ASSUME NEW x \in S, NEW y \in S, x # y PROVE <<x, y>> \in R \/ <<y, x>> \in R
    BY <1>3, <1>4, <2>3
  <2> QED BY <2>1, <2>2, <2>3 DEF IsOrder
<1>6. /\ Cardinality(S) \in Nat /\ DOMAIN b = 1..Cardinality(S)
      /\ \A n \in 1..Cardinality(S) : b[n] \in S
      /\ \A x \in S : \E n \in 1..Cardinality(S) : b[n] = x
      /\ \A m, n \in 1..Cardinality(S) : m < n => <<b[m], b[n]>> \in R
  BY <1>1, <1>2, <1>5, Sorted
<1>7. \A m, n \in DOMAIN b : m <= n => rs[b[m]].def.priority >= rs[b[n]].def.priority
  <2> TAKE m, n \in DOMAIN b
  <2> HAVE m <= n
  <2>1. b[m] \in S /\ b[n] \in S /\ m \in Int /\ n \in Int
    BY <1>6
  <2>2. CASE m < n
    <3>1. <<b[m], b[n]>> \in R
      BY <1>6, <2>2
    <3>2. \/ rs[b[m]].def.priority > rs[b[n]].def.priority
          \/ rs[b[m]].def.priority = rs[b[n]].def.priority /\ b[m] < b[n]
      BY <1>4, <2>1, <3>1
    <3> QED BY <1>3, <2>1, <3>2
  <2>3. CASE m = n
    BY <1>3, <2>1, <2>3
  <2> QED BY <2>1, <2>2, <2>3
<1>8. b = << >> <=> S = {}
  <2>1. ASSUME S = {} PROVE b = << >>
    <3>1. Cardinality(S) = 0
      BY <2>1, FS_EmptySet
    <3>2. DOMAIN b = {} /\ b = [n \in 1..0 |-> CHOOSE x \in S : Cardinality({y \in S : <<y, x>> \in R}) = n - 1]
      BY <1>1, <1>6, <3>1 DEF sort
    <3> QED BY <3>2
  <2>2. ASSUME b = << >> PROVE S = {}
    <3>1. DOMAIN b = {}
      BY <2>2
    <3> QED BY <1>6, <3>1
  <2> QED BY <2>1, <2>2
<1> QED BY <1>6, <1>7, <1>8 DEF S, b

LEMMA BestOfBucket ==
  ASSUME NEW rs, MapOk(rs), NEW view \in SUBSET DOMAIN rs, NEW k, \A i \in view : Concerns(rs[i].def, k), NEW sig
  PROVE  LET mk == maskedKeyFromPacket(sig, k)
             c == best(rs, bucket(rs, view, sig, mk, FALSE), bucket(rs, view, sig, mk, TRUE), k)
             M == {i \in view : maskSigForRule(rs[i].def) = sig /\ matches(rs[i].def, k)}
         IN \/ c = None /\ M = {}
            \/ c \in M /\ \A i \in M : rs[i].def.priority <= rs[c].def.priority
<1> DEFINE mk == maskedKeyFromPacket(sig, k)
           e == bucket(rs, view, sig, mk, FALSE)
           g == bucket(rs, view, sig, mk, TRUE)
           E == Members(rs, view, sig, mk, FALSE)
           G == Members(rs, view, sig, mk, TRUE)
           fits(i) == matches(rs[i].def, k)
           prio(i) == rs[i].def.priority
           M == {i \in view : maskSigForRule(rs[i].def) = sig /\ fits(i)}
           exact == IF e # << >> /\ fits(e[1]) THEN e[1] ELSE None
           above(n) == exact = None \/ prio(g[n]) > prio(exact)
           W == {n \in DOMAIN g : fits(g[n]) /\ \A j \in 1..n : above(j)}
           c == best(rs, e, g, k)
<1>1. c = IF W # {} THEN g[Min(W)] ELSE exact
  BY DEF best
<1>2. \A i \in view : i \in Nat /\ prio(i) \in Int
  BY DEF MapOk, Parsed
<1>3. M = {i \in E \cup G : fits(i)}
  <2>1. ASSUME NEW i \in view, fits(i), maskSigForRule(rs[i].def) = sig PROVE i \in E \cup G
    <3>1. maskedKeyFromRule(sig, rs[i].def) = mk
      BY <2>1, MatchesAgrees
    <3>2. hasRangePorts(rs[i].def) \in BOOLEAN
      BY DEF hasRangePorts
    <3> QED BY <2>1, <3>1, <3>2 DEF Members
  <2> QED BY <2>1 DEF Members
<1>4. /\ E \subseteq view /\ Cardinality(E) \in Nat /\ DOMAIN e = 1..Cardinality(E)
      /\ e = << >> <=> E = {}
      /\ \A n \in DOMAIN e : e[n] \in E
      /\ \A i \in E : \E n \in DOMAIN e : e[n] = i
      /\ \A m, n \in DOMAIN e : m <= n => prio(e[m]) >= prio(e[n])
  <2>1. E \subseteq view
    BY DEF Members
  <2> QED BY <2>1, BucketSorted
<1>5. /\ G \subseteq view /\ Cardinality(G) \in Nat /\ DOMAIN g = 1..Cardinality(G)
      /\ \A n \in DOMAIN g : g[n] \in G
      /\ \A i \in G : \E n \in DOMAIN g : g[n] = i
      /\ \A m, n \in DOMAIN g : m <= n => prio(g[m]) >= prio(g[n])
  <2>1. G \subseteq view
    BY DEF Members
  <2> QED BY <2>1, BucketSorted
<1>6. \A i, j \in E : fits(i) => fits(j)
  BY ExactsAlike DEF Members
<1> HIDE DEF e, g, E, G, M, fits, prio, c
<1>7. e # << >> => 1 \in DOMAIN e /\ e[1] \in E
  BY <1>4
<1>8. exact = None => \A i \in E : ~fits(i)
  <2> SUFFICES ASSUME exact = None, NEW i \in E, fits(i) PROVE FALSE
    OBVIOUS
  <2>1. e # << >> /\ e[1] \in E
    BY <1>4, <1>7
  <2>2. fits(e[1])
    BY <1>6, <2>1
  <2>3. e[1] \in Nat
    BY <1>2, <1>4, <2>1
  <2> QED BY <2>1, <2>2, <2>3 DEF None
<1>9. exact # None => exact \in E /\ fits(exact) /\ \A i \in E : prio(i) <= prio(exact)
  <2> SUFFICES ASSUME exact # None PROVE exact \in E /\ fits(exact) /\ \A i \in E : prio(i) <= prio(exact)
    OBVIOUS
  <2>1. exact = e[1] /\ fits(e[1]) /\ e[1] \in E /\ 1 \in DOMAIN e
    BY <1>7
  <2>2. ASSUME NEW i \in E PROVE prio(i) <= prio(e[1])
    <3>1. PICK n \in DOMAIN e : e[n] = i
      BY <1>4
    <3>2. 1 <= n
      BY <1>4
    <3>3. prio(e[1]) >= prio(e[n])
      BY <1>4, <2>1, <3>2
    <3> QED BY <1>2, <1>4, <2>1, <3>1, <3>3
  <2> QED BY <2>1, <2>2
<1> HIDE DEF exact
<1>10. CASE W # {}
  <2> DEFINE m == Min(W)
  <2>1. m \in W /\ \A n \in W : m <= n
    <3>1. W \subseteq Nat
      BY <1>5
    <3> HIDE DEF W
    <3> QED BY <1>10, <3>1, LeastNat
  <2> HIDE DEF m
  <2>2. m \in DOMAIN g /\ fits(g[m]) /\ \A j \in 1..m : above(j)
    BY <2>1
  <2>3. g[m] \in G /\ g[m] \in view /\ prio(g[m]) \in Int
    BY <1>2, <1>5, <2>2
  <2>4. above(m)
    BY <1>5, <2>2
  <2>5. ASSUME NEW i \in E, fits(i) PROVE prio(i) <= prio(g[m])
    <3>1. exact # None /\ prio(i) <= prio(exact) /\ exact \in view
      BY <1>4, <1>8, <1>9, <2>5
    <3> QED BY <1>2, <1>4, <2>3, <2>4, <3>1
  <2>6. ASSUME NEW i \in G, fits(i) PROVE prio(i) <= prio(g[m])
    <3>1. PICK n \in DOMAIN g : g[n] = i
      BY <1>5
    <3>2. CASE m <= n
      <4>1. prio(g[m]) >= prio(g[n])
        BY <1>5, <2>2, <3>2
      <4> QED BY <1>2, <1>5, <2>3, <3>1, <4>1
    <3>3. CASE n < m
      <4>1. \A j \in 1..n : above(j)
        <5> HIDE DEF above
        <5> QED BY <1>5, <2>2, <3>3
      <4>2. n \in W
        BY <2>6, <3>1, <4>1
      <4> QED BY <1>5, <2>1, <2>2, <3>3, <4>2
    <3> QED BY <1>5, <2>2, <3>2, <3>3
  <2>7. c = g[m]
    BY <1>1, <1>10 DEF m
  <2> QED BY <1>3, <2>2, <2>3, <2>5, <2>6, <2>7 DEF M, c, prio, e, g, fits
<1>11. CASE W = {}
  <2>1. ASSUME NEW i \in G, fits(i) PROVE exact # None /\ prio(i) <= prio(exact)
    <3>1. PICK n \in DOMAIN g : g[n] = i
      BY <1>5
    <3>2. PICK j \in 1..n : ~above(j)
      BY <1>11, <2>1, <3>1
    <3>3. exact # None /\ ~(prio(g[j]) > prio(exact))
      BY <3>2
    <3>4. j \in DOMAIN g /\ j <= n
      BY <1>5, <3>2
    <3>5. prio(g[j]) >= prio(g[n])
      BY <1>5, <3>4
    <3>6. prio(g[j]) \in Int /\ prio(g[n]) \in Int /\ prio(exact) \in Int
      BY <1>2, <1>4, <1>5, <1>9, <3>3, <3>4
    <3> QED BY <3>1, <3>3, <3>5, <3>6
  <2>2. c = exact
    BY <1>1, <1>11
  <2>3. CASE exact = None
    <3>1. M = {}
      BY <1>3, <1>8, <2>1, <2>3
    <3> QED BY <2>2, <2>3, <3>1 DEF M, c, e, g, fits
  <2>4. CASE exact # None
    <3>1. exact \in M /\ \A i \in M : prio(i) <= prio(exact)
      BY <1>3, <1>9, <2>1, <2>4
    <3> QED BY <2>2, <3>1 DEF M, c, prio, e, g, fits
  <2> QED BY <2>3, <2>4
<1> QED BY <1>10, <1>11

-----------------------------------------------------------------------------
(* The lookup: the subtables in order, pruned.                             *)

IsKey(k) == k.family \in {"ipv4", "ipv6"}

LEMMA ViewFacts ==
  ASSUME NEW rs, MapOk(rs), NEW k, IsKey(k), NEW enforce
  PROVE  LET view == viewRules(rs, k.uid, k.family, enforce)
             T == subtables(rs, k.uid, k.family)
         IN /\ view \in SUBSET DOMAIN rs /\ \A i \in view : Concerns(rs[i].def, k) /\ rs[i].def.enabled
            /\ IsFiniteSet(T) /\ T \subseteq Sigs
            /\ \A i \in view : maskSigForRule(rs[i].def) \in T
<1> DEFINE view == viewRules(rs, k.uid, k.family, enforce)
           T == subtables(rs, k.uid, k.family)
           D == {i \in DOMAIN rs : rs[i].def.enabled /\ rs[i].def.uid = k.uid /\ rs[i].def.family = k.family}
           f == [i \in D |-> maskSigForRule(rs[i].def)]
<1>1. view \in SUBSET D /\ D \subseteq DOMAIN rs
  BY DEF viewRules
<1>2. T = {maskSigForRule(rs[i].def) : i \in D}
  <2>1. CASE k.family = "ipv4"
    BY <2>1 DEF subtables, subtablesV4
  <2>2. CASE k.family = "ipv6"
    BY <2>2 DEF subtables, subtablesV6
  <2> QED BY <2>1, <2>2 DEF IsKey
<1>3. \A i \in D : maskSigForRule(rs[i].def) \in Sigs
  BY SigOfRule DEF MapOk
<1>4. \A i \in D : Concerns(rs[i].def, k) /\ rs[i].def.enabled
  BY DEF Concerns, IsKey, MapOk
<1>5. IsFiniteSet(D)
  BY <1>1, FS_Subset DEF MapOk
<1> HIDE DEF D
<1>6. T = {f[i] : i \in D} /\ DOMAIN f = D
  BY <1>2
<1> HIDE DEF f, T
<1>7. IsFiniteSet(T)
  BY <1>5, <1>6, ImageFinite
<1> QED BY <1>1, <1>2, <1>3, <1>4, <1>7 DEF T

LEMMA OrderSorted ==
  ASSUME NEW rs, MapOk(rs), NEW k, IsKey(k), NEW enforce
  PROVE  LET view == viewRules(rs, k.uid, k.family, enforce)
             T == subtables(rs, k.uid, k.family)
             sigs == order(rs, k.uid, k.family, view)
         IN /\ Cardinality(T) \in Nat /\ DOMAIN sigs = 1..Cardinality(T)
            /\ \A sig \in T : \E n \in DOMAIN sigs : sigs[n] = sig
            /\ \A m, n \in DOMAIN sigs : m <= n => maxPriority(rs, view, sigs[m]) >= maxPriority(rs, view, sigs[n])
<1> DEFINE view == viewRules(rs, k.uid, k.family, enforce)
           T == subtables(rs, k.uid, k.family)
           sigs == order(rs, k.uid, k.family, view)
           top(sig) == maxPriority(rs, view, sig)
           R == {p \in T \X T : top(p[1]) > top(p[2]) \/ (top(p[1]) = top(p[2]) /\ MaskSigLess(p[1], p[2]))}
<1>1. IsFiniteSet(T) /\ T \subseteq Sigs /\ view \in SUBSET DOMAIN rs
  BY ViewFacts
<1>2. \A sig : top(sig) \in Int
  <2> TAKE sig
  <2> HIDE DEF view
  <2> QED BY <1>1, MaxPriorityFacts
<1>3. sigs = sort(T, R)
  BY DEF order
<1> HIDE DEF T, sigs, top
<1>4. \A a, b \in T : <<a, b>> \in R <=> top(a) > top(b) \/ (top(a) = top(b) /\ MaskSigLess(a, b))
  OBVIOUS
<1> HIDE DEF R
<1>5. IsOrder(R, T)
  <2>1. \A a \in T : <<a, a>> \notin R
    BY <1>1, <1>2, <1>4, MaskSigLessOrders
  <2>2. ASSUME NEW a \in T, NEW b \in T, NEW c \in T, <<a, b>> \in R, <<b, c>> \in R PROVE <<a, c>> \in R
    <3>1. top(a) \in Int /\ top(b) \in Int /\ top(c) \in Int
      BY <1>2
    <3>2. top(a) >= top(b) /\ top(b) >= top(c)
      BY <1>4, <2>2, <3>1
    <3>3. CASE top(a) = top(b) /\ top(b) = top(c)
      <4>1. MaskSigLess(a, b) /\ MaskSigLess(b, c)
        BY <1>4, <2>2, <3>1, <3>3
      <4>2. MaskSigLess(a, c)
        BY <1>1, <4>1, MaskSigLessOrders
      <4> QED BY <1>4, <3>3, <4>2
    <3>4. CASE top(a) > top(c)
      BY <1>4, <3>4
    <3> QED BY <3>1, <3>2, <3>3, <3>4
  <2>3. ASSUME NEW a \in T, NEW b \in T, a # b PROVE <<a, b>> \in R \/ <<b, a>> \in R
    <3>1. MaskSigLess(a, b) \/ MaskSigLess(b, a)
      BY <1>1, <2>3, MaskSigLessOrders
    <3>2. top(a) \in Int /\ top(b) \in Int
      BY <1>2
    <3> QED BY <1>4, <3>1, <3>2
  <2> QED BY <2>1, <2>2, <2>3 DEF IsOrder
<1>6. /\ Cardinality(T) \in Nat /\ DOMAIN sigs = 1..Cardinality(T)
      /\ \A n \in 1..Cardinality(T) : sigs[n] \in T
      /\ \A x \in T : \E n \in 1..Cardinality(T) : sigs[n] = x
      /\ \A m, n \in 1..Cardinality(T) : m < n => <<sigs[m], sigs[n]>> \in R
  BY <1>1, <1>3, <1>5, Sorted
<1>7. ASSUME NEW m \in DOMAIN sigs, NEW n \in DOMAIN sigs, m <= n PROVE top(sigs[m]) >= top(sigs[n])
  <2>1. sigs[m] \in T /\ sigs[n] \in T /\ m \in Int /\ n \in Int
    BY <1>6
  <2>2. top(sigs[m]) \in Int /\ top(sigs[n]) \in Int
    BY <1>2
  <2>3. CASE m < n
    <3>1. <<sigs[m], sigs[n]>> \in R
      BY <1>6, <2>3
    <3> QED BY <1>4, <2>1, <2>2, <3>1
  <2>4. CASE m = n
    BY <2>2, <2>4
  <2> QED BY <1>7, <2>1, <2>3, <2>4
<1> QED BY <1>6, <1>7 DEF T, sigs, top

\* A nonempty set of finitely many places, each with a number, has a place
\* that comes before the others: of the greatest number, and of equals the first.
LEMMA BestPlace ==
  ASSUME NEW N \in Nat, NEW S \in SUBSET (1..N), S # {}, NEW p, DOMAIN p = S, \A i \in S : p[i] \in Int
  PROVE  \E i \in S : \A j \in S \ {i} : p[j] < p[i] \/ (p[j] = p[i] /\ i < j)
<1> DEFINE P == {p[i] : i \in S}
           top == Max(P)
           F == {i \in S : p[i] = top}
           i == Min(F)
<1>1. IsFiniteSet(S)
  <2>1. IsFiniteSet(1..N)
    BY FS_Interval
  <2> QED BY <2>1, FS_Subset
<1>2. IsFiniteSet(P)
  BY <1>1, ImageFinite
<1>3. P \subseteq Int /\ P # {}
  OBVIOUS
<1>4. top \in P /\ \A y \in P : top >= y
  <2> HIDE DEF P
  <2> QED BY <1>2, <1>3, GreatestInt
<1> HIDE DEF top
<1>5. F # {} /\ F \subseteq Nat
  <2>1. PICK j \in S : p[j] = top
    BY <1>4
  <2>2. j \in F
    BY <2>1
  <2>3. \A n \in S : n \in Nat
    OBVIOUS
  <2> QED BY <2>2, <2>3
<1>6. i \in F /\ \A j \in F : i <= j
  <2> HIDE DEF F
  <2> QED BY <1>5, LeastNat
<1> HIDE DEF i
<1>7. \A j \in S \ {i} : p[j] < p[i] \/ (p[j] = p[i] /\ i < j)
  <2> TAKE j \in S \ {i}
  <2>1. p[j] \in Int /\ p[i] \in Int /\ p[i] = top /\ top >= p[j] /\ i \in Int /\ j \in Int
    BY <1>4, <1>6
  <2>2. p[j] = top => i < j
    BY <1>6, <2>1
  <2> QED BY <2>1, <2>2
<1> QED BY <1>6, <1>7

LEMMA LookupFinds ==
  ASSUME NEW rs, MapOk(rs), NEW k, IsKey(k), NEW enforce
  PROVE  LET c == lookupBest(rs, k, enforce)
             A == Applicable(rs, k, enforce)
         IN \/ c = None /\ Ranked(rs, A) = {}
            \/ c \in A /\ c # None /\ \A i \in A : rs[i].def.priority <= rs[c].def.priority
<1> DEFINE view == viewRules(rs, k.uid, k.family, enforce)
           T == subtables(rs, k.uid, k.family)
           N == Cardinality(T)
           sigs == order(rs, k.uid, k.family, view)
           top(n) == maxPriority(rs, view, sigs[n])
           tops == [n \in DOMAIN sigs |-> top(n)]
           cand == [n \in DOMAIN sigs |-> candidate(rs, view, sigs[n], k)]
           prio(i) == rs[i].def.priority
           sigOf(i) == maskSigForRule(rs[i].def)
           ends(n) == top(n) = MinPriority \/ \E j \in 1..(n - 1) : cand[j] # None /\ pruned(top(n), prio(cand[j]))
           seen == {n \in DOMAIN sigs : cand[n] # None /\ \A j \in 1..n : ~ends(j)}
           first(n) == \A j \in seen \ {n} : prio(cand[j]) < prio(cand[n]) \/ (prio(cand[j]) = prio(cand[n]) /\ n < j)
           c == lookupBest(rs, k, enforce)
           A == Applicable(rs, k, enforce)
<1>0. N \in Nat /\ DOMAIN sigs = 1..N
  BY OrderSorted
<1>1. c = IF seen = {} THEN None ELSE cand[CHOOSE n \in seen : first(n)]
  <2>1. c = scan(rs, tops, cand)
    BY DEF lookupBest
  <2> DEFINE ends0(n) == tops[n] = MinPriority \/ \E j \in 1..(n - 1) : cand[j] # None /\ pruned(tops[n], prio(cand[j]))
             seen0 == {n \in DOMAIN cand : cand[n] # None /\ \A j \in 1..n : ~ends0(j)}
             first0(n) == \A j \in seen0 \ {n} : prio(cand[j]) < prio(cand[n]) \/ (prio(cand[j]) = prio(cand[n]) /\ n < j)
  <2>2. scan(rs, tops, cand) = IF seen0 = {} THEN None ELSE cand[CHOOSE n \in seen0 : first0(n)]
    <3> HIDE DEF tops, cand
    <3> QED BY DEF scan
  <2>3. DOMAIN cand = DOMAIN sigs /\ \A n \in DOMAIN sigs : tops[n] = top(n)
    OBVIOUS
  <2> HIDE DEF tops, cand, c, top, sigs
  <2>4. seen0 = seen
    <3>1. \A n \in DOMAIN sigs : \A j \in 1..n : ends0(j) <=> ends(j)
      BY <1>0, <2>3
    <3> HIDE DEF ends0, ends
    <3> QED BY <2>3, <3>1
  <2> HIDE DEF seen0, seen
  <2> QED BY <2>1, <2>2, <2>4
<1>2. /\ view \in SUBSET DOMAIN rs /\ \A i \in view : Concerns(rs[i].def, k)
      /\ \A i \in view : sigOf(i) \in T
  BY ViewFacts
<1>3. /\ N \in Nat /\ DOMAIN sigs = 1..N
      /\ \A sig \in T : \E n \in DOMAIN sigs : sigs[n] = sig
      /\ \A m, n \in DOMAIN sigs : m <= n => top(m) >= top(n)
  BY OrderSorted
<1>4. A = {i \in view : matches(rs[i].def, k)}
  BY DEF Applicable
<1>5. \A i \in view : i \in Nat /\ prio(i) \in Int /\ prio(i) >= MinPriority
  BY <1>2 DEF MapOk, Parsed
<1>6. MinPriority \in Int
  BY IpRulesAssumption
<1>7. \A n \in DOMAIN sigs : top(n) \in Int /\ top(n) >= MinPriority /\ \A i \in view : sigOf(i) = sigs[n] => prio(i) <= top(n)
  <2> TAKE n \in DOMAIN sigs
  <2> HIDE DEF view, sigs
  <2> QED BY <1>2, MaxPriorityFacts
<1> DEFINE M(sig) == {i \in view : sigOf(i) = sig /\ matches(rs[i].def, k)}
<1>8. \A n \in DOMAIN sigs :
        \/ cand[n] = None /\ M(sigs[n]) = {}
        \/ cand[n] \in M(sigs[n]) /\ \A i \in M(sigs[n]) : prio(i) <= prio(cand[n])
  <2> TAKE n \in DOMAIN sigs
  <2> DEFINE sig == sigs[n]
             found == candidate(rs, view, sig, k)
  <2>1. cand[n] = found
    OBVIOUS
  <2> HIDE DEF view, sig, cand
  <2>2. \/ found = None /\ M(sig) = {}
        \/ found \in M(sig) /\ \A i \in M(sig) : prio(i) <= prio(found)
    BY <1>2, BestOfBucket DEF candidate
  <2> HIDE DEF found, M
  <2> QED BY <2>1, <2>2 DEF sig
<1> HIDE DEF view, sigs, cand, c, A, T, N, top
<1>9. ASSUME NEW i \in A PROVE \E n \in 1..N : sigs[n] = sigOf(i) /\ cand[n] # None /\ prio(i) <= prio(cand[n]) /\ prio(i) <= top(n)
  <2>1. i \in view /\ sigOf(i) \in T
    BY <1>2, <1>4
  <2>2. PICK n \in 1..N : sigs[n] = sigOf(i)
    BY <1>3, <2>1
  <2>3. i \in M(sigs[n])
    BY <1>4, <2>2
  <2>4. cand[n] \in M(sigs[n]) /\ prio(i) <= prio(cand[n])
    BY <1>3, <1>8, <2>3
  <2>5. cand[n] \in Nat
    BY <1>5, <2>4
  <2>6. prio(i) <= top(n)
    BY <1>3, <1>7, <2>1, <2>2
  <2> QED BY <2>2, <2>4, <2>5, <2>6 DEF None
<1>10. \A n \in 1..N : cand[n] # None => cand[n] \in A /\ prio(cand[n]) \in Int /\ prio(cand[n]) >= MinPriority
  BY <1>3, <1>4, <1>5, <1>8
<1> HIDE DEF M, sigOf, prio
\* Whatever ends the lookup, everything after it is at most that good.
<1>11. ASSUME NEW n \in 1..N, ends(n)
       PROVE  top(n) = MinPriority \/ \E j \in seen : top(n) < prio(cand[j])
  <2> DEFINE Ends == {m \in 1..n : ends(m)}
  <2>1. Ends \subseteq Nat /\ Ends # {}
    <3>1. n \in 1..n
      BY <1>3
    <3> HIDE DEF ends
    <3> QED BY <1>3, <1>11, <3>1
  <2> DEFINE m == Min(Ends)
  <2>2. m \in Ends /\ \A y \in Ends : m <= y
    <3> HIDE DEF Ends
    <3> QED BY <2>1, LeastNat
  <2> HIDE DEF m
  <2>3. m \in 1..n /\ m \in 1..N /\ ends(m)
    <3> HIDE DEF ends
    <3> QED BY <1>3, <2>2
  <2>4. \A j \in 1..(m - 1) : ~ends(j)
    <3> HIDE DEF ends
    <3> QED BY <1>3, <2>2, <2>3
  <2>5. top(m) >= top(n) /\ top(m) \in Int /\ top(n) \in Int /\ top(n) >= MinPriority
    BY <1>3, <1>7, <2>3
  <2>6. CASE top(m) = MinPriority
    BY <1>6, <2>5, <2>6
  <2>7. CASE \E j \in 1..(m - 1) : cand[j] # None /\ pruned(top(m), prio(cand[j]))
    <3>1. PICK j \in 1..(m - 1) : cand[j] # None /\ pruned(top(m), prio(cand[j]))
      BY <2>7
    <3>2. top(m) < prio(cand[j])
      BY <3>1 DEF pruned
    <3>3. j \in 1..N /\ \A h \in 1..j : h \in 1..(m - 1)
      BY <1>3, <2>3
    <3>4. j \in seen
      <4> HIDE DEF ends
      <4> QED BY <1>3, <2>4, <3>1, <3>3
    <3>5. top(n) < prio(cand[j])
      BY <1>10, <2>5, <3>1, <3>2, <3>3
    <3> QED BY <3>4, <3>5
  <2> QED BY <2>3, <2>6, <2>7
<1>12. seen \in SUBSET (1..N) /\ \A n \in seen : cand[n] # None /\ \A j \in 1..n : ~ends(j)
  BY <1>3
<1>13. CASE seen = {}
  <2>1. ASSUME NEW i \in A PROVE ~(prio(i) > MinPriority)
    <3> SUFFICES ASSUME prio(i) > MinPriority PROVE FALSE
      OBVIOUS
    <3>1. PICK n \in 1..N : cand[n] # None /\ prio(i) <= top(n)
      BY <1>9
    <3>2. prio(i) \in Int
      BY <1>4, <1>5 DEF prio
    <3>3. top(n) \in Int /\ top(n) # MinPriority
      BY <1>3, <1>6, <1>7, <3>1, <3>2
    <3>4. PICK j \in 1..n : ends(j)
      <4> HIDE DEF ends
      <4> QED BY <1>3, <1>13, <3>1
    <3>5. j \in 1..N
      BY <1>3, <3>4
    <3>6. top(j) = MinPriority
      <4> HIDE DEF ends, seen
      <4> QED BY <1>11, <1>13, <3>4, <3>5
    <3>7. top(j) >= top(n) /\ top(n) >= MinPriority
      BY <1>3, <1>7, <3>4, <3>5
    <3> QED BY <1>6, <3>3, <3>6, <3>7
  <2>2. Ranked(rs, A) = {}
    BY <2>1 DEF Ranked, prio
  <2> QED BY <1>1, <1>13, <2>2 DEF c, A
<1>14. CASE seen # {}
  <2> DEFINE w == CHOOSE n \in seen : first(n)
             p == [n \in seen |-> prio(cand[n])]
  <2> HIDE DEF ends, seen
  <2>1. w \in seen /\ first(w)
    <3>1. \A n \in seen : p[n] \in Int
      BY <1>10, <1>12
    <3>2. DOMAIN p = seen
      OBVIOUS
    <3>3. \A n \in seen : p[n] = prio(cand[n])
      OBVIOUS
    <3> HIDE DEF p
    <3>4. \E n \in seen : \A j \in seen \ {n} : p[j] < p[n] \/ (p[j] = p[n] /\ n < j)
      BY <1>3, <1>12, <1>14, <3>1, <3>2, BestPlace
    <3>5. \E n \in seen : first(n)
      BY <3>3, <3>4
    <3> QED BY <3>5
  <2> HIDE DEF w
  <2>2. cand[w] # None /\ cand[w] \in A /\ prio(cand[w]) \in Int /\ prio(cand[w]) >= MinPriority
    BY <1>10, <1>12, <2>1
  <2>3. \A j \in seen : prio(cand[j]) \in Int /\ prio(cand[j]) <= prio(cand[w])
    BY <1>10, <1>12, <2>1, <2>2
  <2>4. ASSUME NEW i \in A PROVE prio(i) <= prio(cand[w])
    <3>1. PICK n \in 1..N : cand[n] # None /\ prio(i) <= prio(cand[n]) /\ prio(i) <= top(n)
      BY <1>9
    <3>2. prio(i) \in Int
      BY <1>4, <1>5 DEF prio
    <3>3. CASE n \in seen
      BY <1>10, <2>2, <2>3, <3>1, <3>2, <3>3
    <3>4. CASE n \notin seen
      <4>1. PICK j \in 1..n : ends(j)
        BY <1>3, <3>1, <3>4 DEF seen
      <4>2. j \in 1..N /\ j <= n
        BY <1>3
      <4>3. top(j) >= top(n) /\ top(j) \in Int /\ top(n) \in Int
        BY <1>3, <1>7, <4>2
      <4>4. CASE top(j) = MinPriority
        BY <1>6, <2>2, <3>1, <3>2, <4>3, <4>4
      <4>5. CASE \E h \in seen : top(j) < prio(cand[h])
        BY <2>2, <2>3, <3>1, <3>2, <4>3, <4>5
      <4> QED BY <1>11, <4>1, <4>2, <4>4, <4>5
    <3> QED BY <3>3, <3>4
  <2>5. c = cand[w]
    BY <1>1, <1>14 DEF w
  <2> QED BY <2>2, <2>4, <2>5 DEF c, A, prio
<1> QED BY <1>13, <1>14

LEMMA ExplainFinds ==
  ASSUME NEW rs, MapOk(rs), NEW k, IsKey(k), NEW enforce
  PROVE  LET A == Applicable(rs, k, enforce)
         IN Ranked(rs, A) \subseteq explain(rs, k, enforce) /\ explain(rs, k, enforce) \subseteq A
<1> DEFINE view == viewRules(rs, k.uid, k.family, enforce)
           T == subtables(rs, k.uid, k.family)
           A == Applicable(rs, k, enforce)
           both(sig) == LET mk == maskedKeyFromPacket(sig, k)
                        IN Range(bucket(rs, view, sig, mk, FALSE)) \cup Range(bucket(rs, view, sig, mk, TRUE))
           read == {s \in T : maxPriority(rs, view, s) # MinPriority}
<1>1. explain(rs, k, enforce) = UNION {{i \in both(sig) : matches(rs[i].def, k)} : sig \in read}
  BY DEF explain
<1>2. /\ view \in SUBSET DOMAIN rs /\ \A i \in view : Concerns(rs[i].def, k)
      /\ \A i \in view : maskSigForRule(rs[i].def) \in T
  BY ViewFacts
<1>3. A = {i \in view : matches(rs[i].def, k)}
  BY DEF Applicable
<1> HIDE DEF view, T, A
<1>4. \A sig : both(sig) = {i \in view : maskSigForRule(rs[i].def) = sig
                                         /\ maskedKeyFromRule(sig, rs[i].def) = maskedKeyFromPacket(sig, k)}
  <2> TAKE sig
  <2> DEFINE mk == maskedKeyFromPacket(sig, k)
  <2> HIDE DEF mk
  <2>1. \A range \in BOOLEAN : Range(bucket(rs, view, sig, mk, range)) = Members(rs, view, sig, mk, range)
    <3> TAKE range \in BOOLEAN
    <3>1. LET S == Members(rs, view, sig, mk, range)
              b == bucket(rs, view, sig, mk, range)
          IN (\A n \in DOMAIN b : b[n] \in S) /\ \A i \in S : \E n \in DOMAIN b : b[n] = i
      BY <1>2, BucketSorted
    <3> QED BY <3>1 DEF Range
  <2>2. Members(rs, view, sig, mk, FALSE) \cup Members(rs, view, sig, mk, TRUE)
          = {i \in view : maskSigForRule(rs[i].def) = sig /\ maskedKeyFromRule(sig, rs[i].def) = mk}
    <3>1. \A i \in view : hasRangePorts(rs[i].def) \in BOOLEAN
      BY DEF hasRangePorts
    <3> QED BY <3>1 DEF Members
  <2>3. both(sig) = Range(bucket(rs, view, sig, mk, FALSE)) \cup Range(bucket(rs, view, sig, mk, TRUE))
    BY DEF mk
  <2> HIDE DEF both
  <2> QED BY <2>1, <2>2, <2>3 DEF mk
<1> HIDE DEF both
<1>5. ASSUME NEW i \in A, rs[i].def.priority > MinPriority PROVE i \in explain(rs, k, enforce)
  <2> DEFINE sig == maskSigForRule(rs[i].def)
  <2>1. i \in view /\ sig \in T /\ matches(rs[i].def, k) /\ Concerns(rs[i].def, k)
    BY <1>2, <1>3
  <2>2. rs[i].def.priority <= maxPriority(rs, view, sig) /\ maxPriority(rs, view, sig) \in Int
    BY <1>2, <2>1, MaxPriorityFacts
  <2>3. rs[i].def.priority \in Int /\ MinPriority \in Int
    BY <2>1, IpRulesAssumption DEF Concerns, Parsed
  <2>4. sig \in read
    BY <1>5, <2>1, <2>2, <2>3
  <2>5. i \in both(sig)
    BY <1>4, <2>1, MatchesAgrees
  <2> QED BY <1>1, <2>1, <2>4, <2>5
<1>6. explain(rs, k, enforce) \subseteq A
  BY <1>1, <1>3, <1>4
<1> QED BY <1>5, <1>6 DEF Ranked, A

\* Every lookup in the classifier of a map answers as the rules say, with the
\* definitions of the rules alone: hashing into subtables and buckets, keeping
\* them in order and stopping early lose no rule of higher priority.
THEOREM AnswersRight == ASSUME NEW rs, MapOk(rs), NEW k, IsKey(k) PROVE Correct(rs, k)
<1> DEFINE enforced == lookupBest(rs, k, TRUE)
           would == lookupBest(rs, k, FALSE)
           E == Applicable(rs, k, TRUE)
           W == Applicable(rs, k, FALSE)
           d == evaluate(rs, k)
<1>1. d = Decide(rs, enforced, would)
  BY DEF evaluate, evaluateV4, evaluateV6, lookupBestEnforce, lookupBestWould, lookupBestEnforceV6, lookupBestWouldV6
<1>2. \/ enforced = None /\ Ranked(rs, E) = {}
      \/ enforced \in E /\ enforced # None /\ \A i \in E : rs[i].def.priority <= rs[enforced].def.priority
  BY LookupFinds
<1>3. \/ would = None /\ Ranked(rs, W) = {}
      \/ would \in W /\ would # None /\ \A i \in W : rs[i].def.priority <= rs[would].def.priority
  BY LookupFinds
<1>4. \A enforce \in BOOLEAN :
        LET A == Applicable(rs, k, enforce)
        IN Ranked(rs, A) \subseteq explain(rs, k, enforce) /\ explain(rs, k, enforce) \subseteq A
  BY ExplainFinds
<1> HIDE DEF enforced, would, E, W, d
<1>5. \/ d.ruleId \in E /\ (\A i \in E : rs[i].def.priority <= rs[d.ruleId].def.priority) /\ d.kind = rs[d.ruleId].def.action
      \/ Ranked(rs, E) = {} /\ d.ruleId \in W /\ (\A i \in W : rs[i].def.priority <= rs[d.ruleId].def.priority)
         /\ d.kind = "WOULD_BLOCK"
      \/ Ranked(rs, E \cup W) = {} /\ d = NoMatch
  <2>1. CASE enforced # None
    <3>1. d.ruleId = enforced /\ d.kind = rs[enforced].def.action
      BY <1>1, <2>1 DEF Decide
    <3> QED BY <1>2, <2>1, <3>1
  <2>2. CASE enforced = None /\ would # None
    <3>1. d.ruleId = would /\ d.kind = "WOULD_BLOCK"
      BY <1>1, <2>2 DEF Decide
    <3>2. Ranked(rs, E) = {} \/ (enforced \in E /\ enforced # None)
      BY <1>2
    <3> QED BY <1>3, <2>2, <3>1, <3>2
  <2>3. CASE enforced = None /\ would = None
    <3>1. d = NoMatch
      BY <1>1, <2>3 DEF Decide
    <3>2. Ranked(rs, E) = {} /\ Ranked(rs, W) = {}
      BY <1>2, <1>3, <2>3
    <3>3. Ranked(rs, E \cup W) = {}
      BY <3>2 DEF Ranked
    <3> QED BY <3>1, <3>3
  <2> QED BY <2>1, <2>2, <2>3
<1> QED BY <1>4, <1>5 DEF Correct, E, W, d

-----------------------------------------------------------------------------
(* The rule maps the engine publishes.                                     *)

\* A definition is as the parsers leave it; apart from being enabled it is Plain.
Definition(d) == Parsed(d) /\ d = [f \in DOMAIN d |-> d[f]]
Plain(d) == [d EXCEPT !.enabled = TRUE]

\* A rule of the map, its stats object made by a change up to epoch e.
IsRule(x, e) == DOMAIN x = {"def", "stats"} /\ Definition(x.def) /\ x.stats[2] \in 0..e
RuleMap(rs, e) ==
  /\ IsFiniteSet(DOMAIN rs) /\ DOMAIN rs \subseteq Nat
  /\ \A i \in DOMAIN rs : IsRule(rs[i], e)

\* A stats object shared by two maps counts the same definition.
Agree(rs, qs) ==
  \A i \in DOMAIN rs, j \in DOMAIN qs : rs[i].stats = qs[j].stats => Plain(rs[i].def) = Plain(qs[j].def)

\* The published classifier is the one of the map, ids are numbers, and a
\* checkpoint holds definitions.
RulesInv ==
  /\ hot.rules = rules /\ nextRuleId \in Nat
  /\ IsFiniteSet(DOMAIN saved.rules) /\ DOMAIN saved.rules \subseteq Nat /\ saved.next \in Nat
  /\ \A i \in DOMAIN saved.rules : Definition(saved.rules[i])

\* One stats object counts one definition, in every snapshot somebody may decide
\* with and in every hit counted.
StatsInv ==
  /\ \A a \in Held : RuleMap(a.rules, epoch)
  /\ \A a, b \in Held : Agree(a.rules, b.rules)
  /\ \A h \in hits :
       /\ h[1][2] \in 0..epoch
       /\ \A a \in Held : \A i \in DOMAIN a.rules : a.rules[i].stats = h[1] => Plain(a.rules[i].def) = h[2]

KeyInv == \A t \in Busy : IF th[t].key = << >> THEN th[t].dec = NoMatch ELSE IsKey(th[t].key)

RuleInv == RulesInv /\ StatsInv /\ KeyInv

LEMMA RuleMapOk == ASSUME NEW rs, NEW e, RuleMap(rs, e) PROVE MapOk(rs)
BY DEF RuleMap, MapOk, IsRule, Definition

LEMMA PlainFacts ==
  ASSUME NEW d, Definition(d)
  PROVE  /\ d.enabled => Plain(d) = d
         /\ \A on \in BOOLEAN : Definition([d EXCEPT !.enabled = on]) /\ Plain([d EXCEPT !.enabled = on]) = Plain(d)
<1>1. "enabled" \in DOMAIN d /\ d.enabled \in BOOLEAN /\ d = [f \in DOMAIN d |-> d[f]]
  BY DEF Definition, Parsed
<1>2. ASSUME d.enabled PROVE Plain(d) = d
  <2>1. d.enabled = TRUE
    BY <1>1, <1>2
  <2>2. \A f \in DOMAIN d : Plain(d)[f] = d[f]
    BY <2>1 DEF Plain
  <2>3. Plain(d) = [f \in DOMAIN d |-> Plain(d)[f]]
    BY DEF Plain
  <2> QED BY <1>1, <2>2, <2>3
<1>3. ASSUME NEW on \in BOOLEAN PROVE Definition([d EXCEPT !.enabled = on])
  <2> DEFINE e == [d EXCEPT !.enabled = on]
  <2>1. DOMAIN e = DOMAIN d /\ e.enabled = on /\ e = [f \in DOMAIN e |-> e[f]]
    BY <1>1
  <2>2. \A f \in DOMAIN d : f # "enabled" => e[f] = d[f]
    OBVIOUS
  <2> HIDE DEF e
  <2>3. Parsed(e)
    BY <2>1, <2>2 DEF Definition, Parsed
  <2> QED BY <2>1, <2>3 DEF Definition, e
<1>4. ASSUME NEW on \in BOOLEAN PROVE Plain([d EXCEPT !.enabled = on]) = Plain(d)
  BY <1>1 DEF Plain
<1> QED BY <1>2, <1>3, <1>4

-----------------------------------------------------------------------------
(* What a command publishes.                                               *)

\* A rule of the new map is the old one, perhaps enabled or disabled, or starts
\* with new counters.
Evolves(x, i) ==
  /\ DOMAIN x = {"def", "stats"} /\ Definition(x.def)
  /\ \/ x.stats = NewStats(i)
     \/ i \in DOMAIN rules /\ x.stats = rules[i].stats /\ Plain(x.def) = Plain(rules[i].def)
NewMap(new) ==
  /\ IsFiniteSet(DOMAIN new) /\ DOMAIN new \subseteq Nat
  /\ \A i \in DOMAIN new : Evolves(new[i], i)

Changes ==
  \/ UNCHANGED <<rules, nextRuleId, epoch, hot>>
  \/ /\ NewMap(rules') /\ nextRuleId' \in Nat
     /\ epoch' = epoch + 1 /\ hot'.epoch = epoch + 1 /\ hot'.rules = rules'

LEMMA ApplyChanges ==
  ASSUME NEW new, NEW next \in Nat, NewMap(new), applyNewRules(new, next) PROVE Changes
BY DEF applyNewRules, Changes, NewMap, Evolves, NewStats

LEMMA OldRules ==
  ASSUME PacketInv, RuleInv
  PROVE  /\ IsFiniteSet(DOMAIN rules) /\ DOMAIN rules \subseteq Nat /\ nextRuleId \in Nat /\ epoch \in Nat
         /\ RuleMap(rules, epoch)
         /\ \A i \in DOMAIN rules : DOMAIN rules[i] = {"def", "stats"} /\ Definition(rules[i].def) /\ Evolves(rules[i], i)
<1>1. RuleMap(rules, epoch) /\ nextRuleId \in Nat
  BY DEF RuleInv, RulesInv, StatsInv, Held
<1>2. epoch \in Nat
  BY DEF PacketInv, SnapInv
<1> QED BY <1>1, <1>2 DEF RuleMap, IsRule, Evolves

\* Parsing keeps an address open, or its prefix.
LEMMA CidrKept ==
  ASSUME NEW c
  PROVE  /\ c = Open => parseCidrV4(c) = Open /\ parseCidrV6(c) = Open
         /\ c # Open => parseCidrV4(c).prefix = c.prefix /\ parseCidrV6(c).prefix = c.prefix
<1>1. c = Open => parseCidrV4(c) = Open /\ parseCidrV6(c) = Open
  BY DEF parseCidrV4, parseCidrV6
<1>2. c # Open => parseCidrV4(c).prefix = c.prefix
  BY DEF parseCidrV4
<1>3. ASSUME c # Open PROVE parseCidrV6(c).prefix = c.prefix
  <2> DEFINE bytes == maskIpV6(c.addr, c.prefix)
             a == MapThenSumSet(LAMBDA i : bytes[i] * 2^(ByteBits * (AddrBytes - 1 - i)), 0..(AddrBytes - 1))
  <2>1. parseCidrV6(c) = [addr |-> a, prefix |-> c.prefix]
    BY <1>3, Zenon DEF parseCidrV6
  <2> HIDE DEF a
  <2> QED BY <2>1
<1> QED BY <1>1, <1>2, <1>3

\* The definition a rule's text stands for.
LEMMA RuleDefDefinition ==
  ASSUME NEW uid, NEW client, NEW t, Parsed(t)
  PROVE  Definition(RuleDef(uid, client, t))
<1> DEFINE d == RuleDef(uid, client, t)
<1>1. d = [f \in DOMAIN d |-> d[f]]
  BY DEF RuleDef
<1>2. /\ {"family", "priority", "enabled", "cidr", "port"} \subseteq DOMAIN d
      /\ d.enabled = t.enabled /\ d.priority = t.priority /\ d.port = t.port
  BY DEF RuleDef
<1>3. ASSUME NEW s \in Sides, d.cidr[s] # Open PROVE d.cidr[s].prefix \in 0..AddrBits
  <2>1. d.cidr[s] = IF t.family = "ipv4" THEN parseCidrV4(t.cidr[s]) ELSE parseCidrV6(t.cidr[s])
    BY DEF RuleDef
  <2>2. t.cidr[s] # Open
    BY <1>3, <2>1, CidrKept
  <2>3. d.cidr[s].prefix = t.cidr[s].prefix
    BY <2>1, <2>2, CidrKept
  <2> QED BY <2>2, <2>3 DEF Parsed
<1> HIDE DEF d
<1>4. Parsed(d)
  BY <1>2, <1>3 DEF Parsed
<1> QED BY <1>1, <1>4 DEF Definition, d

\* A payload's rule, with the uid it is applied to.
LEMMA ApplyRuleDefinition ==
  ASSUME NEW uid, NEW client, NEW t, ApplyHead(t), ApplyCidr(t),
         \A s \in Sides : t.port[s].kind \in {"ANY", "EXACT", "RANGE"},
         NEW r, r = ApplyRule(client, t), NEW d, d = [f \in DOMAIN d |-> d[f]], DOMAIN d = {"uid"} \cup DOMAIN r,
         \A f \in DOMAIN r : f # "uid" => d[f] = r[f]
  PROVE  Definition(d)
<1>1. /\ DOMAIN r = {"client", "family", "action", "priority", "enabled", "enforce", "log", "eq", "cidr", "port"}
      /\ r.enabled = t.enabled /\ r.priority = t.priority /\ r.port = t.port
  BY DEF ApplyRule
<1>2. \A s \in Sides : r.cidr[s] = IF t.family = "ipv4" THEN parseCidrV4(t.cidr[s]) ELSE parseCidrV6(t.cidr[s])
  BY DEF ApplyRule
<1>5. /\ {"family", "priority", "enabled", "cidr", "port"} \subseteq DOMAIN d
      /\ d.enabled = t.enabled /\ d.priority = t.priority /\ d.port = t.port /\ d.cidr = r.cidr
  BY <1>1
<1>6. ASSUME NEW s \in Sides, d.cidr[s] # Open PROVE d.cidr[s].prefix \in 0..AddrBits
  <2>1. t.cidr[s] # Open
    BY <1>2, <1>5, <1>6, CidrKept
  <2>2. d.cidr[s].prefix = t.cidr[s].prefix
    BY <1>2, <1>5, <2>1, CidrKept
  <2> QED BY <2>1, <2>2 DEF ApplyCidr
<1>7. Parsed(d)
  BY <1>5, <1>6 DEF Parsed, ApplyHead
<1> QED BY <1>7 DEF Definition

LEMMA AddChanges ==
  ASSUME PacketInv, RuleInv, NEW uid, NEW t \in Templates, addFromKv(uid, t)
  PROVE  Changes
<1> DEFINE t4 == [t EXCEPT !.family = "ipv4"]
           def == RuleDef(uid, legacyClientRuleId(uid, nextRuleId), t4)
           x == [def |-> def, stats |-> NewStats(nextRuleId)]
           new == [i \in DOMAIN rules \cup {nextRuleId} |-> IF i = nextRuleId THEN x ELSE rules[i]]
<1>1. applyNewRules(new, nextRuleId + 1)
  BY DEF addFromKv
<1>2. Parsed(t4)
  <2>1. Parsed(t)
    BY IpRulesAssumption
  <2>2. DOMAIN t4 = DOMAIN t /\ \A f \in DOMAIN t : f # "family" => t4[f] = t[f]
    OBVIOUS
  <2> HIDE DEF t4
  <2> QED BY <2>1, <2>2 DEF Parsed
<1>3. Definition(def)
  BY <1>2, RuleDefDefinition
<1> HIDE DEF def, t4
<1>4. Evolves(x, nextRuleId)
  BY <1>3 DEF Evolves
<1> HIDE DEF x
<1>5. NewMap(new)
  <2>1. IsFiniteSet(DOMAIN rules \cup {nextRuleId})
    BY OldRules, FS_AddElement
  <2> QED BY <1>4, <2>1, OldRules DEF NewMap
<1>6. nextRuleId + 1 \in Nat
  BY OldRules
<1> HIDE DEF new
<1> QED BY <1>1, <1>5, <1>6, ApplyChanges

LEMMA UpdateChanges ==
  ASSUME PacketInv, RuleInv, NEW id, NEW t \in Templates, updateFromKv(id, t)
  PROVE  Changes
<1> DEFINE old == rules[id].def
           tf == [t EXCEPT !.family = old.family]
           def == RuleDef(old.uid, old.client, tf)
           x == [def |-> def, stats |-> NewStats(id)]
           new == [rules EXCEPT ![id] = x]
<1>1. id \in DOMAIN rules /\ applyNewRules(new, nextRuleId)
  BY DEF updateFromKv
<1>2. Parsed(tf)
  <2>1. Parsed(t)
    BY IpRulesAssumption
  <2>2. DOMAIN tf = DOMAIN t /\ \A f \in DOMAIN t : f # "family" => tf[f] = t[f]
    OBVIOUS
  <2> HIDE DEF tf
  <2> QED BY <2>1, <2>2 DEF Parsed
<1>3. Definition(def)
  BY <1>2, RuleDefDefinition
<1> HIDE DEF def, tf
<1>4. Evolves(x, id)
  BY <1>3 DEF Evolves
<1> HIDE DEF x
<1>5. NewMap(new)
  BY <1>1, <1>4, OldRules DEF NewMap
<1> HIDE DEF new
<1> QED BY <1>1, <1>5, OldRules, ApplyChanges

LEMMA RemoveChanges == ASSUME PacketInv, RuleInv, NEW id, removeRule(id) PROVE Changes
<1> DEFINE new == Restrict(rules, DOMAIN rules \ {id})
<1>1. applyNewRules(new, nextRuleId)
  BY DEF removeRule
<1>2. DOMAIN new = DOMAIN rules \ {id} /\ \A i \in DOMAIN new : new[i] = rules[i]
  BY DEF Restrict
<1>3. IsFiniteSet(DOMAIN rules \ {id})
  BY OldRules, FS_RemoveElement
<1> HIDE DEF new
<1>4. NewMap(new)
  BY <1>2, <1>3, OldRules DEF NewMap
<1> QED BY <1>1, <1>4, OldRules, ApplyChanges

LEMMA EnableChanges == ASSUME PacketInv, RuleInv, NEW id, NEW on \in BOOLEAN, enableRule(id, on) PROVE Changes
<1> DEFINE old == rules[id]
           x == [old EXCEPT !.def.enabled = on, !.stats = IF on THEN NewStats(id) ELSE @]
           new == [rules EXCEPT ![id] = x]
<1>1. id \in DOMAIN rules /\ rules[id].def.enabled # on
  BY DEF enableRule
<1>2. applyNewRules(new, nextRuleId)
  BY <1>1 DEF enableRule
<1>3. DOMAIN old = {"def", "stats"} /\ Definition(old.def)
  BY <1>1, OldRules
<1>4. /\ DOMAIN x = {"def", "stats"} /\ x.def = [old.def EXCEPT !.enabled = on]
      /\ x.stats = IF on THEN NewStats(id) ELSE old.stats
  BY <1>3
<1>5. Definition(x.def) /\ Plain(x.def) = Plain(old.def)
  BY <1>3, <1>4, PlainFacts
<1> HIDE DEF x
<1>6. Evolves(x, id)
  BY <1>1, <1>4, <1>5 DEF Evolves
<1>7. NewMap(new)
  BY <1>1, <1>6, OldRules DEF NewMap
<1> HIDE DEF new
<1> QED BY <1>2, <1>7, OldRules, ApplyChanges

\* A payload is an image of 1..Len; its rules get ids of the map or next ids.
LEMMA IdsAreNumbers ==
  ASSUME PacketInv, RuleInv, NEW uid, NEW new, NEW n \in Nat
  PROVE  assignedRuleId(uid, new, n) \in Nat
<1> DEFINE P == prevByClientId(uid, new[n].client)
           F == {m \in 1..(n - 1) : prevByClientId(uid, new[m].client) = {}}
<1>1. P \subseteq Nat
  BY OldRules DEF prevByClientId
<1>2. Cardinality(F) \in Nat
  <2>1. IsFiniteSet(1..(n - 1))
    BY FS_Interval
  <2>2. F \subseteq 1..(n - 1)
    OBVIOUS
  <2> HIDE DEF F
  <2> QED BY <2>1, <2>2, FS_Subset, FS_CardinalityType
<1>3. assignedRuleId(uid, new, n) = IF P # {} THEN Min(P) ELSE nextRuleId + Cardinality(F)
  BY DEF assignedRuleId
<1> HIDE DEF P, F
<1>4. P # {} => Min(P) \in Nat
  BY <1>1, LeastNat
<1> QED BY <1>2, <1>3, <1>4, OldRules

LEMMA ApplyPayloadChanges ==
  ASSUME PacketInv, RuleInv, NEW uid, NEW payload \in Payloads, IpRulesApply(uid, payload)
  PROVE  Changes
<1> DEFINE rule(n) == ApplyRule(payload[n][1], payload[n][2])
           new == [n \in DOMAIN payload |-> rule(n)]
           kept == {i \in DOMAIN rules : rules[i].def.uid # uid}
           id(n) == assignedRuleId(uid, new, n)
           def(n) == [f \in {"uid"} \cup DOMAIN new[n] |-> IF f = "uid" THEN uid ELSE new[n][f]]
           same(n) == id(n) \in DOMAIN rules /\ rules[id(n)].def = def(n)
           fresh == {n \in DOMAIN new : prevByClientId(uid, new[n].client) = {}}
           stats(n, i) == IF same(n) THEN rules[i].stats ELSE NewStats(i)
           ids == {id(n) : n \in DOMAIN new}
           at(i) == CHOOSE m \in DOMAIN new : id(m) = i
           map == [i \in kept \cup ids |->
                     IF i \in kept THEN rules[i] ELSE [def |-> def(at(i)), stats |-> stats(at(i), i)]]
<1>1. DOMAIN payload = 1..Len(payload) /\ Len(payload) \in Nat
  BY IpRulesAssumption, LenProperties
<1>2. /\ replaceRulesForUid(uid, new)
      /\ \A n \in DOMAIN payload : ApplyHead(payload[n][2]) /\ ApplyCidr(payload[n][2])
  BY DEF IpRulesApply
<1>3. applyNewRules(map, nextRuleId + Cardinality(fresh))
  BY <1>2, Zenon DEF replaceRulesForUid
<1>4. ASSUME NEW n \in DOMAIN payload PROVE Definition(def(n))
  <2>1. \A s \in Sides : payload[n][2].port[s].kind \in {"ANY", "EXACT", "RANGE"}
    BY IpRulesAssumption
  <2>2. new[n] = ApplyRule(payload[n][1], payload[n][2])
    OBVIOUS
  <2> HIDE DEF new
  <2>3. /\ def(n) = [f \in DOMAIN def(n) |-> def(n)[f]] /\ DOMAIN def(n) = {"uid"} \cup DOMAIN new[n]
        /\ \A f \in DOMAIN new[n] : f # "uid" => def(n)[f] = new[n][f]
    OBVIOUS
  <2> HIDE DEF def
  <2> QED BY <1>2, <2>1, <2>2, <2>3, ApplyRuleDefinition
<1>5. DOMAIN new = DOMAIN payload /\ IsFiniteSet(DOMAIN new)
  <2>1. DOMAIN new = DOMAIN payload
    OBVIOUS
  <2> QED BY <1>1, <2>1, FS_Interval
<1> HIDE DEF new
<1>6. \A n \in DOMAIN new : id(n) \in Nat
  BY <1>1, <1>5, IdsAreNumbers
<1> HIDE DEF id
<1>7. IsFiniteSet(ids) /\ ids \subseteq Nat
  <2> DEFINE f == [n \in DOMAIN new |-> id(n)]
  <2>1. DOMAIN f = DOMAIN new /\ ids = {f[n] : n \in DOMAIN new}
    OBVIOUS
  <2>2. ids \subseteq Nat
    BY <1>6
  <2> HIDE DEF f, ids
  <2> QED BY <1>5, <2>1, <2>2, ImageFinite
<1>8. IsFiniteSet(kept \cup ids) /\ kept \cup ids \subseteq Nat
  <2>1. IsFiniteSet(kept) /\ kept \subseteq Nat
    BY OldRules, FS_Subset
  <2> HIDE DEF kept, ids
  <2> QED BY <1>7, <2>1, FS_Union
<1>9. Cardinality(fresh) \in Nat
  BY <1>5, FS_Subset, FS_CardinalityType
<1> HIDE DEF def
<1>10. ASSUME NEW i \in DOMAIN map PROVE Evolves(map[i], i)
  <2>1. CASE i \in kept
    <3>1. map[i] = rules[i] /\ i \in DOMAIN rules
      BY <2>1
    <3> HIDE DEF map, kept
    <3> QED BY <3>1, OldRules
  <2>2. CASE i \notin kept
    <3>1. at(i) \in DOMAIN new /\ id(at(i)) = i
      BY <2>2
    <3>2. map[i] = [def |-> def(at(i)), stats |-> stats(at(i), i)]
      BY <2>2
    <3> DEFINE m == at(i)
               x == map[i]
    <3> HIDE DEF m, map
    <3>3. m \in DOMAIN new /\ id(m) = i /\ x = [def |-> def(m), stats |-> stats(m, i)]
      BY <3>1, <3>2 DEF m
    <3>4. DOMAIN x = {"def", "stats"} /\ x.def = def(m) /\ x.stats = stats(m, i)
      BY <3>3
    <3> HIDE DEF x
    <3>5. Definition(x.def)
      BY <1>4, <1>5, <3>3, <3>4
    <3>6. CASE same(m)
      BY <3>3, <3>4, <3>5, <3>6 DEF Evolves, x
    <3>7. CASE ~same(m)
      BY <3>3, <3>4, <3>5, <3>7 DEF Evolves, x
    <3> QED BY <3>6, <3>7
  <2> QED BY <2>1, <2>2
<1>11. DOMAIN map = kept \cup ids
  OBVIOUS
<1> HIDE DEF map, kept, ids, fresh
<1>12. NewMap(map)
  BY <1>8, <1>10, <1>11 DEF NewMap
<1>13. nextRuleId + Cardinality(fresh) \in Nat
  BY <1>9, OldRules
<1> QED BY <1>3, <1>12, <1>13, ApplyChanges

LEMMA ResetChanges == ASSUME PacketInv, RuleInv, resetAll PROVE Changes
<1>1. rules' = << >> /\ nextRuleId' = 0 /\ epoch' = epoch + 1 /\ hot'.epoch = epoch + 1 /\ hot'.rules = rules'
  BY DEF resetAll
<1>2. DOMAIN rules' = {}
  BY <1>1, EmptySeq
<1>3. NewMap(rules')
  BY <1>2, FS_EmptySet DEF NewMap
<1> QED BY <1>1, <1>3 DEF Changes

LEMMA RestoreChanges == ASSUME PacketInv, RuleInv, restorePolicySnapshot PROVE Changes
<1> DEFINE new == [i \in DOMAIN saved.rules |-> [def |-> saved.rules[i], stats |-> NewStats(i)]]
<1>1. applyNewRules(new, saved.next)
  BY DEF restorePolicySnapshot
<1>2. IsFiniteSet(DOMAIN saved.rules) /\ DOMAIN saved.rules \subseteq Nat /\ saved.next \in Nat
  BY DEF RuleInv, RulesInv
<1>3. \A i \in DOMAIN new : Evolves(new[i], i)
  BY DEF RuleInv, RulesInv, Evolves
<1>4. NewMap(new)
  BY <1>2, <1>3 DEF NewMap
<1> HIDE DEF new
<1> QED BY <1>1, <1>2, <1>4, ApplyChanges

\* Every command changes the map so, and leaves the checkpoint or takes one.
LEMMA CommandChanges ==
  ASSUME PacketInv, RuleInv, RuleCommand \/ BoundaryCommand
  PROVE  Changes /\ (saved' = saved \/ (saved' = [rules |-> [i \in DOMAIN rules |-> rules[i].def], next |-> nextRuleId]))
<1>1. CASE RuleCommand
  <2>1. CASE \E u \in Uids, r \in Templates : addFromKv(u, r)
    BY <2>1, AddChanges DEF addFromKv
  <2>2. CASE \E i \in DOMAIN rules, r \in Templates : updateFromKv(i, r)
    BY <2>2, UpdateChanges DEF updateFromKv
  <2>3. CASE \E i \in DOMAIN rules : removeRule(i)
    BY <2>3, RemoveChanges DEF removeRule
  <2>4. CASE \E i \in DOMAIN rules, on \in BOOLEAN : enableRule(i, on)
    BY <2>4, EnableChanges DEF enableRule
  <2>5. CASE \E u \in Uids, payload \in Payloads : IpRulesApply(u, payload)
    <3>1. PICK u \in Uids, payload \in Payloads : IpRulesApply(u, payload)
      BY <2>5
    <3>2. saved' = saved
      BY <3>1 DEF IpRulesApply, replaceRulesForUid
    <3> QED BY <3>1, <3>2, ApplyPayloadChanges
  <2>6. CASE policySnapshot
    BY <2>6 DEF policySnapshot, Changes
  <2> QED BY <1>1, <2>1, <2>2, <2>3, <2>4, <2>5, <2>6 DEF RuleCommand
<1>2. CASE BoundaryCommand
  <2>1. CASE resetAll /\ UNCHANGED saved
    BY <2>1, ResetChanges
  <2>2. CASE restorePolicySnapshot
    BY <2>2, RestoreChanges DEF restorePolicySnapshot
  <2> QED BY <1>2, <2>1, <2>2 DEF BoundaryCommand
<1> QED BY <1>1, <1>2
\* A rule of the new map has new counters, or the ones it had.
LEMMA NewRule ==
  ASSUME PacketInv, RuleInv, NewMap(rules'), NEW i \in DOMAIN rules'
  PROVE  /\ IsRule(rules'[i], epoch + 1)
         /\ \/ rules'[i].stats = <<i, epoch + 1>>
            \/ i \in DOMAIN rules /\ rules'[i].stats = rules[i].stats /\ Plain(rules'[i].def) = Plain(rules[i].def)
<1>1. Evolves(rules'[i], i)
  BY DEF NewMap
<1>2. epoch \in Nat
  BY OldRules
<1>3. CASE rules'[i].stats = <<i, epoch + 1>>
  BY <1>1, <1>2, <1>3 DEF Evolves, IsRule
<1>4. CASE i \in DOMAIN rules /\ rules'[i].stats = rules[i].stats /\ Plain(rules'[i].def) = Plain(rules[i].def)
  <2>1. rules[i].stats[2] \in 0..epoch
    BY <1>4, OldRules DEF RuleMap, IsRule
  <2> QED BY <1>1, <1>2, <1>4, <2>1 DEF Evolves, IsRule
<1> QED BY <1>1, <1>3, <1>4 DEF Evolves, NewStats

LEMMA CommandKeepsRules ==
  ASSUME PacketInv, RuleInv, Changes, UNCHANGED <<th, hits>>,
         saved' = saved \/ saved' = [rules |-> [i \in DOMAIN rules |-> rules[i].def], next |-> nextRuleId]
  PROVE  RuleInv'
<1>1. Busy' = Busy /\ KeyInv'
  <2>1. Busy' = Busy
    BY DEF Busy
  <2> QED BY <2>1 DEF RuleInv, KeyInv
<1>2. /\ IsFiniteSet(DOMAIN saved'.rules) /\ DOMAIN saved'.rules \subseteq Nat /\ saved'.next \in Nat
      /\ \A i \in DOMAIN saved'.rules : Definition(saved'.rules[i])
  <2>1. CASE saved' = saved
    BY <2>1 DEF RuleInv, RulesInv
  <2>2. CASE saved' = [rules |-> [i \in DOMAIN rules |-> rules[i].def], next |-> nextRuleId]
    BY <2>2, OldRules
  <2> QED BY <2>1, <2>2
<1>3. CASE UNCHANGED <<rules, nextRuleId, epoch, hot>>
  <2>1. Held' = Held
    BY <1>1, <1>3 DEF Held
  <2>2. RulesInv' /\ StatsInv'
    BY <1>2, <1>3, <2>1 DEF RuleInv, RulesInv, StatsInv
  <2> QED BY <1>1, <2>2 DEF RuleInv
<1>4. CASE /\ NewMap(rules') /\ nextRuleId' \in Nat
           /\ epoch' = epoch + 1 /\ hot'.epoch = epoch + 1 /\ hot'.rules = rules'
  <2>1. RulesInv'
    BY <1>2, <1>4 DEF RulesInv
  <2>2. Held' \subseteq Held \cup {hot'} /\ epoch \in Nat /\ epoch' = epoch + 1 /\ rules = hot.rules /\ hot \in Held
    BY <1>1, <1>4, OldRules DEF Held, RuleInv, RulesInv
  <2>3. RuleMap(rules', epoch')
    BY <1>4, NewRule DEF NewMap, RuleMap
  <2>4. ASSUME NEW a \in Held PROVE RuleMap(a.rules, epoch) /\ RuleMap(a.rules, epoch')
    <3>1. RuleMap(a.rules, epoch)
      BY DEF RuleInv, StatsInv
    <3>2. 0..epoch \subseteq 0..epoch'
      BY <2>2
    <3> QED BY <3>1, <3>2 DEF RuleMap, IsRule
  <2>5. ASSUME NEW a \in Held PROVE Agree(rules', a.rules) /\ Agree(a.rules, rules')
    <3> SUFFICES ASSUME NEW i \in DOMAIN rules', NEW j \in DOMAIN a.rules, rules'[i].stats = a.rules[j].stats
                 PROVE  Plain(rules'[i].def) = Plain(a.rules[j].def)
      BY DEF Agree
    <3>1. a.rules[j].stats[2] \in 0..epoch
      BY <2>4 DEF RuleMap, IsRule
    <3>2. rules'[i].stats # <<i, epoch + 1>>
      BY <2>2, <3>1
    <3>3. i \in DOMAIN rules /\ rules'[i].stats = rules[i].stats /\ Plain(rules'[i].def) = Plain(rules[i].def)
      BY <1>4, <3>2, NewRule
    <3>4. Agree(rules, a.rules)
      BY <2>2 DEF RuleInv, StatsInv
    <3> QED BY <3>3, <3>4 DEF Agree
  <2>6. Agree(rules', rules')
    <3> SUFFICES ASSUME NEW i \in DOMAIN rules', NEW j \in DOMAIN rules', rules'[i].stats = rules'[j].stats
                 PROVE  Plain(rules'[i].def) = Plain(rules'[j].def)
      BY DEF Agree
    <3>1. CASE rules'[i].stats = <<i, epoch + 1>> /\ rules'[j].stats = <<j, epoch + 1>>
      <4>1. <<i, epoch + 1>>[1] = <<j, epoch + 1>>[1]
        BY <3>1
      <4>2. i = j
        BY <4>1
      <4> QED BY <4>2
    <3>2. CASE rules'[j].stats # <<j, epoch + 1>>
      <4>1. j \in DOMAIN rules /\ rules'[j].stats = rules[j].stats /\ Plain(rules'[j].def) = Plain(rules[j].def)
        BY <1>4, <3>2, NewRule
      <4>2. Agree(rules', rules)
        BY <2>2, <2>5
      <4> QED BY <4>1, <4>2 DEF Agree
    <3>3. CASE rules'[i].stats # <<i, epoch + 1>>
      <4>1. i \in DOMAIN rules /\ rules'[i].stats = rules[i].stats /\ Plain(rules'[i].def) = Plain(rules[i].def)
        BY <1>4, <3>3, NewRule
      <4>2. Agree(rules, rules')
        BY <2>2, <2>5
      <4> QED BY <4>1, <4>2 DEF Agree
    <3> QED BY <3>1, <3>2, <3>3
  <2>7. ASSUME NEW h \in hits
        PROVE  /\ h[1][2] \in 0..epoch'
               /\ \A i \in DOMAIN rules' : rules'[i].stats = h[1] => Plain(rules'[i].def) = h[2]
    <3>1. h[1][2] \in 0..epoch /\ \A i \in DOMAIN rules : rules[i].stats = h[1] => Plain(rules[i].def) = h[2]
      BY <2>2 DEF RuleInv, StatsInv
    <3>2. ASSUME NEW i \in DOMAIN rules', rules'[i].stats = h[1] PROVE Plain(rules'[i].def) = h[2]
      <4>1. rules'[i].stats # <<i, epoch + 1>>
        BY <2>2, <3>1, <3>2
      <4> QED BY <1>4, <3>1, <3>2, <4>1, NewRule
    <3> QED BY <2>2, <3>1, <3>2
  <2>8. StatsInv'
    <3>1. \A a \in Held' : RuleMap(a.rules, epoch')
      BY <1>4, <2>2, <2>3, <2>4
    <3>2. \A a, b \in Held' : Agree(a.rules, b.rules)
      BY <1>4, <2>2, <2>5, <2>6 DEF RuleInv, StatsInv
    <3>3. \A h \in hits' : /\ h[1][2] \in 0..epoch'
                           /\ \A a \in Held' : \A i \in DOMAIN a.rules : a.rules[i].stats = h[1] => Plain(a.rules[i].def) = h[2]
      BY <1>4, <2>2, <2>7 DEF RuleInv, StatsInv
    <3> QED BY <3>1, <3>2, <3>3 DEF StatsInv
  <2> QED BY <1>1, <2>1, <2>8 DEF RuleInv
<1> QED BY <1>3, <1>4 DEF Changes

\* A step that changes no rule, and holds no other snapshot.
LEMMA PacketKeepsRules ==
  ASSUME PacketInv, RuleInv, UNCHANGED <<ruleVars, hits>>, Held' \subseteq Held, KeyInv'
  PROVE  RuleInv'
<1>1. RulesInv'
  BY DEF RuleInv, RulesInv, ruleVars
<1>2. StatsInv'
  BY DEF RuleInv, StatsInv, ruleVars
<1> QED BY <1>1, <1>2 DEF RuleInv

\* Thread t goes on with the key and the decision it has.
SameDecision(t) ==
  /\ th[t].pc # "idle" /\ \A o \in Threads : o # t => th'[o] = th[o]
  /\ th'[t].snap \in {th[t].snap, hot} /\ th'[t].key = th[t].key /\ th'[t].dec = th[t].dec

LEMMA SameKeepsRules ==
  ASSUME PacketInv, RuleInv, NEW t \in Threads, SameDecision(t), UNCHANGED <<ruleVars, hits>>
  PROVE  RuleInv'
<1>1. Busy' \subseteq Busy /\ t \in Busy
  BY DEF SameDecision, Busy
<1>2. Held' \subseteq Held
  BY <1>1 DEF Held, SameDecision, Busy, ruleVars
<1>3. KeyInv'
  BY <1>1 DEF RuleInv, KeyInv, SameDecision, Busy
<1> QED BY <1>2, <1>3, PacketKeepsRules

\* The ways a thread goes on.
LEMMA GoSame == ASSUME PacketInv, NEW t \in Threads, NEW pc, th[t].pc # "idle", Go(t, pc) PROVE SameDecision(t)
<1>1. DOMAIN th[t] = Fields /\ DOMAIN th = Threads
  BY BusyFacts DEF IsBusy, PacketInv, ThreadInv
<1> QED BY <1>1 DEF Go, SameDecision, Fields

LEMMA ReservedSame ==
  ASSUME PacketInv, NEW t \in Threads, NEW pc, NEW full, th[t].pc # "idle", Reserved(t, pc, full) PROVE SameDecision(t)
<1>1. DOMAIN th[t] = Fields /\ DOMAIN th = Threads
  BY BusyFacts DEF IsBusy, PacketInv, ThreadInv
<1> QED BY <1>1 DEF Reserved, SameDecision, Fields

LEMMA AnsweredSame ==
  ASSUME PacketInv, NEW t \in Threads, NEW pc, NEW view, NEW by, th[t].pc # "idle", Answered(t, pc, view, by)
  PROVE  SameDecision(t)
<1>1. DOMAIN th[t] = Fields /\ DOMAIN th = Threads
  BY BusyFacts DEF IsBusy, PacketInv, ThreadInv
<1> QED BY <1>1 DEF Answered, SameDecision, Fields

LEMMA ViewSame ==
  ASSUME PacketInv, NEW t \in Threads, NEW pc, NEW view, th[t].pc # "idle",
         th' = [th EXCEPT ![t].pc = pc, ![t].view = view]
  PROVE  SameDecision(t)
<1>1. DOMAIN th[t] = Fields /\ DOMAIN th = Threads
  BY BusyFacts DEF IsBusy, PacketInv, ThreadInv
<1> QED BY <1>1 DEF SameDecision, Fields

LEMMA TakeSnapshotSame == ASSUME PacketInv, NEW t \in Threads, TakeSnapshot(t) PROVE SameDecision(t)
<1>1. th[t].pc = "snapshot" /\ th' = [th EXCEPT ![t].pc = "caps", ![t].snap = hot]
  BY DEF TakeSnapshot
<1>2. DOMAIN th[t] = Fields /\ DOMAIN th = Threads
  BY <1>1, BusyFacts DEF IsBusy, PacketInv, ThreadInv
<1> QED BY <1>1, <1>2 DEF SameDecision, Fields

LEMMA LoadCapsSame == ASSUME PacketInv, NEW t \in Threads, LoadCaps(t) PROVE SameDecision(t)
<1> DEFINE ct == Fam(t) \in usesCtMask(Uid(t), th[t].snap) \/ th[t].tele
           pc == IF ct /\ th[t].pkt.l4 THEN "fast" ELSE "evaluate"
<1>1. th[t].pc = "caps" /\ th' = [th EXCEPT ![t].pc = pc, ![t].ct = ct]
  BY DEF LoadCaps
<1>2. DOMAIN th[t] = Fields /\ DOMAIN th = Threads
  BY <1>1, BusyFacts DEF IsBusy, PacketInv, ThreadInv
<1> HIDE DEF ct, pc
<1> QED BY <1>1, <1>2 DEF SameDecision, Fields

LEMMA DomainSame == ASSUME PacketInv, NEW t \in Threads, NEW leak, Domain(t, leak) PROVE SameDecision(t)
<1> DEFINE pc == IF th[t].tele /\ th[t].view = NoView /\ th[t].pkt.l4 THEN "fast" ELSE "commit"
           yes == ~leak
<1>1. th[t].pc = "domain" /\ th' = [th EXCEPT ![t].pc = pc, ![t].stage = "domain", ![t].verdict = yes]
  BY DEF Domain
<1>2. DOMAIN th[t] = Fields /\ DOMAIN th = Threads
  BY <1>1, BusyFacts DEF IsBusy, PacketInv, ThreadInv
<1> HIDE DEF yes, pc
<1> QED BY <1>1, <1>2 DEF SameDecision, Fields

LEMMA InspectSame == ASSUME PacketInv, NEW t \in Threads, InspectFast(t) \/ InspectCreate(t)
  PROVE  SameDecision(t) \/ (th' = th /\ th[t].pc # "idle")
<1>1. ASSUME th[t].pc # "idle", InspectHit(t) PROVE SameDecision(t)
  <2>1. \E pc, view, by : Answered(t, pc, view, by)
    BY <1>1 DEF InspectHit, Answered
  <2> QED BY <1>1, <2>1, AnsweredSame
<1>2. CASE InspectFast(t)
  <2>1. th[t].pc = "fast"
    BY <1>2 DEF InspectFast
  <2>2. \/ \E pc, view : th' = [th EXCEPT ![t].pc = pc, ![t].view = view]
        \/ InspectHit(t) \/ Go(t, "create") \/ th' = th
    BY <1>2 DEF InspectFast
  <2> QED BY <1>1, <2>1, <2>2, ViewSame, GoSame
<1>3. CASE InspectCreate(t)
  <2>1. th[t].pc = "create"
    BY <1>3 DEF InspectCreate
  <2>2. \/ \E pc, view : th' = [th EXCEPT ![t].pc = pc, ![t].view = view]
        \/ InspectHit(t)
    BY <1>3 DEF InspectCreate
  <2> QED BY <1>1, <2>1, <2>2, ViewSame
<1> QED BY <1>2, <1>3

LEMMA EntrySame ==
  ASSUME PacketInv, NEW t \in Threads,
         CommitReserve(t) \/ CommitInsert(t) \/ ObserveReserve(t) \/ ObserveCount(t) \/ ObserveInsert(t)
  PROVE  SameDecision(t)
<1>1. th[t].pc # "idle" /\ ((\E pc : Go(t, pc)) \/ \E pc, full : Reserved(t, pc, full))
  <2>1. CASE CommitReserve(t)
    BY <2>1 DEF CommitReserve, Reserved
  <2>2. CASE CommitInsert(t) \/ ObserveInsert(t)
    BY <2>2 DEF CommitInsert, ObserveInsert
  <2>3. CASE ObserveReserve(t)
    BY <2>3 DEF ObserveReserve
  <2>4. CASE ObserveCount(t)
    BY <2>4 DEF ObserveCount, Reserved
  <2> QED BY <2>1, <2>2, <2>3, <2>4
<1> QED BY <1>1, GoSame, ReservedSame

-----------------------------------------------------------------------------
(* Packets and rules.                                                      *)

LEMMA ArriveKeepsRules ==
  ASSUME PacketInv, RuleInv, NEW t \in Threads, NEW a \in Arrivals, Arrive(t, a.pkt, a.tele, a.iface, a.on)
  PROVE  RuleInv'
<1>1. th[t].pc = "idle" /\ UNCHANGED <<ruleVars, hits>>
  BY DEF Arrive
<1>2. DOMAIN th = Threads
  BY DEF PacketInv, ThreadInv
<1>3. /\ th'[t].snap = Unread /\ th'[t].key = << >> /\ th'[t].dec = NoMatch
      /\ \A o \in Threads : o # t => th'[o] = th[o]
  BY <1>2 DEF Arrive, Unread
<1>4. Busy' \subseteq Busy \cup {t}
  BY <1>3 DEF Busy
<1>5. Held' \subseteq Held
  BY <1>1, <1>3, <1>4 DEF Held, ruleVars, Busy
<1>6. KeyInv'
  BY <1>3, <1>4 DEF KeyInv, RuleInv, Busy
<1> QED BY <1>1, <1>5, <1>6, PacketKeepsRules

LEMMA EvaluateKeepsRules == ASSUME PacketInv, RuleInv, NEW t \in Threads, Evaluate(t) PROVE RuleInv'
<1> DEFINE snap == th[t].snap
           k == KeyOf(th[t].pkt, th[t].ct, th[t].view)
           f == Fam(t)
           slot == cache[t][f]
           d == IF cacheFresh(slot, snap, k) THEN slot.dec ELSE evaluate(snap.rules, k)
           pc == IF d.kind \in {"ALLOW", "BLOCK"} THEN "commit" ELSE "domain"
           yes == (d.kind = "ALLOW")
           x == [th[t] EXCEPT !.pc = pc, !.key = k, !.dec = d, !.verdict = yes]
<1>1. th[t].pc = "evaluate" /\ UNCHANGED <<ruleVars, hits>>
  BY DEF Evaluate
<1>2. DOMAIN th = Threads /\ DOMAIN th[t] = Fields /\ th[t].pkt.flow \in Flows /\ t \in Busy
  BY <1>1, BusyFacts DEF IsBusy, PacketInv, ThreadInv, Busy
<1>3. th' = [th EXCEPT ![t] = x]
  BY <1>2 DEF Evaluate
<1>4. k # << >> /\ k.family \in {"ipv4", "ipv6"}
  <2>1. k.family = FlowKey[th[t].pkt.flow].family /\ "family" \in DOMAIN k
    BY DEF KeyOf
  <2>2. FlowKey[th[t].pkt.flow].family \in {"ipv4", "ipv6"}
    BY <1>2, PacketDecisionAssumption, ConntrackStateAssumption
  <2> HIDE DEF k
  <2> QED BY <2>1, <2>2, EmptySeq
<1> HIDE DEF yes, pc, d, k
<1>5. x.snap = th[t].snap /\ x.key = k
  BY <1>2 DEF Fields
<1> HIDE DEF x
<1>6. th'[t] = x /\ \A o \in Threads : o # t => th'[o] = th[o]
  BY <1>2, <1>3
<1>7. Busy' \subseteq Busy
  BY <1>2, <1>6 DEF Busy
<1>8. Held' \subseteq Held
  BY <1>1, <1>2, <1>5, <1>6, <1>7 DEF Held, ruleVars, Busy
<1>9. KeyInv'
  BY <1>4, <1>5, <1>6, <1>7 DEF KeyInv, RuleInv, IsKey, Busy
<1> QED BY <1>1, <1>8, <1>9, PacketKeepsRules

\* A decision is of an enabled rule of the snapshot, and names its counters.
LEMMA DecisionFacts ==
  ASSUME NEW rs, MapOk(rs), NEW k, IsKey(k), evaluate(rs, k) # NoMatch
  PROVE  LET d == evaluate(rs, k)
         IN d.ruleId \in DOMAIN rs /\ rs[d.ruleId].def.enabled /\ d.stats = rs[d.ruleId].stats
<1> DEFINE enforced == lookupBest(rs, k, TRUE)
           would == lookupBest(rs, k, FALSE)
           d == evaluate(rs, k)
<1>1. d = Decide(rs, enforced, would)
  BY DEF evaluate, evaluateV4, evaluateV6, lookupBestEnforce, lookupBestWould, lookupBestEnforceV6, lookupBestWouldV6
<1>2. \A enforce : Applicable(rs, k, enforce) \subseteq {i \in DOMAIN rs : rs[i].def.enabled}
  BY DEF Applicable, viewRules
<1>3. enforced # None => enforced \in DOMAIN rs /\ rs[enforced].def.enabled
  BY <1>2, LookupFinds
<1>4. would # None => would \in DOMAIN rs /\ rs[would].def.enabled
  BY <1>2, LookupFinds
<1> HIDE DEF enforced, would, d
<1>5. d # NoMatch
  BY DEF d
<1>6. CASE enforced # None
  BY <1>1, <1>3, <1>6 DEF Decide, d
<1>7. CASE enforced = None
  <2>1. would # None /\ d.ruleId = would /\ d.stats = rs[would].stats
    BY <1>1, <1>5, <1>7 DEF Decide
  <2> QED BY <1>4, <2>1 DEF d
<1> QED BY <1>6, <1>7

\* A hit goes to the counters of the definition it was of, in the snapshot the
\* packet holds.
LEMMA FinishKeepsRules == ASSUME PacketInv, RuleInv, NEW t \in Threads, Finish(t) PROVE RuleInv'
<1> DEFINE d == th[t].dec
           snap == th[t].snap
           h == <<d.stats, snap.rules[d.ruleId].def>>
<1>1. /\ th[t].pc = "finish" /\ th' = [th EXCEPT ![t] = IdleThread] /\ UNCHANGED ruleVars
      /\ hits' = hits \/ (hits' = hits \cup {h} /\ d.kind \in {"ALLOW", "BLOCK", "WOULD_BLOCK"})
  BY DEF Finish
<1>2. DOMAIN th = Threads /\ t \in Busy /\ snap \in Held /\ DecidedRight(th[t])
  BY <1>1, BusyFacts DEF PacketInv, ThreadInv, Busy
<1>3. th'[t].pc = "idle" /\ \A o \in Threads : o # t => th'[o] = th[o]
  BY <1>1, <1>2 DEF IdleThread
<1>4. Busy' \subseteq Busy \ {t}
  BY <1>3 DEF Busy
<1>5. Held' \subseteq Held
  BY <1>1, <1>3, <1>4, SMTT(30) DEF Held, ruleVars, Busy
<1>6. KeyInv'
  BY <1>3, <1>4 DEF KeyInv, RuleInv, Busy
<1>7. CASE hits' = hits
  BY <1>1, <1>5, <1>6, <1>7, PacketKeepsRules
<1>8. CASE hits' = hits \cup {h} /\ d.kind \in {"ALLOW", "BLOCK", "WOULD_BLOCK"}
  <2> DEFINE i == d.ruleId
  <2>1. d # NoMatch
    BY <1>8 DEF NoMatch
  <2>2. th[t].key # << >> /\ IsKey(th[t].key) /\ d = evaluate(snap.rules, th[t].key)
    BY <1>2, <2>1 DEF RuleInv, KeyInv, DecidedRight
  <2>3. RuleMap(snap.rules, epoch) /\ MapOk(snap.rules)
    BY <1>2, RuleMapOk DEF RuleInv, StatsInv
  <2>4. i \in DOMAIN snap.rules /\ snap.rules[i].def.enabled /\ d.stats = snap.rules[i].stats
    BY <2>1, <2>2, <2>3, DecisionFacts
  <2>5. Definition(snap.rules[i].def) /\ snap.rules[i].stats[2] \in 0..epoch
    BY <2>3, <2>4 DEF RuleMap, IsRule
  <2>6. h[1] = snap.rules[i].stats /\ h[2] = Plain(snap.rules[i].def)
    BY <2>4, <2>5, PlainFacts
  <2> HIDE DEF h, i, d
  <2>7. ASSUME NEW a \in Held, NEW j \in DOMAIN a.rules, a.rules[j].stats = h[1]
        PROVE  Plain(a.rules[j].def) = h[2]
    <3>1. Agree(a.rules, snap.rules)
      BY <1>2 DEF RuleInv, StatsInv
    <3> QED BY <2>4, <2>6, <2>7, <3>1 DEF Agree
  <2>8. h[1][2] \in 0..epoch
    BY <2>5, <2>6
  <2>9. StatsInv'
    <3>1. \A g \in hits' : /\ g[1][2] \in 0..epoch
                           /\ \A a \in Held : \A j \in DOMAIN a.rules : a.rules[j].stats = g[1] => Plain(a.rules[j].def) = g[2]
      BY <1>8, <2>7, <2>8 DEF RuleInv, StatsInv
    <3> QED BY <1>1, <1>5, <3>1 DEF RuleInv, StatsInv, ruleVars
  <2>10. RulesInv'
    BY <1>1 DEF RuleInv, RulesInv, ruleVars
  <2> QED BY <1>6, <2>9, <2>10 DEF RuleInv
<1> QED BY <1>1, <1>7, <1>8

LEMMA PacketStepKeepsRules == ASSUME PacketInv, RuleInv, NEW t \in Threads, PacketStep(t) PROVE RuleInv'
<1>1. CASE \E a \in Arrivals : Arrive(t, a.pkt, a.tele, a.iface, a.on)
  BY <1>1, ArriveKeepsRules
<1>2. CASE TakeSnapshot(t) \/ LoadCaps(t) \/ \E leak \in BOOLEAN : Domain(t, leak)
  <2>1. UNCHANGED <<ruleVars, hits>>
    BY <1>2 DEF TakeSnapshot, LoadCaps, Domain
  <2>2. SameDecision(t)
    BY <1>2, TakeSnapshotSame, LoadCapsSame, DomainSame
  <2> QED BY <2>1, <2>2, SameKeepsRules
<1>3. CASE InspectFast(t) \/ InspectCreate(t)
  <2>1. UNCHANGED <<ruleVars, hits>>
    BY <1>3 DEF InspectFast, InspectCreate
  <2>2. CASE SameDecision(t)
    BY <2>1, <2>2, SameKeepsRules
  <2>3. CASE th' = th
    <3>1. Held' = Held /\ KeyInv'
      BY <2>1, <2>3 DEF Held, Busy, ruleVars, RuleInv, KeyInv
    <3> QED BY <2>1, <3>1, PacketKeepsRules
  <2> QED BY <1>3, <2>2, <2>3, InspectSame
<1>4. CASE Evaluate(t)
  BY <1>4, EvaluateKeepsRules
<1>5. CASE CommitReserve(t) \/ CommitInsert(t) \/ ObserveReserve(t) \/ ObserveCount(t) \/ ObserveInsert(t)
  <2>1. UNCHANGED <<ruleVars, hits>>
    BY <1>5 DEF CommitReserve, CommitInsert, ObserveReserve, ObserveCount, ObserveInsert
  <2> QED BY <1>5, <2>1, EntrySame, SameKeepsRules
<1>6. CASE Finish(t)
  BY <1>6, FinishKeepsRules
<1> QED BY <1>1, <1>2, <1>3, <1>4, <1>5, <1>6
        DEF PacketStep, inspectForPolicyV4, inspectForPolicyV6, commitAcceptedV4, commitAcceptedV6,
            observeFlowTelemetryV4, observeFlowTelemetryV6

LEMMA InitRules == Init => RuleInv
<1> SUFFICES ASSUME Init PROVE RuleInv
  OBVIOUS
<1>1. PICK s \in Files : RulesInit(s)
  BY DEF Init
<1> DEFINE file == [i \in 0..(Len(s) - 1) |->
                      RuleDef(s[i + 1][1], legacyClientRuleId(s[i + 1][1], i), s[i + 1][2])]
           map == [i \in DOMAIN file |-> [def |-> file[i], stats |-> <<i, 2>>]]
           E == {i + 1 : i \in DOMAIN file}
<1>2. Len(s) \in Nat /\ DOMAIN s = 1..Len(s)
  BY IpRulesAssumption, LenProperties
<1>3. \A n \in DOMAIN s : Parsed(s[n][2])
  BY IpRulesAssumption
<1>4. DOMAIN file = 0..(Len(s) - 1) /\ \A i \in DOMAIN file : Definition(file[i])
  <2>1. \A i \in 0..(Len(s) - 1) : i + 1 \in DOMAIN s
    BY <1>2
  <2> QED BY <1>3, <2>1, RuleDefDefinition
<1>5. restore(file, Len(s)) /\ saved = [rules |-> << >>, next |-> 0]
  BY <1>1 DEF RulesInit
<1> HIDE DEF file
<1>6. IsFiniteSet(DOMAIN file) /\ DOMAIN file \subseteq Nat
  BY <1>2, <1>4, FS_Interval
<1>7. /\ rules = map \/ rules = << >>
      /\ nextRuleId = Max({Len(s)} \cup E) \/ nextRuleId = 0
      /\ epoch = 2 /\ hot = [epoch |-> epoch, rules |-> rules]
  BY <1>5 DEF restore
<1>8. nextRuleId \in Nat
  <2>1. IsFiniteSet(E) /\ E \subseteq Nat
    <3> DEFINE f == [i \in DOMAIN file |-> i + 1]
    <3>1. DOMAIN f = DOMAIN file /\ E = {f[i] : i \in DOMAIN file}
      OBVIOUS
    <3>2. E \subseteq Nat
      BY <1>6
    <3> HIDE DEF f, E
    <3> QED BY <1>6, <3>1, <3>2, ImageFinite
  <2> HIDE DEF E
  <2>2. IsFiniteSet({Len(s)} \cup E) /\ {Len(s)} \cup E \subseteq Nat /\ {Len(s)} \cup E # {}
    <3>1. IsFiniteSet(E \cup {Len(s)}) /\ E \cup {Len(s)} = {Len(s)} \cup E
      BY <2>1, FS_AddElement
    <3>2. IsFiniteSet({Len(s)} \cup E)
      BY <3>1
    <3> QED BY <1>2, <2>1, <3>2
  <2>3. Max({Len(s)} \cup E) \in {Len(s)} \cup E
    BY <2>2, GreatestInt
  <2> QED BY <1>7, <2>2, <2>3
<1>9. RuleMap(rules, epoch) /\ Agree(rules, rules)
  <2>1. CASE rules = map
    <3>1. RuleMap(rules, epoch)
      BY <1>4, <1>6, <1>7, <2>1 DEF RuleMap, IsRule
    <3>2. \A i, j \in DOMAIN rules : rules[i].stats = rules[j].stats => i = j
      <4>1. \A i \in DOMAIN rules : rules[i].stats[1] = i
        BY <2>1
      <4> QED BY <4>1
    <3> QED BY <3>1, <3>2 DEF Agree
  <2>2. CASE rules = << >>
    <3>1. DOMAIN rules = {}
      BY <2>2, EmptySeq
    <3> QED BY <3>1, FS_EmptySet DEF RuleMap, Agree
  <2> QED BY <1>7, <2>1, <2>2
<1>10. \A t \in Threads : th[t].pc = "idle"
  BY DEF Init, IdleThread
<1>11. Busy = {} /\ hits = {} /\ Held = {hot, Unread}
  <2>1. Busy = {}
    BY <1>10 DEF Busy
  <2> QED BY <2>1 DEF Held, Init
<1>12. DOMAIN Unread.rules = {}
  BY EmptySeq DEF Unread
<1>13. StatsInv
  <2>1. \A a \in Held : RuleMap(a.rules, epoch)
    <3>1. RuleMap(Unread.rules, epoch)
      BY <1>12, FS_EmptySet DEF RuleMap
    <3>2. RuleMap(hot.rules, epoch)
      BY <1>7, <1>9
    <3> QED BY <1>11, <3>1, <3>2
  <2>2. \A a, b \in Held : Agree(a.rules, b.rules)
    BY <1>7, <1>9, <1>11, <1>12 DEF Agree
  <2> QED BY <1>11, <2>1, <2>2 DEF StatsInv
<1>14. RulesInv
  <2>1. DOMAIN saved.rules = {} /\ saved.next = 0
    BY <1>5, EmptySeq
  <2> QED BY <1>7, <1>8, <2>1, FS_EmptySet DEF RulesInv
<1> QED BY <1>11, <1>13, <1>14 DEF RuleInv, KeyInv

-----------------------------------------------------------------------------
(* The theorems. *)

LEMMA PacketStepKeeps == ASSUME PacketInv, NEW t \in Threads, PacketStep(t) PROVE PacketInv'
<1>1. CASE \E a \in Arrivals : Arrive(t, a.pkt, a.tele, a.iface, a.on)
  BY <1>1, ArriveKeeps
<1>2. CASE TakeSnapshot(t) \/ LoadCaps(t)
  BY <1>2, TakeSnapshotKeeps, LoadCapsKeeps
<1>3. CASE inspectForPolicyV4(t) \/ inspectForPolicyV6(t)
  BY <1>3, InspectFastKeeps, InspectCreateKeeps DEF inspectForPolicyV4, inspectForPolicyV6
<1>4. CASE Evaluate(t) \/ \E leak \in BOOLEAN : Domain(t, leak)
  BY <1>4, EvaluateKeeps, DomainKeeps
<1>5. CASE CommitReserve(t)
  BY <1>5, CommitReserveKeeps
<1>6. CASE CommitInsert(t)
  <2>1. /\ th[t].pc = "insert" /\ InsertOrUndo(t, "packet") /\ Go(t, AfterCommit(t))
        /\ UNCHANGED <<ruleVars, cache, caps, hits, accepted, work>>
    BY <1>6 DEF CommitInsert
  <2>2. AfterCommit(t) \in {"observe", "finish"}
    BY <2>1, AfterFacts
  <2> QED BY <2>1, <2>2, InsertKeeps
<1>7. CASE ObserveReserve(t) \/ ObserveCount(t)
  BY <1>7, ObserveReserveKeeps, ObserveCountKeeps
<1>8. CASE ObserveInsert(t)
  <2>1. /\ th[t].pc = "observed" /\ InsertOrUndo(t, "telemetry") /\ Go(t, "finish")
        /\ UNCHANGED <<ruleVars, cache, caps, hits, accepted, work>>
    BY <1>8 DEF ObserveInsert
  <2> QED BY <2>1, InsertKeeps
<1>9. CASE Finish(t)
  BY <1>9, FinishKeeps
<1> QED BY <1>1, <1>2, <1>3, <1>4, <1>5, <1>6, <1>7, <1>8, <1>9
        DEF PacketStep, commitAcceptedV4, commitAcceptedV6, observeFlowTelemetryV4, observeFlowTelemetryV6

\* The inductive invariant of packet decisions: an epoch names one snapshot,
\* the caches say what the snapshot of their epoch says (HotSnapshot::evaluate,
\* IpRulesCapsCache), an entry behind another is expired, and entries counted
\* are linked only below the budget (Conntrack::commitAccepted).
THEOREM PacketInvariant == Spec => []PacketInv
<1>1. PacketInv /\ [Next]_vars => PacketInv'
  <2> SUFFICES ASSUME PacketInv, [Next]_vars PROVE PacketInv'
    OBVIOUS
  <2>1. CASE \E t \in Threads : PacketStep(t)
    BY <2>1, PacketStepKeeps
  <2>2. CASE \E f \in Flows : Expire(f)
    BY <2>2, ExpireKeeps
  <2>3. CASE RuleCommand \/ BoundaryCommand
    BY <2>3, RuleCommandKeeps, BoundaryKeeps
  <2>4. CASE UNCHANGED vars
    <3>1. UNCHANGED <<th, epoch, hot, cache, caps, accepted, ctVars>>
      BY <2>4 DEF vars, ruleVars
    <3> QED BY <3>1, SameChain, ThreadsSame
  <2> QED BY <2>1, <2>2, <2>3, <2>4 DEF Next
<1> QED BY <1>1, InitKeeps, PTL DEF Spec

\* A packet's decision is the one of the snapshot it took (PacketManager::make),
\* whatever commands ran since and whatever the thread's decision cache and the
\* app's mask hold, and its key has the conntrack state when a rule asks for it.
THEOREM DecisionsOfOneSnapshot == Spec => []DecisionOfOneSnapshot
<1>1. PacketInv => DecisionOfOneSnapshot
  <2> SUFFICES ASSUME PacketInv, NEW t \in Threads, Decided(t)
               PROVE  /\ th[t].dec = evaluate(th[t].snap.rules, th[t].key)
                      /\ uidUsesCt(th[t].snap.rules, Uid(t), Fam(t)) =>
                           th[t].key.eq["ctState"] \in {"NEW", "ESTABLISHED", "INVALID"}
    BY DEF DecisionOfOneSnapshot
  <2>1. DecidedRight(th[t]) /\ th[t].key # << >>
    BY BusyFacts DEF Decided
  <2> QED BY <2>1 DEF DecidedRight, NeedsCt, Uid, Fam
<1> QED BY <1>1, PacketInvariant, PTL

\* An entry that answers as made by a packet belongs to a flow with an accepted
\* packet since conntrack was reset: dropped packets establish nothing.
THEOREM EstablishedFlowsWereAccepted == Spec => []EstablishedWasAccepted
<1>1. PacketInv => EstablishedWasAccepted
  <2> SUFFICES ASSUME PacketInv, NEW t \in Threads, th[t].pc # "idle", th[t].by = "packet"
               PROVE  th[t].pkt.flow \in accepted
    BY DEF EstablishedWasAccepted
  <2> QED BY BusyFacts
<1> QED BY <1>1, PacketInvariant, PTL

\* The IPv4 and the IPv6 table together never hold more than maxEntries, and
\* totalEntries counts what is linked and what a thread is about to link.
THEOREM CapacityIsKept == Spec => []CapacityKept
<1>1. PacketInv => CapacityKept
  <2> SUFFICES ASSUME PacketInv PROVE CapacityKept
    OBVIOUS
  <2>1. total = Entries(chain) + Cardinality(Counted) /\ Entries(chain) + Cardinality(Linking) <= MaxEntries
    BY DEF PacketInv, CapInv
  <2>2. Cardinality(Linking) \in Nat /\ Entries(chain) \in Nat /\ MaxEntries \in Nat
    BY ChainFacts, PacketDecisionAssumption, ConntrackStateAssumption, FS_Subset, FS_CardinalityType DEF Linking, Counted
  <2>3. Entries(chain) <= MaxEntries
    BY <2>1, <2>2
  <2> QED BY <2>1, <2>3 DEF CapacityKept, Counted
<1> QED BY <1>1, PacketInvariant, PTL

\* The rule engine publishes maps that the parsers and the commands can make,
\* and a stats object counts one definition, in every snapshot a packet may
\* still hold and in every hit (IpRulesEngine::replaceRulesForUid, enableRule,
\* restorePolicySnapshot).
THEOREM RuleInvariant == Spec => []RuleInv
<1>1. PacketInv /\ RuleInv /\ [Next]_vars => RuleInv'
  <2> SUFFICES ASSUME PacketInv, RuleInv, [Next]_vars PROVE RuleInv'
    OBVIOUS
  <2>1. CASE \E t \in Threads : PacketStep(t)
    BY <2>1, PacketStepKeepsRules
  <2>2. CASE \E f \in Flows : Expire(f)
    <3>1. UNCHANGED <<ruleVars, th, hits>>
      BY <2>2 DEF Expire
    <3>2. Held' = Held /\ KeyInv'
      BY <3>1 DEF Held, Busy, ruleVars, RuleInv, KeyInv
    <3> QED BY <3>1, <3>2, PacketKeepsRules
  <2>3. CASE RuleCommand \/ BoundaryCommand
    <3>1. UNCHANGED <<th, hits>>
      BY <2>3 DEF RuleCommand, BoundaryCommand, Command
    <3> QED BY <2>3, <3>1, CommandChanges, CommandKeepsRules
  <2>4. CASE UNCHANGED vars
    <3>1. UNCHANGED <<ruleVars, th, hits>>
      BY <2>4 DEF vars
    <3>2. Held' = Held /\ KeyInv'
      BY <3>1 DEF Held, Busy, ruleVars, RuleInv, KeyInv
    <3> QED BY <3>1, <3>2, PacketKeepsRules
  <2> QED BY <2>1, <2>2, <2>3, <2>4 DEF Next
<1> QED BY <1>1, InitRules, PacketInvariant, PTL DEF Spec

\* A rule's counters hold hits of its present definition only, whatever
\* snapshots packets still count for: a change of the definition, or enabling
\* it again, gives it a new stats object (IpRulesEngine::updateFromKv).
THEOREM StatsBelong == Spec => []StatsBelongToDefinition
<1>1. RuleInv => StatsBelongToDefinition
  <2> SUFFICES ASSUME RuleInv, NEW i \in DOMAIN rules, NEW h \in hits, h[1] = rules[i].stats
               PROVE  h[2] = [rules[i].def EXCEPT !.enabled = TRUE]
    BY DEF StatsBelongToDefinition
  <2>1. hot \in Held /\ hot.rules = rules
    BY DEF Held, RuleInv, RulesInv
  <2> QED BY <2>1 DEF RuleInv, StatsInv, Plain
<1> QED BY <1>1, RuleInvariant, PTL

\* Whatever snapshot is published, at start-up or by a command, a lookup in it
\* answers every packet key as the definitions of the rules alone say
\* (IpRulesEngine::compile and Snapshot::evaluate).
THEOREM LookupsAreCorrect == Spec => LookupCorrect /\ []Answers(hot)
<1>1. RuleInv => Answers(hot)
  <2> SUFFICES ASSUME RuleInv, NEW k \in Keys PROVE Correct(hot.rules, k)
    BY DEF Answers
  <2>1. MapOk(hot.rules)
    BY RuleMapOk DEF RuleInv, StatsInv, Held
  <2>2. IsKey(k)
    BY IpRulesAssumption DEF IsKey
  <2> QED BY <2>1, <2>2, AnswersRight
<1>2. Answers(hot)' => [Quiet /\ hot' # hot => Answers(hot')]_vars
  OBVIOUS
<1> QED BY <1>1, <1>2, RuleInvariant, PTL DEF LookupCorrect
=============================================================================
