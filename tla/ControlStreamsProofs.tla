------------------------- MODULE ControlStreamsProofs -------------------------
(***************************************************************************)
(* The session budget and the event streams, for any number of sessions,   *)
(* accept loops and events: the budget counts what lives, no event offered *)
(* to a subscriber vanishes uncounted, and what a client reads is in order.*)
(***************************************************************************)
EXTENDS ControlStreams, FiniteSetTheorems, SequenceTheorems, TLAPS

\* A session reads counters and events of a stream it has, answers what it was
\* asked, and has the frame it is writing.
PlaceInv ==
  \A s \in Sessions :
    /\ At(s, "take") => Stream(s) \in Queued
    /\ At(s, "drain") => Stream(s) \in Types
    /\ At(s, "respond") => se[s].answer # "none"
    /\ ~Over(s) /\ se[s].current => se[s].frames # << >>

\* The subscriber of a stream is a running session that knows it.
OwnerInv ==
  \A t \in Types, s \in Sessions : sub[t] = s => ~Over(s) /\ Stream(s) = t

\* A queue of events keeps its limit.
QueueInv == \A t \in Queued : Len(pending[t]) <= MaxPending

\* The inductive invariant of the streams.
StreamsInv == TypeOK /\ QueueInv /\ PlaceInv /\ OwnerInv /\ LossAccounted /\ BudgetKept

\* The parts of TypeOK.
StreamTypes ==
  /\ sub \in [Types -> Sessions \cup {None}]
  /\ ring \in [Types -> Seq(Nat)] /\ pending \in [Types -> Seq(Nat)]
  /\ dropped \in [Types -> Nat] /\ suppressed \in [Types -> Nat]
  /\ tally \in [Types -> Tallies]
OtherTypes ==
  /\ acc \in [Acceptors -> [pc : {"accept", "cas", "spawn"}, cur : Nat]]
  /\ down \in BOOLEAN
  /\ out \in [Sessions -> Seq(Frames)]
  /\ counting \subseteq Queued
  /\ left \in Bounds
Locals == Running \cup {Gone, [pc |-> "release"]}

LEMMA TypeParts ==
  TypeOK <=> StreamTypes /\ OtherTypes /\ se \in [Sessions -> Locals] /\ active \in Nat
  BY DEF TypeOK, StreamTypes, OtherTypes, Locals

LEMMA TypePartsNext ==
  StreamTypes' /\ OtherTypes' /\ se' \in [Sessions -> Locals] /\ active' \in Nat => TypeOK'
  BY DEF TypeOK, StreamTypes, OtherTypes, Locals

\* The account of a stream.
LEMMA TallyFacts ==
    ASSUME NEW x \in Tallies
    PROVE  /\ x.offered \in Nat /\ x.popped \in Nat /\ x.reported \in Nat /\ x.stolen \in BOOLEAN
           /\ \A n \in Nat : /\ [x EXCEPT !.offered = n] \in Tallies
                             /\ [x EXCEPT !.popped = n] \in Tallies
                             /\ [x EXCEPT !.reported = n] \in Tallies
           /\ \A b \in BOOLEAN : [x EXCEPT !.stolen = b] \in Tallies
  BY DEF Tallies

-----------------------------------------------------------------------------
(* The queues. *)

\* Keeping the last n of a queue.
LEMMA LastNFacts ==
    ASSUME NEW S, NEW q \in Seq(S), NEW n \in Nat
    PROVE  /\ LastN(q, n) \in Seq(S)
           /\ Len(LastN(q, n)) = IF Len(q) <= n THEN Len(q) ELSE n
  BY DEF LastN

\* A push keeps or counts every event.
LEMMA PushFacts ==
    ASSUME NEW q \in Seq(Nat), NEW d \in Nat, NEW n \in Nat
    PROVE  /\ pushPending(q, d, n).q \in Seq(Nat) /\ pushPending(q, d, n).d \in Nat
           /\ Len(q) <= MaxPending =>
                Len(pushPending(q, d, n).q) + pushPending(q, d, n).d = Len(q) + d + 1
           /\ Len(pushPending(q, d, n).q) <= MaxPending
           /\ pushRing(q, n) \in Seq(Nat)
<1>5. MaxPending \in Nat /\ MaxRing \in Nat
  BY ControlStreamsAssumption
<1> DEFINE Q == Append(q, n)
<1>1. Q \in Seq(Nat) /\ Len(Q) = Len(q) + 1 /\ Len(q) \in Nat
  OBVIOUS
<1> HIDE DEF Q
<1>2. /\ LastN(Q, MaxPending) \in Seq(Nat)
      /\ Len(LastN(Q, MaxPending)) = IF Len(Q) <= MaxPending THEN Len(Q) ELSE MaxPending
  BY <1>1, <1>5, LastNFacts
<1>3. LastN(Q, MaxRing) \in Seq(Nat)
  BY <1>1, <1>5, LastNFacts
<1>4. /\ pushPending(q, d, n).q = LastN(Q, MaxPending)
      /\ pushPending(q, d, n).d = d + IF Len(q) >= MaxPending THEN 1 ELSE 0
      /\ pushRing(q, n) = LastN(Q, MaxRing)
  BY DEF pushPending, pushRing, Q
<1>6. /\ pushPending(q, d, n).q \in Seq(Nat) /\ pushRing(q, n) \in Seq(Nat)
      /\ Len(pushPending(q, d, n).q) = IF Len(q) + 1 <= MaxPending THEN Len(q) + 1 ELSE MaxPending
  BY <1>1, <1>2, <1>3, <1>4
<1>7. CASE Len(q) >= MaxPending
  <2>1. pushPending(q, d, n).d = d + 1 /\ Len(pushPending(q, d, n).q) = MaxPending
    BY <1>1, <1>4, <1>5, <1>6, <1>7
  <2>2. pushPending(q, d, n).d \in Nat /\ Len(pushPending(q, d, n).q) <= MaxPending
    BY <1>5, <2>1
  <2>3. ASSUME Len(q) <= MaxPending
        PROVE  Len(pushPending(q, d, n).q) + pushPending(q, d, n).d = Len(q) + d + 1
    <3>1. Len(q) = MaxPending
      BY <1>1, <1>5, <1>7, <2>3
    <3> QED BY <1>5, <2>1, <3>1
  <2> QED BY <1>6, <2>2, <2>3
<1>8. CASE ~(Len(q) >= MaxPending)
  BY <1>1, <1>4, <1>5, <1>6, <1>8
<1> QED BY <1>7, <1>8

\* A replay keeps or counts every event.
LEMMA ReplayFacts ==
    ASSUME NEW q \in Seq(Nat)
    PROVE  /\ Replay(q).q \in Seq(Nat) /\ Replay(q).d \in Nat
           /\ Len(Replay(q).q) + Replay(q).d = Len(q)
           /\ Len(Replay(q).q) <= MaxPending
<1> USE ControlStreamsAssumption
<1>1. /\ LastN(q, MaxPending) \in Seq(Nat)
      /\ Len(LastN(q, MaxPending)) = IF Len(q) <= MaxPending THEN Len(q) ELSE MaxPending
  BY LastNFacts
<1>2. Len(q) \in Nat
  OBVIOUS
<1> QED BY <1>1, <1>2 DEF Replay

-----------------------------------------------------------------------------
(* Sessions. *)

\* What a running session has.
LEMMA RunningFacts ==
    ASSUME TypeOK, NEW s \in Sessions, se[s].pc \notin {"gone", "release"}
    PROVE  /\ se[s] \in Running
           /\ se[s].stream \in Types \cup {None} /\ se[s].frames \in Seq(Frames)
           /\ se[s].dropped \in Nat /\ se[s].suppressed \in Nat
           /\ se[s].answer \in {"none", "start", "stop", "error", "ok", "quit"}
           /\ se[s].current \in BOOLEAN
  BY DEF TypeOK, Running, Gone

\* Session s goes on as x: a session that ran keeps running.
Moves(s, x) ==
  /\ se[s].pc \notin {"gone", "release"}
  /\ x \in Running /\ se' = [se EXCEPT ![s] = x]
  /\ x.pc = "take" => x.stream \in Queued
  /\ x.pc = "drain" => x.stream \in Types
  /\ x.pc = "respond" => x.answer # "none"
  /\ x.current => x.frames # << >>

\* The running sessions are those of before.
LEMMA BudgetSame ==
    ASSUME BudgetKept, active' = active, acc' = acc,
           \A q \in Sessions : se'[q].pc = "gone" <=> se[q].pc = "gone"
    PROVE  BudgetKept'
<1>1. {q \in Sessions : se'[q].pc # "gone"} = {q \in Sessions : se[q].pc # "gone"}
  OBVIOUS
<1> QED BY <1>1 DEF BudgetKept

LEMMA MovesFacts ==
    ASSUME StreamsInv, NEW s \in Sessions, NEW x, Moves(s, x)
    PROVE  /\ se' \in [Sessions -> Locals]
           /\ se'[s] = x /\ x.pc \notin {"gone", "release"}
           /\ \A q \in Sessions : q # s => se'[q] = se[q]
           /\ PlaceInv'
           /\ active' = active /\ acc' = acc => BudgetKept'
<1>1. se \in [Sessions -> Locals]
  BY TypeParts DEF StreamsInv
<1>2. x \in Locals /\ x.pc \notin {"gone", "release"}
  BY DEF Moves, Locals, Running
<1>3. /\ se' \in [Sessions -> Locals]
      /\ se'[s] = x
      /\ \A q \in Sessions : q # s => se'[q] = se[q]
  BY <1>1, <1>2 DEF Moves
<1>4. PlaceInv'
  BY <1>3 DEF Moves, PlaceInv, StreamsInv, At, Stream, Over
<1>5. \A q \in Sessions : se'[q].pc = "gone" <=> se[q].pc = "gone"
  BY <1>2, <1>3 DEF Moves
<1> QED BY <1>2, <1>3, <1>4, <1>5, BudgetSame DEF StreamsInv

\* A session that keeps its stream and its count leaves the streams as they are.
LEMMA QuietMove ==
    ASSUME StreamsInv, NEW s \in Sessions, NEW x, Moves(s, x),
           x.stream = se[s].stream, x.dropped = se[s].dropped,
           UNCHANGED <<streamVars, tally, active, acc>>, OtherTypes'
    PROVE  StreamsInv'
<1>1. /\ se' \in [Sessions -> Locals]
      /\ se'[s] = x /\ x.pc \notin {"gone", "release"}
      /\ \A q \in Sessions : q # s => se'[q] = se[q]
      /\ PlaceInv' /\ BudgetKept'
  BY MovesFacts
<1>2. TypeOK'
  <2>1. StreamTypes /\ active \in Nat
    BY TypeParts DEF StreamsInv
  <2>2. StreamTypes' /\ active' \in Nat
    BY <2>1 DEF StreamTypes, streamVars
  <2> QED BY <1>1, <2>2, TypePartsNext
<1>3. \A q \in Sessions : se'[q].stream = se[q].stream /\ se'[q].dropped = se[q].dropped
  BY <1>1
<1>4. \A q \in Sessions : Over(q)' <=> Over(q)
  BY <1>1 DEF Over, Moves
<1>5. OwnerInv' /\ QueueInv'
  BY <1>3, <1>4 DEF StreamsInv, OwnerInv, QueueInv, Stream, streamVars
<1>6. LossAccounted'
  BY <1>3 DEF StreamsInv, LossAccounted, streamVars
<1> QED BY <1>1, <1>2, <1>5, <1>6 DEF StreamsInv

\* What no session and no stream takes part in.
LEMMA QuietStep ==
    ASSUME StreamsInv, UNCHANGED <<sub, ring, pending, dropped, tally, se>>,
           suppressed' \in [Types -> Nat], OtherTypes', BudgetKept', active' \in Nat
    PROVE  StreamsInv'
<1>1. TypeOK'
  <2>1. StreamTypes /\ se \in [Sessions -> Locals]
    BY TypeParts DEF StreamsInv
  <2> QED BY <2>1, TypePartsNext DEF StreamTypes
<1>2. PlaceInv' /\ OwnerInv' /\ QueueInv'
  BY DEF StreamsInv, PlaceInv, OwnerInv, QueueInv, At, Stream, Over
<1>3. LossAccounted'
  BY DEF StreamsInv, LossAccounted
<1> QED BY <1>1, <1>2, <1>3 DEF StreamsInv

-----------------------------------------------------------------------------
(* The accept loops, signals and observers. *)

\* The bounds of a scene go down.
LEMMA BoundsFacts ==
    ASSUME left \in Bounds
    PROVE  /\ left.clients > 0 => [left EXCEPT !.clients = @ - 1] \in Bounds
           /\ left.commands > 0 => [left EXCEPT !.commands = @ - 1] \in Bounds
           /\ left.events > 0 => [left EXCEPT !.events = @ - 1] \in Bounds
           /\ left.suppressed > 0 => [left EXCEPT !.suppressed = @ - 1] \in Bounds
           /\ left.signals > 0 => [left EXCEPT !.signals = @ - 1] \in Bounds
<1> USE DEF Bounds
<1>1. left.clients > 0 => [left EXCEPT !.clients = @ - 1] \in Bounds
  OBVIOUS
<1>2. left.commands > 0 => [left EXCEPT !.commands = @ - 1] \in Bounds
  OBVIOUS
<1>3. left.events > 0 => [left EXCEPT !.events = @ - 1] \in Bounds
  BY ControlStreamsAssumption
<1>4. left.suppressed > 0 => [left EXCEPT !.suppressed = @ - 1] \in Bounds
  OBVIOUS
<1>5. left.signals > 0 => [left EXCEPT !.signals = @ - 1] \in Bounds
  OBVIOUS
<1> QED BY <1>1, <1>2, <1>3, <1>4, <1>5

LEMMA AcceptKeeps == ASSUME StreamsInv, NEW a \in Acceptors, Accept(a) PROVE StreamsInv'
<1>1. StreamTypes /\ OtherTypes /\ active \in Nat
  BY TypeParts DEF StreamsInv
<1>2. acc' = [acc EXCEPT ![a] = [pc |-> "cas", cur |-> active]] /\ acc[a].pc = "accept"
  BY DEF Accept
<1>3. left' \in Bounds
  BY <1>1, BoundsFacts DEF Accept, OtherTypes
<1>4. OtherTypes'
  BY <1>1, <1>2, <1>3 DEF Accept, OtherTypes
<1>5. \A b \in Acceptors : acc'[b].pc = "spawn" <=> acc[b].pc = "spawn"
  BY <1>1, <1>2 DEF OtherTypes
<1>6. {b \in Acceptors : acc'[b].pc = "spawn"} = {b \in Acceptors : acc[b].pc = "spawn"}
  BY <1>5
<1>7. BudgetKept'
  BY <1>6 DEF Accept, StreamsInv, BudgetKept
<1> QED BY <1>1, <1>4, <1>7, QuietStep DEF Accept, streamVars, StreamTypes

\* The sets the budget counts are finite.
LEMMA BudgetFacts ==
    ASSUME StreamsInv
    PROVE  /\ IsFiniteSet({s \in Sessions : se[s].pc # "gone"})
           /\ IsFiniteSet({a \in Acceptors : acc[a].pc = "spawn"})
           /\ Cardinality({s \in Sessions : se[s].pc # "gone"}) \in Nat
           /\ Cardinality({a \in Acceptors : acc[a].pc = "spawn"}) \in Nat
  BY ControlStreamsAssumption, FS_Subset, FS_CardinalityType

\* The exchange succeeds only on the count it compared with the limit.
LEMMA CasBudgetKeeps == ASSUME StreamsInv, NEW a \in Acceptors, CasBudget(a) PROVE StreamsInv'
<1> DEFINE L == {s \in Sessions : se[s].pc # "gone"}
           A == {b \in Acceptors : acc[b].pc = "spawn"}
<1>1. StreamTypes /\ OtherTypes /\ active \in Nat
  BY TypeParts DEF StreamsInv
<1>2. acc \in [Acceptors -> [pc : {"accept", "cas", "spawn"}, cur : Nat]] /\ acc[a].pc = "cas"
  BY <1>1 DEF OtherTypes, CasBudget
<1>3. acc' \in [Acceptors -> [pc : {"accept", "cas", "spawn"}, cur : Nat]]
  BY <1>1, <1>2 DEF CasBudget
<1>4. OtherTypes' /\ suppressed' \in [Types -> Nat] /\ UNCHANGED <<sub, ring, pending, dropped, tally, se>>
  BY <1>1, <1>3 DEF CasBudget, OtherTypes, StreamTypes, streamVars
<1>5. active = Cardinality(L) + Cardinality(A) /\ active <= Limit
  BY DEF StreamsInv, BudgetKept
<1>6. CASE acc[a].cur < Limit /\ acc[a].cur = active
  <2>1. acc' = [acc EXCEPT ![a] = [pc |-> "spawn", cur |-> 0]] /\ active' = active + 1
    BY <1>1, <1>2, <1>6, ControlStreamsAssumption DEF CasBudget
  <2>2. {b \in Acceptors : acc'[b].pc = "spawn"} = A \cup {a} /\ a \notin A
    BY <1>2, <2>1
  <2>3. Cardinality(A \cup {a}) = Cardinality(A) + 1
    BY <2>2, BudgetFacts, FS_AddElement
  <2>4. BudgetKept'
    <3>1. active' = Cardinality(L) + Cardinality(A \cup {a})
      BY <1>5, <2>1, <2>3, BudgetFacts
    <3>2. active' <= Limit
      BY <1>1, <1>6, <2>1, ControlStreamsAssumption
    <3> QED BY <1>4, <2>2, <3>1, <3>2 DEF BudgetKept
  <2> QED BY <1>1, <1>4, <2>1, <2>4, QuietStep
<1>7. CASE ~(acc[a].cur < Limit /\ acc[a].cur = active)
  <2>1. active' = active /\ \A b \in Acceptors : acc'[b].pc = "spawn" <=> acc[b].pc = "spawn"
    BY <1>1, <1>2, <1>7, ControlStreamsAssumption DEF CasBudget
  <2>2. {b \in Acceptors : acc'[b].pc = "spawn"} = A
    BY <2>1
  <2>3. BudgetKept'
    BY <1>4, <1>5, <2>1, <2>2 DEF BudgetKept
  <2> QED BY <1>1, <1>4, <2>1, <2>3, QuietStep
<1> QED BY <1>6, <1>7

LEMMA SpawnKeeps ==
    ASSUME StreamsInv, NEW a \in Acceptors, NEW s \in Sessions, Spawn(a, s)
    PROVE  StreamsInv'
<1> DEFINE L == {q \in Sessions : se[q].pc # "gone"}
           A == {b \in Acceptors : acc[b].pc = "spawn"}
<1>1. StreamTypes /\ OtherTypes /\ active \in Nat /\ se \in [Sessions -> Locals]
  BY TypeParts DEF StreamsInv
<1>2. NewSession \in Running
  BY DEF NewSession, Running
<1>3. /\ se[s].pc = "gone" /\ se' = [se EXCEPT ![s] = NewSession]
      /\ acc[a].pc = "spawn" /\ acc' = [acc EXCEPT ![a] = [pc |-> "accept", cur |-> 0]]
      /\ out' = [out EXCEPT ![s] = << >>] /\ UNCHANGED <<streamVars, active, down, tally, left, counting>>
  BY DEF Spawn
<1>4. se' \in [Sessions -> Locals] /\ se'[s] = NewSession /\ \A q \in Sessions : q # s => se'[q] = se[q]
  BY <1>1, <1>2, <1>3 DEF Locals
<1>5. TypeOK'
  <2>1. OtherTypes'
    BY <1>1, <1>3 DEF OtherTypes
  <2>2. StreamTypes' /\ active' \in Nat
    BY <1>1, <1>3 DEF StreamTypes, streamVars
  <2> QED BY <1>4, <2>1, <2>2, TypePartsNext
<1>6. PlaceInv'
  BY <1>4 DEF StreamsInv, PlaceInv, At, Stream, Over, NewSession
<1>7. \A t \in Types : sub[t] # s
  BY <1>3 DEF StreamsInv, OwnerInv, Over
<1>8. OwnerInv' /\ QueueInv'
  BY <1>3, <1>4, <1>7 DEF StreamsInv, OwnerInv, QueueInv, Over, Stream, streamVars
<1>9. LossAccounted'
  BY <1>3, <1>4, <1>7 DEF StreamsInv, LossAccounted, streamVars, Types
<1>10. BudgetKept'
  <2>1. NewSession.pc # "gone"
    BY DEF NewSession
  <2>2. {q \in Sessions : se'[q].pc # "gone"} = L \cup {s} /\ s \notin L
    BY <1>3, <1>4, <2>1
  <2>3. {b \in Acceptors : acc'[b].pc = "spawn"} = A \ {a} /\ a \in A
    BY <1>1, <1>3 DEF OtherTypes
  <2>4. Cardinality(L \cup {s}) = Cardinality(L) + 1
    BY <2>2, BudgetFacts, FS_AddElement
  <2>5. Cardinality(A \ {a}) = Cardinality(A) - 1
    BY <2>3, BudgetFacts, FS_RemoveElement
  <2>6. active = Cardinality(L) + Cardinality(A) /\ active <= Limit
    BY DEF StreamsInv, BudgetKept
  <2>7. active' = Cardinality(L \cup {s}) + Cardinality(A \ {a})
    BY <1>3, <2>4, <2>5, <2>6, BudgetFacts
  <2> QED BY <1>3, <2>2, <2>3, <2>6, <2>7 DEF BudgetKept
<1> QED BY <1>5, <1>6, <1>8, <1>9, <1>10 DEF StreamsInv

LEMMA SignalKeeps == StreamsInv /\ snortRequestShutdown => StreamsInv'
<1> SUFFICES ASSUME StreamsInv, snortRequestShutdown PROVE StreamsInv'
  OBVIOUS
<1>1. StreamTypes /\ OtherTypes /\ active \in Nat
  BY TypeParts DEF StreamsInv
<1>2. left' \in Bounds
  BY <1>1, BoundsFacts DEF snortRequestShutdown, OtherTypes
<1>3. OtherTypes'
  BY <1>1, <1>2 DEF snortRequestShutdown, OtherTypes
<1>4. BudgetKept'
  BY DEF snortRequestShutdown, StreamsInv, BudgetKept
<1> QED BY <1>1, <1>3, <1>4, QuietStep DEF snortRequestShutdown, streamVars, StreamTypes

\* A suppressed event is counted whoever subscribes by then.
LEMMA SuppressedKeeps ==
    ASSUME StreamsInv, NEW t \in Queued, observeSuppressed(t) \/ CountSuppressed(t)
    PROVE  StreamsInv'
<1>1. StreamTypes /\ OtherTypes /\ active \in Nat
  BY TypeParts DEF StreamsInv
<1>2. left' \in Bounds
  BY <1>1, BoundsFacts DEF observeSuppressed, CountSuppressed, OtherTypes
<1>3. OtherTypes'
  BY <1>1, <1>2 DEF observeSuppressed, CountSuppressed, OtherTypes
<1>4. BudgetKept'
  BY DEF observeSuppressed, CountSuppressed, StreamsInv, BudgetKept
<1>5. suppressed' \in [Types -> Nat]
  <2>1. suppressed \in [Types -> Nat] /\ t \in Types /\ suppressed[t] \in Nat
    BY <1>1 DEF StreamTypes, Types
  <2>2. CASE observeSuppressed(t)
    BY <2>1, <2>2 DEF observeSuppressed, streamVars
  <2>3. CASE CountSuppressed(t)
    BY <2>1, <2>3 DEF CountSuppressed
  <2> QED BY <2>2, <2>3
<1> QED BY <1>1, <1>3, <1>4, <1>5, QuietStep DEF observeSuppressed, CountSuppressed, streamVars

\* A tracked event is queued, or what it pushes out is counted.
LEMMA TrackedKeeps == ASSUME StreamsInv, NEW t \in Queued, observeTracked(t) PROVE StreamsInv'
<1> DEFINE n == MaxEvents - left.events + 1
           p == pushPending(pending[t], dropped[t], n)
<1>1. StreamTypes /\ OtherTypes /\ active \in Nat /\ se \in [Sessions -> Locals]
  BY TypeParts DEF StreamsInv
<1>2. n \in Nat /\ t \in Types
  <2>1. left.events \in 0..MaxEvents /\ MaxEvents \in Nat
    BY <1>1, ControlStreamsAssumption DEF OtherTypes, Bounds
  <2> QED BY <2>1 DEF Types
<1>3. /\ pending[t] \in Seq(Nat) /\ dropped[t] \in Nat /\ ring[t] \in Seq(Nat)
      /\ Len(pending[t]) <= MaxPending /\ Len(pending[t]) \in Nat
  BY <1>1, <1>2 DEF StreamTypes, StreamsInv, QueueInv
<1>4. /\ left' = [left EXCEPT !.events = @ - 1] /\ left.events > 0
      /\ ring' = [ring EXCEPT ![t] = pushRing(@, n)]
      /\ IF sub[t] = None THEN UNCHANGED <<pending, dropped, tally>>
         ELSE /\ pending' = [pending EXCEPT ![t] = p.q]
              /\ dropped' = [dropped EXCEPT ![t] = p.d]
              /\ tally' = [tally EXCEPT ![t].offered = @ + 1]
      /\ UNCHANGED <<sub, suppressed, se, active, acc, down, out, counting>>
  BY DEF observeTracked
<1> HIDE DEF n
<1>5. /\ p.q \in Seq(Nat) /\ p.d \in Nat /\ Len(p.q) + p.d = Len(pending[t]) + dropped[t] + 1
      /\ pushRing(ring[t], n) \in Seq(Nat) /\ Len(p.q) <= MaxPending
  BY <1>2, <1>3, PushFacts
<1> HIDE DEF p
<1>6. OtherTypes'
  BY <1>1, <1>4, BoundsFacts DEF OtherTypes
<1>7. ring' \in [Types -> Seq(Nat)] /\ pending' \in [Types -> Seq(Nat)] /\ dropped' \in [Types -> Nat]
  BY <1>1, <1>2, <1>4, <1>5 DEF StreamTypes
<1>8. tally' \in [Types -> Tallies]
  <2>1. tally \in [Types -> Tallies] /\ tally[t] \in Tallies
    BY <1>1, <1>2 DEF StreamTypes
  <2>2. [tally[t] EXCEPT !.offered = @ + 1] \in Tallies
    BY <2>1 DEF Tallies
  <2> QED BY <1>4, <2>1, <2>2
<1>9. TypeOK'
  BY <1>1, <1>4, <1>6, <1>7, <1>8, TypePartsNext DEF StreamTypes
<1>10. PlaceInv' /\ OwnerInv'
  BY <1>4 DEF StreamsInv, PlaceInv, OwnerInv, At, Stream, Over
<1>11. QueueInv'
  BY <1>1, <1>2, <1>4, <1>5 DEF StreamsInv, QueueInv, StreamTypes, Types
<1>12. BudgetKept'
  BY <1>4 DEF StreamsInv, BudgetKept
<1>13. LossAccounted'
  <2> SUFFICES ASSUME NEW u \in Queued, NEW s \in Sessions, sub'[u] = s, ~tally'[u].stolen
               PROVE  tally'[u].offered = tally'[u].popped + Len(pending'[u]) + dropped'[u]
                                            + tally'[u].reported + se'[s].dropped
    BY DEF LossAccounted
  <2>1. sub[u] = s /\ se[s].pc \notin {"gone", "release"} /\ u \in Types
    BY <1>4 DEF StreamsInv, OwnerInv, Over, Types
  <2>2. se'[s].dropped = se[s].dropped /\ se[s].dropped \in Nat
    BY <1>4, <2>1, RunningFacts DEF StreamsInv
  <2>7. tally[u] \in Tallies /\ Len(pending[u]) \in Nat /\ dropped[u] \in Nat
    BY <1>1, <2>1 DEF StreamTypes
  <2>8. tally'[u] = tally[u] \/ (u = t /\ tally'[u] = [tally[u] EXCEPT !.offered = @ + 1])
    BY <1>1, <1>2, <1>4, <2>1 DEF StreamTypes
  <2>3. ~tally[u].stolen
    BY <2>7, <2>8 DEF Tallies
  <2>4. tally[u].offered = tally[u].popped + Len(pending[u]) + dropped[u]
                             + tally[u].reported + se[s].dropped
    BY <2>1, <2>3 DEF StreamsInv, LossAccounted
  <2>5. CASE u # t
    <3>1. tally'[u] = tally[u] /\ pending'[u] = pending[u] /\ dropped'[u] = dropped[u]
      BY <1>1, <1>2, <1>4, <2>1, <2>5 DEF StreamTypes
    <3> QED BY <2>2, <2>4, <3>1
  <2>6. CASE u = t
    <3>1. sub[t] # None
      BY <2>1, <2>6, ControlStreamsAssumption
    <3>2. /\ pending'[t] = p.q /\ dropped'[t] = p.d
          /\ tally'[t].offered = tally[t].offered + 1 /\ tally'[t].popped = tally[t].popped
          /\ tally'[t].reported = tally[t].reported
      <4>1. /\ pending' = [pending EXCEPT ![t] = p.q] /\ dropped' = [dropped EXCEPT ![t] = p.d]
            /\ tally' = [tally EXCEPT ![t].offered = @ + 1]
        BY <1>4, <3>1
      <4>2. tally'[t] = [tally[t] EXCEPT !.offered = @ + 1]
        BY <1>1, <1>2, <4>1 DEF StreamTypes
      <4>3. tally[t] \in Tallies
        BY <1>1, <1>2 DEF StreamTypes
      <4> QED BY <1>1, <1>2, <4>1, <4>2, <4>3 DEF StreamTypes, Tallies
    <3>3. tally[t].offered \in Nat /\ tally[t].popped \in Nat /\ tally[t].reported \in Nat
      BY <1>1, <1>2 DEF StreamTypes, Tallies
    <3>4. Len(p.q) \in Nat /\ Len(p.q) + p.d = Len(pending[t]) + dropped[t] + 1
      BY <1>5
    <3>5. tally[t].offered = tally[t].popped + Len(pending[t]) + dropped[t]
                               + tally[t].reported + se[s].dropped
      BY <2>4, <2>6
    <3>6. tally[t].offered + 1 = tally[t].popped + Len(p.q) + p.d
                                   + tally[t].reported + se[s].dropped
      <4> DEFINE o == tally[t].offered
                 po == tally[t].popped
                 l == Len(pending[t])
                 d == dropped[t]
                 re == tally[t].reported
                 x == se[s].dropped
                 l2 == Len(p.q)
                 d2 == p.d
      <4>1. /\ o \in Nat /\ po \in Nat /\ l \in Nat /\ d \in Nat /\ re \in Nat /\ x \in Nat
            /\ l2 \in Nat /\ d2 \in Nat
            /\ o = po + l + d + re + x /\ l2 + d2 = l + d + 1
        BY <1>3, <1>5, <2>2, <3>3, <3>4, <3>5
      <4> SUFFICES o + 1 = po + l2 + d2 + re + x
        OBVIOUS
      <4> HIDE DEF o, po, l, d, re, x, l2, d2
      <4> QED BY <4>1
    <3> QED BY <2>2, <2>6, <3>2, <3>6
  <2> QED BY <2>5, <2>6
<1> QED BY <1>9, <1>10, <1>11, <1>12, <1>13 DEF StreamsInv

\* The activity stream counts nothing.
LEMMA BlockEnabledKeeps == StreamsInv /\ observeBlockEnabled => StreamsInv'
<1> SUFFICES ASSUME StreamsInv, observeBlockEnabled PROVE StreamsInv'
  OBVIOUS
<1> DEFINE q == Append(pending["activity"], MaxEvents - left.events + 1)
<1>1. StreamTypes /\ OtherTypes /\ active \in Nat /\ se \in [Sessions -> Locals]
  BY TypeParts DEF StreamsInv
<1>2. "activity" \in Types /\ "activity" \notin Queued
  BY ControlStreamsAssumption DEF Types
<1>3. q \in Seq(Nat)
  <2>1. left.events \in 0..MaxEvents /\ MaxEvents \in Nat
    BY <1>1, ControlStreamsAssumption DEF OtherTypes, Bounds
  <2>2. MaxEvents - left.events + 1 \in Nat
    BY <2>1
  <2> QED BY <1>1, <1>2, <2>2 DEF StreamTypes
<1> HIDE DEF q
<1>4. /\ left.events > 0 /\ left' = [left EXCEPT !.events = @ - 1]
      /\ pending' = [pending EXCEPT !["activity"] = LastN(q, MaxPending)]
      /\ UNCHANGED <<sub, ring, dropped, suppressed, se, active, acc, down, out, tally, counting>>
  BY DEF observeBlockEnabled, q
<1>5. LastN(q, MaxPending) \in Seq(Nat)
  BY <1>3, LastNFacts, ControlStreamsAssumption
<1>6. OtherTypes'
  BY <1>1, <1>4, BoundsFacts DEF OtherTypes
<1>7. TypeOK'
  BY <1>1, <1>4, <1>5, <1>6, TypePartsNext DEF StreamTypes
<1>8. \A t \in Queued : pending'[t] = pending[t]
  BY <1>1, <1>2, <1>4 DEF StreamTypes, Types
<1>9. PlaceInv' /\ OwnerInv'
  BY <1>4 DEF StreamsInv, PlaceInv, OwnerInv, At, Stream, Over
<1>10. QueueInv' /\ LossAccounted' /\ BudgetKept'
  BY <1>4, <1>8 DEF StreamsInv, QueueInv, LossAccounted, BudgetKept
<1> QED BY <1>7, <1>9, <1>10 DEF StreamsInv

-----------------------------------------------------------------------------
(* The session loop. *)

\* The steps of a session that only look at its streams.
LEMMA LoopKeeps ==
    ASSUME StreamsInv, NEW s \in Sessions,
           Started(s) \/ Check(s) \/ Loop(s) \/ flushBlockingFails(s) \/ enqueueDocFails(s)
             \/ DeadlineMissed(s) \/ PollEnds(s)
    PROVE  StreamsInv'
<1>1. TypeOK /\ OtherTypes /\ se \in [Sessions -> Locals] /\ se[s].pc \notin {"gone", "release"}
  BY TypeParts DEF StreamsInv, Started, Check, Loop, flushBlockingFails, enqueueDocFails,
                   DeadlineMissed, PollEnds, At
<1>2. se[s] \in Running /\ se[s].stream \in Types \cup {None}
  BY <1>1, RunningFacts
<1>3. UNCHANGED <<streamVars, tally, active, acc, down, left, counting>>
  BY DEF Started, Check, Loop, flushBlockingFails, enqueueDocFails, DeadlineMissed, PollEnds, Ends
<1>4. out' \in [Sessions -> Seq(Frames)]
  <2>1. Frame("started", Stream(s), 0) \in Frames
    BY <1>2 DEF Frame, Frames, Stream
  <2>2. out[s] \in Seq(Frames)
    BY <1>1 DEF OtherTypes
  <2>3. Append(out[s], Frame("started", Stream(s), 0)) \in Seq(Frames)
    BY <2>1, <2>2
  <2>4. out' = out \/ out' = [out EXCEPT ![s] = Append(@, Frame("started", Stream(s), 0))]
    BY DEF Started, Check, Loop, flushBlockingFails, enqueueDocFails, DeadlineMissed, PollEnds, Ends
  <2> QED BY <1>1, <2>3, <2>4 DEF OtherTypes
<1>5. OtherTypes'
  BY <1>1, <1>3, <1>4 DEF OtherTypes
<1>6. \E pc \in {"top", "requests", "take", "drain", "flush", "end"} :
        /\ se' = [se EXCEPT ![s].pc = pc]
        /\ pc = "take" => Stream(s) \in Queued
        /\ pc = "drain" => Stream(s) \in Types
  <2>1. CASE Check(s)
    <3>1. CASE Stream(s) = None
      BY <2>1, <3>1 DEF Check
    <3>2. CASE Stream(s) # None /\ ~ownsSubscription(s, Stream(s))
      BY <2>1, <3>2 DEF Check
    <3>3. CASE Stream(s) # None /\ ownsSubscription(s, Stream(s))
      <4>1. Stream(s) \in Types
        BY <1>2, <3>3 DEF Stream
      <4>2. se' = [se EXCEPT ![s].pc = IF Stream(s) = "activity" THEN "drain" ELSE "take"]
        BY <2>1, <3>3 DEF Check
      <4> QED BY <4>1, <4>2 DEF Types
    <3> QED BY <3>1, <3>2, <3>3
  <2>2. CASE ~Check(s)
    <3>1. \/ se' = [se EXCEPT ![s].pc = "end"] \/ se' = [se EXCEPT ![s].pc = "requests"]
          \/ se' = [se EXCEPT ![s].pc = IF down THEN "end" ELSE "requests"]
      BY <2>2 DEF Started, Loop, flushBlockingFails, enqueueDocFails, DeadlineMissed, PollEnds, Ends
    <3> QED BY <3>1
  <2> QED BY <2>1, <2>2
<1>7. PICK pc \in {"top", "requests", "take", "drain", "flush", "end"} :
        /\ se' = [se EXCEPT ![s].pc = pc]
        /\ pc = "take" => Stream(s) \in Queued
        /\ pc = "drain" => Stream(s) \in Types
  BY <1>6
<1> DEFINE x == [se[s] EXCEPT !.pc = pc]
<1>8. /\ x \in Running /\ x.pc = pc /\ x.stream = se[s].stream /\ x.dropped = se[s].dropped
      /\ x.current = se[s].current /\ x.frames = se[s].frames
  BY <1>2 DEF Running
<1>c. se[s].current => se[s].frames # << >>
  BY <1>1 DEF StreamsInv, PlaceInv, Over
<1>9. se' = [se EXCEPT ![s] = x]
  BY <1>1, <1>7
<1> HIDE DEF x
<1>10. Moves(s, x)
  BY <1>1, <1>7, <1>8, <1>9, <1>c DEF Moves, Stream
<1> QED BY <1>3, <1>5, <1>8, <1>10, QuietMove

\* Everything that is queued goes out before the response.
LEMMA RespondKeeps == ASSUME StreamsInv, NEW s \in Sessions, Respond(s) PROVE StreamsInv'
<1>1. TypeOK /\ OtherTypes /\ se \in [Sessions -> Locals] /\ se[s].pc = "respond"
  BY TypeParts DEF StreamsInv, Respond, At
<1>2. /\ se[s] \in Running /\ se[s].stream \in Types \cup {None} /\ se[s].frames \in Seq(Frames)
      /\ se[s].answer \in {"start", "stop", "error", "ok", "quit"}
  BY <1>1, RunningFacts DEF StreamsInv, PlaceInv, At
<1> DEFINE f == Frame(se[s].answer, Stream(s), 0)
           o == out[s] \o se[s].frames \o <<f>>
           pc == CASE se[s].answer = "start" -> "started"
                   [] se[s].answer = "quit" -> "end"
                   [] OTHER -> "requests"
           none == << >>
           cur == FALSE
           x == [se[s] EXCEPT !.pc = pc, !.frames = none, !.current = cur]
<1>3. f \in Frames
  BY <1>2 DEF Frame, Frames, Stream
<1>4. pc \in {"started", "end", "requests"}
  OBVIOUS
<1>5. /\ out' = [out EXCEPT ![s] = o] /\ se' = [se EXCEPT ![s] = x]
      /\ UNCHANGED <<streamVars, active, acc, down, tally, left, counting>>
  BY <1>1 DEF Respond
<1>c. none \in Seq(Frames) /\ cur \in BOOLEAN /\ ~cur
  OBVIOUS
<1> HIDE DEF pc, f, none, cur
<1>6. /\ x \in Running /\ x.pc = pc /\ x.stream = se[s].stream /\ x.dropped = se[s].dropped
      /\ x.current = cur
  BY <1>2, <1>4, <1>c DEF Running
<1>7. o \in Seq(Frames)
  <2>1. out[s] \in Seq(Frames)
    BY <1>1 DEF OtherTypes
  <2> QED BY <1>2, <1>3, <2>1
<1> HIDE DEF x, o
<1>8. OtherTypes'
  BY <1>1, <1>5, <1>7 DEF OtherTypes
<1>9. Moves(s, x)
  BY <1>1, <1>4, <1>5, <1>6, <1>c DEF Moves
<1> QED BY <1>5, <1>6, <1>8, <1>9, QuietMove

\* A flush writes some of the frames.
LEMMA FlushKeeps == ASSUME StreamsInv, NEW s \in Sessions, NEW k, Flush(s, k) PROVE StreamsInv'
<1>1. TypeOK /\ OtherTypes /\ se \in [Sessions -> Locals] /\ se[s].pc = "flush"
  BY TypeParts DEF StreamsInv, Flush, At
<1>2. se[s] \in Running /\ se[s].frames \in Seq(Frames)
  BY <1>1, RunningFacts
<1>3. k \in 0..Len(se[s].frames)
  BY DEF Flush
<1> DEFINE sent == SubSeq(se[s].frames, 1, k)
           rest == SubSeq(se[s].frames, k + 1, Len(se[s].frames))
           more == k < Len(se[s].frames)
           o == out[s] \o sent
           x == [se[s] EXCEPT !.pc = "top", !.frames = rest, !.current = more]
<1>4. sent \in Seq(Frames) /\ rest \in Seq(Frames)
  BY <1>2, <1>3
<1>5. /\ out' = [out EXCEPT ![s] = o] /\ se' = [se EXCEPT ![s] = x]
      /\ UNCHANGED <<streamVars, active, acc, down, tally, left, counting>>
  BY <1>1 DEF Flush
<1>6. more \in BOOLEAN /\ (more => rest # << >>)
  <2>1. Len(rest) = Len(se[s].frames) - k /\ Len(se[s].frames) \in Nat
    BY <1>2, <1>3
  <2>2. more => Len(rest) # 0
    BY <1>3, <2>1
  <2>3. Len(<< >>) = 0
    OBVIOUS
  <2> HIDE DEF rest
  <2> QED BY <2>2, <2>3
<1> HIDE DEF sent, rest, more
<1>7. o \in Seq(Frames)
  <2>1. out[s] \in Seq(Frames)
    BY <1>1 DEF OtherTypes
  <2> QED BY <1>4, <2>1
<1>8. /\ x \in Running /\ x.pc = "top" /\ x.stream = se[s].stream /\ x.dropped = se[s].dropped
      /\ x.current = more /\ x.frames = rest
  BY <1>2, <1>4, <1>6 DEF Running
<1> HIDE DEF x, o
<1>9. OtherTypes'
  BY <1>1, <1>5, <1>7 DEF OtherTypes
<1>10. Moves(s, x)
  BY <1>1, <1>5, <1>6, <1>8 DEF Moves
<1> QED BY <1>5, <1>8, <1>9, <1>10, QuietMove

\* A request is answered, and counted against the scene.
LEMMA RequestFacts ==
    ASSUME StreamsInv, NEW s \in Sessions, Request(s)
    PROVE  /\ TypeOK /\ StreamTypes /\ OtherTypes' /\ active' = active /\ acc' = acc /\ active \in Nat
           /\ se[s].pc = "requests" /\ se[s] \in Running /\ se \in [Sessions -> Locals]
           /\ se[s].stream \in Types \cup {None}
           /\ se[s].frames \in Seq(Frames) /\ se[s].current \in BOOLEAN
           /\ se[s].current => se[s].frames # << >>
<1>1. TypeOK /\ StreamTypes /\ OtherTypes /\ se \in [Sessions -> Locals] /\ active \in Nat
  BY TypeParts DEF StreamsInv
<1>2. /\ se[s].pc = "requests" /\ se[s] \in Running /\ se[s].stream \in Types \cup {None}
      /\ se[s].frames \in Seq(Frames) /\ se[s].current \in BOOLEAN
      /\ se[s].current => se[s].frames # << >>
  BY <1>1, RunningFacts DEF Request, At, StreamsInv, PlaceInv, Over
<1>3. left' \in Bounds
  BY <1>1, BoundsFacts DEF Request, OtherTypes
<1>4. OtherTypes' /\ active' = active /\ acc' = acc
  BY <1>1, <1>3 DEF Request, OtherTypes
<1> QED BY <1>1, <1>2, <1>4

\* A command that only answers.
LEMMA AnswerKeeps ==
    ASSUME StreamsInv, NEW s \in Sessions, Request(s), UNCHANGED <<streamVars, tally>>,
           NEW answer \in {"error", "ok", "quit", "stop"}, Answer(s, answer)
    PROVE  StreamsInv'
<1>1. /\ TypeOK /\ OtherTypes' /\ active' = active /\ acc' = acc
      /\ se[s].pc = "requests" /\ se[s] \in Running /\ se \in [Sessions -> Locals]
  BY RequestFacts
<1> DEFINE x == [se[s] EXCEPT !.pc = "respond", !.answer = answer]
<1>2. x \in Running /\ x.pc = "respond" /\ x.answer = answer /\ x.stream = se[s].stream
        /\ x.dropped = se[s].dropped /\ x.current = se[s].current /\ x.frames = se[s].frames
  BY <1>1 DEF Running
<1>c. se[s].current => se[s].frames # << >>
  BY RequestFacts
<1>3. se' = [se EXCEPT ![s] = x]
  BY <1>1 DEF Answer
<1> HIDE DEF x
<1>4. Moves(s, x)
  BY <1>1, <1>2, <1>3, <1>c DEF Moves
<1> QED BY <1>1, <1>2, <1>4, QuietMove

\* Letting go of streams, those of s among them, whatever becomes of s.
LEMMA ReleaseKeeps ==
    ASSUME StreamsInv, NEW s \in Sessions, NEW mine, NEW keepRing, Release(mine, keepRing),
           Mine(s) \subseteq mine, \A q \in Sessions : q # s => se'[q] = se[q]
    PROVE  StreamTypes' /\ QueueInv' /\ OwnerInv' /\ LossAccounted'
<1>1. StreamTypes
  BY TypeParts DEF StreamsInv
<1>2. StreamTypes'
  <2>1. << >> \in Seq(Nat)
    OBVIOUS
  <2> QED BY <1>1, <2>1 DEF Release, StreamTypes
<1>3. ASSUME NEW t \in Types, t \in mine PROVE sub'[t] = None /\ pending'[t] = << >>
  BY <1>3 DEF Release
<1>4. ASSUME NEW t \in Types, t \notin mine
      PROVE  /\ sub'[t] = sub[t] /\ pending'[t] = pending[t] /\ dropped'[t] = dropped[t]
             /\ tally'[t] = tally[t] /\ sub[t] # s
  BY <1>4 DEF Release, Mine
<1>5. ASSUME NEW t \in Types, NEW q \in Sessions, sub'[t] = q
      PROVE  t \notin mine /\ q # s /\ sub[t] = q /\ se'[q] = se[q]
  <2>1. t \notin mine
    BY <1>3, <1>5, ControlStreamsAssumption
  <2> QED BY <1>4, <1>5, <2>1
<1>6. QueueInv'
  <2>1. Len(<< >>) <= MaxPending
    BY ControlStreamsAssumption
  <2> QED BY <1>3, <1>4, <2>1 DEF StreamsInv, QueueInv, Types
<1>7. OwnerInv'
  BY <1>5 DEF StreamsInv, OwnerInv, Over, Stream
<1>8. LossAccounted'
  <2> SUFFICES ASSUME NEW t \in Queued, NEW q \in Sessions, sub'[t] = q, ~tally'[t].stolen
               PROVE  tally'[t].offered = tally'[t].popped + Len(pending'[t]) + dropped'[t]
                                            + tally'[t].reported + se'[q].dropped
    BY DEF LossAccounted
  <2>1. t \notin mine /\ sub[t] = q /\ se'[q] = se[q]
    BY <1>5 DEF Types
  <2>2. pending'[t] = pending[t] /\ dropped'[t] = dropped[t] /\ tally'[t] = tally[t]
    BY <1>4, <2>1 DEF Types
  <2> QED BY <2>1, <2>2 DEF StreamsInv, LossAccounted
<1> QED BY <1>2, <1>6, <1>7, <1>8

LEMMA ResetKeeps == ASSUME StreamsInv, NEW s \in Sessions, ResetCommand(s) PROVE StreamsInv'
<1>1. /\ TypeOK /\ OtherTypes' /\ active' = active /\ acc' = acc /\ active \in Nat
      /\ se[s].pc = "requests" /\ se[s] \in Running /\ se \in [Sessions -> Locals]
  BY RequestFacts DEF ResetCommand
<1> DEFINE x == [se[s] EXCEPT !.pc = "respond", !.answer = "ok"]
<1>2. /\ x \in Running /\ x.pc = "respond" /\ x.answer = "ok"
      /\ x.current = se[s].current /\ x.frames = se[s].frames
  BY <1>1 DEF Running
<1>c. se[s].current => se[s].frames # << >>
  BY RequestFacts DEF ResetCommand
<1>3. se' = [se EXCEPT ![s] = x]
  BY <1>1 DEF ResetCommand, Answer
<1> HIDE DEF x
<1>4. Moves(s, x)
  BY <1>1, <1>2, <1>3, <1>c DEF Moves
<1>5. /\ se' \in [Sessions -> Locals] /\ PlaceInv' /\ BudgetKept'
      /\ \A q \in Sessions : q # s => se'[q] = se[q]
  BY <1>1, <1>4, MovesFacts
<1>6. StreamTypes' /\ QueueInv' /\ OwnerInv' /\ LossAccounted'
  BY <1>5, ReleaseKeeps DEF ResetCommand, resetAll, Mine
<1> QED BY <1>1, <1>5, <1>6, TypePartsNext DEF StreamsInv

LEMMA StopKeeps == ASSUME StreamsInv, NEW s \in Sessions, StreamStop(s) PROVE StreamsInv'
<1>1. /\ TypeOK /\ OtherTypes' /\ active' = active /\ acc' = acc /\ active \in Nat
      /\ se[s].pc = "requests" /\ se[s] \in Running /\ se \in [Sessions -> Locals]
  BY RequestFacts DEF StreamStop
<1>2. CASE Stream(s) = None
  BY <1>2, AnswerKeeps DEF StreamStop
<1>3. CASE Stream(s) # None
  <2> DEFINE y == clearQueue(se[s])
             x == [y EXCEPT !.pc = "respond", !.answer = "stop", !.stream = None,
                            !.dropped = 0, !.suppressed = 0]
  <2>1. y \in Running /\ (y.current => y.frames # << >>)
    <3>1. /\ se[s].frames \in Seq(Frames) /\ se[s].current \in BOOLEAN
          /\ se[s].current => se[s].frames # << >>
      BY RequestFacts DEF StreamStop
    <3> DEFINE f == IF se[s].current THEN SubSeq(se[s].frames, 1, 1) ELSE << >>
    <3>2. f \in Seq(Frames) /\ (se[s].current => f # << >>)
      <4>1. CASE se[s].current
        <5> DEFINE z == SubSeq(se[s].frames, 1, 1)
        <5>1. z \in Seq(Frames) /\ Len(z) = 1
          BY <3>1, <4>1
        <5>2. Len(<< >>) = 0
          OBVIOUS
        <5>3. f = z
          BY <4>1
        <5> HIDE DEF z, f
        <5> QED BY SMTT(30), <5>1, <5>2, <5>3
      <4>2. CASE ~se[s].current
        BY <4>2
      <4> QED BY <4>1, <4>2
    <3>3. y = [se[s] EXCEPT !.frames = f]
      BY DEF clearQueue
    <3> HIDE DEF f, y
    <3>4. y \in Running /\ y.current = se[s].current /\ y.frames = f
      BY <1>1, <3>2, <3>3 DEF Running
    <3> QED BY <3>2, <3>4
  <2>2. se' = [se EXCEPT ![s] = x]
    BY <1>3 DEF StreamStop
  <2> HIDE DEF y
  <2>3. /\ x \in Running /\ x.pc = "respond" /\ x.answer = "stop"
        /\ x.current = y.current /\ x.frames = y.frames
    BY <2>1 DEF Running
  <2> HIDE DEF x
  <2>4. Moves(s, x)
    BY <1>1, <2>1, <2>2, <2>3 DEF Moves
  <2>5. /\ se' \in [Sessions -> Locals] /\ PlaceInv' /\ BudgetKept'
        /\ \A q \in Sessions : q # s => se'[q] = se[q]
    BY <1>1, <2>4, MovesFacts
  <2>6. StreamTypes' /\ QueueInv' /\ OwnerInv' /\ LossAccounted'
    BY <1>3, <2>5, ReleaseKeeps DEF StreamStop, stop, Mine
  <2> QED BY <1>1, <2>5, <2>6, TypePartsNext DEF StreamsInv
<1> QED BY <1>2, <1>3

LEMMA EndKeeps == ASSUME StreamsInv, NEW s \in Sessions, End(s) PROVE StreamsInv'
<1>1. TypeOK /\ StreamTypes /\ OtherTypes /\ active \in Nat /\ se \in [Sessions -> Locals]
  BY TypeParts DEF StreamsInv
<1>2. /\ se[s].pc = "end" /\ se' = [se EXCEPT ![s] = [pc |-> "release"]]
      /\ UNCHANGED <<active, acc, down, out, left, counting>> /\ Release(Mine(s), TRUE)
  BY DEF End, At, detach
<1>3. /\ se' \in [Sessions -> Locals] /\ se'[s] = [pc |-> "release"]
      /\ \A q \in Sessions : q # s => se'[q] = se[q]
  BY <1>1, <1>2 DEF Locals
<1>4. StreamTypes' /\ QueueInv' /\ OwnerInv' /\ LossAccounted'
  BY <1>2, <1>3, ReleaseKeeps
<1>5. PlaceInv'
  BY <1>3 DEF StreamsInv, PlaceInv, At, Stream, Over
<1>6. BudgetKept'
  <2>1. \A q \in Sessions : se'[q].pc = "gone" <=> se[q].pc = "gone"
    BY <1>2, <1>3
  <2> QED BY <1>2, <2>1, BudgetSame DEF StreamsInv
<1>7. OtherTypes'
  BY <1>1, <1>2 DEF OtherTypes
<1> QED BY <1>1, <1>2, <1>3, <1>4, <1>5, <1>6, <1>7, TypePartsNext DEF StreamsInv

\* The token is given back once, when the thread ends.
LEMMA ReleaseBudgetKeeps == ASSUME StreamsInv, NEW s \in Sessions, ReleaseBudget(s) PROVE StreamsInv'
<1> DEFINE L == {q \in Sessions : se[q].pc # "gone"}
           A == {b \in Acceptors : acc[b].pc = "spawn"}
<1>1. TypeOK /\ StreamTypes /\ OtherTypes /\ active \in Nat /\ se \in [Sessions -> Locals]
  BY TypeParts DEF StreamsInv
<1>2. /\ se[s].pc = "release" /\ se' = [se EXCEPT ![s] = Gone] /\ active' = active - 1
      /\ out' = [out EXCEPT ![s] = << >>] /\ UNCHANGED <<streamVars, acc, down, tally, left, counting>>
  BY DEF ReleaseBudget, At
<1>3. /\ se' \in [Sessions -> Locals] /\ se'[s].pc = "gone"
      /\ \A q \in Sessions : q # s => se'[q] = se[q]
  BY <1>1, <1>2 DEF Locals, Gone
<1>4. \A t \in Types : sub[t] # s
  BY <1>2 DEF StreamsInv, OwnerInv, Over
<1>5. StreamTypes' /\ OtherTypes'
  BY <1>1, <1>2 DEF StreamTypes, OtherTypes, streamVars
<1>6. PlaceInv'
  BY <1>3 DEF StreamsInv, PlaceInv, At, Stream, Over
<1>7. OwnerInv' /\ QueueInv'
  BY <1>2, <1>3, <1>4 DEF StreamsInv, OwnerInv, QueueInv, Over, Stream, streamVars
<1>8. LossAccounted'
  BY <1>2, <1>3, <1>4 DEF StreamsInv, LossAccounted, streamVars, Types
<1>9. BudgetKept' /\ active' \in Nat
  <2>1. {q \in Sessions : se'[q].pc # "gone"} = L \ {s} /\ s \in L
    BY <1>2, <1>3
  <2>2. Cardinality(L \ {s}) = Cardinality(L) - 1
    BY <2>1, BudgetFacts, FS_RemoveElement
  <2>3. IsFiniteSet(L \ {s}) /\ Cardinality(L \ {s}) \in Nat
    BY BudgetFacts, FS_RemoveElement, FS_CardinalityType
  <2>4. active = Cardinality(L) + Cardinality(A) /\ active <= Limit /\ Limit \in Nat
    BY ControlStreamsAssumption DEF StreamsInv, BudgetKept
  <2>5. active' = Cardinality(L \ {s}) + Cardinality(A) /\ active' <= Limit /\ active' \in Nat
    <3>1. Cardinality(L) \in Nat /\ Cardinality(A) \in Nat
      BY BudgetFacts
    <3> HIDE DEF L, A
    <3> QED BY <1>1, <1>2, <2>2, <2>3, <2>4, <3>1
  <2> QED BY <1>2, <2>1, <2>5 DEF BudgetKept
<1> QED BY <1>3, <1>5, <1>6, <1>7, <1>8, <1>9, TypePartsNext DEF StreamsInv

\* An owner hands the next event to its writer.
LEMMA DrainKeeps == ASSUME StreamsInv, NEW s \in Sessions, Drain(s) PROVE StreamsInv'
<1> DEFINE t == Stream(s)
<1>1. TypeOK /\ StreamTypes /\ OtherTypes /\ active \in Nat /\ se \in [Sessions -> Locals] /\ se[s].pc = "drain"
  BY TypeParts DEF StreamsInv, Drain, At
<1>2. /\ se[s] \in Running /\ se[s].frames \in Seq(Frames) /\ t = se[s].stream /\ t \in Types
      /\ se[s].current => se[s].frames # << >>
  BY <1>1, RunningFacts DEF StreamsInv, PlaceInv, At, Over, Stream
<1>3. /\ UNCHANGED <<sub, ring, dropped, suppressed, active, acc, down, out, left, counting>>
      /\ OtherTypes'
  BY <1>1 DEF Drain, OtherTypes
<1>4. CASE sub[t] = s /\ pending[t] # << >> /\ Len(se[s].frames) < MaxQueued
  <2> DEFINE f == Frame("event", t, Head(pending[t]))
             fs == Append(se[s].frames, f)
             x == [se[s] EXCEPT !.frames = fs]
  <2>1. /\ se' = [se EXCEPT ![s] = x] /\ pending' = [pending EXCEPT ![t] = Tail(@)]
        /\ tally' = [tally EXCEPT ![t].popped = @ + 1]
    BY <1>1, <1>4 DEF Drain
  <2>2. pending[t] \in Seq(Nat) /\ Tail(pending[t]) \in Seq(Nat) /\ Head(pending[t]) \in Nat
          /\ Len(Tail(pending[t])) = Len(pending[t]) - 1 /\ Len(pending[t]) \in Nat
    BY SMTT(30), <1>1, <1>2, <1>4 DEF StreamTypes
  <2>3. f \in Frames
    BY <1>2, <2>2 DEF Frame, Frames
  <2> HIDE DEF f, t
  <2>4. fs \in Seq(Frames) /\ Len(fs) = Len(se[s].frames) + 1 /\ Len(se[s].frames) \in Nat
    BY <1>2, <2>3
  <2> HIDE DEF fs
  <2>5. fs # << >>
    BY <2>4
  <2>6. x \in Running /\ x.pc = "drain" /\ x.stream = t /\ x.dropped = se[s].dropped /\ x.frames = fs
    BY <1>1, <1>2, <2>4 DEF Running
  <2> HIDE DEF x
  <2>7. Moves(s, x)
    BY <1>1, <1>2, <2>1, <2>5, <2>6 DEF Moves
  <2>8. /\ se' \in [Sessions -> Locals] /\ se'[s] = x /\ x.pc \notin {"gone", "release"}
        /\ \A q \in Sessions : q # s => se'[q] = se[q]
        /\ PlaceInv' /\ BudgetKept'
    BY <1>3, <2>7, MovesFacts
  <2>9. pending' \in [Types -> Seq(Nat)] /\ tally' \in [Types -> Tallies]
    <3>0. tally[t] \in Tallies
      BY <1>1, <1>2 DEF StreamTypes
    <3>1. [tally[t] EXCEPT !.popped = @ + 1] \in Tallies
      BY <3>0 DEF Tallies
    <3> QED BY <1>1, <1>2, <2>1, <2>2, <3>1 DEF StreamTypes
  <2>10. StreamTypes'
    BY <1>1, <1>3, <2>9 DEF StreamTypes
  <2>11. \A q \in Sessions : se'[q].stream = se[q].stream /\ se'[q].dropped = se[q].dropped
    BY <1>2, <2>6, <2>8
  <2>12. OwnerInv'
    BY <1>3, <2>8, <2>11 DEF StreamsInv, OwnerInv, Over, Stream
  <2>13. QueueInv'
    <3>1. \A u \in Queued : u # t => pending'[u] = pending[u]
      BY <1>1, <1>2, <2>1 DEF StreamTypes, Types
    <3>2. pending'[t] = Tail(pending[t])
      BY <1>1, <1>2, <2>1 DEF StreamTypes
    <3>3. t \in Queued => Len(pending'[t]) <= MaxPending
      BY <2>2, <3>2, ControlStreamsAssumption DEF StreamsInv, QueueInv
    <3> QED BY <3>1, <3>3 DEF StreamsInv, QueueInv
  <2>14. LossAccounted'
    <3> SUFFICES ASSUME NEW u \in Queued, NEW q \in Sessions, sub'[u] = q, ~tally'[u].stolen
                 PROVE  tally'[u].offered = tally'[u].popped + Len(pending'[u]) + dropped'[u]
                                              + tally'[u].reported + se'[q].dropped
      BY DEF LossAccounted
    <3>1. u \in Types /\ sub[u] = q /\ tally[u] \in Tallies /\ dropped'[u] = dropped[u] /\ dropped[u] \in Nat
      BY <1>1, <1>3 DEF StreamTypes, Types
    <3>2. se'[q].dropped = se[q].dropped
      BY <2>11
    <3>3. CASE u # t
      <4>1. tally'[u] = tally[u] /\ pending'[u] = pending[u]
        BY <1>1, <1>2, <2>1, <3>1, <3>3 DEF StreamTypes
      <4> QED BY <3>1, <3>2, <4>1 DEF StreamsInv, LossAccounted
    <3>4. CASE u = t
      <4>1. tally'[t] = [tally[t] EXCEPT !.popped = @ + 1] /\ pending'[t] = Tail(pending[t])
        BY <1>1, <1>2, <2>1 DEF StreamTypes
      <4>2. /\ tally'[t].offered = tally[t].offered /\ tally'[t].popped = tally[t].popped + 1
            /\ tally'[t].reported = tally[t].reported /\ tally'[t].stolen = tally[t].stolen
            /\ tally[t].offered \in Nat /\ tally[t].popped \in Nat /\ tally[t].reported \in Nat
        BY <3>1, <3>4, <4>1 DEF Tallies
      <4>3. tally[t].offered = tally[t].popped + Len(pending[t]) + dropped[t]
                                 + tally[t].reported + se[q].dropped
        BY <3>1, <3>4, <4>2 DEF StreamsInv, LossAccounted
      <4>4. se[q].dropped \in Nat
        <5>1. se[q].pc \notin {"gone", "release"}
          BY <3>1 DEF StreamsInv, OwnerInv, Over
        <5> QED BY <1>1, <5>1, RunningFacts
      <4> DEFINE o == tally[t].offered
                 po == tally[t].popped
                 l == Len(pending[t])
                 d == dropped[t]
                 re == tally[t].reported
                 y == se[q].dropped
                 l2 == Len(Tail(pending[t]))
      <4>5. /\ o \in Nat /\ po \in Nat /\ l \in Nat /\ d \in Nat /\ re \in Nat /\ y \in Nat
            /\ l2 = l - 1 /\ o = po + l + d + re + y
        BY <2>2, <3>1, <3>4, <4>2, <4>3, <4>4
      <4>6. o = (po + 1) + l2 + d + re + y
        <5> HIDE DEF o, po, l, d, re, y, l2
        <5> QED BY <4>5
      <4> QED BY <3>1, <3>2, <3>4, <4>1, <4>2, <4>6
    <3> QED BY <3>3, <3>4
  <2> QED BY <1>1, <1>3, <2>8, <2>10, <2>12, <2>13, <2>14, TypePartsNext DEF StreamsInv
<1>5. CASE ~(sub[t] = s /\ pending[t] # << >> /\ Len(se[s].frames) < MaxQueued)
  <2> DEFINE x == [se[s] EXCEPT !.pc = "flush"]
  <2>1. se' = [se EXCEPT ![s] = x] /\ UNCHANGED <<pending, tally>>
    BY <1>1, <1>5 DEF Drain
  <2>2. /\ x \in Running /\ x.pc = "flush" /\ x.stream = se[s].stream /\ x.dropped = se[s].dropped
        /\ x.current = se[s].current /\ x.frames = se[s].frames
    BY <1>2 DEF Running
  <2> HIDE DEF x
  <2>3. Moves(s, x)
    BY <1>1, <1>2, <2>1, <2>2 DEF Moves
  <2>4. UNCHANGED <<streamVars, tally, active, acc>>
    BY <1>3, <2>1 DEF streamVars
  <2> QED BY <1>3, <2>2, <2>3, <2>4, QuietMove
<1> QED BY <1>4, <1>5

\* The counters a session takes are its own, or the theft is on record.
LEMMA TakeKeeps == ASSUME StreamsInv, NEW s \in Sessions, NEW due \in BOOLEAN, Take(s, due) PROVE StreamsInv'
<1> DEFINE t == Stream(s)
           d == se[s].dropped + dropped[t]
           u == se[s].suppressed + suppressed[t]
           notices == (IF due /\ u > 0 THEN <<Frame("suppressed", t, u)>> ELSE << >>)
                        \o (IF due /\ d > 0 THEN <<Frame("dropped", t, d)>> ELSE << >>)
           fs == se[s].frames \o notices
           keptD == IF due THEN 0 ELSE d
           keptU == IF due THEN 0 ELSE u
           x == [se[s] EXCEPT !.pc = "drain", !.frames = fs, !.dropped = keptD, !.suppressed = keptU]
           rep == IF due THEN d ELSE 0
           lost == tally[t].stolen \/ dropped[t] > 0
           y == IF sub[t] = s THEN [tally[t] EXCEPT !.reported = @ + rep]
                ELSE [tally[t] EXCEPT !.stolen = lost]
<1>1. TypeOK /\ StreamTypes /\ OtherTypes /\ active \in Nat /\ se \in [Sessions -> Locals] /\ se[s].pc = "take"
  BY TypeParts DEF StreamsInv, Take, At
<1>2. /\ se[s] \in Running /\ se[s].frames \in Seq(Frames) /\ t = se[s].stream /\ t \in Queued /\ t \in Types
      /\ se[s].current => se[s].frames # << >>
      /\ se[s].dropped \in Nat /\ se[s].suppressed \in Nat
  BY <1>1, RunningFacts DEF StreamsInv, PlaceInv, At, Over, Stream, Types
<1>3. /\ dropped' = [dropped EXCEPT ![t] = 0] /\ suppressed' = [suppressed EXCEPT ![t] = 0]
      /\ se' = [se EXCEPT ![s] = x] /\ tally' = [tally EXCEPT ![t] = y]
      /\ UNCHANGED <<sub, ring, pending, active, acc, down, out, left, counting>>
  <2>1. tally' = [tally EXCEPT ![t] = y]
    BY DEF Take
  <2>2. se' = [se EXCEPT ![s] = x]
    BY <1>1 DEF Take
  <2> QED BY <2>1, <2>2 DEF Take
<1>4. dropped[t] \in Nat /\ suppressed[t] \in Nat /\ tally[t] \in Tallies
  BY <1>1, <1>2 DEF StreamTypes
<1>5. d \in Nat /\ u \in Nat
  BY <1>2, <1>4
<1> HIDE DEF t
<1>6. fs \in Seq(Frames) /\ (se[s].current => fs # << >>)
  <2>1. Frame("suppressed", t, u) \in Frames /\ Frame("dropped", t, d) \in Frames
    BY <1>2, <1>5 DEF Frame, Frames
  <2> DEFINE n1 == IF due /\ u > 0 THEN <<Frame("suppressed", t, u)>> ELSE << >>
             n2 == IF due /\ d > 0 THEN <<Frame("dropped", t, d)>> ELSE << >>
             f1 == Frame("suppressed", t, u)
             f2 == Frame("dropped", t, d)
             b1 == due /\ u > 0
             b2 == due /\ d > 0
  <2>2. n1 \in Seq(Frames) /\ n2 \in Seq(Frames)
    <3>1. f1 \in Frames /\ f2 \in Frames
      BY <2>1
    <3> HIDE DEF f1, f2, b1, b2
    <3>2. (IF b1 THEN <<f1>> ELSE << >>) \in Seq(Frames) /\ (IF b2 THEN <<f2>> ELSE << >>) \in Seq(Frames)
      BY <3>1
    <3> QED BY <3>2 DEF f1, f2, b1, b2
  <2> HIDE DEF n1, n2
  <2>3. notices = n1 \o n2
    BY DEF n1, n2
  <2> HIDE DEF notices
  <2>4. notices \in Seq(Frames) /\ Len(notices) \in Nat
    BY <2>2, <2>3
  <2>5. /\ fs \in Seq(Frames) /\ Len(fs) = Len(se[s].frames) + Len(notices)
        /\ Len(se[s].frames) \in Nat
    BY <1>2, <2>4
  <2>6. se[s].frames # << >> => Len(se[s].frames) # 0
    BY <1>2
  <2>7. Len(<< >>) = 0
    OBVIOUS
  <2>8. se[s].frames # << >> => Len(fs) # 0
    BY <2>4, <2>5, <2>6
  <2> HIDE DEF fs
  <2> QED BY <1>2, <2>5, <2>7, <2>8
<1>7. keptD \in Nat /\ keptU \in Nat /\ rep \in Nat /\ lost \in BOOLEAN /\ keptD + rep = d
  <2>1. keptD \in Nat /\ keptU \in Nat /\ rep \in Nat /\ keptD + rep = d
    <3> HIDE DEF d, u
    <3> QED BY <1>5
  <2> QED BY <1>4, <2>1, TallyFacts
<1> HIDE DEF fs, keptD, keptU, rep, lost
<1>8. /\ x \in Running /\ x.pc = "drain" /\ x.stream = t /\ x.dropped = keptD
      /\ x.frames = fs /\ x.current = se[s].current
  BY <1>2, <1>6, <1>7 DEF Running
<1> HIDE DEF x
<1>9. Moves(s, x)
  BY <1>1, <1>2, <1>3, <1>6, <1>8 DEF Moves
<1>10. /\ se' \in [Sessions -> Locals] /\ se'[s] = x /\ x.pc \notin {"gone", "release"}
       /\ \A q \in Sessions : q # s => se'[q] = se[q]
       /\ PlaceInv' /\ BudgetKept'
  BY <1>3, <1>9, MovesFacts
<1>11. y \in Tallies
  <2>1. tally[t].reported + rep \in Nat
    BY <1>4, <1>7, TallyFacts
  <2> QED BY <1>4, <1>7, <2>1, TallyFacts
<1>12. TypeOK'
  <2>1. StreamTypes'
    BY <1>1, <1>3, <1>11 DEF StreamTypes
  <2>2. OtherTypes'
    BY <1>1, <1>3 DEF OtherTypes
  <2> QED BY <1>1, <1>3, <1>10, <2>1, <2>2, TypePartsNext
<1>13. OwnerInv' /\ QueueInv'
  <2>1. \A q \in Sessions : se'[q].stream = se[q].stream /\ (Over(q)' <=> Over(q))
    BY <1>1, <1>2, <1>8, <1>10 DEF Over
  <2> QED BY <1>3, <2>1 DEF StreamsInv, OwnerInv, QueueInv, Stream
<1>14. LossAccounted'
  <2> SUFFICES ASSUME NEW v \in Queued, NEW q \in Sessions, sub'[v] = q, ~tally'[v].stolen
               PROVE  tally'[v].offered = tally'[v].popped + Len(pending'[v]) + dropped'[v]
                                            + tally'[v].reported + se'[q].dropped
    BY DEF LossAccounted
  <2>1. /\ v \in Types /\ sub[v] = q /\ tally[v] \in Tallies /\ pending'[v] = pending[v]
        /\ dropped[v] \in Nat /\ Len(pending[v]) \in Nat
    BY <1>1, <1>3 DEF StreamTypes, Types
  <2>2. se[q].pc \notin {"gone", "release"} /\ se[q].stream = v
    BY <2>1 DEF StreamsInv, OwnerInv, Over, Stream
  <2>3. CASE v # t
    <3>1. q # s
      BY <1>2, <2>2, <2>3
    <3>2. tally'[v] = tally[v] /\ dropped'[v] = dropped[v] /\ se'[q] = se[q]
      BY <1>1, <1>3, <1>10, <2>1, <2>3, <3>1 DEF StreamTypes
    <3> QED BY <2>1, <3>2 DEF StreamsInv, LossAccounted
  <2>4. CASE v = t /\ q = s
    <3>1. y = [tally[t] EXCEPT !.reported = @ + rep]
      BY <2>1, <2>4
    <3>2. tally'[t] = y /\ dropped'[t] = 0
      BY <1>1, <1>2, <1>3 DEF StreamTypes
    <3>3. /\ tally'[t].offered = tally[t].offered /\ tally'[t].popped = tally[t].popped
          /\ tally'[t].reported = tally[t].reported + rep /\ tally'[t].stolen = tally[t].stolen
          /\ tally[t].offered \in Nat /\ tally[t].popped \in Nat /\ tally[t].reported \in Nat
      BY <1>4, <3>1, <3>2 DEF Tallies
    <3>4. tally[t].offered = tally[t].popped + Len(pending[t]) + dropped[t]
                               + tally[t].reported + se[s].dropped
      BY <2>1, <2>4, <3>3 DEF StreamsInv, LossAccounted
    <3>5. se'[s].dropped = keptD
      BY <1>8, <1>10
    <3> DEFINE o == tally[t].offered
               po == tally[t].popped
               l == Len(pending[t])
               c == dropped[t]
               re == tally[t].reported
               z == se[s].dropped
    <3>6. /\ o \in Nat /\ po \in Nat /\ l \in Nat /\ c \in Nat /\ re \in Nat /\ z \in Nat
          /\ rep \in Nat /\ keptD \in Nat
          /\ keptD + rep = z + c /\ o = po + l + c + re + z
      BY <1>2, <1>4, <1>7, <2>1, <2>4, <3>3, <3>4
    <3>7. o = po + l + 0 + (re + rep) + keptD
      <4> HIDE DEF o, po, l, c, re, z
      <4> QED BY <3>6
    <3> QED BY <2>1, <2>4, <3>2, <3>3, <3>5, <3>7
  <2>5. CASE v = t /\ q # s
    <3>1. y = [tally[t] EXCEPT !.stolen = lost]
      BY <2>1, <2>5
    <3>2. tally'[t] = y /\ dropped'[t] = 0
      BY <1>1, <1>2, <1>3 DEF StreamTypes
    <3>3. /\ tally'[t].offered = tally[t].offered /\ tally'[t].popped = tally[t].popped
          /\ tally'[t].reported = tally[t].reported /\ tally'[t].stolen = lost
      BY <1>4, <3>1, <3>2 DEF Tallies
    <3>4. ~tally[t].stolen /\ ~(dropped[t] > 0)
      BY <2>5, <3>3 DEF lost
    <3>5. dropped[t] = 0
      BY <1>4, <3>4
    <3>6. tally[t].offered = tally[t].popped + Len(pending[t]) + dropped[t]
                               + tally[t].reported + se[q].dropped
      BY <2>1, <2>5, <3>4 DEF StreamsInv, LossAccounted
    <3>7. se'[q] = se[q]
      BY <1>10, <2>5
    <3> QED BY <2>1, <2>5, <3>2, <3>3, <3>5, <3>6, <3>7
  <2> QED BY <2>3, <2>4, <2>5
<1> QED BY <1>10, <1>12, <1>13, <1>14 DEF StreamsInv

\* A stream nobody has starts with a replay of its ring, kept or counted.
LEMMA StartKeeps ==
    ASSUME StreamsInv, NEW s \in Sessions, NEW t \in Types, StreamStart(s, t)
    PROVE  StreamsInv'
<1>1. /\ TypeOK /\ StreamTypes /\ OtherTypes' /\ active' = active /\ acc' = acc /\ active \in Nat
      /\ se[s].pc = "requests" /\ se[s] \in Running /\ se \in [Sessions -> Locals]
      /\ se[s].current => se[s].frames # << >>
  BY RequestFacts DEF StreamStart
<1>2. CASE Stream(s) # None \/ ~canStart(s, t)
  BY <1>2, AnswerKeeps DEF StreamStart
<1>3. CASE ~(Stream(s) # None \/ ~canStart(s, t))
  <2> DEFINE x == [se[s] EXCEPT !.pc = "respond", !.answer = "start", !.stream = t,
                                !.dropped = 0, !.suppressed = 0]
  <2>1. Stream(s) = None /\ sub[t] \in {None, s}
    BY <1>3 DEF canStart
  <2>2. \A v \in Types : sub[v] # s
    BY <2>1, ControlStreamsAssumption DEF StreamsInv, OwnerInv
  <2>3. se' = [se EXCEPT ![s] = x]
    BY <1>1, <1>3 DEF StreamStart
  <2>4. /\ x \in Running /\ x.pc = "respond" /\ x.answer = "start" /\ x.stream = t /\ x.dropped = 0
        /\ x.frames = se[s].frames /\ x.current = se[s].current
    BY <1>1 DEF Running
  <2> HIDE DEF x
  <2>5. Moves(s, x)
    BY <1>1, <2>3, <2>4 DEF Moves
  <2>6. /\ se' \in [Sessions -> Locals] /\ se'[s] = x /\ x.pc \notin {"gone", "release"}
        /\ \A q \in Sessions : q # s => se'[q] = se[q]
        /\ PlaceInv' /\ BudgetKept'
    BY <1>1, <2>5, MovesFacts
  <2>7. /\ StreamTypes' /\ sub' = [sub EXCEPT ![t] = s]
        /\ \A v \in Queued : v # t => /\ pending'[v] = pending[v] /\ dropped'[v] = dropped[v]
                                      /\ tally'[v] = tally[v]
        /\ t \in Queued => /\ Len(pending'[t]) <= MaxPending
                           /\ tally'[t].offered = tally'[t].popped + Len(pending'[t]) + dropped'[t]
                                                    + tally'[t].reported + 0
    <3>1. CASE t = "activity"
      <4>1. startActivity(s)
        BY <1>3, <3>1 DEF StreamStart
      <4>2. <<MaxEvents - left.events>> \in Seq(Nat)
        <5>1. left.events \in 0..MaxEvents /\ MaxEvents \in Nat
          BY <1>1, ControlStreamsAssumption DEF TypeOK, Bounds
        <5>2. MaxEvents - left.events \in Nat
          BY <5>1
        <5> QED BY <5>2
      <4>3. t \notin Queued
        BY <3>1, ControlStreamsAssumption
      <4>4. StreamTypes'
        BY <1>1, <3>1, <4>1, <4>2 DEF startActivity, StreamTypes
      <4>5. \A v \in Queued : pending'[v] = pending[v] /\ dropped'[v] = dropped[v] /\ tally'[v] = tally[v]
        BY <1>1, <3>1, <4>1, <4>3 DEF startActivity, StreamTypes
      <4> QED BY <3>1, <4>1, <4>3, <4>4, <4>5 DEF startActivity
    <3>2. CASE t # "activity"
      <4>1. PICK m \in MinSizes, h \in 1..(Len(ring[t]) + 1) : start(s, t, h, m)
        BY <1>3, <3>2 DEF StreamStart
      <4> DEFINE i == replayStartIndexForUnion(ring[t], h, clampMinSize(m))
                 kept == SubSeq(ring[t], i, Len(ring[t]))
                 n == Len(kept)
                 r == Replay(kept)
                 y == [NoTally EXCEPT !.offered = n]
      <4>2. /\ sub' = [sub EXCEPT ![t] = s] /\ pending' = [pending EXCEPT ![t] = r.q]
            /\ dropped' = [dropped EXCEPT ![t] = r.d] /\ suppressed' = [suppressed EXCEPT ![t] = 0]
            /\ tally' = [tally EXCEPT ![t] = y] /\ UNCHANGED ring
        BY <4>1 DEF start
      <4>3. ring[t] \in Seq(Nat) /\ Len(ring[t]) \in Nat
        BY <1>1 DEF StreamTypes
      <4>4. i \in 1..(Len(ring[t]) + 1)
        <5>1. m \in Nat /\ MaxRing \in Nat
          BY ControlStreamsAssumption
        <5>2. clampMinSize(m) \in Nat
          BY <5>1 DEF clampMinSize
        <5> DEFINE size == clampMinSize(m)
                   len == Len(ring[t])
        <5>3. i = IF (IF size >= len THEN 1 ELSE len - size + 1) < h
                  THEN (IF size >= len THEN 1 ELSE len - size + 1) ELSE h
          BY DEF replayStartIndexForUnion
        <5>4. size \in Nat /\ len \in Nat /\ h \in 1..(len + 1)
          BY <4>3, <5>2
        <5> SUFFICES i \in 1..(len + 1)
          OBVIOUS
        <5> HIDE DEF i, size, len
        <5> QED BY <5>3, <5>4
      <4> HIDE DEF i
      <4>5. kept \in Seq(Nat)
        BY <4>3, <4>4
      <4> HIDE DEF kept
      <4>6. /\ r.q \in Seq(Nat) /\ r.d \in Nat /\ Len(r.q) + r.d = n /\ Len(r.q) <= MaxPending
            /\ n \in Nat /\ Len(r.q) \in Nat
        <5>1. n \in Nat
          BY <4>5
        <5>2. /\ r.q \in Seq(Nat) /\ r.d \in Nat /\ Len(r.q) + r.d = n /\ Len(r.q) <= MaxPending
          BY <4>5, ReplayFacts
        <5> HIDE DEF r, n
        <5> QED BY <5>1, <5>2
      <4> HIDE DEF r, n
      <4>7. y \in Tallies /\ y.offered = n /\ y.popped = 0 /\ y.reported = 0
        <5>1. NoTally \in Tallies /\ NoTally.popped = 0 /\ NoTally.reported = 0
          BY DEF NoTally, Tallies
        <5> HIDE DEF NoTally
        <5> QED BY <4>6, <5>1 DEF Tallies
      <4> HIDE DEF y
      <4>8. StreamTypes'
        BY <1>1, <4>2, <4>6, <4>7 DEF StreamTypes
      <4>9. /\ pending'[t] = r.q /\ dropped'[t] = r.d /\ tally'[t] = y
            /\ \A v \in Types : v # t => /\ pending'[v] = pending[v] /\ dropped'[v] = dropped[v]
                                         /\ tally'[v] = tally[v]
        BY <1>1, <4>2 DEF StreamTypes
      <4>10. y.offered = y.popped + Len(r.q) + r.d + y.reported + 0
        <5> DEFINE l == Len(r.q)
                   c == r.d
        <5>1. l \in Nat /\ c \in Nat /\ l + c = n
          BY <4>6
        <5>2. n = 0 + l + c + 0 + 0
          <6> HIDE DEF l, c
          <6> QED BY <4>6, <5>1
        <5> QED BY <4>7, <5>2
      <4> QED BY <4>2, <4>6, <4>8, <4>9, <4>10 DEF Types
    <3> QED BY <3>1, <3>2
  <2>8. TypeOK'
    BY <1>1, <2>6, <2>7, TypePartsNext
  <2>9. sub \in [Types -> Sessions \cup {None}]
    BY <1>1 DEF StreamTypes
  <2>10. /\ sub'[t] = s
         /\ \A v \in Types : v # t => sub'[v] = sub[v]
    BY <2>7, <2>9
  <2>11. OwnerInv'
    BY <2>2, <2>4, <2>6, <2>10 DEF StreamsInv, OwnerInv, Over, Stream
  <2>12. QueueInv'
    BY <2>7 DEF StreamsInv, QueueInv
  <2>13. LossAccounted'
    <3> SUFFICES ASSUME NEW v \in Queued, NEW q \in Sessions, sub'[v] = q, ~tally'[v].stolen
                 PROVE  tally'[v].offered = tally'[v].popped + Len(pending'[v]) + dropped'[v]
                                              + tally'[v].reported + se'[q].dropped
      BY DEF LossAccounted
    <3>1. CASE v # t
      <4>1. v \in Types /\ sub[v] = q /\ q # s
        BY <2>2, <2>10, <3>1 DEF Types
      <4>2. /\ se'[q] = se[q] /\ pending'[v] = pending[v] /\ dropped'[v] = dropped[v]
            /\ tally'[v] = tally[v]
        BY <2>6, <2>7, <3>1, <4>1
      <4> QED BY <4>1, <4>2 DEF StreamsInv, LossAccounted
    <3>2. CASE v = t
      BY <2>4, <2>6, <2>7, <2>10, <3>2
    <3> QED BY <3>1, <3>2
  <2> QED BY <2>6, <2>8, <2>11, <2>12, <2>13 DEF StreamsInv
<1> QED BY <1>2, <1>3

LEMMA OtherKeeps == ASSUME StreamsInv, NEW s \in Sessions, OtherCommand(s) PROVE StreamsInv'
<1>1. PICK answer \in {"ok", "quit", "error"} : Answer(s, answer)
  BY DEF OtherCommand
<1> QED BY <1>1, AnswerKeeps DEF OtherCommand

-----------------------------------------------------------------------------
(* The theorems. *)

LEMMA StreamsInit == Init => StreamsInv
<1> SUFFICES ASSUME Init PROVE StreamsInv
  OBVIOUS
<1>1. TypeOK
  <2>1. StreamTypes
    <3>1. NoTally \in Tallies
      BY DEF NoTally, Tallies
    <3>2. << >> \in Seq(Nat)
      OBVIOUS
    <3> QED BY <3>1, <3>2 DEF Init, StreamTypes
  <2>2. OtherTypes
    <3>1. left \in Bounds
      BY ControlStreamsAssumption DEF Init, Bounds, Types
    <3>2. << >> \in Seq(Frames)
      OBVIOUS
    <3> QED BY <3>1, <3>2 DEF Init, OtherTypes
  <2>3. se \in [Sessions -> Locals] /\ active \in Nat
    BY DEF Init, Locals
  <2> QED BY <2>1, <2>2, <2>3, TypeParts
<1>2. \A s \in Sessions : se[s].pc = "gone"
  BY DEF Init, Gone
<1>3. \A t \in Types : sub[t] = None /\ pending[t] = << >>
  BY DEF Init
<1>4. QueueInv
  <2>1. Len(<< >>) <= MaxPending
    BY ControlStreamsAssumption
  <2> QED BY <1>3, <2>1 DEF QueueInv, Types
<1>5. PlaceInv
  BY <1>2 DEF PlaceInv, At, Over
<1>6. OwnerInv /\ LossAccounted
  BY <1>3, ControlStreamsAssumption DEF OwnerInv, LossAccounted, Types
<1>7. BudgetKept
  <2>1. {s \in Sessions : se[s].pc # "gone"} = {} /\ {a \in Acceptors : acc[a].pc = "spawn"} = {}
    BY <1>2 DEF Init
  <2>2. active = 0 /\ active <= Limit
    BY ControlStreamsAssumption DEF Init
  <2>3. Cardinality({}) = 0
    BY FS_EmptySet
  <2>4. active = Cardinality({}) + Cardinality({})
    BY <2>2, <2>3
  <2> QED BY <2>1, <2>2, <2>4 DEF BudgetKept
<1> QED BY <1>1, <1>4, <1>5, <1>6, <1>7 DEF StreamsInv

\* The invariant of the sessions and the streams holds whatever the accept
\* loops, the session threads, their clients and the observers do.
\* (ControlVNextSession::run, ControlVNextStreamManager, snortTryAcquireSessionBudget.)
THEOREM StreamsInvariant == Spec => []StreamsInv
<1>1. StreamsInv /\ [Next]_vars => StreamsInv'
  <2> SUFFICES ASSUME StreamsInv, [Next]_vars PROVE StreamsInv'
    OBVIOUS
  <2>1. CASE \E a \in Acceptors : Accept(a) \/ CasBudget(a) \/ \E s \in Sessions : Spawn(a, s)
    BY <2>1, AcceptKeeps, CasBudgetKeeps, SpawnKeeps
  <2>2. CASE snortRequestShutdown
    BY <2>2, SignalKeeps
  <2>3. CASE \E t \in Queued : observeTracked(t) \/ observeSuppressed(t) \/ CountSuppressed(t)
    BY <2>3, TrackedKeeps, SuppressedKeeps
  <2>4. CASE observeBlockEnabled
    BY <2>4, BlockEnabledKeeps
  <2>5. ASSUME NEW s \in Sessions, Work(s) PROVE StreamsInv'
    <3>1. CASE Respond(s)
      BY <3>1, RespondKeeps
    <3>2. CASE Started(s) \/ Check(s) \/ Loop(s)
      BY <3>2, LoopKeeps
    <3>3. CASE \E due \in BOOLEAN : Take(s, due)
      BY <3>3, TakeKeeps
    <3>4. CASE Drain(s)
      BY <3>4, DrainKeeps
    <3>5. CASE \E k \in 0..(MaxQueued + 2) : Flush(s, k)
      BY <3>5, FlushKeeps
    <3>6. CASE End(s)
      BY <3>6, EndKeeps
    <3>7. CASE ReleaseBudget(s)
      BY <3>7, ReleaseBudgetKeeps
    <3> QED BY <2>5, <3>1, <3>2, <3>3, <3>4, <3>5, <3>6, <3>7 DEF Work
  <2>6. ASSUME NEW s \in Sessions, Client(s) PROVE StreamsInv'
    <3>1. CASE \E t \in Types : StreamStart(s, t)
      BY <3>1, StartKeeps
    <3>2. CASE StreamStop(s)
      BY <3>2, StopKeeps
    <3>3. CASE OtherCommand(s)
      BY <3>3, OtherKeeps
    <3>4. CASE ResetCommand(s)
      BY <3>4, ResetKeeps
    <3>5. CASE flushBlockingFails(s) \/ enqueueDocFails(s) \/ DeadlineMissed(s) \/ PollEnds(s)
      BY <3>5, LoopKeeps
    <3> QED BY <2>6, <3>1, <3>2, <3>3, <3>4, <3>5 DEF Client
  <2>7. CASE UNCHANGED vars
    <3>1. UNCHANGED <<sub, ring, pending, dropped, suppressed, tally, se, active, acc>>
      BY <2>7 DEF vars, streamVars
    <3>2. StreamTypes /\ OtherTypes /\ active \in Nat
      BY TypeParts DEF StreamsInv
    <3>3. OtherTypes' /\ active' \in Nat /\ suppressed' \in [Types -> Nat]
      BY <2>7, <3>1, <3>2 DEF OtherTypes, StreamTypes, vars
    <3>4. BudgetKept'
      BY <3>1 DEF StreamsInv, BudgetKept
    <3> QED BY <3>1, <3>3, <3>4, QuietStep
  <2> QED BY <2>1, <2>2, <2>3, <2>4, <2>5, <2>6, <2>7 DEF Next
<1> QED BY <1>1, StreamsInit, PTL DEF Spec

\* Every variable keeps its type, and only a session whose loop runs has locals.
THEOREM StreamTypesHold == Spec => []TypeOK
<1>1. StreamsInv => TypeOK
  BY DEF StreamsInv
<1> QED BY <1>1, StreamsInvariant, PTL

\* The count of active sessions is exactly the sessions that live and the tokens
\* on their way to one, and never exceeds the limit, whatever accept loops race.
\* (snortTryAcquireSessionBudget, the budget token's destructor.)
THEOREM BudgetIsKept == Spec => []BudgetKept
<1>1. StreamsInv => BudgetKept
  BY DEF StreamsInv
<1> QED BY <1>1, StreamsInvariant, PTL

\* Every event offered to a subscriber was handed to its writer, waits, or is
\* counted as dropped, unless a session that had lost the stream took the count.
\* (ControlVNextStreamManager::observe, pop and take.)
THEOREM LossesAccounted == Spec => []LossAccounted
<1>1. StreamsInv => LossAccounted
  BY DEF StreamsInv
<1> QED BY <1>1, StreamsInvariant, PTL

-----------------------------------------------------------------------------
(* What a client reads: sequences of frames. *)

\* What a session wrote or has queued.
IsEvent(f, t) == f.kind = "event" /\ f.type = t
Framed(q) ==
  \A i \in DOMAIN q : q[i].kind \in {"started", "event", "dropped", "suppressed"} => InStream(q, i)
Ordered(q) ==
  \A t \in Queued : \A i, j \in DOMAIN q :
    i < j /\ IsEvent(q[i], t) /\ IsEvent(q[j], t) => q[i].n < q[j].n
Past(q, now) == \A t \in Queued : \A i \in DOMAIN q : IsEvent(q[i], t) => q[i].n <= now
Sound(q, now) == Framed(q) /\ Ordered(q) /\ Past(q, now)

\* The stream's START response and started notice are there, and nothing ended it.
Opened(q, t) ==
  \E j \in 1..(Len(q) - 1) :
    /\ q[j].kind = "start" /\ q[j].type = t /\ q[j + 1].kind = "started"
    /\ \A k \in (j + 1)..Len(q) : q[k].kind \notin {"start", "stop"}
LastStarts(q, t) == q # << >> /\ q[Len(q)].kind = "start" /\ q[Len(q)].type = t

LEMMA SoundPrefix ==
    ASSUME NEW q \in Seq(Frames), NEW k \in 0..Len(q), NEW now, Sound(q, now)
    PROVE  Sound(SubSeq(q, 1, k), now)
<1> DEFINE p == SubSeq(q, 1, k)
<1>1. p \in Seq(Frames) /\ Len(p) = k /\ DOMAIN p = 1..k /\ \A i \in 1..k : p[i] = q[i]
  OBVIOUS
<1>2. DOMAIN q = 1..Len(q) /\ Len(q) \in Nat /\ k \in Nat
  OBVIOUS
<1> HIDE DEF p
<1>3. Framed(p)
  <2> SUFFICES ASSUME NEW i \in 1..k, p[i].kind \in {"started", "event", "dropped", "suppressed"}
               PROVE  InStream(p, i)
    BY <1>1 DEF Framed
  <2>1. InStream(q, i)
    BY <1>1, <1>2 DEF Sound, Framed
  <2> QED BY <1>1, <1>2, <2>1 DEF InStream
<1>4. Ordered(p)
  BY <1>1, <1>2 DEF Sound, Ordered
<1>5. Past(p, now)
  BY <1>1, <1>2 DEF Sound, Past
<1> QED BY <1>3, <1>4, <1>5 DEF Sound, p

LEMMA SoundAppend ==
    ASSUME NEW q \in Seq(Frames), NEW f \in Frames, NEW now \in Nat, Sound(q, now),
           f.kind = "started" => LastStarts(q, f.type),
           f.kind \in {"event", "dropped", "suppressed"} => Opened(q, f.type),
           f.kind = "event" /\ f.type \in Queued =>
             f.n <= now /\ \A i \in DOMAIN q : IsEvent(q[i], f.type) => q[i].n < f.n
    PROVE  Append(q, f) \in Seq(Frames) /\ Sound(Append(q, f), now)
<1> DEFINE p == Append(q, f)
           n == Len(q)
<1>1. /\ p \in Seq(Frames) /\ DOMAIN p = 1..(n + 1) /\ p[n + 1] = f /\ \A i \in 1..n : p[i] = q[i]
      /\ DOMAIN q = 1..n /\ n \in Nat
  OBVIOUS
<1> HIDE DEF p
<1>2. Framed(p)
  <2> SUFFICES ASSUME NEW i \in 1..(n + 1), p[i].kind \in {"started", "event", "dropped", "suppressed"}
               PROVE  InStream(p, i)
    BY <1>1 DEF Framed
  <2>1. CASE i \in 1..n
    <3>1. InStream(q, i)
      BY <1>1, <2>1 DEF Sound, Framed
    <3> HIDE DEF n
    <3> QED BY <1>1, <2>1, <3>1 DEF InStream
  <2>2. CASE i = n + 1 /\ f.kind = "started"
    <3>1. q # << >> /\ q[n].kind = "start" /\ q[n].type = f.type
      BY <2>2 DEF LastStarts
    <3>2. n \in 1..n
      BY <1>1, <3>1
    <3> HIDE DEF n
    <3>3. p[n].kind = "start" /\ p[n].type = p[i].type /\ p[n + 1].kind = "started"
      BY <1>1, <2>2, <3>1, <3>2
    <3>4. \A k \in (n + 1)..i : p[k].kind \notin {"start", "stop"}
      BY <1>1, <2>2
    <3>5. n \in 1..(i - 1)
      BY <2>2, <3>2, <1>1
    <3> QED BY <3>3, <3>4, <3>5 DEF InStream
  <2>3. CASE i = n + 1 /\ f.kind # "started"
    <3>1. Opened(q, f.type)
      BY <1>1, <2>3
    <3>2. PICK j \in 1..(n - 1) :
            /\ q[j].kind = "start" /\ q[j].type = f.type /\ q[j + 1].kind = "started"
            /\ \A k \in (j + 1)..n : q[k].kind \notin {"start", "stop"}
      BY <3>1 DEF Opened
    <3> HIDE DEF n
    <3>3. j \in 1..(i - 1) /\ j \in 1..n /\ j + 1 \in 1..n
      BY <1>1, <2>3
    <3>4. \A k \in (j + 1)..i : p[k].kind \notin {"start", "stop"}
      <4> SUFFICES ASSUME NEW k \in (j + 1)..i PROVE p[k].kind \notin {"start", "stop"}
        OBVIOUS
      <4>1. CASE k = n + 1
        BY <1>1, <2>3, <4>1
      <4>2. CASE k # n + 1
        <5>1. k \in (j + 1)..n /\ k \in 1..n
          BY <1>1, <2>3, <3>3, <4>2
        <5> QED BY <1>1, <3>2, <5>1
      <4> QED BY <4>1, <4>2
    <3>5. p[j].kind = "start" /\ p[j].type = p[i].type /\ p[j + 1].kind = "started"
      BY <1>1, <2>3, <3>2, <3>3
    <3> QED BY <3>3, <3>4, <3>5 DEF InStream
  <2> QED BY <1>1, <2>1, <2>2, <2>3
<1>3. Ordered(p)
  <2> SUFFICES ASSUME NEW t \in Queued, NEW i \in 1..(n + 1), NEW j \in 1..(n + 1),
                      i < j, IsEvent(p[i], t), IsEvent(p[j], t)
               PROVE  p[i].n < p[j].n
    BY <1>1 DEF Ordered
  <2>1. i \in 1..n
    BY <1>1
  <2>2. CASE j \in 1..n
    BY <1>1, <2>1, <2>2 DEF Sound, Ordered
  <2>3. CASE j = n + 1
    <3>1. f.kind = "event" /\ f.type = t /\ IsEvent(q[i], f.type)
      BY <1>1, <2>1, <2>3 DEF IsEvent
    <3> QED BY <1>1, <2>1, <2>3, <3>1
  <2> QED BY <1>1, <2>2, <2>3
<1>4. Past(p, now)
  <2> SUFFICES ASSUME NEW t \in Queued, NEW i \in 1..(n + 1), IsEvent(p[i], t)
               PROVE  p[i].n <= now
    BY <1>1 DEF Past
  <2>1. CASE i \in 1..n
    BY <1>1, <2>1 DEF Sound, Past
  <2>2. CASE i = n + 1
    BY <1>1, <2>2 DEF IsEvent
  <2> QED BY <1>1, <2>1, <2>2
<1> QED BY <1>1, <1>2, <1>3, <1>4 DEF Sound, p

LEMMA OpenedAppend ==
    ASSUME NEW q \in Seq(Frames), NEW f \in Frames, NEW t
    PROVE  /\ Opened(q, t) /\ f.kind \notin {"start", "stop"} => Opened(Append(q, f), t)
           /\ LastStarts(q, t) /\ f.kind = "started" => Opened(Append(q, f), t)
<1> DEFINE p == Append(q, f)
           n == Len(q)
<1>1. /\ Len(p) = n + 1 /\ p[n + 1] = f /\ \A i \in 1..n : p[i] = q[i] /\ n \in Nat
  OBVIOUS
<1>0. n \in Nat
  OBVIOUS
<1> HIDE DEF p
<1>2. ASSUME Opened(q, t), f.kind \notin {"start", "stop"} PROVE Opened(p, t)
  <2>1. PICK j \in 1..(n - 1) :
            /\ q[j].kind = "start" /\ q[j].type = t /\ q[j + 1].kind = "started"
            /\ \A k \in (j + 1)..n : q[k].kind \notin {"start", "stop"}
    BY <1>2 DEF Opened
  <2> HIDE DEF n
  <2>2. j \in 1..n /\ j + 1 \in 1..n /\ j \in 1..(Len(p) - 1)
    BY <1>0, <1>1
  <2>3. \A k \in (j + 1)..Len(p) : p[k].kind \notin {"start", "stop"}
    <3> SUFFICES ASSUME NEW k \in (j + 1)..(n + 1) PROVE p[k].kind \notin {"start", "stop"}
      BY <1>1
    <3>1. CASE k = n + 1
      BY <1>1, <1>2, <3>1
    <3>2. CASE k # n + 1
      <4>1. k \in (j + 1)..n /\ k \in 1..n
        BY <1>0, <2>2, <3>2
      <4> QED BY <1>1, <2>1, <4>1
    <3> QED BY <3>1, <3>2
  <2>4. p[j].kind = "start" /\ p[j].type = t /\ p[j + 1].kind = "started"
    BY <1>1, <2>1, <2>2
  <2> QED BY <2>2, <2>3, <2>4 DEF Opened
<1>3. ASSUME LastStarts(q, t), f.kind = "started" PROVE Opened(p, t)
  <2>1. q # << >> /\ q[n].kind = "start" /\ q[n].type = t
    BY <1>3 DEF LastStarts
  <2>2. n \in 1..n
    BY <1>0, <2>1
  <2> HIDE DEF n
  <2>3. p[n].kind = "start" /\ p[n].type = t /\ p[n + 1].kind = "started"
    BY <1>1, <1>3, <2>1, <2>2
  <2>4. n \in 1..(Len(p) - 1) /\ \A k \in (n + 1)..Len(p) : p[k].kind \notin {"start", "stop"}
    BY <1>0, <1>1, <1>3, <2>2
  <2> QED BY <2>3, <2>4 DEF Opened
<1> QED BY <1>2, <1>3 DEF p

Rising(e) == \A i, j \in DOMAIN e : i < j => e[i] < e[j]
UpTo(e, now) == \A i \in DOMAIN e : e[i] <= now
After(q, t, e) == \A i \in DOMAIN q : IsEvent(q[i], t) => \A j \in DOMAIN e : q[i].n < e[j]

\* p is what is left of e without its first events.
Suffix(p, e) == \E c \in Nat : Len(p) + c = Len(e) /\ \A i \in 1..Len(p) : p[i] = e[i + c]

LEMMA SuffixKeeps ==
    ASSUME NEW e \in Seq(Nat), NEW p \in Seq(Nat), Suffix(p, e)
    PROVE  /\ Rising(e) => Rising(p)
           /\ \A now \in Nat : UpTo(e, now) => UpTo(p, now)
           /\ \A t \in Queued : \A q \in Seq(Frames) : After(q, t, e) => After(q, t, p)
<1>1. PICK c \in Nat : Len(p) + c = Len(e) /\ \A i \in 1..Len(p) : p[i] = e[i + c]
  BY DEF Suffix
<1>2. \A i \in 1..Len(p) : i + c \in 1..Len(e)
  BY <1>1
<1>3. DOMAIN e = 1..Len(e) /\ DOMAIN p = 1..Len(p)
  OBVIOUS
<1>4. Rising(e) => Rising(p)
  <2> SUFFICES ASSUME Rising(e), NEW i \in 1..Len(p), NEW j \in 1..Len(p), i < j
               PROVE  p[i] < p[j]
    BY <1>3 DEF Rising
  <2>1. i + c \in DOMAIN e /\ j + c \in DOMAIN e /\ i + c < j + c
    BY <1>2, <1>3
  <2>2. e[i + c] < e[j + c]
    BY <2>1 DEF Rising
  <2> QED BY <1>1, <2>2
<1>5. \A now \in Nat : UpTo(e, now) => UpTo(p, now)
  BY <1>1, <1>2, <1>3 DEF UpTo
<1>6. \A t \in Queued : \A q \in Seq(Frames) : After(q, t, e) => After(q, t, p)
  BY <1>1, <1>2, <1>3 DEF After
<1> QED BY <1>4, <1>5, <1>6

LEMMA SuffixFacts ==
    ASSUME NEW e \in Seq(Nat)
    PROVE  /\ \A n \in Nat : Suffix(LastN(e, n), e)
           /\ \A i \in 1..(Len(e) + 1) : Suffix(SubSeq(e, i, Len(e)), e)
           /\ e # << >> => Suffix(Tail(e), e)
<1>1. \A i \in 1..(Len(e) + 1) : Suffix(SubSeq(e, i, Len(e)), e)
  <2> SUFFICES ASSUME NEW i \in 1..(Len(e) + 1) PROVE Suffix(SubSeq(e, i, Len(e)), e)
    OBVIOUS
  <2>1. i - 1 \in Nat /\ Len(SubSeq(e, i, Len(e))) + (i - 1) = Len(e)
    OBVIOUS
  <2>2. \A k \in 1..Len(SubSeq(e, i, Len(e))) : SubSeq(e, i, Len(e))[k] = e[k + (i - 1)]
    OBVIOUS
  <2> QED BY <2>1, <2>2 DEF Suffix
<1>2. \A n \in Nat : Suffix(LastN(e, n), e)
  <2> SUFFICES ASSUME NEW n \in Nat PROVE Suffix(LastN(e, n), e)
    OBVIOUS
  <2>1. CASE Len(e) <= n
    <3>1. LastN(e, n) = e
      BY <2>1 DEF LastN
    <3>2. Len(e) + 0 = Len(e) /\ \A i \in 1..Len(e) : e[i] = e[i + 0]
      OBVIOUS
    <3> QED BY <3>1, <3>2 DEF Suffix
  <2>2. CASE ~(Len(e) <= n)
    <3>1. Len(e) - n + 1 \in 1..(Len(e) + 1)
      BY <2>2
    <3>2. LastN(e, n) = SubSeq(e, Len(e) - n + 1, Len(e))
      BY <2>2 DEF LastN
    <3> QED BY <1>1, <3>1, <3>2
  <2> QED BY <2>1, <2>2
<1>3. e # << >> => Suffix(Tail(e), e)
  <2> SUFFICES ASSUME e # << >> PROVE Suffix(Tail(e), e)
    OBVIOUS
  <2>1. Len(Tail(e)) + 1 = Len(e) /\ \A k \in 1..Len(Tail(e)) : Tail(e)[k] = e[k + 1]
    OBVIOUS
  <2> QED BY <2>1 DEF Suffix
<1> QED BY <1>1, <1>2, <1>3

\* An event that is newer than all.
LEMMA NewEvent ==
    ASSUME NEW e \in Seq(Nat), NEW now \in Nat, UpTo(e, now)
    PROVE  /\ Append(e, now + 1) \in Seq(Nat)
           /\ UpTo(Append(e, now + 1), now + 1)
           /\ Rising(e) => Rising(Append(e, now + 1))
           /\ \A t \in Queued : \A q \in Seq(Frames) :
                After(q, t, e) /\ Past(q, now) => After(q, t, Append(e, now + 1))
<1> DEFINE p == Append(e, now + 1)
           n == Len(e)
<1>1. /\ p \in Seq(Nat) /\ DOMAIN p = 1..(n + 1) /\ p[n + 1] = now + 1
      /\ \A i \in 1..n : p[i] = e[i] /\ e[i] \in Nat
      /\ DOMAIN e = 1..n /\ n \in Nat
  OBVIOUS
<1> HIDE DEF p, n
<1>2. UpTo(p, now + 1)
  BY <1>1 DEF UpTo
<1>3. Rising(e) => Rising(p)
  <2> SUFFICES ASSUME Rising(e), NEW i \in 1..(n + 1), NEW j \in 1..(n + 1), i < j PROVE p[i] < p[j]
    BY <1>1 DEF Rising
  <2>1. i \in 1..n /\ p[i] = e[i] /\ e[i] \in Nat /\ e[i] <= now
    <3>1. i \in 1..n
      BY <1>1
    <3> QED BY <1>1, <3>1 DEF UpTo
  <2>2. CASE j = n + 1
    BY <1>1, <2>1, <2>2
  <2>3. CASE j # n + 1
    <3>1. j \in 1..n /\ p[j] = e[j]
      BY <1>1, <2>3
    <3> QED BY <1>1, <2>1, <3>1 DEF Rising
  <2> QED BY <2>2, <2>3
<1>4. ASSUME NEW t \in Queued, NEW q \in Seq(Frames), After(q, t, e), Past(q, now)
      PROVE  After(q, t, p)
  <2> SUFFICES ASSUME NEW i \in DOMAIN q, IsEvent(q[i], t), NEW j \in 1..(n + 1)
               PROVE  q[i].n < p[j]
    BY <1>1 DEF After
  <2>1. q[i].n \in Nat /\ q[i].n <= now
    <3>1. q[i] \in Frames
      OBVIOUS
    <3>2. q[i].n \in Nat
      BY <3>1 DEF Frames
    <3> QED BY <1>4, <3>2 DEF Past
  <2>2. CASE j \in 1..n
    BY <1>1, <1>4, <2>2 DEF After
  <2>3. CASE j = n + 1
    BY <1>1, <2>1, <2>3
  <2> QED BY <1>1, <2>2, <2>3
<1> QED BY <1>1, <1>2, <1>3, <1>4 DEF p

LEMMA AfterAppend ==
    ASSUME NEW q \in Seq(Frames), NEW f \in Frames, NEW t \in Queued, NEW e \in Seq(Nat), After(q, t, e),
           IsEvent(f, t) => \A j \in DOMAIN e : f.n < e[j]
    PROVE  After(Append(q, f), t, e)
<1> DEFINE p == Append(q, f)
           n == Len(q)
<1>1. DOMAIN p = 1..(n + 1) /\ p[n + 1] = f /\ (\A i \in 1..n : p[i] = q[i]) /\ DOMAIN q = 1..n /\ n \in Nat
  OBVIOUS
<1> HIDE DEF p, n
<1>2. After(p, t, e)
  <2> SUFFICES ASSUME NEW i \in 1..(n + 1), IsEvent(p[i], t) PROVE \A j \in DOMAIN e : p[i].n < e[j]
    BY <1>1 DEF After
  <2>1. CASE i \in 1..n
    BY <1>1, <2>1 DEF After
  <2>2. CASE i = n + 1
    BY <1>1, <2>2
  <2> QED BY <1>1, <2>1, <2>2
<1> QED BY <1>2 DEF p

LEMMA AfterPrefix ==
    ASSUME NEW q \in Seq(Frames), NEW k \in 0..Len(q), NEW t, NEW e, After(q, t, e)
    PROVE  After(SubSeq(q, 1, k), t, e)
<1>1. DOMAIN SubSeq(q, 1, k) = 1..k /\ \A i \in 1..k : SubSeq(q, 1, k)[i] = q[i] /\ i \in DOMAIN q
  OBVIOUS
<1> QED BY <1>1 DEF After

\* What is written and what is queued, put together.
LEMMA SplitFrames ==
    ASSUME NEW q \in Seq(Frames), NEW f \in Seq(Frames), NEW k \in 0..Len(f)
    PROVE  /\ (q \o SubSeq(f, 1, k)) \o SubSeq(f, k + 1, Len(f)) = q \o f
           /\ q \o SubSeq(f, 1, k) = SubSeq(q \o f, 1, Len(q) + k)
           /\ Len(q) + k \in 0..Len(q \o f)
<1> DEFINE a == SubSeq(f, 1, k)
           b == SubSeq(f, k + 1, Len(f))
<1>1. a \in Seq(Frames) /\ Len(a) = k /\ \A i \in 1..k : a[i] = f[i]
  OBVIOUS
<1>2. b \in Seq(Frames) /\ Len(b) = Len(f) - k /\ \A i \in 1..(Len(f) - k) : b[i] = f[i + k]
  OBVIOUS
<1>3. Len(q) \in Nat /\ Len(f) \in Nat /\ k \in Nat
  OBVIOUS
<1> HIDE DEF a, b
<1>4. /\ q \o a \in Seq(Frames) /\ Len(q \o a) = Len(q) + k
      /\ \A i \in 1..(Len(q) + k) : (q \o a)[i] = IF i <= Len(q) THEN q[i] ELSE a[i - Len(q)]
  BY <1>1
<1>5. /\ q \o f \in Seq(Frames) /\ Len(q \o f) = Len(q) + Len(f)
      /\ \A i \in 1..(Len(q) + Len(f)) : (q \o f)[i] = IF i <= Len(q) THEN q[i] ELSE f[i - Len(q)]
  OBVIOUS
<1> DEFINE c == q \o a
           d == q \o f
<1> HIDE DEF c, d
<1>6. c \o b = d
  <2>1. /\ c \o b \in Seq(Frames) /\ Len(c \o b) = Len(c) + Len(b)
        /\ \A i \in 1..(Len(c) + Len(b)) : (c \o b)[i] = IF i <= Len(c) THEN c[i] ELSE b[i - Len(c)]
    BY <1>2, <1>4 DEF c
  <2>2. Len(c \o b) = Len(d)
    BY <1>2, <1>3, <1>4, <1>5, <2>1 DEF c, d
  <2>3. ASSUME NEW i \in 1..Len(d) PROVE (c \o b)[i] = d[i]
    <3>1. Len(d) = Len(q) + Len(f) /\ Len(c) = Len(q) + k
      BY <1>4, <1>5 DEF c, d
    <3>2. d[i] = IF i <= Len(q) THEN q[i] ELSE f[i - Len(q)]
      BY <1>5, <3>1 DEF d
    <3>3. CASE i <= Len(q) + k
      <4>1. (c \o b)[i] = c[i] /\ i \in 1..(Len(q) + k)
        BY <1>2, <1>3, <2>1, <3>1, <3>3
      <4>2. c[i] = IF i <= Len(q) THEN q[i] ELSE a[i - Len(q)]
        BY <1>4, <4>1 DEF c
      <4>3. i > Len(q) => i - Len(q) \in 1..k
        BY <1>3, <3>1, <3>3
      <4>4. i > Len(q) => a[i - Len(q)] = f[i - Len(q)]
        BY <1>1, <4>3
      <4> QED BY <1>3, <3>2, <4>1, <4>2, <4>4
    <3>4. CASE ~(i <= Len(q) + k)
      <4>0. i \in 1..(Len(c) + Len(b)) /\ ~(i <= Len(c)) /\ i \in 1..(Len(q) + Len(f))
        BY <1>2, <1>3, <3>1, <3>4
      <4>1. (c \o b)[i] = b[i - Len(c)]
        BY <2>1, <4>0
      <4>2. i - Len(c) \in 1..(Len(f) - k)
        BY <1>3, <3>1, <3>4, <4>0
      <4>3. b[i - Len(c)] = f[(i - Len(c)) + k]
        BY <1>2, <4>2
      <4>4. (i - Len(c)) + k = i - Len(q) /\ ~(i <= Len(q))
        BY <1>3, <3>1, <3>4, <4>0
      <4> QED BY <3>2, <4>1, <4>3, <4>4
    <3> QED BY <3>3, <3>4
  <2>4. c \o b \in Seq(Frames) /\ d \in Seq(Frames)
    BY <1>5, <2>1 DEF d
  <2> HIDE DEF a, b
  <2> DEFINE g == c \o b
  <2> HIDE DEF g
  <2>5. g \in Seq(Frames) /\ d \in Seq(Frames) /\ Len(g) = Len(d) /\ \A i \in 1..Len(d) : g[i] = d[i]
    BY <2>2, <2>3, <2>4 DEF g
  <2>6. g = d
    BY <2>5
  <2> QED BY <2>6 DEF g
<1>7. c = SubSeq(d, 1, Len(q) + k) /\ Len(q) + k \in 0..Len(d)
  <2>1. Len(q) + k \in 0..Len(d)
    BY <1>3, <1>5 DEF d
  <2> DEFINE g == SubSeq(d, 1, Len(q) + k)
  <2>2. d \in Seq(Frames)
    BY <1>5 DEF d
  <2>3. g \in Seq(Frames) /\ Len(g) = Len(q) + k /\ \A i \in 1..(Len(q) + k) : g[i] = d[i]
    BY <2>1, <2>2
  <2>4. c \in Seq(Frames) /\ Len(c) = Len(q) + k
    BY <1>4 DEF c
  <2> HIDE DEF g
  <2>5. ASSUME NEW i \in 1..(Len(q) + k) PROVE c[i] = g[i]
    <3>1. g[i] = IF i <= Len(q) THEN q[i] ELSE f[i - Len(q)]
      BY <1>3, <1>5, <2>3 DEF d
    <3>2. c[i] = IF i <= Len(q) THEN q[i] ELSE a[i - Len(q)]
      BY <1>4 DEF c
    <3>3. i > Len(q) => i - Len(q) \in 1..k
      BY <1>3
    <3>4. i > Len(q) => a[i - Len(q)] = f[i - Len(q)]
      BY <1>1, <3>3
    <3> QED BY <1>3, <3>1, <3>2, <3>4
  <2>6. c = g
    BY <2>3, <2>4, <2>5
  <2> QED BY <2>1, <2>6 DEF g
<1> QED BY <1>6, <1>7 DEF a, b, c, d

-----------------------------------------------------------------------------
(* What a client reads: the invariant. *)

\* The events so far, and what a session wrote or has queued.
Now == MaxEvents - left.events
Sent(s) == IF Over(s) THEN out[s] ELSE out[s] \o se[s].frames

Starting(s) == At(s, "respond") /\ se[s].answer = "start"
Stopping(s) == At(s, "respond") /\ se[s].answer = "stop"

\* Where a session is tells what its client has of the stream it owns.
PlaceWire(s) ==
  se[s].pc \notin {"end", "release", "gone"} =>
    /\ Starting(s) \/ At(s, "started") => Stream(s) # None /\ se[s].frames = << >>
    /\ At(s, "started") => LastStarts(out[s], Stream(s))
    /\ Stopping(s) => Stream(s) = None
    /\ Stream(s) = None /\ ~Stopping(s) => se[s].frames = << >>
    /\ Stream(s) # None /\ ~Starting(s) /\ ~At(s, "started") => Opened(Sent(s), Stream(s))

WireOf(s) == Sound(Sent(s), Now) /\ PlaceWire(s)

\* What waits for the subscriber, or would be replayed to the next one, is in
\* order and newer than anything a session was sent.
EventsInv ==
  \A t \in Queued : /\ Rising(ring[t]) /\ Rising(pending[t])
                    /\ UpTo(ring[t], Now) /\ UpTo(pending[t], Now)
LinkOf(s, t) ==
  ~Over(s) => IF sub[t] = s THEN After(Sent(s), t, pending[t]) ELSE After(Sent(s), t, ring[t])

WireInv ==
  /\ EventsInv
  /\ \A s \in Sessions : WireOf(s) /\ \A t \in Queued : LinkOf(s, t)

LEMMA NowFacts ==
    ASSUME TypeOK
    PROVE  /\ Now \in Nat /\ MaxEvents \in Nat
           /\ \A t \in Queued : t \in Types /\ ring[t] \in Seq(Nat) /\ pending[t] \in Seq(Nat)
<1>1. left.events \in 0..MaxEvents /\ MaxEvents \in Nat
  BY ControlStreamsAssumption DEF TypeOK, Bounds
<1>2. Now \in Nat
  BY <1>1 DEF Now
<1> QED BY <1>1, <1>2 DEF TypeOK, Types

LEMMA SentFacts ==
    ASSUME TypeOK, NEW s \in Sessions
    PROVE  /\ Sent(s) \in Seq(Frames) /\ out[s] \in Seq(Frames)
           /\ ~Over(s) => se[s].frames \in Seq(Frames) /\ Sent(s) = out[s] \o se[s].frames
           /\ ~Over(s) => se[s] \in Running
<1>1. out[s] \in Seq(Frames)
  BY DEF TypeOK
<1>2. ~Over(s) => se[s].frames \in Seq(Frames) /\ se[s] \in Running
  BY RunningFacts DEF Over
<1>3. CASE Over(s)
  BY <1>1, <1>3 DEF Sent
<1>4. CASE ~Over(s)
  <2>1. Sent(s) = out[s] \o se[s].frames
    BY <1>4 DEF Sent
  <2>2. out[s] \o se[s].frames \in Seq(Frames)
    BY <1>1, <1>2, <1>4
  <2> QED BY <1>1, <1>2, <1>4, <2>1, <2>2
<1> QED BY <1>3, <1>4

\* Time goes by.
LEMMA PastLater ==
    ASSUME NEW q \in Seq(Frames), NEW now \in Nat, NEW later \in Nat, now <= later, Sound(q, now)
    PROVE  Sound(q, later)
<1> SUFFICES ASSUME NEW t \in Queued, NEW i \in DOMAIN q, IsEvent(q[i], t) PROVE q[i].n <= later
  BY DEF Sound, Past
<1>1. q[i] \in Frames
  OBVIOUS
<1>2. q[i].n \in Nat
  BY <1>1 DEF Frames
<1>3. q[i].n <= now
  BY DEF Sound, Past
<1> QED BY <1>2, <1>3

\* A session that takes no step.
LEMMA IdleWire ==
    ASSUME TypeOK, TypeOK', NEW s \in Sessions, se'[s] = se[s], out'[s] = out[s], Now <= Now', WireOf(s)
    PROVE  Sent(s)' = Sent(s) /\ (Over(s)' <=> Over(s)) /\ WireOf(s)'
<1>1. Sent(s)' = Sent(s) /\ (Over(s)' <=> Over(s))
  BY DEF Sent, Over
<1>2. Sound(Sent(s), Now')
  <2>1. left'.events \in 0..MaxEvents /\ MaxEvents \in Nat
    BY ControlStreamsAssumption DEF TypeOK, Bounds
  <2>2. Now' \in Nat /\ Now \in Nat
    BY <2>1, NowFacts DEF Now
  <2> QED BY <2>2, SentFacts, PastLater DEF WireOf
<1>3. PlaceWire(s)'
  BY <1>1 DEF WireOf, PlaceWire, Starting, Stopping, At, Stream
<1> QED BY <1>1, <1>2, <1>3 DEF WireOf

\* A step of one session that adds no event and moves no queue.
LEMMA SessionWire ==
    ASSUME TypeOK, TypeOK', WireInv, NEW s \in Sessions, UNCHANGED <<sub, ring, pending>>,
           left'.events = left.events,
           \A q \in Sessions : q # s => se'[q] = se[q] /\ out'[q] = out[q],
           WireOf(s)',
           ~Over(s)' => ~Over(s) /\ \A t \in Queued : \A e \in Seq(Nat) : After(Sent(s), t, e) => After(Sent(s)', t, e)
    PROVE  WireInv'
<1>1. Now' = Now /\ Now \in Nat
  BY NowFacts DEF Now
<1>2. EventsInv'
  BY <1>1 DEF WireInv, EventsInv
<1>3. ASSUME NEW q \in Sessions, q # s PROVE WireOf(q)' /\ \A t \in Queued : LinkOf(q, t)'
  <2>1. Sent(q)' = Sent(q) /\ (Over(q)' <=> Over(q)) /\ WireOf(q)'
    <3>1. WireOf(q) /\ se'[q] = se[q] /\ out'[q] = out[q] /\ Now <= Now'
      BY <1>1, <1>3 DEF WireInv
    <3> QED BY <3>1, IdleWire
  <2>2. \A t \in Queued : LinkOf(q, t)
    BY DEF WireInv
  <2> QED BY <2>1, <2>2 DEF LinkOf
<1>4. \A t \in Queued : LinkOf(s, t)'
  <2> SUFFICES ASSUME NEW t \in Queued, ~Over(s)'
               PROVE  IF sub'[t] = s THEN After(Sent(s)', t, pending'[t]) ELSE After(Sent(s)', t, ring'[t])
    BY DEF LinkOf
  <2>1. LinkOf(s, t)
    BY DEF WireInv
  <2>2. ring[t] \in Seq(Nat) /\ pending[t] \in Seq(Nat)
    BY NowFacts
  <2> QED BY <2>1, <2>2 DEF LinkOf
<1> QED BY <1>2, <1>3, <1>4 DEF WireInv

\* No session takes a step, and no event comes.
LEMMA QuietWire ==
    ASSUME TypeOK, TypeOK', WireInv, UNCHANGED <<sub, ring, pending, se, out>>, left'.events = left.events
    PROVE  WireInv'
<1>1. Now' = Now /\ Now \in Nat
  BY NowFacts DEF Now
<1>2. EventsInv'
  BY <1>1 DEF WireInv, EventsInv
<1>3. ASSUME NEW q \in Sessions PROVE WireOf(q)' /\ \A t \in Queued : LinkOf(q, t)'
  <2>1. Sent(q)' = Sent(q) /\ (Over(q)' <=> Over(q)) /\ WireOf(q)'
    <3>1. WireOf(q) /\ se'[q] = se[q] /\ out'[q] = out[q] /\ Now <= Now'
      BY <1>1 DEF WireInv
    <3> QED BY <3>1, IdleWire
  <2>2. \A t \in Queued : LinkOf(q, t)
    BY DEF WireInv
  <2> QED BY <2>1, <2>2 DEF LinkOf
<1> QED BY <1>2, <1>3 DEF WireInv

-----------------------------------------------------------------------------
(* The steps of the session thread. *)

\* One more frame.
LEMMA AppendFacts ==
    ASSUME NEW q \in Seq(Frames), NEW f \in Frames
    PROVE  /\ Append(q, f) \in Seq(Frames) /\ q \o <<f>> = Append(q, f) /\ <<f>> \in Seq(Frames)
           /\ q \o << >> = q /\ Append(q, f) # << >>
           /\ Append(q, f)[Len(Append(q, f))] = f
<1>1. Append(q, f) \in Seq(Frames) /\ Len(Append(q, f)) = Len(q) + 1 /\ Append(q, f)[Len(q) + 1] = f
  OBVIOUS
<1>2. q \o <<f>> = Append(q, f) /\ <<f>> \in Seq(Frames) /\ q \o << >> = q
  OBVIOUS
<1>3. Append(q, f) # << >>
  <2>1. Len(q) \in Nat /\ Len(<< >>) = 0
    OBVIOUS
  <2> QED BY <1>1, <2>1
<1> QED BY <1>1, <1>2, <1>3

LEMMA ConcatFrames ==
    ASSUME NEW q \in Seq(Frames), NEW f \in Seq(Frames), NEW g \in Seq(Frames)
    PROVE  (q \o f) \o g = q \o (f \o g)
<1> DEFINE S == Frames
<1>1. q \in Seq(S) /\ f \in Seq(S) /\ g \in Seq(S)
  OBVIOUS
<1> HIDE DEF S
<1> QED BY <1>1, ConcatAssociative

\* What is written is the beginning of what is sent.
LEMMA WrittenPrefix ==
    ASSUME NEW q \in Seq(Frames), NEW f \in Seq(Frames)
    PROVE  q = SubSeq(q \o f, 1, Len(q)) /\ Len(q) \in 0..Len(q \o f)
<1>1. 0 \in 0..Len(f) /\ SubSeq(f, 1, 0) = << >> /\ q \o << >> = q /\ Len(q) + 0 = Len(q)
  OBVIOUS
<1>2. q \o SubSeq(f, 1, 0) = SubSeq(q \o f, 1, Len(q) + 0) /\ Len(q) + 0 \in 0..Len(q \o f)
  BY <1>1, SplitFrames
<1> QED BY <1>1, <1>2

\* A session goes on with what it has sent.
LEMMA SameWire ==
    ASSUME TypeOK, TypeOK', WireInv, NEW s \in Sessions, UNCHANGED <<sub, ring, pending>>,
           left'.events = left.events,
           \A q \in Sessions : q # s => se'[q] = se[q] /\ out'[q] = out[q],
           ~Over(s), ~Over(s)', Sent(s)' = Sent(s), PlaceWire(s)'
    PROVE  WireInv'
<1>1. WireOf(s)
  BY DEF WireInv
<1>2. Now' = Now
  BY DEF Now
<1>3. WireOf(s)'
  BY <1>1, <1>2 DEF WireOf
<1> QED BY <1>3, SessionWire

\* A session goes on with one more frame, of no queued event.
LEMMA FrameWire ==
    ASSUME TypeOK, TypeOK', WireInv, NEW s \in Sessions, UNCHANGED <<sub, ring, pending>>,
           left'.events = left.events,
           \A q \in Sessions : q # s => se'[q] = se[q] /\ out'[q] = out[q],
           ~Over(s), ~Over(s)', NEW f \in Frames, f.kind # "event", Sent(s)' = Append(Sent(s), f),
           f.kind = "started" => LastStarts(Sent(s), f.type),
           f.kind \in {"dropped", "suppressed"} => Opened(Sent(s), f.type),
           PlaceWire(s)'
    PROVE  WireInv'
<1>1. Sound(Sent(s), Now) /\ Sent(s) \in Seq(Frames) /\ Now \in Nat
  BY SentFacts, NowFacts DEF WireInv, WireOf
<1>2. Sound(Append(Sent(s), f), Now)
  BY <1>1, SoundAppend
<1>3. WireOf(s)'
  BY <1>2 DEF WireOf, Now
<1>4. \A t \in Queued : \A e \in Seq(Nat) : After(Sent(s), t, e) => After(Sent(s)', t, e)
  BY <1>1, AfterAppend DEF IsEvent
<1> QED BY <1>3, <1>4, SessionWire

\* The place of a session that sends nothing.
LEMMA LoopWire ==
    ASSUME StreamsInv, StreamsInv', WireInv, NEW s \in Sessions,
           Check(s) \/ Loop(s) \/ (~Over(s) /\ Ends(s))
    PROVE  WireInv'
<1>1. TypeOK /\ TypeOK' /\ se \in [Sessions -> Locals]
  BY TypeParts DEF StreamsInv
<1>2. UNCHANGED <<sub, ring, pending, out, left>> /\ ~Over(s)
  BY DEF Check, Loop, Ends, streamVars, Over, At
<1>3. PICK p \in {"requests", "flush", "take", "drain", "end"} :
        /\ se' = [se EXCEPT ![s].pc = p]
        /\ p # "end" => ~Starting(s) /\ ~Stopping(s) /\ ~At(s, "started") /\ se[s].pc # "end"
  BY DEF Check, Loop, Ends, Starting, Stopping, At
<1>4. /\ se[s] \in Running /\ se[s].frames \in Seq(Frames)
      /\ se'[s] = [se[s] EXCEPT !.pc = p] /\ \A q \in Sessions : q # s => se'[q] = se[q]
  BY <1>1, <1>2, <1>3, SentFacts
<1>5. se'[s].pc = p /\ se'[s].stream = se[s].stream /\ se'[s].frames = se[s].frames
  BY <1>4 DEF Running
<1>6. ~Over(s)' /\ Sent(s)' = Sent(s)
  BY <1>2, <1>5 DEF Over, Sent
<1>7. PlaceWire(s)
  BY DEF WireInv, WireOf
<1>8. PlaceWire(s)'
  <2>1. CASE p = "end"
    BY <1>5, <2>1 DEF PlaceWire
  <2>2. CASE p # "end"
    <3>1. ~Starting(s)' /\ ~Stopping(s)' /\ ~At(s, "started")'
      BY <1>5 DEF Starting, Stopping, At
    <3>2. Stream(s)' = Stream(s)
      BY <1>5 DEF Stream
    <3>3. se[s].pc \notin {"end", "release", "gone"}
      BY <1>2, <1>3, <2>2 DEF Over
    <3> QED BY <1>3, <1>5, <1>6, <1>7, <2>2, <3>1, <3>2, <3>3 DEF PlaceWire
  <2> QED BY <2>1, <2>2
<1> QED BY <1>1, <1>2, <1>4, <1>6, <1>8, SameWire

\* The response follows everything that is queued, and the notice the response.
LEMMA RespondWire ==
    ASSUME StreamsInv, StreamsInv', WireInv, NEW s \in Sessions, Respond(s)
    PROVE  WireInv'
<1> DEFINE f == Frame(se[s].answer, Stream(s), 0)
           place == CASE se[s].answer = "start" -> "started"
                      [] se[s].answer = "quit" -> "end"
                      [] OTHER -> "requests"
           x == [se[s] EXCEPT !.pc = place, !.frames = << >>, !.current = FALSE]
<1>1. TypeOK /\ TypeOK' /\ se \in [Sessions -> Locals] /\ out \in [Sessions -> Seq(Frames)]
  BY TypeParts DEF StreamsInv, OtherTypes
<1>2. se[s].pc = "respond" /\ ~Over(s) /\ se[s].answer # "none"
  BY DEF Respond, At, Over, StreamsInv, PlaceInv
<1>3. /\ se[s] \in Running /\ se[s].frames \in Seq(Frames) /\ out[s] \in Seq(Frames)
      /\ Sent(s) = out[s] \o se[s].frames /\ Sent(s) \in Seq(Frames)
  BY <1>1, <1>2, SentFacts
<1>4. f \in Frames /\ f.kind = se[s].answer /\ f.type = Stream(s) /\ f.kind \in {"start", "stop", "error", "ok", "quit"}
  BY <1>2, <1>3 DEF Frame, Frames, Running, Stream
<1>5. /\ out' = [out EXCEPT ![s] = @ \o se[s].frames \o <<f>>]
      /\ se' = [se EXCEPT ![s] = x] /\ UNCHANGED <<sub, ring, pending, left>>
  BY <1>1 DEF Respond, streamVars
<1> HIDE DEF f
<1>6. out'[s] = Append(Sent(s), f)
  <2>1. out'[s] = (out[s] \o se[s].frames) \o <<f>>
    BY <1>1, <1>5
  <2>2. Sent(s) \o <<f>> = Append(Sent(s), f)
    BY <1>3, <1>4, AppendFacts
  <2> QED BY <1>3, <2>1, <2>2
<1>7. /\ se'[s].pc = place /\ se'[s].frames = << >> /\ se'[s].stream = se[s].stream /\ se'[s].answer = se[s].answer
      /\ \A q \in Sessions : q # s => se'[q] = se[q] /\ out'[q] = out[q]
  <2>1. se'[s] = x /\ \A q \in Sessions : q # s => se'[q] = se[q] /\ out'[q] = out[q]
    BY <1>1, <1>5
  <2> HIDE DEF place
  <2>2. /\ x.pc = place /\ x.frames = << >> /\ x.stream = se[s].stream /\ x.answer = se[s].answer
    BY <1>3 DEF Running
  <2> QED BY <2>1, <2>2
<1> HIDE DEF x
<1>8. place \in {"started", "end", "requests"} /\ (place = "started" <=> se[s].answer = "start")
  OBVIOUS
<1> HIDE DEF place
<1>9. ~Over(s)'
  BY <1>7, <1>8 DEF Over
<1>10. Sent(s)' = Append(Sent(s), f)
  <2>1. Sent(s)' = out'[s] \o << >>
    BY <1>7, <1>9 DEF Sent
  <2>2. Append(Sent(s), f) \in Seq(Frames)
    BY <1>3, <1>4
  <2> QED BY <1>6, <2>1, <2>2
<1>11. PlaceWire(s)
  BY DEF WireInv, WireOf
<1>12. PlaceWire(s)'
  <2>1. /\ Starting(s) <=> se[s].answer = "start"
        /\ Stopping(s) <=> se[s].answer = "stop"
        /\ ~At(s, "started")
    BY <1>2 DEF Starting, Stopping, At
  <2>2. /\ ~Starting(s)' /\ ~Stopping(s)' /\ Stream(s)' = Stream(s)
        /\ At(s, "started")' <=> se[s].answer = "start"
    BY <1>7, <1>8 DEF Starting, Stopping, At, Stream
  <2>3. /\ se[s].answer = "start" => Stream(s) # None
        /\ se[s].answer = "stop" => Stream(s) = None
        /\ Stream(s) # None /\ se[s].answer # "start" => Opened(Sent(s), Stream(s))
    BY <1>2, <1>11, <2>1 DEF PlaceWire
  <2>4. LastStarts(out'[s], Stream(s)) \/ se[s].answer # "start"
    <3>1. Append(Sent(s), f)[Len(Append(Sent(s), f))] = f /\ Append(Sent(s), f) # << >>
      BY <1>3, <1>4, AppendFacts
    <3> QED BY <1>4, <1>6, <3>1 DEF LastStarts
  <2>5. Stream(s) # None /\ se[s].answer # "start" => Opened(Sent(s)', Stream(s))
    <3>1. Stream(s) # None /\ se[s].answer # "start" => f.kind \notin {"start", "stop"} /\ Opened(Sent(s), Stream(s))
      BY <1>4, <2>3
    <3> QED BY <1>3, <1>4, <1>10, <3>1, OpenedAppend
  <2> QED BY <1>7, <2>2, <2>3, <2>4, <2>5 DEF PlaceWire
<1>13. f.kind # "event" /\ f.kind # "started" /\ f.kind \notin {"dropped", "suppressed"}
  BY <1>4
<1> QED BY <1>1, <1>2, <1>4, <1>5, <1>7, <1>9, <1>10, <1>12, <1>13, FrameWire

LEMMA StartedWire ==
    ASSUME StreamsInv, StreamsInv', WireInv, NEW s \in Sessions, Started(s)
    PROVE  WireInv'
<1> DEFINE f == Frame("started", Stream(s), 0)
           x == [se[s] EXCEPT !.pc = "requests"]
<1>1. TypeOK /\ TypeOK' /\ se \in [Sessions -> Locals] /\ out \in [Sessions -> Seq(Frames)]
  BY TypeParts DEF StreamsInv, OtherTypes
<1>2. se[s].pc = "started" /\ At(s, "started") /\ ~Over(s)
  BY DEF Started, At, Over
<1>3. /\ se[s] \in Running /\ se[s].frames \in Seq(Frames) /\ out[s] \in Seq(Frames)
      /\ Sent(s) = out[s] \o se[s].frames /\ Sent(s) \in Seq(Frames)
  BY <1>1, <1>2, SentFacts
<1>4. f \in Frames /\ f.kind = "started" /\ f.type = Stream(s)
  BY <1>3 DEF Frame, Frames, Running, Stream
<1>5. /\ out' = [out EXCEPT ![s] = Append(@, f)]
      /\ se' = [se EXCEPT ![s] = x] /\ UNCHANGED <<sub, ring, pending, left>>
  BY <1>1 DEF Started, streamVars
<1> HIDE DEF f
<1>6. se[s].frames = << >> /\ LastStarts(out[s], Stream(s)) /\ Stream(s) # None
  BY <1>2 DEF WireInv, WireOf, PlaceWire
<1>7. Sent(s) = out[s]
  BY <1>3, <1>6
<1>8. /\ se'[s].pc = "requests" /\ se'[s].frames = << >> /\ se'[s].stream = se[s].stream
      /\ out'[s] = Append(Sent(s), f)
      /\ \A q \in Sessions : q # s => se'[q] = se[q] /\ out'[q] = out[q]
  <2>1. se'[s] = x /\ \A q \in Sessions : q # s => se'[q] = se[q] /\ out'[q] = out[q]
    BY <1>1, <1>5
  <2>2. x.pc = "requests" /\ x.frames = se[s].frames /\ x.stream = se[s].stream
    BY <1>3 DEF Running
  <2> QED BY <1>1, <1>5, <1>6, <1>7, <2>1, <2>2
<1> HIDE DEF x
<1>9. ~Over(s)'
  BY <1>8 DEF Over
<1>10. Sent(s)' = Append(Sent(s), f)
  <2>1. Sent(s)' = out'[s] \o << >>
    BY <1>8, <1>9 DEF Sent
  <2>2. Append(Sent(s), f) \in Seq(Frames)
    BY <1>3, <1>4
  <2> QED BY <1>8, <2>1, <2>2
<1>11. Opened(Sent(s)', Stream(s))
  BY <1>3, <1>4, <1>6, <1>7, <1>10, OpenedAppend
<1>12. PlaceWire(s)'
  <2>1. ~Starting(s)' /\ ~Stopping(s)' /\ ~At(s, "started")' /\ Stream(s)' = Stream(s)
    BY <1>8 DEF Starting, Stopping, At, Stream
  <2> QED BY <1>6, <1>11, <2>1 DEF PlaceWire
<1> QED BY <1>1, <1>2, <1>4, <1>5, <1>6, <1>7, <1>8, <1>9, <1>10, <1>12, FrameWire

\* What a notice of its stream adds to what a session was sent.
Continues(p, q, t, now) ==
  /\ p \in Seq(Frames) /\ Sound(p, now) /\ Opened(p, t)
  /\ \A u \in Queued : \A e \in Seq(Nat) : After(q, u, e) => After(p, u, e)

LEMMA NoticeFacts ==
    ASSUME NEW q \in Seq(Frames), NEW t, NEW now \in Nat, Sound(q, now), Opened(q, t),
           NEW f \in Frames, f.kind \in {"dropped", "suppressed"}, f.type = t, NEW n \in {<< >>, <<f>>}
    PROVE  Continues(q \o n, q, t, now)
<1>1. CASE n = << >>
  BY <1>1, AppendFacts DEF Continues
<1>2. CASE n = <<f>>
  <2>1. q \o n = Append(q, f) /\ Append(q, f) \in Seq(Frames)
    BY <1>2, AppendFacts
  <2>2. Sound(Append(q, f), now)
    BY SoundAppend
  <2>3. Opened(Append(q, f), t)
    BY OpenedAppend
  <2>4. ASSUME NEW u \in Queued, NEW e \in Seq(Nat), After(q, u, e) PROVE After(Append(q, f), u, e)
    BY <2>4, AfterAppend DEF IsEvent
  <2> QED BY <2>1, <2>2, <2>3, <2>4 DEF Continues
<1> QED BY <1>1, <1>2

LEMMA TakeWire ==
    ASSUME StreamsInv, StreamsInv', WireInv, NEW s \in Sessions, NEW due \in BOOLEAN, Take(s, due)
    PROVE  WireInv'
<1> DEFINE t == Stream(s)
           d == se[s].dropped + dropped[t]
           u == se[s].suppressed + suppressed[t]
           f1 == Frame("suppressed", t, u)
           f2 == Frame("dropped", t, d)
           n1 == IF due /\ u > 0 THEN <<f1>> ELSE << >>
           n2 == IF due /\ d > 0 THEN <<f2>> ELSE << >>
           fs == se[s].frames \o (n1 \o n2)
           x == [se[s] EXCEPT !.pc = "drain", !.frames = fs, !.dropped = IF due THEN 0 ELSE d,
                              !.suppressed = IF due THEN 0 ELSE u]
<1>1. TypeOK /\ TypeOK' /\ StreamTypes /\ se \in [Sessions -> Locals]
  BY TypeParts DEF StreamsInv
<1>2. se[s].pc = "take" /\ ~Over(s) /\ t \in Types /\ t # None
  BY ControlStreamsAssumption DEF Take, At, Over, StreamsInv, PlaceInv, Types
<1>3. /\ se[s] \in Running /\ se[s].frames \in Seq(Frames) /\ out[s] \in Seq(Frames)
      /\ Sent(s) = out[s] \o se[s].frames /\ Sent(s) \in Seq(Frames)
      /\ se[s].dropped \in Nat /\ se[s].suppressed \in Nat /\ dropped[t] \in Nat /\ suppressed[t] \in Nat
  BY <1>1, <1>2, SentFacts, RunningFacts DEF Over, StreamTypes
<1>4. se' = [se EXCEPT ![s] = x] /\ UNCHANGED <<sub, ring, pending, out, left>>
  BY <1>1 DEF Take
<1>5. d \in Nat /\ u \in Nat
  BY <1>3
<1>6. /\ f1 \in Frames /\ f1.kind = "suppressed" /\ f1.type = t
      /\ f2 \in Frames /\ f2.kind = "dropped" /\ f2.type = t
  BY <1>2, <1>5 DEF Frame, Frames
<1>7. n1 \in {<< >>, <<f1>>} /\ n2 \in {<< >>, <<f2>>}
  OBVIOUS
<1>8. /\ x.pc = "drain" /\ x.stream = se[s].stream /\ x.frames = fs
  BY <1>3 DEF Running
<1> HIDE DEF x, n1, n2, f1, f2
<1>9. Sound(Sent(s), Now) /\ Opened(Sent(s), t) /\ Now \in Nat
  <2>1. WireOf(s)
    BY DEF WireInv
  <2> QED BY <1>1, <1>2, <2>1, NowFacts DEF WireOf, PlaceWire, Starting, At
<1>10. n1 \in Seq(Frames) /\ n2 \in Seq(Frames)
  <2>1. << >> \in Seq(Frames) /\ <<f1>> \in Seq(Frames) /\ <<f2>> \in Seq(Frames)
    BY <1>6
  <2> QED BY <1>7, <2>1
<1> DEFINE a == Sent(s) \o n1
           b == a \o n2
<1>11. Continues(a, Sent(s), t, Now)
  BY <1>3, <1>6, <1>7, <1>9, NoticeFacts
<1> HIDE DEF a
<1>12. Continues(b, a, t, Now)
  BY <1>6, <1>7, <1>9, <1>11, NoticeFacts DEF Continues
<1> HIDE DEF b
<1>13. out[s] \o fs = b
  <2>1. n1 \o n2 \in Seq(Frames)
    BY <1>10
  <2>2. (out[s] \o se[s].frames) \o (n1 \o n2) = out[s] \o (se[s].frames \o (n1 \o n2))
    BY <1>3, <2>1, ConcatFrames
  <2>3. (Sent(s) \o n1) \o n2 = Sent(s) \o (n1 \o n2)
    BY <1>3, <1>10, ConcatFrames
  <2> QED BY <1>3, <2>2, <2>3 DEF a, b
<1> HIDE DEF fs
<1>14. /\ se'[s] = x /\ out'[s] = out[s] /\ \A q \in Sessions : q # s => se'[q] = se[q] /\ out'[q] = out[q]
  BY <1>1, <1>4
<1>15. ~Over(s)' /\ Sent(s)' = b /\ Now' = Now
  <2>1. ~Over(s)'
    BY <1>8, <1>14 DEF Over
  <2>2. Sent(s)' = out'[s] \o se'[s].frames
    BY <2>1 DEF Sent
  <2> QED BY <1>4, <1>8, <1>13, <1>14, <2>1, <2>2 DEF Now
<1>16. PlaceWire(s)'
  <2>1. ~Starting(s)' /\ ~Stopping(s)' /\ ~At(s, "started")' /\ Stream(s)' = t
    BY <1>8, <1>14 DEF Starting, Stopping, At, Stream
  <2> QED BY <1>2, <1>12, <1>15, <2>1 DEF PlaceWire, Continues
<1>17. WireOf(s)'
  BY <1>12, <1>15, <1>16 DEF WireOf, Continues
<1>18. \A v \in Queued : \A e \in Seq(Nat) : After(Sent(s), v, e) => After(Sent(s)', v, e)
  BY <1>11, <1>12, <1>15 DEF Continues
<1> QED BY <1>1, <1>2, <1>4, <1>14, <1>17, <1>18, SessionWire

\* What is written was queued.
LEMMA FlushWire ==
    ASSUME StreamsInv, StreamsInv', WireInv, NEW s \in Sessions, NEW k, Flush(s, k)
    PROVE  WireInv'
<1> DEFINE sent == SubSeq(se[s].frames, 1, k)
           rest == SubSeq(se[s].frames, k + 1, Len(se[s].frames))
           more == k < Len(se[s].frames)
           x == [se[s] EXCEPT !.pc = "top", !.frames = rest, !.current = more]
<1>1. TypeOK /\ TypeOK' /\ se \in [Sessions -> Locals] /\ out \in [Sessions -> Seq(Frames)]
  BY TypeParts DEF StreamsInv, OtherTypes
<1>2. se[s].pc = "flush" /\ ~Over(s) /\ k \in 0..Len(se[s].frames)
  BY DEF Flush, At, Over
<1>3. /\ se[s] \in Running /\ se[s].frames \in Seq(Frames) /\ out[s] \in Seq(Frames)
      /\ Sent(s) = out[s] \o se[s].frames /\ Sent(s) \in Seq(Frames)
  BY <1>1, <1>2, SentFacts
<1>4. /\ out' = [out EXCEPT ![s] = @ \o sent] /\ se' = [se EXCEPT ![s] = x]
      /\ UNCHANGED <<sub, ring, pending, left>>
  BY <1>1 DEF Flush, streamVars
<1>5. (out[s] \o sent) \o rest = Sent(s)
  BY <1>2, <1>3, SplitFrames
<1>6. se[s].frames = << >> => rest = << >>
  BY <1>2, <1>3
<1> HIDE DEF sent, rest, more
<1>7. x.pc = "top" /\ x.stream = se[s].stream /\ x.frames = rest
  BY <1>3 DEF Running
<1> HIDE DEF x
<1>8. /\ se'[s] = x /\ out'[s] = out[s] \o sent
      /\ \A q \in Sessions : q # s => se'[q] = se[q] /\ out'[q] = out[q]
  BY <1>1, <1>4
<1>9. ~Over(s)' /\ Sent(s)' = Sent(s)
  <2>1. ~Over(s)'
    BY <1>7, <1>8 DEF Over
  <2>2. Sent(s)' = out'[s] \o se'[s].frames
    BY <2>1 DEF Sent
  <2> QED BY <1>5, <1>7, <1>8, <2>1, <2>2
<1>10. PlaceWire(s)'
  <2>1. /\ ~Starting(s)' /\ ~Stopping(s)' /\ ~At(s, "started")' /\ Stream(s)' = Stream(s)
    BY <1>7, <1>8 DEF Starting, Stopping, At, Stream
  <2>2. /\ Stream(s) = None => se[s].frames = << >>
        /\ Stream(s) # None => Opened(Sent(s), Stream(s))
    BY <1>2 DEF WireInv, WireOf, PlaceWire, Starting, Stopping, At
  <2> QED BY <1>6, <1>7, <1>8, <1>9, <2>1, <2>2 DEF PlaceWire
<1> QED BY <1>1, <1>2, <1>4, <1>8, <1>9, <1>10, SameWire

\* The next event is newer than all that were sent, and older than those that wait.
LEMMA DrainWire ==
    ASSUME StreamsInv, StreamsInv', WireInv, NEW s \in Sessions, Drain(s)
    PROVE  WireInv'
<1> DEFINE t == Stream(s)
<1>1. TypeOK /\ TypeOK' /\ StreamTypes /\ se \in [Sessions -> Locals]
  BY TypeParts DEF StreamsInv
<1>2. se[s].pc = "drain" /\ ~Over(s) /\ t \in Types /\ t # None
  BY ControlStreamsAssumption DEF Drain, At, Over, StreamsInv, PlaceInv
<1>3. /\ se[s] \in Running /\ se[s].frames \in Seq(Frames) /\ out[s] \in Seq(Frames)
      /\ Sent(s) = out[s] \o se[s].frames /\ Sent(s) \in Seq(Frames)
  BY <1>1, <1>2, SentFacts
<1>4. UNCHANGED <<sub, ring, out, left>>
  BY DEF Drain
<1>5. Sound(Sent(s), Now) /\ Opened(Sent(s), t) /\ Now \in Nat
  <2>1. WireOf(s)
    BY DEF WireInv
  <2> QED BY <1>1, <1>2, <2>1, NowFacts DEF WireOf, PlaceWire, Starting, At
<1>6. CASE sub[t] = s /\ pending[t] # << >> /\ Len(se[s].frames) < MaxQueued
  <2> DEFINE e == pending[t]
             f == Frame("event", t, Head(e))
             fs == Append(se[s].frames, f)
             x == [se[s] EXCEPT !.frames = fs]
             p == Append(Sent(s), f)
  <2>1. /\ se' = [se EXCEPT ![s] = x] /\ pending' = [pending EXCEPT ![t] = Tail(e)]
    BY <1>1, <1>6 DEF Drain
  <2>2. /\ e \in Seq(Nat) /\ Tail(e) \in Seq(Nat) /\ Head(e) \in Nat /\ Head(e) = e[1] /\ 1 \in DOMAIN e
        /\ Len(Tail(e)) = Len(e) - 1 /\ DOMAIN Tail(e) = 1..(Len(e) - 1) /\ DOMAIN e = 1..Len(e) /\ Len(e) \in Nat
        /\ \A j \in 1..(Len(e) - 1) : Tail(e)[j] = e[j + 1]
    <3>1. e \in Seq(Nat) /\ e # << >>
      BY <1>1, <1>2, <1>6 DEF StreamTypes
    <3> HIDE DEF e
    <3> QED BY <3>1
  <2>3. f \in Frames /\ f.kind = "event" /\ f.type = t /\ f.n = Head(e)
    BY <1>2, <2>2 DEF Frame, Frames
  <2> HIDE DEF f
  <2>4. x.pc = "drain" /\ x.stream = se[s].stream /\ x.frames = fs
    BY <1>2, <1>3 DEF Running
  <2> HIDE DEF x
  <2>5. /\ se'[s] = x /\ \A q \in Sessions : q # s => se'[q] = se[q] /\ out'[q] = out[q]
        /\ out'[s] = out[s] /\ pending'[t] = Tail(e) /\ \A u \in Types : u # t => pending'[u] = pending[u]
    BY <1>1, <1>2, <1>4, <2>1 DEF StreamTypes
  <2>6. ~Over(s)' /\ Sent(s)' = p /\ Now' = Now
    <3>1. ~Over(s)'
      BY <1>2, <2>4, <2>5 DEF Over
    <3>2. Sent(s)' = out[s] \o fs
      BY <2>4, <2>5, <3>1 DEF Sent
    <3>3. out[s] \o Append(se[s].frames, f) = Append(out[s] \o se[s].frames, f)
      <4>1. Append(se[s].frames, f) = se[s].frames \o <<f>> /\ <<f>> \in Seq(Frames)
        BY <1>3, <2>3, AppendFacts
      <4>2. (out[s] \o se[s].frames) \o <<f>> = out[s] \o (se[s].frames \o <<f>>)
        BY <1>3, <4>1, ConcatFrames
      <4>3. (out[s] \o se[s].frames) \o <<f>> = Append(out[s] \o se[s].frames, f)
        BY <1>3, <2>3, AppendFacts
      <4> QED BY <4>1, <4>2, <4>3
    <3> QED BY <1>3, <1>4, <3>1, <3>2, <3>3 DEF Now
  <2>7. t \in Queued => After(Sent(s), t, e) /\ Rising(e) /\ UpTo(e, Now)
    <3>1. ASSUME t \in Queued PROVE After(Sent(s), t, e) /\ Rising(e) /\ UpTo(e, Now)
      <4>1. LinkOf(s, t) /\ Rising(e) /\ UpTo(e, Now)
        BY <3>1 DEF WireInv, EventsInv
      <4> QED BY <1>2, <1>6, <4>1 DEF LinkOf
    <3> QED BY <3>1
  <2> HIDE DEF e, p, fs
  <2>8. Sound(p, Now) /\ Opened(p, t)
    <3>1. f.kind = "event" /\ f.type \in Queued =>
            f.n <= Now /\ \A i \in DOMAIN Sent(s) : IsEvent(Sent(s)[i], f.type) => Sent(s)[i].n < f.n
      BY <2>2, <2>3, <2>7 DEF After, UpTo
    <3>2. Sound(p, Now)
      BY <1>3, <1>5, <2>3, <3>1, SoundAppend DEF p
    <3> QED BY <1>3, <1>5, <2>3, <3>2, OpenedAppend DEF p
  <2>9. t \in Queued => /\ After(p, t, Tail(e)) /\ Rising(Tail(e)) /\ UpTo(Tail(e), Now)
    <3>1. ASSUME t \in Queued PROVE After(p, t, Tail(e)) /\ Rising(Tail(e)) /\ UpTo(Tail(e), Now)
      <4>0. e # << >>
        BY <1>6 DEF e
      <4>1. Suffix(Tail(e), e)
        BY <2>2, <4>0, SuffixFacts
      <4>2. Rising(Tail(e)) /\ UpTo(Tail(e), Now) /\ After(Sent(s), t, Tail(e))
        BY <1>3, <1>5, <2>2, <2>7, <3>1, <4>1, SuffixKeeps
      <4>3. \A j \in DOMAIN Tail(e) : f.n < Tail(e)[j]
        <5> SUFFICES ASSUME NEW j \in 1..(Len(e) - 1) PROVE f.n < Tail(e)[j]
          BY <2>2
        <5>1. j + 1 \in DOMAIN e /\ 1 < j + 1
          BY <2>2
        <5>2. e[1] < e[j + 1]
          BY <2>2, <2>7, <3>1, <5>1 DEF Rising
        <5> QED BY <2>2, <2>3, <5>2
      <4>4. After(p, t, Tail(e))
        BY <1>3, <2>2, <2>3, <3>1, <4>2, <4>3, AfterAppend DEF p
      <4> QED BY <4>2, <4>4
    <3> QED BY <3>1
  <2>10. EventsInv'
    <3> SUFFICES ASSUME NEW u \in Queued
                 PROVE  /\ Rising(ring'[u]) /\ Rising(pending'[u])
                        /\ UpTo(ring'[u], Now') /\ UpTo(pending'[u], Now')
      BY DEF EventsInv
    <3>1. Rising(ring[u]) /\ Rising(pending[u]) /\ UpTo(ring[u], Now) /\ UpTo(pending[u], Now)
      BY DEF WireInv, EventsInv
    <3>2. CASE u = t
      BY <1>4, <2>5, <2>6, <2>9, <3>1, <3>2
    <3>3. CASE u # t
      BY <1>4, <2>5, <2>6, <3>1, <3>3 DEF Types
    <3> QED BY <3>2, <3>3
  <2>11. PlaceWire(s)'
    <3>1. ~Starting(s)' /\ ~Stopping(s)' /\ ~At(s, "started")' /\ Stream(s)' = t
      BY <1>2, <2>4, <2>5 DEF Starting, Stopping, At, Stream
    <3> QED BY <1>2, <2>6, <2>8, <3>1 DEF PlaceWire
  <2>12. WireOf(s)'
    BY <2>6, <2>8, <2>11 DEF WireOf
  <2>13. ASSUME NEW u \in Queued PROVE LinkOf(s, u)'
    <3>1. CASE u = t
      BY <1>4, <1>6, <2>5, <2>6, <2>9, <3>1 DEF LinkOf
    <3>2. CASE u # t
      <4>1. ring'[u] = ring[u] /\ pending'[u] = pending[u] /\ ring[u] \in Seq(Nat) /\ pending[u] \in Seq(Nat)
        BY <1>1, <1>4, <2>5, <3>2, NowFacts
      <4>2. LinkOf(s, u) /\ ~IsEvent(f, u)
        BY <2>3, <3>2 DEF WireInv, IsEvent
      <4>3. \A g \in Seq(Nat) : After(Sent(s), u, g) => After(p, u, g)
        BY <1>3, <2>3, <4>2, AfterAppend DEF p
      <4> QED BY <1>2, <1>4, <2>6, <4>1, <4>2, <4>3 DEF LinkOf
    <3> QED BY <3>1, <3>2
  <2>14. ASSUME NEW q \in Sessions, q # s PROVE WireOf(q)' /\ \A u \in Queued : LinkOf(q, u)'
    <3>1. Sent(q)' = Sent(q) /\ (Over(q)' <=> Over(q)) /\ WireOf(q)'
      <4>1. WireOf(q) /\ se'[q] = se[q] /\ out'[q] = out[q] /\ Now <= Now'
        BY <1>5, <2>5, <2>6, <2>14 DEF WireInv
      <4> QED BY <1>1, <4>1, IdleWire
    <3>2. ASSUME NEW u \in Queued PROVE LinkOf(q, u)'
      <4>1. LinkOf(q, u) /\ u \in Types
        BY DEF WireInv, Types
      <4>2. sub[u] = q => pending'[u] = pending[u]
        BY <1>6, <2>5, <2>14, <4>1
      <4> QED BY <1>4, <3>1, <4>1, <4>2 DEF LinkOf
    <3> QED BY <3>1, <3>2
  <2> QED BY <2>10, <2>12, <2>13, <2>14 DEF WireInv
<1>7. CASE ~(sub[t] = s /\ pending[t] # << >> /\ Len(se[s].frames) < MaxQueued)
  <2> DEFINE x == [se[s] EXCEPT !.pc = "flush"]
  <2>1. se' = [se EXCEPT ![s] = x] /\ UNCHANGED <<pending>>
    BY <1>1, <1>7 DEF Drain
  <2>2. x.pc = "flush" /\ x.stream = se[s].stream /\ x.frames = se[s].frames
    BY <1>3 DEF Running
  <2> HIDE DEF x
  <2>3. /\ se'[s] = x /\ \A q \in Sessions : q # s => se'[q] = se[q] /\ out'[q] = out[q]
        /\ out'[s] = out[s]
    BY <1>1, <1>4, <2>1
  <2>4. ~Over(s)' /\ Sent(s)' = Sent(s)
    BY <1>2, <2>2, <2>3 DEF Over, Sent
  <2>5. PlaceWire(s)'
    <3>1. ~Starting(s)' /\ ~Stopping(s)' /\ ~At(s, "started")' /\ Stream(s)' = t
      BY <2>2, <2>3 DEF Starting, Stopping, At, Stream
    <3> QED BY <1>2, <1>5, <2>4, <3>1 DEF PlaceWire
  <2> QED BY <1>1, <1>2, <1>4, <2>1, <2>3, <2>4, <2>5, SameWire
<1> QED BY <1>6, <1>7

\* A step of one session that moves queues.
LEMMA StreamsWire ==
    ASSUME TypeOK, TypeOK', WireInv, NEW s \in Sessions, left'.events = left.events,
           \A q \in Sessions : q # s => se'[q] = se[q] /\ out'[q] = out[q],
           WireOf(s)', EventsInv', \A t \in Queued : LinkOf(s, t)',
           \A q \in Sessions, t \in Queued : q # s =>
             \/ ring'[t] = << >> /\ pending'[t] = << >>
             \/ /\ ring'[t] = ring[t] /\ (sub'[t] = q <=> sub[t] = q)
                /\ sub[t] = q => pending'[t] = pending[t]
    PROVE  WireInv'
<1>1. Now' = Now /\ Now \in Nat
  BY NowFacts DEF Now
<1>2. ASSUME NEW q \in Sessions, q # s PROVE WireOf(q)' /\ \A t \in Queued : LinkOf(q, t)'
  <2>1. Sent(q)' = Sent(q) /\ (Over(q)' <=> Over(q)) /\ WireOf(q)'
    <3>1. WireOf(q) /\ se'[q] = se[q] /\ out'[q] = out[q] /\ Now <= Now'
      BY <1>1, <1>2 DEF WireInv
    <3> QED BY <3>1, IdleWire
  <2>2. ASSUME NEW t \in Queued PROVE LinkOf(q, t)'
    <3>1. LinkOf(q, t)
      BY DEF WireInv
    <3>2. CASE ring'[t] = << >> /\ pending'[t] = << >>
      BY <3>2 DEF LinkOf, After
    <3>3. CASE /\ ring'[t] = ring[t] /\ (sub'[t] = q <=> sub[t] = q)
               /\ sub[t] = q => pending'[t] = pending[t]
      BY <2>1, <3>1, <3>3 DEF LinkOf
    <3> QED BY <1>2, <3>2, <3>3
  <2> QED BY <2>1, <2>2
<1> QED BY <1>2 DEF WireInv

\* Nothing was sent.
LEMMA EmptyFacts ==
  /\ \A now : Sound(<< >>, now)
  /\ \A t, e : After(<< >>, t, e) /\ Rising(<< >>)
  /\ \A now : UpTo(<< >>, now)
  /\ \A q, t : After(q, t, << >>)
<1>1. DOMAIN << >> = {}
  OBVIOUS
<1> QED BY <1>1 DEF Sound, Framed, Ordered, Past, After, Rising, UpTo

\* Streams are let go of; what the session had sent, or its beginning, stays.
LEMMA ReleaseWire ==
    ASSUME TypeOK, TypeOK', WireInv, NEW s \in Sessions, NEW mine, NEW keepRing \in BOOLEAN,
           Release(mine, keepRing), Mine(s) \subseteq mine, left'.events = left.events,
           keepRing => mine = Mine(s) /\ Over(s)',
           \A q \in Sessions : q # s => se'[q] = se[q] /\ out'[q] = out[q],
           ~Over(s), NEW k \in 0..Len(Sent(s)), Sent(s)' = SubSeq(Sent(s), 1, k), PlaceWire(s)'
    PROVE  WireInv'
<1>1. /\ sub \in [Types -> Sessions \cup {None}]
      /\ ring \in [Types -> Seq(Nat)] /\ pending \in [Types -> Seq(Nat)] /\ Queued \subseteq Types
  BY DEF TypeOK, Types
<1>2. ASSUME NEW t \in Queued
      PROVE  /\ t \in mine => /\ sub'[t] = None /\ pending'[t] = << >>
                              /\ keepRing => ring'[t] = ring[t] /\ sub[t] = s
                              /\ ~keepRing => ring'[t] = << >>
             /\ t \notin mine => /\ sub'[t] = sub[t] /\ pending'[t] = pending[t] /\ ring'[t] = ring[t]
                                 /\ sub[t] # s
  BY <1>1, <1>2 DEF Release, Mine
<1>3. Now' = Now /\ Now \in Nat /\ Sent(s) \in Seq(Frames)
  BY NowFacts, SentFacts DEF Now
<1>4. EventsInv'
  <2> SUFFICES ASSUME NEW t \in Queued
               PROVE  /\ Rising(ring'[t]) /\ Rising(pending'[t])
                      /\ UpTo(ring'[t], Now) /\ UpTo(pending'[t], Now)
    BY <1>3 DEF EventsInv
  <2>1. Rising(ring[t]) /\ Rising(pending[t]) /\ UpTo(ring[t], Now) /\ UpTo(pending[t], Now)
    BY DEF WireInv, EventsInv
  <2>2. pending'[t] \in {pending[t], << >>} /\ ring'[t] \in {ring[t], << >>}
    BY <1>2
  <2> QED BY <2>1, <2>2, EmptyFacts
<1>5. WireOf(s)'
  <2>1. Sound(Sent(s), Now)
    BY DEF WireInv, WireOf
  <2>2. Sound(Sent(s)', Now)
    BY <1>3, <2>1, SoundPrefix
  <2> QED BY <1>3, <2>2 DEF WireOf
<1>6. ASSUME NEW t \in Queued PROVE LinkOf(s, t)'
  <2> SUFFICES ASSUME ~Over(s)'
               PROVE  IF sub'[t] = s THEN After(Sent(s)', t, pending'[t]) ELSE After(Sent(s)', t, ring'[t])
    BY DEF LinkOf
  <2>1. CASE t \in mine
    BY <1>2, <2>1, EmptyFacts
  <2>2. CASE t \notin mine
    <3>1. After(Sent(s), t, ring[t])
      BY <1>2, <2>2 DEF WireInv, LinkOf
    <3>2. After(Sent(s)', t, ring[t])
      BY <1>3, <3>1, AfterPrefix
    <3> QED BY <1>2, <2>2, <3>2
  <2> QED BY <2>1, <2>2
<1>7. ASSUME NEW q \in Sessions, NEW t \in Queued, q # s
      PROVE  \/ ring'[t] = << >> /\ pending'[t] = << >>
             \/ /\ ring'[t] = ring[t] /\ (sub'[t] = q <=> sub[t] = q)
                /\ sub[t] = q => pending'[t] = pending[t]
  BY <1>2, <1>7, ControlStreamsAssumption
<1> QED BY <1>4, <1>5, <1>6, <1>7, StreamsWire

LEMMA EndWire ==
    ASSUME StreamsInv, StreamsInv', WireInv, NEW s \in Sessions, End(s)
    PROVE  WireInv'
<1>1. TypeOK /\ TypeOK' /\ se \in [Sessions -> Locals]
  BY TypeParts DEF StreamsInv
<1>2. /\ se[s].pc = "end" /\ ~Over(s) /\ se' = [se EXCEPT ![s] = [pc |-> "release"]]
      /\ Release(Mine(s), TRUE) /\ UNCHANGED <<out, left>>
  BY DEF End, At, Over, detach
<1>3. /\ se'[s] = [pc |-> "release"] /\ \A q \in Sessions : q # s => se'[q] = se[q] /\ out'[q] = out[q]
      /\ out'[s] = out[s]
  BY <1>1, <1>2
<1>4. Over(s)' /\ PlaceWire(s)'
  BY <1>3 DEF Over, PlaceWire
<1>5. Sent(s)' = out[s]
  BY <1>3, <1>4 DEF Sent
<1>6. out[s] \in Seq(Frames) /\ se[s].frames \in Seq(Frames) /\ Sent(s) = out[s] \o se[s].frames
  BY <1>1, <1>2, SentFacts
<1> DEFINE k == Len(out[s])
<1>7. out[s] = SubSeq(Sent(s), 1, k) /\ k \in 0..Len(Sent(s))
  BY <1>6, WrittenPrefix
<1> HIDE DEF k
<1>8. left'.events = left.events
  BY <1>2
<1> QED BY <1>1, <1>2, <1>3, <1>4, <1>5, <1>7, <1>8, ReleaseWire

LEMMA ReleaseBudgetWire ==
    ASSUME StreamsInv, StreamsInv', WireInv, NEW s \in Sessions, ReleaseBudget(s)
    PROVE  WireInv'
<1>1. TypeOK /\ TypeOK' /\ se \in [Sessions -> Locals] /\ out \in [Sessions -> Seq(Frames)]
  BY TypeParts DEF StreamsInv, OtherTypes
<1>2. /\ se' = [se EXCEPT ![s] = Gone] /\ out' = [out EXCEPT ![s] = << >>]
      /\ UNCHANGED <<sub, ring, pending, left>>
  BY DEF ReleaseBudget, streamVars
<1>3. /\ se'[s] = Gone /\ out'[s] = << >>
      /\ \A q \in Sessions : q # s => se'[q] = se[q] /\ out'[q] = out[q]
  BY <1>1, <1>2
<1>4. Over(s)' /\ PlaceWire(s)' /\ Sent(s)' = << >>
  BY <1>3 DEF Over, PlaceWire, Gone, Sent
<1>5. WireOf(s)'
  BY <1>4, EmptyFacts DEF WireOf
<1> QED BY <1>1, <1>2, <1>3, <1>4, <1>5, SessionWire

LEMMA SpawnWire ==
    ASSUME StreamsInv, StreamsInv', WireInv, NEW a \in Acceptors, NEW s \in Sessions, Spawn(a, s)
    PROVE  WireInv'
<1>1. TypeOK /\ TypeOK' /\ se \in [Sessions -> Locals] /\ out \in [Sessions -> Seq(Frames)]
  BY TypeParts DEF StreamsInv, OtherTypes
<1>2. /\ se' = [se EXCEPT ![s] = NewSession] /\ out' = [out EXCEPT ![s] = << >>]
      /\ UNCHANGED <<sub, ring, pending, left>>
  BY DEF Spawn, streamVars
<1>3. /\ se'[s] = NewSession /\ out'[s] = << >>
      /\ \A q \in Sessions : q # s => se'[q] = se[q] /\ out'[q] = out[q]
  BY <1>1, <1>2
<1>4. ~Over(s)' /\ PlaceWire(s)' /\ Sent(s)' = << >>
  <2>1. ~Over(s)' /\ PlaceWire(s)'
    BY <1>3 DEF Over, PlaceWire, NewSession, Starting, Stopping, At, Stream
  <2>2. Sent(s)' = << >> \o << >>
    BY <1>3, <2>1 DEF Sent, NewSession
  <2> QED BY <2>1, <2>2
<1>5. WireOf(s)'
  BY <1>4, EmptyFacts DEF WireOf
<1>6. EventsInv' /\ \A t \in Queued : LinkOf(s, t)'
  <2>1. EventsInv'
    BY <1>2 DEF WireInv, EventsInv, Now
  <2>2. \A t \in Queued : LinkOf(s, t)'
    BY <1>4, EmptyFacts DEF LinkOf
  <2> QED BY <2>1, <2>2
<1> QED BY <1>1, <1>2, <1>3, <1>5, <1>6, StreamsWire

-----------------------------------------------------------------------------
(* The steps of the client. *)

\* A request counts against the scene, and no event comes.
LEMMA RequestWire ==
    ASSUME StreamsInv, NEW s \in Sessions, Request(s)
    PROVE  /\ left'.events = left.events /\ out' = out
           /\ se[s].pc = "requests" /\ ~Over(s) /\ ~At(s, "started") /\ ~Starting(s) /\ ~Stopping(s)
           /\ TypeOK /\ se \in [Sessions -> Locals] /\ se[s] \in Running
           /\ se[s].frames \in Seq(Frames) /\ out[s] \in Seq(Frames) /\ Sent(s) \in Seq(Frames)
           /\ Sent(s) = out[s] \o se[s].frames
<1>1. TypeOK /\ se \in [Sessions -> Locals] /\ left \in Bounds
  BY TypeParts DEF StreamsInv, OtherTypes
<1>2. left'.events = left.events
  BY <1>1 DEF Request, Bounds
<1>3. /\ se[s].pc = "requests" /\ ~Over(s) /\ ~At(s, "started") /\ ~Starting(s) /\ ~Stopping(s)
      /\ out' = out
  BY DEF Request, At, Over, Starting, Stopping
<1> QED BY <1>1, <1>2, <1>3, SentFacts

\* A command that only answers.
LEMMA AnswerWire ==
    ASSUME StreamsInv, StreamsInv', WireInv, NEW s \in Sessions, Request(s),
           NEW answer \in {"error", "ok", "quit", "stop"}, Answer(s, answer), answer = "stop" => Stream(s) = None
    PROVE  /\ se'[s].pc = "respond" /\ se'[s].stream = se[s].stream
           /\ \A q \in Sessions : q # s => se'[q] = se[q] /\ out'[q] = out[q]
           /\ ~Over(s) /\ ~Over(s)' /\ Sent(s)' = Sent(s) /\ PlaceWire(s)'
           /\ UNCHANGED <<sub, ring, pending>> => WireInv'
<1> DEFINE x == [se[s] EXCEPT !.pc = "respond", !.answer = answer]
<1>1. /\ left'.events = left.events /\ out' = out /\ TypeOK /\ TypeOK' /\ se \in [Sessions -> Locals]
      /\ se[s].pc = "requests" /\ ~Over(s) /\ ~At(s, "started") /\ ~Starting(s) /\ ~Stopping(s)
      /\ se[s] \in Running /\ Sent(s) = out[s] \o se[s].frames
  BY RequestWire DEF StreamsInv
<1>2. se' = [se EXCEPT ![s] = x]
  BY <1>1 DEF Answer
<1>3. x.pc = "respond" /\ x.answer = answer /\ x.stream = se[s].stream /\ x.frames = se[s].frames
  BY <1>1 DEF Running
<1> HIDE DEF x
<1>4. se'[s] = x /\ \A q \in Sessions : q # s => se'[q] = se[q] /\ out'[q] = out[q]
  BY <1>1, <1>2
<1>5. ~Over(s)' /\ Sent(s)' = Sent(s)
  BY <1>1, <1>3, <1>4 DEF Over, Sent
<1>6. PlaceWire(s)'
  <2>1. /\ ~Starting(s)' /\ ~At(s, "started")' /\ Stream(s)' = Stream(s)
        /\ Stopping(s)' => Stream(s) = None
    BY <1>3, <1>4 DEF Starting, Stopping, At, Stream
  <2>2. PlaceWire(s)
    BY DEF WireInv, WireOf
  <2> QED BY <1>1, <1>3, <1>4, <1>5, <2>1, <2>2 DEF PlaceWire
<1>7. UNCHANGED <<sub, ring, pending>> => WireInv'
  BY <1>1, <1>4, <1>5, <1>6, SameWire
<1> QED BY <1>1, <1>3, <1>4, <1>5, <1>6, <1>7

LEMMA OtherWire ==
    ASSUME StreamsInv, StreamsInv', WireInv, NEW s \in Sessions, OtherCommand(s)
    PROVE  WireInv'
<1>1. PICK answer \in {"ok", "quit", "error"} : Answer(s, answer)
  BY DEF OtherCommand
<1>2. Request(s) /\ UNCHANGED <<sub, ring, pending>>
  BY DEF OtherCommand, streamVars
<1> QED BY <1>1, <1>2, AnswerWire

LEMMA ResetWire ==
    ASSUME StreamsInv, StreamsInv', WireInv, NEW s \in Sessions, ResetCommand(s)
    PROVE  WireInv'
<1>1. Request(s) /\ Answer(s, "ok") /\ Release(Types, FALSE) /\ Mine(s) \subseteq Types
  BY DEF ResetCommand, resetAll, Mine
<1>2. /\ left'.events = left.events /\ TypeOK /\ TypeOK' /\ Sent(s) \in Seq(Frames)
  BY <1>1, RequestWire DEF StreamsInv
<1>3. /\ \A q \in Sessions : q # s => se'[q] = se[q] /\ out'[q] = out[q]
      /\ ~Over(s) /\ ~Over(s)' /\ Sent(s)' = Sent(s) /\ PlaceWire(s)'
  BY <1>1, AnswerWire
<1> DEFINE k == Len(Sent(s))
<1>4. k \in 0..Len(Sent(s)) /\ Sent(s) = SubSeq(Sent(s), 1, k)
  BY <1>2
<1> HIDE DEF k
<1> QED BY <1>1, <1>2, <1>3, <1>4, ReleaseWire

\* What the session is writing goes out, the rest of the queue does not.
LEMMA StopWire ==
    ASSUME StreamsInv, StreamsInv', WireInv, NEW s \in Sessions, StreamStop(s)
    PROVE  WireInv'
<1>1. Request(s)
  BY DEF StreamStop
<1>2. /\ left'.events = left.events /\ out' = out
      /\ se[s].pc = "requests" /\ ~Over(s)
      /\ TypeOK /\ TypeOK' /\ se \in [Sessions -> Locals] /\ se[s] \in Running
      /\ se[s].frames \in Seq(Frames) /\ out[s] \in Seq(Frames) /\ Sent(s) \in Seq(Frames)
      /\ Sent(s) = out[s] \o se[s].frames
  BY <1>1, RequestWire DEF StreamsInv
<1>3. CASE Stream(s) = None
  <2>1. Answer(s, "stop") /\ UNCHANGED <<sub, ring, pending>>
    BY <1>3 DEF StreamStop, streamVars
  <2> QED BY <1>1, <1>3, <2>1, AnswerWire
<1>4. CASE Stream(s) # None
  <2> DEFINE j == IF se[s].current THEN 1 ELSE 0
             fs == IF se[s].current THEN SubSeq(se[s].frames, 1, 1) ELSE << >>
             x == [clearQueue(se[s]) EXCEPT !.pc = "respond", !.answer = "stop",
                                            !.stream = None, !.dropped = 0, !.suppressed = 0]
  <2>1. Release(Mine(s), FALSE) /\ se' = [se EXCEPT ![s] = x]
    BY <1>2, <1>4 DEF StreamStop, stop
  <2>2. fs = SubSeq(se[s].frames, 1, j) /\ j \in 0..Len(se[s].frames)
    <3>1. CASE se[s].current
      <4>1. se[s].frames # << >>
        BY <1>2, <3>1 DEF StreamsInv, PlaceInv
      <4>2. 1 \in 0..Len(se[s].frames)
        BY <1>2, <4>1
      <4> QED BY <3>1, <4>2
    <3>2. CASE ~se[s].current
      <4>1. SubSeq(se[s].frames, 1, 0) = << >> /\ 0 \in 0..Len(se[s].frames)
        BY <1>2
      <4> QED BY <3>2, <4>1
    <3> QED BY <3>1, <3>2
  <2> HIDE DEF j
  <2>3. x.pc = "respond" /\ x.answer = "stop" /\ x.stream = None /\ x.frames = fs
    <3>1. /\ clearQueue(se[s]) = [se[s] EXCEPT !.frames = fs]
      BY DEF clearQueue
    <3> HIDE DEF fs
    <3> QED BY <1>2, <3>1 DEF Running
  <2> HIDE DEF x, fs
  <2>4. /\ se'[s] = x /\ out'[s] = out[s]
        /\ \A q \in Sessions : q # s => se'[q] = se[q] /\ out'[q] = out[q]
    BY <1>2, <2>1
  <2>5. ~Over(s)'
    BY <2>3, <2>4 DEF Over
  <2>6. Sent(s)' = out[s] \o fs
    BY <2>3, <2>4, <2>5 DEF Sent
  <2> DEFINE k == Len(out[s]) + j
  <2>7. Sent(s)' = SubSeq(Sent(s), 1, k) /\ k \in 0..Len(Sent(s))
    BY <1>2, <2>2, <2>6, SplitFrames
  <2> HIDE DEF k
  <2>8. PlaceWire(s)'
    BY <2>3, <2>4 DEF PlaceWire, Starting, Stopping, At, Stream
  <2> QED BY <1>2, <2>1, <2>4, <2>5, <2>7, <2>8, ReleaseWire
<1> QED BY <1>3, <1>4

\* What is replayed to a new subscriber is what nobody owns, and newer than
\* anything this client was sent.
LEMMA StartWire ==
    ASSUME StreamsInv, StreamsInv', WireInv, NEW s \in Sessions, NEW t \in Types, StreamStart(s, t)
    PROVE  WireInv'
<1>1. Request(s)
  BY DEF StreamStart
<1>2. /\ left'.events = left.events /\ out' = out
      /\ se[s].pc = "requests" /\ ~Over(s) /\ ~At(s, "started") /\ ~Starting(s) /\ ~Stopping(s)
      /\ TypeOK /\ TypeOK' /\ StreamTypes /\ se \in [Sessions -> Locals] /\ se[s] \in Running
      /\ se[s].frames \in Seq(Frames) /\ out[s] \in Seq(Frames) /\ Sent(s) \in Seq(Frames)
      /\ Sent(s) = out[s] \o se[s].frames
  BY <1>1, RequestWire, TypeParts DEF StreamsInv
<1>3. CASE Stream(s) # None \/ ~canStart(s, t)
  <2>1. Answer(s, "error") /\ UNCHANGED <<sub, ring, pending>>
    BY <1>3 DEF StreamStart, streamVars
  <2> QED BY <1>1, <2>1, AnswerWire
<1>4. CASE ~(Stream(s) # None \/ ~canStart(s, t))
  <2> DEFINE x == [se[s] EXCEPT !.pc = "respond", !.answer = "start", !.stream = t,
                                !.dropped = 0, !.suppressed = 0]
  <2>1. Stream(s) = None /\ sub[t] \in {None, s} /\ t # None
    BY <1>4, ControlStreamsAssumption DEF canStart
  <2>2. \A v \in Types : sub[v] # s
    BY <2>1, ControlStreamsAssumption DEF StreamsInv, OwnerInv
  <2>3. se' = [se EXCEPT ![s] = x]
    BY <1>2, <1>4 DEF StreamStart
  <2>4. x.pc = "respond" /\ x.answer = "start" /\ x.stream = t /\ x.frames = se[s].frames
    BY <1>2 DEF Running
  <2> HIDE DEF x
  <2>5. /\ se'[s] = x /\ out'[s] = out[s]
        /\ \A q \in Sessions : q # s => se'[q] = se[q] /\ out'[q] = out[q]
    BY <1>2, <2>3
  <2>6. ~Over(s)' /\ Sent(s)' = Sent(s) /\ Now' = Now
    <3>1. ~Over(s)'
      BY <2>4, <2>5 DEF Over
    <3> QED BY <1>2, <2>4, <2>5, <3>1 DEF Sent, Now
  <2>7. PlaceWire(s)'
    <3>1. se[s].frames = << >>
      BY <1>2, <2>1 DEF WireInv, WireOf, PlaceWire
    <3>2. Starting(s)' /\ ~Stopping(s)' /\ ~At(s, "started")' /\ Stream(s)' = t
      BY <2>4, <2>5 DEF Starting, Stopping, At, Stream
    <3> QED BY <2>1, <2>4, <2>5, <3>1, <3>2 DEF PlaceWire
  <2>8. WireOf(s)'
    BY <2>6, <2>7 DEF WireInv, WireOf
  <2>9. /\ ring' = ring /\ sub' = [sub EXCEPT ![t] = s]
        /\ \A v \in Queued : v # t => pending'[v] = pending[v]
        /\ t \in Queued => /\ Rising(pending'[t]) /\ UpTo(pending'[t], Now)
                           /\ After(Sent(s), t, pending'[t])
    <3>1. CASE t = "activity"
      <4>1. startActivity(s)
        BY <1>4, <3>1 DEF StreamStart
      <4>2. t \notin Queued
        BY <3>1, ControlStreamsAssumption
      <4> QED BY <1>2, <3>1, <4>1, <4>2 DEF startActivity, StreamTypes, Types
    <3>2. CASE t # "activity"
      <4>1. PICK m \in MinSizes, h \in 1..(Len(ring[t]) + 1) : start(s, t, h, m)
        BY <1>4, <3>2 DEF StreamStart
      <4> DEFINE e == ring[t]
                 i == replayStartIndexForUnion(e, h, clampMinSize(m))
                 kept == SubSeq(e, i, Len(e))
                 r == LastN(kept, MaxPending)
      <4>2. /\ sub' = [sub EXCEPT ![t] = s] /\ pending' = [pending EXCEPT ![t] = r] /\ ring' = ring
        BY <4>1 DEF start, Replay
      <4>3. e \in Seq(Nat) /\ Len(e) \in Nat /\ t \in Queued
        BY <1>2, <3>2 DEF StreamTypes, Types
      <4>4. i \in 1..(Len(e) + 1)
        <5>1. clampMinSize(m) \in Nat
          <6>1. m \in Nat /\ MaxRing \in Nat
            BY ControlStreamsAssumption
          <6> QED BY <6>1 DEF clampMinSize
        <5> DEFINE size == clampMinSize(m)
                   len == Len(e)
        <5>2. i = IF (IF size >= len THEN 1 ELSE len - size + 1) < h
                  THEN (IF size >= len THEN 1 ELSE len - size + 1) ELSE h
          BY DEF replayStartIndexForUnion
        <5>3. size \in Nat /\ len \in Nat /\ h \in 1..(len + 1)
          BY <4>3, <5>1
        <5> SUFFICES i \in 1..(len + 1)
          OBVIOUS
        <5> HIDE DEF i, size, len
        <5> QED BY <5>2, <5>3
      <4> HIDE DEF i, e
      <4>5. kept \in Seq(Nat) /\ Suffix(kept, e)
        <5>1. kept \in Seq(Nat)
          BY <4>3, <4>4
        <5>2. Suffix(kept, e)
          BY <4>3, <4>4, SuffixFacts
        <5> QED BY <5>1, <5>2
      <4> HIDE DEF kept
      <4>6. r \in Seq(Nat) /\ Suffix(r, kept)
        <5>1. MaxPending \in Nat
          BY ControlStreamsAssumption
        <5> QED BY <4>5, <5>1, LastNFacts, SuffixFacts
      <4> HIDE DEF r
      <4>7. Rising(e) /\ UpTo(e, Now) /\ After(Sent(s), t, e) /\ Now \in Nat
        <5>1. LinkOf(s, t) /\ EventsInv
          BY <4>3 DEF WireInv
        <5> QED BY <1>2, <2>2, <4>3, <5>1, NowFacts DEF EventsInv, LinkOf, e
      <4>8. Rising(kept) /\ UpTo(kept, Now) /\ After(Sent(s), t, kept)
        BY <1>2, <4>3, <4>5, <4>7, SuffixKeeps
      <4>9. Rising(r) /\ UpTo(r, Now) /\ After(Sent(s), t, r)
        BY <1>2, <4>3, <4>5, <4>6, <4>7, <4>8, SuffixKeeps
      <4>10. pending'[t] = r /\ \A v \in Queued : v # t => pending'[v] = pending[v]
        BY <1>2, <4>2 DEF StreamTypes, Types
      <4> QED BY <4>2, <4>9, <4>10
    <3> QED BY <3>1, <3>2
  <2>10. sub'[t] = s /\ \A v \in Types : v # t => sub'[v] = sub[v]
    BY <1>2, <2>9 DEF StreamTypes
  <2>11. EventsInv'
    <3> SUFFICES ASSUME NEW u \in Queued
                 PROVE  /\ Rising(ring'[u]) /\ Rising(pending'[u])
                        /\ UpTo(ring'[u], Now') /\ UpTo(pending'[u], Now')
      BY DEF EventsInv
    <3>1. Rising(ring[u]) /\ Rising(pending[u]) /\ UpTo(ring[u], Now) /\ UpTo(pending[u], Now)
      BY DEF WireInv, EventsInv
    <3> QED BY <2>6, <2>9, <3>1
  <2>12. ASSUME NEW u \in Queued PROVE LinkOf(s, u)'
    <3>1. CASE u = t
      BY <2>6, <2>9, <2>10, <3>1 DEF LinkOf
    <3>2. CASE u # t
      <4>1. LinkOf(s, u) /\ u \in Types
        BY DEF WireInv, Types
      <4> QED BY <1>2, <2>6, <2>9, <2>10, <3>2, <4>1 DEF LinkOf
    <3> QED BY <3>1, <3>2
  <2>13. ASSUME NEW q \in Sessions, NEW u \in Queued, q # s
         PROVE  /\ ring'[u] = ring[u] /\ (sub'[u] = q <=> sub[u] = q)
                /\ sub[u] = q => pending'[u] = pending[u]
    BY <2>1, <2>9, <2>10, <2>13, ControlStreamsAssumption DEF Types
  <2> QED BY <1>2, <2>5, <2>8, <2>11, <2>12, <2>13, StreamsWire
<1> QED BY <1>3, <1>4

-----------------------------------------------------------------------------
(* The events, and the theorem. *)

\* Queue e2 is e, or e with the newest event and without its oldest ones.
Grows(e, e2) == e2 = e \/ \E n \in Nat : e2 = LastN(Append(e, Now + 1), n)

LEMMA GrowsFacts ==
    ASSUME TypeOK, NEW e \in Seq(Nat), NEW e2, Grows(e, e2), Rising(e), UpTo(e, Now)
    PROVE  /\ Rising(e2) /\ UpTo(e2, Now + 1)
           /\ \A t \in Queued : \A q \in Seq(Frames) : After(q, t, e) /\ Past(q, Now) => After(q, t, e2)
<1>1. Now \in Nat /\ Now + 1 \in Nat
  BY NowFacts
<1>2. CASE e2 = e
  <2>1. UpTo(e, Now + 1)
    <3>1. \A i \in DOMAIN e : e[i] \in Nat /\ e[i] <= Now
      BY DEF UpTo
    <3> QED BY <1>1, <3>1 DEF UpTo
  <2> QED BY <1>2, <2>1
<1>3. CASE e2 # e
  <2>1. PICK n \in Nat : e2 = LastN(Append(e, Now + 1), n)
    BY <1>3 DEF Grows
  <2> DEFINE p == Append(e, Now + 1)
  <2>2. /\ p \in Seq(Nat) /\ Rising(p) /\ UpTo(p, Now + 1)
        /\ \A t \in Queued : \A q \in Seq(Frames) : After(q, t, e) /\ Past(q, Now) => After(q, t, p)
    BY <1>1, NewEvent
  <2> HIDE DEF p
  <2>3. e2 \in Seq(Nat) /\ Suffix(e2, p)
    <3>1. e2 = LastN(p, n)
      BY <2>1 DEF p
    <3>2. LastN(p, n) \in Seq(Nat) /\ Suffix(LastN(p, n), p)
      BY <2>1, <2>2, LastNFacts, SuffixFacts
    <3> QED BY <3>1, <3>2
  <2>4. Rising(e2) /\ UpTo(e2, Now + 1) /\ \A t \in Queued : \A q \in Seq(Frames) : After(q, t, p) => After(q, t, e2)
    BY <1>1, <2>2, <2>3, SuffixKeeps
  <2> QED BY <2>2, <2>4
<1> QED BY <1>2, <1>3

\* An event comes.
LEMMA EventWire ==
    ASSUME TypeOK, TypeOK', WireInv, UNCHANGED <<sub, se, out>>, left'.events = left.events - 1,
           \A t \in Queued : Grows(ring[t], ring'[t]) /\ Grows(pending[t], pending'[t])
    PROVE  WireInv'
<1>1. Now \in Nat /\ Now' = Now + 1
  <2>1. left.events \in 0..MaxEvents /\ MaxEvents \in Nat
    BY ControlStreamsAssumption DEF TypeOK, Bounds
  <2> QED BY <2>1, NowFacts DEF Now
<1>2. ASSUME NEW t \in Queued
      PROVE  /\ Rising(ring'[t]) /\ UpTo(ring'[t], Now') /\ Rising(pending'[t]) /\ UpTo(pending'[t], Now')
             /\ \A q \in Seq(Frames) : After(q, t, ring[t]) /\ Past(q, Now) => After(q, t, ring'[t])
             /\ \A q \in Seq(Frames) : After(q, t, pending[t]) /\ Past(q, Now) => After(q, t, pending'[t])
  <2>1. /\ Rising(ring[t]) /\ UpTo(ring[t], Now) /\ Rising(pending[t]) /\ UpTo(pending[t], Now)
        /\ ring[t] \in Seq(Nat) /\ pending[t] \in Seq(Nat)
    BY NowFacts DEF WireInv, EventsInv
  <2>2. /\ Rising(ring'[t]) /\ UpTo(ring'[t], Now + 1)
        /\ \A q \in Seq(Frames) : After(q, t, ring[t]) /\ Past(q, Now) => After(q, t, ring'[t])
    BY <2>1, GrowsFacts
  <2>3. /\ Rising(pending'[t]) /\ UpTo(pending'[t], Now + 1)
        /\ \A q \in Seq(Frames) : After(q, t, pending[t]) /\ Past(q, Now) => After(q, t, pending'[t])
    BY <2>1, GrowsFacts
  <2> QED BY <1>1, <2>2, <2>3
<1>3. EventsInv'
  BY <1>2 DEF EventsInv
<1>4. ASSUME NEW s \in Sessions PROVE WireOf(s)' /\ \A t \in Queued : LinkOf(s, t)'
  <2>1. Sent(s)' = Sent(s) /\ (Over(s)' <=> Over(s)) /\ WireOf(s)'
    <3>1. WireOf(s) /\ se'[s] = se[s] /\ out'[s] = out[s] /\ Now <= Now'
      BY <1>1 DEF WireInv
    <3> QED BY <3>1, IdleWire
  <2>2. ASSUME NEW t \in Queued PROVE LinkOf(s, t)'
    <3>1. LinkOf(s, t) /\ Past(Sent(s), Now) /\ Sent(s) \in Seq(Frames)
      BY SentFacts DEF WireInv, WireOf, Sound
    <3> QED BY <1>2, <2>1, <3>1 DEF LinkOf
  <2> QED BY <2>1, <2>2
<1> QED BY <1>3, <1>4 DEF WireInv

LEMMA ObserveWire ==
    ASSUME StreamsInv, StreamsInv', WireInv, NEW t \in Queued, observeTracked(t)
    PROVE  WireInv'
<1>1. TypeOK /\ TypeOK' /\ StreamTypes /\ left \in Bounds /\ t \in Types
  BY TypeParts DEF StreamsInv, OtherTypes, Types
<1>2. MaxRing \in Nat /\ MaxPending \in Nat
  BY ControlStreamsAssumption
<1>3. UNCHANGED <<sub, se, out>> /\ left'.events = left.events - 1
  BY <1>1 DEF observeTracked, Bounds
<1>4. /\ ring' = [ring EXCEPT ![t] = LastN(Append(ring[t], Now + 1), MaxRing)]
      /\ pending' \in {pending, [pending EXCEPT ![t] = LastN(Append(pending[t], Now + 1), MaxPending)]}
  <2>1. ring' = [ring EXCEPT ![t] = pushRing(ring[t], Now + 1)]
    BY DEF observeTracked, Now
  <2>2. pending' = pending \/ pending' = [pending EXCEPT ![t] = pushPending(pending[t], dropped[t], Now + 1).q]
    BY DEF observeTracked, Now
  <2> QED BY <2>1, <2>2 DEF pushRing, pushPending
<1>5. ASSUME NEW u \in Queued PROVE Grows(ring[u], ring'[u]) /\ Grows(pending[u], pending'[u])
  <2>1. u \in Types
    BY DEF Types
  <2>2. CASE u # t
    BY <1>1, <1>4, <2>1, <2>2 DEF Grows, StreamTypes
  <2>3. CASE u = t
    <3>1. ring'[t] = LastN(Append(ring[t], Now + 1), MaxRing)
      BY <1>1, <1>4 DEF StreamTypes
    <3>2. pending'[t] = pending[t] \/ pending'[t] = LastN(Append(pending[t], Now + 1), MaxPending)
      BY <1>1, <1>4 DEF StreamTypes
    <3> QED BY <1>2, <2>3, <3>1, <3>2 DEF Grows
  <2> QED BY <2>2, <2>3
<1> QED BY <1>1, <1>3, <1>5, EventWire

LEMMA BlockWire == StreamsInv /\ StreamsInv' /\ WireInv /\ observeBlockEnabled => WireInv'
<1> SUFFICES ASSUME StreamsInv, StreamsInv', WireInv, observeBlockEnabled PROVE WireInv'
  OBVIOUS
<1>1. TypeOK /\ TypeOK' /\ StreamTypes /\ left \in Bounds
  BY TypeParts DEF StreamsInv, OtherTypes
<1>2. UNCHANGED <<sub, se, out, ring>> /\ left'.events = left.events - 1
  BY <1>1 DEF observeBlockEnabled, Bounds
<1>3. \A u \in Queued : ring'[u] = ring[u] /\ pending'[u] = pending[u]
  BY <1>1, <1>2, ControlStreamsAssumption DEF observeBlockEnabled, StreamTypes, Types
<1>4. \A u \in Queued : Grows(ring[u], ring'[u]) /\ Grows(pending[u], pending'[u])
  BY <1>3 DEF Grows
<1> QED BY <1>1, <1>2, <1>4, EventWire

\* Nothing that a client reads, or that waits for one, moves.
LEMMA AsideWire ==
    ASSUME StreamsInv, StreamsInv', WireInv,
           \/ \E a \in Acceptors : Accept(a) \/ CasBudget(a)
           \/ snortRequestShutdown
           \/ \E t \in Queued : observeSuppressed(t) \/ CountSuppressed(t)
           \/ UNCHANGED vars
    PROVE  WireInv'
<1>1. TypeOK /\ TypeOK' /\ left \in Bounds
  BY TypeParts DEF StreamsInv, OtherTypes
<1>2. UNCHANGED <<sub, ring, pending, se, out>>
  BY DEF Accept, CasBudget, snortRequestShutdown, observeSuppressed, CountSuppressed, vars, streamVars
<1>3. left'.events = left.events
  BY <1>1 DEF Accept, CasBudget, snortRequestShutdown, observeSuppressed, CountSuppressed, vars, Bounds
<1> QED BY <1>1, <1>2, <1>3, QuietWire

LEMMA WireInit == Init => WireInv
<1> SUFFICES ASSUME Init PROVE WireInv
  OBVIOUS
<1>1. \A t \in Queued : ring[t] = << >> /\ pending[t] = << >>
  BY DEF Init, Types
<1>2. \A s \in Sessions : se[s].pc = "gone" /\ out[s] = << >>
  BY DEF Init, Gone
<1>3. \A s \in Sessions : Over(s) /\ Sent(s) = << >> /\ PlaceWire(s)
  BY <1>2 DEF Over, Sent, PlaceWire
<1> QED BY <1>1, <1>3, EmptyFacts DEF WireInv, EventsInv, WireOf, LinkOf

\* What the invariant says of the frames a client read.
LEMMA WireOrderFacts == StreamsInv /\ WireInv => WireOrder
<1> SUFFICES ASSUME StreamsInv, WireInv, NEW s \in Sessions
             PROVE  LET q == out[s] IN
                      /\ \A i \in DOMAIN q : q[i].kind \in {"started", "event", "dropped", "suppressed"} => InStream(q, i)
                      /\ \A i, j \in DOMAIN q :
                           /\ i < j /\ q[i].kind = "event" /\ q[j].kind = "event" /\ q[i].type = q[j].type
                           /\ q[i].type \in Queued
                           => q[i].n < q[j].n
  BY DEF WireOrder
<1>1. TypeOK /\ Sound(Sent(s), Now)
  BY DEF StreamsInv, WireInv, WireOf
<1>2. Sound(out[s], Now)
  <2>1. CASE Over(s)
    BY <1>1, <2>1 DEF Sent
  <2>2. CASE ~Over(s)
    <3>1. out[s] \in Seq(Frames) /\ se[s].frames \in Seq(Frames) /\ Sent(s) = out[s] \o se[s].frames
          /\ Sent(s) \in Seq(Frames)
      BY <1>1, <2>2, SentFacts
    <3> DEFINE k == Len(out[s])
    <3>2. out[s] = SubSeq(Sent(s), 1, k) /\ k \in 0..Len(Sent(s))
      BY <3>1, WrittenPrefix
    <3> HIDE DEF k
    <3> QED BY <1>1, <3>1, <3>2, SoundPrefix
  <2> QED BY <2>1, <2>2
<1>3. Framed(out[s]) /\ Ordered(out[s])
  BY <1>2 DEF Sound
<1> QED BY <1>3 DEF Framed, Ordered, IsEvent

LEMMA WireStep == ASSUME StreamsInv, StreamsInv', WireInv, [Next]_vars PROVE WireInv'
<1>1. CASE \E a \in Acceptors : \E s \in Sessions : Spawn(a, s)
  BY <1>1, SpawnWire
<1>2. CASE \/ \E a \in Acceptors : Accept(a) \/ CasBudget(a)
           \/ snortRequestShutdown
           \/ \E t \in Queued : observeSuppressed(t) \/ CountSuppressed(t)
           \/ UNCHANGED vars
  BY <1>2, AsideWire
<1>3. CASE (\E t \in Queued : observeTracked(t)) \/ observeBlockEnabled
  BY <1>3, ObserveWire, BlockWire
<1>4. ASSUME NEW s \in Sessions, Work(s) PROVE WireInv'
  <2>1. CASE Respond(s)
    BY <2>1, RespondWire
  <2>2. CASE Started(s)
    BY <2>2, StartedWire
  <2>3. CASE Check(s) \/ Loop(s)
    BY <2>3, LoopWire
  <2>4. CASE \E due \in BOOLEAN : Take(s, due)
    BY <2>4, TakeWire
  <2>5. CASE Drain(s)
    BY <2>5, DrainWire
  <2>6. CASE \E k \in 0..(MaxQueued + 2) : Flush(s, k)
    BY <2>6, FlushWire
  <2>7. CASE End(s)
    BY <2>7, EndWire
  <2>8. CASE ReleaseBudget(s)
    BY <2>8, ReleaseBudgetWire
  <2> QED BY <1>4, <2>1, <2>2, <2>3, <2>4, <2>5, <2>6, <2>7, <2>8 DEF Work
<1>5. ASSUME NEW s \in Sessions, Client(s) PROVE WireInv'
  <2>1. CASE \E t \in Types : StreamStart(s, t)
    BY <2>1, StartWire
  <2>2. CASE StreamStop(s)
    BY <2>2, StopWire
  <2>3. CASE OtherCommand(s)
    BY <2>3, OtherWire
  <2>4. CASE ResetCommand(s)
    BY <2>4, ResetWire
  <2>5. CASE flushBlockingFails(s) \/ enqueueDocFails(s) \/ DeadlineMissed(s) \/ PollEnds(s)
    <3>1. ~Over(s) /\ Ends(s)
      BY <2>5 DEF flushBlockingFails, enqueueDocFails, DeadlineMissed, PollEnds, At, Over
    <3> QED BY <3>1, LoopWire
  <2> QED BY <1>5, <2>1, <2>2, <2>3, <2>4, <2>5 DEF Client
<1> QED BY <1>1, <1>2, <1>3, <1>4, <1>5 DEF Next

\* What a client reads is in order: an event or a notice only within the stream
\* it started, between the start's notice and the stop, and the events of a
\* stream each once, in the order they happened, over every START, STOP, reset,
\* full queue and partial write.  (ControlVNextSession::run, FrameWriter,
\* ControlVNextStreamManager.)
THEOREM WireInOrder == Spec => []WireOrder
<1>1. Init => WireInv
  BY WireInit
<1>2. StreamsInv /\ StreamsInv' /\ WireInv /\ [Next]_vars => WireInv'
  BY WireStep
<1>3. StreamsInv /\ WireInv => WireOrder
  BY WireOrderFacts
<1> QED BY <1>1, <1>2, <1>3, StreamsInvariant, PTL DEF Spec
===============================================================================
