------------------------------ MODULE FlowTelemetryProofs ------------------------------
(***************************************************************************)
(* The safety of the telemetry ring for any number of producers, slots,    *)
(* sessions and tickets: who owns a slot, what a committed slot holds, and *)
(* that a datapath thread never writes into a session that is gone.        *)
(***************************************************************************)
EXTENDS FlowTelemetry, FiniteSetTheorems, TLAPS

\* How far a producer is with the slot it owns: the ticket it works for was issued, and
\* the bytes it has already stored are still there.
WriterProgress ==
    \A p \in Producers :
       /\ pc[p] \in InTryWrite => ticket[p] \in 0 .. writeTicket - 1
       /\ pc[p] \in {"payload", "commit"} => slotHeader[slotForTicket(ticket[p])] = ticket[p]
       /\ pc[p] = "commit" => slotPayload[slotForTicket(ticket[p])] = ticket[p]

\* The inductive invariant of the ring and its sessions.
RingInv ==
    /\ TypeOK
    /\ SessionPinned
    /\ SlotOwnership
    /\ WriterProgress
    /\ CommittedIntact

\* slotForTicket names a slot, whatever the ticket.
LEMMA SlotInRange == \A t \in Nat : slotForTicket(t) \in Slots
  BY FlowTelemetryAssumption DEF slotForTicket, Slots

\* The initial state satisfies the inductive invariant.
LEMMA RingInit == Init => RingInv
  BY FlowTelemetryAssumption
  DEF Init, RingInv, TypeOK, SessionPinned, SlotOwnership, WriterProgress,
      CommittedIntact, SlotStates, InSlot, InTryWrite, ToCount, Slots

\* A session boundary leaves no producer inside and a ring with nothing in it.
LEMMA FreshRingInv ==
    ASSUME RingInv, UniqueLock, FreshRing,
           UNCHANGED producerVars,
           nextSessionId' \in Nat \ {0}, session' \in 0 .. nextSessionId' - 1,
           ownerKey' \in Keys \cup {NoKey}, opened' \in [Keys -> Nat],
           recordsWritten' \in Nat, recordsDropped' \in Nat, attempts' \in Nat
    PROVE  RingInv'
<1>1. \A p \in Producers : pc'[p] = "idle"
  BY DEF RingInv, SessionPinned, UniqueLock, producerVars
<1>2. TypeOK'
  BY FlowTelemetryAssumption DEF RingInv, TypeOK, FreshRing, producerVars, SlotStates, Slots
<1>3. SessionPinned' /\ WriterProgress'
  BY <1>1 DEF SessionPinned, WriterProgress, InTryWrite, InSlot
<1>4. SlotOwnership' /\ CommittedIntact'
  BY <1>1 DEF SlotOwnership, CommittedIntact, FreshRing, InSlot, Slots
<1> QED BY <1>2, <1>3, <1>4 DEF RingInv

\* The handlers that hold the exclusive lock preserve the invariant.
LEMMA ControlStep == RingInv /\ Control => RingInv'
<1> SUFFICES ASSUME RingInv, Control PROVE RingInv'
  OBVIOUS
<1> USE FlowTelemetryAssumption
<1>1. CASE ResetAll
  BY <1>1, FreshRingInv DEF ResetAll, RingInv, TypeOK
<1>2. ASSUME NEW k \in Keys, TelemetryOpen(k) PROVE RingInv'
  BY <1>2, FreshRingInv DEF TelemetryOpen, RingInv, TypeOK, counters
<1>3. ASSUME NEW k \in Keys, TelemetryClose(k) PROVE RingInv'
  <2>1. /\ recordsWritten' \in Nat /\ recordsDropped' \in Nat /\ attempts' \in Nat
        /\ nextSessionId' \in Nat \ {0} /\ opened' \in [Keys -> Nat]
    BY <1>3 DEF TelemetryClose, DisabledEnds, RingInv, TypeOK
  <2>2. CASE ownerKey = k
    BY <1>3, <2>1, <2>2, FreshRingInv DEF TelemetryClose, close, RingInv, TypeOK
  <2>3. CASE ownerKey # k
    BY <1>3, <2>1, <2>3
    DEF TelemetryClose, close, RingInv, TypeOK, SessionPinned, SlotOwnership, WriterProgress,
        CommittedIntact, ringVars, producerVars
  <2> QED BY <2>2, <2>3
<1>4. ASSUME NEW k \in Keys, Reconnect(k) PROVE RingInv'
  BY <1>4
  DEF Reconnect, RingInv, TypeOK, SessionPinned, SlotOwnership, WriterProgress,
      CommittedIntact, ringVars, producerVars, counters
<1> QED BY <1>1, <1>2, <1>3, <1>4 DEF Control

\* Steps of a producer that touch no slot preserve the invariant.
LEMMA WindowStep ==
    ASSUME RingInv, NEW p \in Producers,
           \/ hotPathFlow(p) \/ Leave(p) \/ ExportConsumerAbsent(p)
           \/ Reserve(p) \/ CountOutcome(p)
    PROVE  RingInv'
<1> USE FlowTelemetryAssumption DEF sessionVars, ringVars, slotVars, producerVars, counters
<1> USE DEF RingInv, TypeOK, SessionPinned, SlotOwnership, WriterProgress, CommittedIntact
<1> USE DEF InTryWrite, InSlot, ToCount
<1>1. CASE hotPathFlow(p)
  BY <1>1 DEF hotPathFlow
<1>2. CASE Leave(p)
  BY <1>2 DEF Leave
<1>3. CASE ExportConsumerAbsent(p)
  BY <1>3 DEF ExportConsumerAbsent
<1>4. CASE Reserve(p)
  BY <1>4 DEF Reserve
<1>5. CASE CountOutcome(p)
  BY <1>5 DEF CountOutcome
<1> QED BY <1>1, <1>2, <1>3, <1>4, <1>5

\* The atomic operations and copies of tryWrite preserve the invariant.
LEMMA SlotStep ==
    ASSUME RingInv, NEW p \in Producers,
           CasEmpty(p) \/ CasCommitted(p) \/ WriteHeader(p) \/ WritePayload(p) \/ Commit(p)
    PROVE  RingInv'
<1> DEFINE i == slotForTicket(ticket[p])
<1> USE FlowTelemetryAssumption DEF sessionVars, ringVars, slotVars, producerVars, counters
<1> USE DEF RingInv, TypeOK, SessionPinned, SlotOwnership, WriterProgress, CommittedIntact
<1> USE DEF InTryWrite, InSlot, ToCount, SlotStates
<1>0. i \in Slots /\ \A q \in Producers : slotForTicket(ticket[q]) \in Slots
  BY SlotInRange
<1>1. CASE CasEmpty(p)
  BY <1>0, <1>1 DEF CasEmpty
<1>2. CASE CasCommitted(p)
  BY <1>0, <1>2 DEF CasCommitted
<1>3. CASE WriteHeader(p)
  BY <1>0, <1>3 DEF WriteHeader
<1>4. CASE WritePayload(p)
  BY <1>0, <1>4 DEF WritePayload
<1>5. CASE Commit(p)
  BY <1>0, <1>5 DEF Commit
<1> QED BY <1>1, <1>2, <1>3, <1>4, <1>5

\* Every step, and stuttering, preserves the invariant.
LEMMA RingStep == RingInv /\ [Next]_vars => RingInv'
<1> SUFFICES ASSUME RingInv, [Next]_vars PROVE RingInv'
  OBVIOUS
<1>1. CASE Control
  BY <1>1, ControlStep
<1>2. ASSUME NEW p \in Producers, ProducerStep(p) PROVE RingInv'
  BY <1>2, WindowStep, SlotStep DEF ProducerStep, ExportStep
<1>3. CASE UNCHANGED vars
  BY <1>3
  DEF vars, RingInv, TypeOK, SessionPinned, SlotOwnership, WriterProgress, CommittedIntact
<1> QED BY <1>1, <1>2, <1>3 DEF Next

\* The ring's inductive invariant holds in every reachable state.
THEOREM RingInvariant == Spec => []RingInv
  BY RingInit, RingStep, PTL DEF Spec

\* Every variable keeps its type for any number of producers, slots and sessions.
THEOREM TypeCorrect == Spec => []TypeOK
  BY RingInvariant, PTL DEF RingInv

\* No datapath thread ever holds a session that an OPEN, CLOSE or RESETALL has replaced.
THEOREM SessionNeverFreedUnderWriter == Spec => []SessionPinned
  BY RingInvariant, PTL DEF RingInv

\* A WRITING slot has exactly one producer, for any number of producers and slots.
THEOREM OneWriterPerSlot == Spec => []SlotOwnership
  BY RingInvariant, PTL DEF RingInv

\* A committed slot never mixes two records: header and payload are of one ticket.
THEOREM CommittedRecordsIntact == Spec => []CommittedIntact
  BY RingInvariant, PTL DEF RingInv

-----------------------------------------------------------------------------
(* The ring implements TelemetryBoard. *)

\* An intact committed slot shows its header's ticket, whatever is issued meanwhile.
LEMMA ShownTicket ==
    ASSUME CommittedIntact
    PROVE  Shown = [j \in Slots |-> IF slotState[j] = "Committed" THEN slotHeader[j] ELSE None]
  BY DEF CommittedIntact, Shown

\* A step of the implementation is a step of the board or leaves it alone.
LEMMA BoardStep ==
    RingInv /\ RingInv' /\ [Next]_vars => [Board!BoardNext]_<<writeTicket, Shown>>
<1> SUFFICES ASSUME RingInv, RingInv', [Next]_vars
             PROVE  [Board!BoardNext]_<<writeTicket, Shown>>
  OBVIOUS
<1> DEFINE B == [j \in Slots |-> IF slotState[j] = "Committed" THEN slotHeader[j] ELSE None]
<1>b. /\ B = Shown
      /\ B' = Shown'
  BY ShownTicket DEF RingInv, Shown, CommittedIntact
<1>1. CASE Control
  <2>1. CASE FreshRing
    BY <2>1, <1>b DEF FreshRing, Board!BoardNext, Board!Renew, Board!Places, Slots, Shown
  <2>2. CASE UNCHANGED ringVars
    BY <2>2 DEF ringVars, Shown
  <2> QED BY <1>1, <2>1, <2>2
      DEF Control, ResetAll, TelemetryOpen, TelemetryClose, Reconnect, close
<1>2. ASSUME NEW p \in Producers, ProducerStep(p)
      PROVE  [Board!BoardNext]_<<writeTicket, Shown>>
  <2> DEFINE k == slotForTicket(ticket[p])
  <2>k. k \in Slots
    BY SlotInRange DEF RingInv, TypeOK
  <2> USE DEF sessionVars, ringVars, slotVars, producerVars, counters
  <2>1. CASE hotPathFlow(p) \/ Leave(p) \/ ExportConsumerAbsent(p) \/ CountOutcome(p)
    BY <2>1 DEF hotPathFlow, Leave, ExportConsumerAbsent, CountOutcome, Shown
  <2>2. CASE Reserve(p)
    <3>1. B' = B /\ writeTicket' = writeTicket + 1
      BY <2>2 DEF Reserve
    <3> QED BY <3>1, <1>b DEF Board!BoardNext, Board!Issue
  <2>3. CASE CasEmpty(p)
    <3>1. B' = B /\ writeTicket' = writeTicket
      BY <2>3, <2>k DEF CasEmpty, RingInv, TypeOK
    <3> QED BY <3>1, <1>b
  <2>4. CASE CasCommitted(p)
    <3>1. writeTicket' = writeTicket /\ (B' = B \/ B' = [B EXCEPT ![k] = None])
      BY <2>4, <2>k DEF CasCommitted, RingInv, TypeOK
    <3> QED BY <3>1, <1>b, <2>k DEF Board!BoardNext, Board!Hide, Board!Places, Slots
  <2>5. CASE WriteHeader(p) \/ WritePayload(p)
    <3>1. B' = B /\ writeTicket' = writeTicket
      BY <2>5, <2>k
      DEF WriteHeader, WritePayload, RingInv, TypeOK, SlotOwnership, InSlot
    <3> QED BY <3>1, <1>b
  <2>6. CASE Commit(p)
    <3>0. /\ slotState[k] = "Writing"
          /\ slotHeader[k] = ticket[p]
          /\ ticket[p] \in 0 .. writeTicket - 1
      BY <2>6 DEF Commit, RingInv, SlotOwnership, WriterProgress, InSlot, InTryWrite
    <3>1. /\ B[k] = None
          /\ B' = [B EXCEPT ![k] = ticket[p]]
          /\ ticket[p] \in 0 .. writeTicket - 1
          /\ writeTicket' = writeTicket
      BY <2>6, <2>k, <3>0 DEF Commit, RingInv, TypeOK
    <3> QED BY <3>1, <1>b, <2>k
        DEF Board!BoardNext, Board!Publish, Board!Places, Slots, slotForTicket
  <2> QED BY <1>2, <2>1, <2>2, <2>3, <2>4, <2>5, <2>6 DEF ProducerStep, ExportStep
<1>3. CASE UNCHANGED vars
  BY <1>3 DEF vars, Shown
<1> QED BY <1>1, <1>2, <1>3 DEF Next

\* The consumer sees the board it is promised, for every ring size and producer count.
THEOREM RingImplementsBoard == Spec => ImplementsBoard
<1>1. Init => Board!BoardInit
  BY DEF Init, Board!BoardInit, Board!Places, Slots, Shown
<1>2. RingInv /\ RingInv' /\ [Next]_vars
        => [Board!BoardNext]_<<writeTicket, Shown>>
  BY BoardStep
<1> QED BY <1>1, <1>2, RingInvariant, PTL DEF Spec, ImplementsBoard, Board!BoardSpec

-----------------------------------------------------------------------------
(* The health counters. *)

\* The producers whose attempt is not counted yet.
Uncounted == {p \in Producers : pc[p] \in InTryWrite \cup ToCount}

LEMMA UncountedFinite == IsFiniteSet(Uncounted) /\ Cardinality(Uncounted) \in Nat
  BY FlowTelemetryAssumption, FS_Subset, FS_CardinalityType DEF Uncounted

\* With the exclusive lock held, every attempt was counted.
LEMMA NothingUncounted == RingInv /\ UniqueLock => Cardinality(Uncounted) = 0
<1> SUFFICES ASSUME RingInv, UniqueLock PROVE Uncounted = {}
  BY FS_EmptySet
<1> QED BY DEF Uncounted, RingInv, SessionPinned, UniqueLock, InTryWrite, InSlot, ToCount

\* An attempt is counted once: it enters with its ticket, or is counted at once, and
\* leaves with its outcome.
LEMMA CountersStep ==
    RingInv /\ CountersAccount /\ [Next]_vars => CountersAccount'
<1> SUFFICES ASSUME RingInv, CountersAccount, [Next]_vars PROVE CountersAccount'
  OBVIOUS
<1> DEFINE n == Cardinality(Uncounted)
<1>0. /\ recordsWritten \in Nat /\ recordsDropped \in Nat /\ attempts \in Nat /\ n \in Nat
      /\ recordsWritten + recordsDropped + n = attempts
  BY UncountedFinite DEF RingInv, TypeOK, CountersAccount, Uncounted
<1>g. (recordsWritten' + recordsDropped' + Cardinality(Uncounted)' = attempts') => CountersAccount'
  BY DEF CountersAccount, Uncounted
<1>s. Uncounted' = Uncounted /\ UNCHANGED counters => CountersAccount'
  BY <1>0, <1>g DEF counters
<1>1. CASE Control
  <2>1. CASE \E k \in Keys : Reconnect(k)
    <3>1. Uncounted' = Uncounted /\ UNCHANGED counters
      BY <2>1 DEF Reconnect, Uncounted, producerVars
    <3> QED BY <1>s, <3>1
  <2>2. CASE ~\E k \in Keys : Reconnect(k)
    <3>1. UniqueLock /\ UNCHANGED pc
      BY <1>1, <2>2 DEF Control, ResetAll, TelemetryOpen, TelemetryClose, producerVars
    <3>2. n = 0 /\ Uncounted' = Uncounted
      BY <3>1, NothingUncounted DEF Uncounted
    <3>3. \/ UNCHANGED counters
          \/ recordsWritten' = 0 /\ recordsDropped' = 0 /\ attempts' = 0
          \/ \E m \in {0, 1} : /\ recordsWritten' = recordsWritten + m
                              /\ attempts' = attempts + m /\ recordsDropped' = recordsDropped
      BY <1>1, <2>2 DEF Control, ResetAll, TelemetryOpen, TelemetryClose, DisabledEnds, counters
    <3>4. recordsWritten' + recordsDropped' + n = attempts'
      <4> HIDE DEF n
      <4> QED BY <1>0, <3>2, <3>3 DEF counters
    <3> QED BY <1>g, <3>2, <3>4
  <2> QED BY <2>1, <2>2
<1>2. ASSUME NEW p \in Producers, ProducerStep(p) PROVE CountersAccount'
  <2>0. pc \in [Producers -> {"idle", "hot"} \cup InTryWrite \cup ToCount]
    BY DEF RingInv, TypeOK
  <2> USE DEF InTryWrite, InSlot, ToCount
  <2>1. CASE hotPathFlow(p) \/ Leave(p) \/ CasEmpty(p) \/ CasCommitted(p) \/ WriteHeader(p)
               \/ WritePayload(p) \/ Commit(p)
    <3>1. UNCHANGED counters
      BY <2>1 DEF hotPathFlow, Leave, CasEmpty, CasCommitted, WriteHeader, WritePayload, Commit
    <3>2. \A q \in Producers :
             pc'[q] \in InTryWrite \cup ToCount <=> pc[q] \in InTryWrite \cup ToCount
      BY <2>0, <2>1 DEF hotPathFlow, Leave, CasEmpty, CasCommitted, WriteHeader, WritePayload, Commit
    <3>3. Uncounted' = Uncounted
      BY <3>2 DEF Uncounted
    <3> QED BY <1>s, <3>1, <3>3
  <2>2. CASE ExportConsumerAbsent(p)
    <3>1. Uncounted' = Uncounted /\ recordsDropped' = recordsDropped + 1 /\ attempts' = attempts + 1
            /\ recordsWritten' = recordsWritten
      BY <2>2 DEF ExportConsumerAbsent, Uncounted, producerVars
    <3> QED BY <1>0, <1>g, <3>1
  <2>3. CASE Reserve(p)
    <3>1. Uncounted' = Uncounted \cup {p} /\ p \notin Uncounted
      BY <2>0, <2>3 DEF Reserve, Uncounted
    <3>2. Cardinality(Uncounted') = n + 1
      BY <3>1, UncountedFinite, FS_AddElement
    <3>3. attempts' = attempts + 1 /\ UNCHANGED <<recordsWritten, recordsDropped>>
      BY <2>3 DEF Reserve
    <3> QED BY <1>0, <1>g, <3>2, <3>3
  <2>4. CASE CountOutcome(p)
    <3>1. Uncounted' = Uncounted \ {p} /\ p \in Uncounted
      BY <2>0, <2>4 DEF CountOutcome, Uncounted
    <3>2. Cardinality(Uncounted') = n - 1
      BY <3>1, UncountedFinite, FS_RemoveElement
    <3>3. recordsWritten' + recordsDropped' = recordsWritten + recordsDropped + 1 /\ attempts' = attempts
      BY <1>0, <2>4 DEF CountOutcome
    <3> QED BY <1>0, <1>g, <3>2, <3>3
  <2> QED BY <1>2, <2>1, <2>2, <2>3, <2>4 DEF ProducerStep, ExportStep
<1>3. CASE UNCHANGED vars
  <2>1. Uncounted' = Uncounted /\ UNCHANGED counters
    BY <1>3 DEF vars, Uncounted, counters
  <2> QED BY <1>s, <2>1
<1> QED BY <1>1, <1>2, <1>3 DEF Next

\* Every export attempt since the counters were zeroed is counted once, as written or as
\* dropped, or is under way, for any number of producers.  (exportRecordHot.)
THEOREM CountersLoseNothing == Spec => []CountersAccount
<1>1. Init => CountersAccount
  <2> SUFFICES ASSUME Init PROVE CountersAccount
    OBVIOUS
  <2>1. Uncounted = {}
    BY DEF Init, Uncounted, InTryWrite, InSlot, ToCount
  <2>2. Cardinality(Uncounted) = 0
    BY <2>1, FS_EmptySet
  <2> QED BY <2>2 DEF Init, CountersAccount, Uncounted
<1>2. RingInv /\ CountersAccount /\ [Next]_vars => CountersAccount'
  BY CountersStep
<1> QED BY <1>1, <1>2, RingInvariant, PTL DEF Spec

-----------------------------------------------------------------------------
(* Owner keys. *)

\* The connection at the owner's key opened the live session, or is a later one.
OwnerOpened == \A k \in Keys : ownerKey = k => opened[k] \in {0, session}

LEMMA OwnerStep == RingInv /\ OwnerOpened /\ [Next]_vars => OwnerOpened'
<1> SUFFICES ASSUME RingInv, OwnerOpened, [Next]_vars PROVE OwnerOpened'
  OBVIOUS
<1>0. opened \in [Keys -> Nat] /\ NoKey \notin Keys
  BY FlowTelemetryAssumption DEF RingInv, TypeOK
<1>1. CASE ResetAll
  BY <1>0, <1>1 DEF ResetAll, OwnerOpened
<1>2. ASSUME NEW k \in Keys, TelemetryOpen(k) PROVE OwnerOpened'
  BY <1>0, <1>2 DEF TelemetryOpen, OwnerOpened
<1>3. ASSUME NEW k \in Keys, TelemetryClose(k) PROVE OwnerOpened'
  BY <1>0, <1>3 DEF TelemetryClose, close, OwnerOpened
<1>4. ASSUME NEW k \in Keys, Reconnect(k) PROVE OwnerOpened'
  BY <1>0, <1>4 DEF Reconnect, OwnerOpened
<1>5. ASSUME NEW p \in Producers, ProducerStep(p) PROVE OwnerOpened'
  BY <1>5
  DEF ProducerStep, ExportStep, hotPathFlow, Leave, ExportConsumerAbsent, Reserve, CasEmpty,
      CasCommitted, WriteHeader, WritePayload, Commit, CountOutcome, sessionVars, OwnerOpened
<1>6. CASE UNCHANGED vars
  BY <1>6 DEF vars, OwnerOpened
<1> QED BY <1>1, <1>2, <1>3, <1>4, <1>5, <1>6 DEF Next, Control

\* No TELEMETRY.CLOSE of a connection whose session was preempted ends the newer session,
\* though owner keys are addresses that later connections get again.  (FlowTelemetry::close.)
THEOREM PreemptedConnectionsCannotClose == Spec => PreemptedCloseHarmless
<1>1. Init => OwnerOpened
  BY FlowTelemetryAssumption DEF Init, OwnerOpened
<1>2. RingInv /\ OwnerOpened /\ [Next]_vars => OwnerOpened'
  BY OwnerStep
<1>3. OwnerOpened =>
        [\A k \in Keys :
          TelemetryClose(k) /\ opened[k] \notin {0, session} => session' = session]_vars
  BY DEF OwnerOpened, TelemetryClose, close
<1> QED BY <1>1, <1>2, <1>3, RingInvariant, PTL DEF Spec, PreemptedCloseHarmless
================================================================================
