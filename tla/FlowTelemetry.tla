------------------------------ MODULE FlowTelemetry ------------------------------
(***************************************************************************)
(* The Flow Telemetry export channel: FlowTelemetry (the session and its   *)
(* health counters), FlowTelemetryRing (the shared-memory ring that        *)
(* packet and DNS threads write without a lock) and the TELEMETRY.OPEN,    *)
(* TELEMETRY.CLOSE and RESETALL handlers that replace the session under    *)
(* the exclusive side of mutexListeners.                                   *)
(*                                                                         *)
(* A record is named by the ticket its producer reserved: slotHeader[i]    *)
(* and slotPayload[i] hold the ticket whose producer wrote the header and  *)
(* the payload bytes of slot i.  Every atomic operation of tryWrite is a   *)
(* step of its own; what one producer stores is what the next one loads    *)
(* (the only release target, arm64-v8a, orders a release store before a    *)
(* later acquire load).                                                    *)
(***************************************************************************)
EXTENDS Naturals, FiniteSets

CONSTANTS
    Producers,      \* packet and DNS threads
    Keys,           \* addresses of control sessions (the owner keys)
    NoKey,          \* _ownerKey == nullptr
    SlotCount,      \* ring size
    None,           \* bytes nobody has written
    MaxTicket,      \* bound on tickets per session
    MaxSession,     \* bound on sessions
    MaxDrop         \* bound on counted drops

ASSUME FlowTelemetryAssumption ==
    /\ SlotCount \in Nat \ {0}
    /\ MaxTicket \in Nat
    /\ MaxSession \in Nat
    /\ MaxDrop \in Nat
    /\ IsFiniteSet(Producers)
    /\ None \notin Nat
    /\ NoKey \notin Keys

VARIABLES
    sharedHolders,  \* producers holding the shared side of mutexListeners
    session,        \* sessionId of *_session, 0 when it is null
    nextSessionId,  \* allocateSessionId's counter
    ownerKey,       \* _ownerKey
    opened,         \* last sessionId the connection living at a key opened, 0 if none
    writeTicket,    \* _writeTicket of the session's ring
    slotState, slotHeader, slotPayload,
    pc,             \* where each producer is
    hot,            \* HotPath.sessionId the producer captured
    ticket,         \* the ticket it reserved, 0 once tryWrite has returned
    recordsWritten, recordsDropped,
    attempts        \* history: export attempts since the counters were zeroed

sessionVars == <<session, nextSessionId, ownerKey, opened>>
slotVars == <<slotState, slotHeader, slotPayload>>
ringVars == <<writeTicket, slotState, slotHeader, slotPayload>>
producerVars == <<sharedHolders, pc, hot, ticket>>
counters == <<recordsWritten, recordsDropped, attempts>>
vars == <<sharedHolders, session, nextSessionId, ownerKey, opened, writeTicket,
          slotState, slotHeader, slotPayload, pc, hot, ticket,
          recordsWritten, recordsDropped, attempts>>

Slots == 0 .. SlotCount - 1
SlotStates == {"Empty", "Writing", "Committed"}

\* Mutant: the slot index is off by one.
slotForTicketOffByOne(t) == (t + 1) % SlotCount

slotForTicket(t) == t % SlotCount

\* The producer owns the slot of its ticket: it won the transition to WRITING.
InSlot == {"header", "payload", "commit"}
\* The producer is between the ticket's fetch_add and tryWrite's return.
InTryWrite == {"casEmpty", "casCommitted"} \cup InSlot
\* tryWrite has returned and exportRecordHot has not counted the outcome yet.
ToCount == {"wrote", "dropped"}

Init ==
    /\ sharedHolders = {}
    /\ session = 0
    /\ nextSessionId = 1
    /\ ownerKey = NoKey
    /\ opened = [k \in Keys |-> 0]
    /\ writeTicket = 0
    /\ slotState = [i \in Slots |-> "Empty"]
    /\ slotHeader = [i \in Slots |-> None]
    /\ slotPayload = [i \in Slots |-> None]
    /\ pc = [p \in Producers |-> "idle"]
    /\ hot = [p \in Producers |-> 0]
    /\ ticket = [p \in Producers |-> 0]
    /\ recordsWritten = 0
    /\ recordsDropped = 0
    /\ attempts = 0

-----------------------------------------------------------------------------
(* Producers: the datapath's window under the shared lock. *)

\* The thread takes mutexListeners shared and snapshots the session (hotPathFlow).
hotPathFlow(p) ==
    /\ pc[p] = "idle"
    /\ sharedHolders' = sharedHolders \cup {p}
    /\ hot' = [hot EXCEPT ![p] = session]
    /\ pc' = [pc EXCEPT ![p] = "hot"]
    /\ UNCHANGED <<sessionVars, ringVars, ticket, counters>>

\* The thread leaves the shared window.
Leave(p) ==
    /\ pc[p] = "hot"
    /\ sharedHolders' = sharedHolders \ {p}
    /\ hot' = [hot EXCEPT ![p] = 0]
    /\ pc' = [pc EXCEPT ![p] = "idle"]
    /\ UNCHANGED <<sessionVars, ringVars, ticket, counters>>

\* exportRecordHot without a session: drop, reason ConsumerAbsent.
ExportConsumerAbsent(p) ==
    /\ pc[p] = "hot"
    /\ hot[p] = 0
    /\ recordsDropped < MaxDrop
    /\ recordsDropped' = recordsDropped + 1
    /\ attempts' = attempts + 1
    /\ UNCHANGED <<sessionVars, ringVars, producerVars, recordsWritten>>

\* tryWrite reserves a ticket; a payload above maxPayloadBytes is dropped with the
\* ticket already spent (RecordTooLarge).
Reserve(p) ==
    /\ pc[p] = "hot"
    /\ hot[p] # 0
    /\ writeTicket < MaxTicket
    /\ writeTicket' = writeTicket + 1
    /\ ticket' = [ticket EXCEPT ![p] = writeTicket]
    /\ attempts' = attempts + 1
    /\ \E tooLarge \in BOOLEAN :
          pc' = [pc EXCEPT ![p] = IF tooLarge THEN "dropped" ELSE "casEmpty"]
    /\ UNCHANGED <<sessionVars, slotVars, sharedHolders, hot, recordsWritten, recordsDropped>>

\* Mutant: a producer that meets a WRITING slot spins instead of dropping.
CasEmptySpins(p) ==
    LET i == slotForTicket(ticket[p]) IN
    /\ pc[p] = "casEmpty"
    /\ pc' = [pc EXCEPT ![p] = CASE slotState[i] = "Empty"     -> "header"
                                 [] slotState[i] = "Committed" -> "casCommitted"
                                 [] OTHER                      -> "casEmpty"]
    /\ slotState' = IF slotState[i] = "Empty"
                    THEN [slotState EXCEPT ![i] = "Writing"] ELSE slotState
    /\ UNCHANGED <<sessionVars, writeTicket, slotHeader, slotPayload,
                   sharedHolders, hot, ticket, counters>>

\* compare_exchange(Empty -> Writing); a failure shows the state it met.
CasEmpty(p) ==
    LET i == slotForTicket(ticket[p]) IN
    /\ pc[p] = "casEmpty"
    /\ pc' = [pc EXCEPT ![p] = CASE slotState[i] = "Empty"     -> "header"
                                 [] slotState[i] = "Committed" -> "casCommitted"
                                 [] OTHER                      -> "dropped"]
    /\ slotState' = IF slotState[i] = "Empty"
                    THEN [slotState EXCEPT ![i] = "Writing"] ELSE slotState
    /\ UNCHANGED <<sessionVars, writeTicket, slotHeader, slotPayload,
                   sharedHolders, hot, ticket, counters>>

\* Mutant: a plain store instead of the second compare_exchange.
CasCommittedBlindStore(p) ==
    /\ pc[p] = "casCommitted"
    /\ pc' = [pc EXCEPT ![p] = "header"]
    /\ slotState' = [slotState EXCEPT ![slotForTicket(ticket[p])] = "Writing"]
    /\ UNCHANGED <<sessionVars, writeTicket, slotHeader, slotPayload,
                   sharedHolders, hot, ticket, counters>>

\* compare_exchange(Committed -> Writing); a failure is SlotBusy.
CasCommitted(p) ==
    LET i == slotForTicket(ticket[p]) IN
    /\ pc[p] = "casCommitted"
    /\ pc' = [pc EXCEPT ![p] = IF slotState[i] = "Committed" THEN "header" ELSE "dropped"]
    /\ slotState' = IF slotState[i] = "Committed"
                    THEN [slotState EXCEPT ![i] = "Writing"] ELSE slotState
    /\ UNCHANGED <<sessionVars, writeTicket, slotHeader, slotPayload,
                   sharedHolders, hot, ticket, counters>>

\* Mutant: COMMITTED is stored before the payload is copied.
WriteHeaderCommitsEarly(p) ==
    /\ pc[p] = "header"
    /\ slotHeader' = [slotHeader EXCEPT ![slotForTicket(ticket[p])] = ticket[p]]
    /\ slotState' = [slotState EXCEPT ![slotForTicket(ticket[p])] = "Committed"]
    /\ pc' = [pc EXCEPT ![p] = "payload"]
    /\ UNCHANGED <<sessionVars, writeTicket, slotPayload,
                   sharedHolders, hot, ticket, counters>>

\* The non-atomic header fields: record type, ticket, payload size.
WriteHeader(p) ==
    /\ pc[p] = "header"
    /\ slotHeader' = [slotHeader EXCEPT ![slotForTicket(ticket[p])] = ticket[p]]
    /\ pc' = [pc EXCEPT ![p] = "payload"]
    /\ UNCHANGED <<sessionVars, writeTicket, slotState, slotPayload,
                   sharedHolders, hot, ticket, counters>>

WritePayload(p) ==
    /\ pc[p] = "payload"
    /\ slotPayload' = [slotPayload EXCEPT ![slotForTicket(ticket[p])] = ticket[p]]
    /\ pc' = [pc EXCEPT ![p] = "commit"]
    /\ UNCHANGED <<sessionVars, writeTicket, slotState, slotHeader,
                   sharedHolders, hot, ticket, counters>>

\* The release store that publishes header and payload.
Commit(p) ==
    /\ pc[p] = "commit"
    /\ slotState' = [slotState EXCEPT ![slotForTicket(ticket[p])] = "Committed"]
    /\ pc' = [pc EXCEPT ![p] = "wrote"]
    /\ UNCHANGED <<sessionVars, writeTicket, slotHeader, slotPayload,
                   sharedHolders, hot, ticket, counters>>

\* Mutant: a dropped record is not counted.
CountOutcomeWritesOnly(p) ==
    /\ pc[p] \in ToCount
    /\ recordsWritten' = recordsWritten + (IF pc[p] = "wrote" THEN 1 ELSE 0)
    /\ pc' = [pc EXCEPT ![p] = "hot"]
    /\ ticket' = [ticket EXCEPT ![p] = 0]
    /\ UNCHANGED <<sessionVars, ringVars, sharedHolders, hot, recordsDropped, attempts>>

\* exportRecordHot counts what tryWrite returned.
CountOutcome(p) ==
    /\ pc[p] \in ToCount
    /\ recordsWritten' = recordsWritten + (IF pc[p] = "wrote" THEN 1 ELSE 0)
    /\ recordsDropped' = recordsDropped + (IF pc[p] = "wrote" THEN 0 ELSE 1)
    /\ pc' = [pc EXCEPT ![p] = "hot"]
    /\ ticket' = [ticket EXCEPT ![p] = 0]
    /\ UNCHANGED <<sessionVars, ringVars, sharedHolders, hot, attempts>>

\* The steps tryWrite and exportRecordHot take once a ticket is reserved.
ExportStep(p) ==
    \/ CasEmpty(p)
    \/ CasCommitted(p)
    \/ WriteHeader(p)
    \/ WritePayload(p)
    \/ Commit(p)
    \/ CountOutcome(p)

-----------------------------------------------------------------------------
(* Control: the handlers hold the exclusive side of mutexListeners, so each   *)
(* runs whole while no producer is in its window.                             *)

\* Mutant: the handler takes no exclusive lock.
UniqueLockMissing == TRUE

UniqueLock == sharedHolders = {}

\* exportTelemetryDisabledEnds: END records for flows the old session exported,
\* written by the control thread through exportRecordHot.  With no producer inside,
\* every slot it meets is Empty or Committed and every write succeeds.
DisabledEnds(n) ==
    /\ n = 1 => session # 0 /\ writeTicket < MaxTicket
    /\ recordsWritten' = recordsWritten + n
    /\ attempts' = attempts + n
    /\ UNCHANGED recordsDropped

\* A ring as init leaves it (or no ring: the session's mapping is gone).
FreshRing ==
    /\ writeTicket' = 0
    /\ slotState' = [i \in Slots |-> "Empty"]
    /\ slotHeader' = [i \in Slots |-> None]
    /\ slotPayload' = [i \in Slots |-> None]

\* Mutant: close() does not compare the owner key.
closeAnyOwner(k) ==
    /\ k \in Keys
    /\ session' = 0
    /\ ownerKey' = NoKey
    /\ FreshRing

\* FlowTelemetry::close(ownerKey).
close(k) ==
    \/ /\ ownerKey # k
       /\ UNCHANGED <<session, ownerKey, ringVars>>
    \/ /\ ownerKey = k
       /\ session' = 0
       /\ ownerKey' = NoKey
       /\ FreshRing

\* TELEMETRY.CLOSE, and TELEMETRY.OPEN(level=off), which does the same.
TelemetryClose(k) ==
    /\ UniqueLock
    /\ \E n \in IF ownerKey = k /\ session # 0 THEN {0, 1} ELSE {0} : DisabledEnds(n)
    /\ close(k)
    /\ UNCHANGED <<nextSessionId, opened, producerVars>>

\* TELEMETRY.OPEN(level=flow): a new session preempts whatever was there; when the
\* memfd cannot be duplicated for the client the new session is closed again.
TelemetryOpen(k) ==
    /\ UniqueLock
    /\ nextSessionId <= MaxSession
    /\ nextSessionId' = nextSessionId + 1
    /\ FreshRing
    /\ \E dupOk \in BOOLEAN :
          /\ session' = IF dupOk THEN nextSessionId ELSE 0
          /\ ownerKey' = IF dupOk THEN k ELSE NoKey
          /\ opened' = IF dupOk THEN [opened EXCEPT ![k] = nextSessionId] ELSE opened
    /\ UNCHANGED <<producerVars, counters>>

\* RESETALL: disabled ENDs, then FlowTelemetry::resetAll zeroes everything.
ResetAll ==
    /\ UniqueLock
    /\ session' = 0
    /\ ownerKey' = NoKey
    /\ FreshRing
    /\ recordsWritten' = 0
    /\ recordsDropped' = 0
    /\ attempts' = 0
    /\ UNCHANGED <<nextSessionId, opened, producerVars>>

\* A control connection ends; its address may serve the next connection.  Nothing
\* closes the telemetry session it opened.
Reconnect(k) ==
    /\ opened[k] # 0
    /\ opened' = [opened EXCEPT ![k] = 0]
    /\ UNCHANGED <<session, nextSessionId, ownerKey, ringVars, producerVars, counters>>

-----------------------------------------------------------------------------
ProducerStep(p) ==
    \/ hotPathFlow(p)
    \/ Leave(p)
    \/ ExportConsumerAbsent(p)
    \/ Reserve(p)
    \/ ExportStep(p)

Control ==
    \/ ResetAll
    \/ \E k \in Keys : TelemetryOpen(k) \/ TelemetryClose(k) \/ Reconnect(k)

Next == Control \/ \E p \in Producers : ProducerStep(p)

Spec == Init /\ [][Next]_vars

-----------------------------------------------------------------------------
(* Properties. *)

\* The type invariant: every variable has the values the code's types and the ring's
\* arithmetic allow; a live session id was handed out by allocateSessionId.
TypeOK ==
    /\ sharedHolders \subseteq Producers
    /\ nextSessionId \in Nat \ {0}
    /\ session \in 0 .. nextSessionId - 1
    /\ ownerKey \in Keys \cup {NoKey}
    /\ opened \in [Keys -> Nat]
    /\ writeTicket \in Nat
    /\ slotState \in [Slots -> SlotStates]
    /\ slotHeader \in [Slots -> Nat \cup {None}]
    /\ slotPayload \in [Slots -> Nat \cup {None}]
    /\ pc \in [Producers -> {"idle", "hot"} \cup InTryWrite \cup ToCount]
    /\ hot \in [Producers -> Nat]
    /\ ticket \in [Producers -> Nat]
    /\ recordsWritten \in Nat
    /\ recordsDropped \in Nat
    /\ attempts \in Nat

\* The raw Session pointer a datapath thread captured in hotPathFlow is still the live
\* session for as long as the thread may use it: no OPEN, CLOSE or RESETALL frees the
\* mapping under a writer ("safe because caller must take mutexListeners unique lock").
SessionPinned ==
    \A p \in Producers : pc[p] # "idle" => hot[p] = session /\ p \in sharedHolders

\* The CAS protocol gives every WRITING slot exactly one producer, the one whose ticket
\* selects the slot: no two threads ever copy bytes into the same slot.
SlotOwnership ==
    /\ \A p \in Producers :
          pc[p] \in InSlot => slotState[slotForTicket(ticket[p])] = "Writing"
    /\ \A p, q \in Producers :
          p # q /\ pc[p] \in InSlot /\ pc[q] \in InSlot
             => slotForTicket(ticket[p]) # slotForTicket(ticket[q])
    /\ \A i \in Slots :
          slotState[i] = "Writing" =>
             \E p \in Producers : pc[p] \in InSlot /\ slotForTicket(ticket[p]) = i

\* A slot the consumer may read (COMMITTED) holds the header and the payload of one and
\* the same record, whose ticket was issued and selects that slot.
CommittedIntact ==
    \A i \in Slots :
       slotState[i] = "Committed" =>
          /\ slotHeader[i] \in 0 .. writeTicket - 1
          /\ slotPayload[i] = slotHeader[i]
          /\ slotForTicket(slotHeader[i]) = i

\* The health counters of TELEMETRY state lose nothing: every export attempt since they
\* were zeroed is counted as written or dropped exactly once, or is still under way.
CountersAccount ==
    recordsWritten + recordsDropped
       + Cardinality({p \in Producers : pc[p] \in InTryWrite \cup ToCount}) = attempts

\* What the consumer can read in each slot.  A committed slot whose header and payload
\* disagree would show as a ticket that was never issued.
Shown ==
    [i \in Slots |->
        IF slotState[i] # "Committed" THEN None
        ELSE IF slotHeader[i] = slotPayload[i] THEN slotHeader[i] ELSE writeTicket]

Board == INSTANCE TelemetryBoard WITH
    NoRecord <- None, issued <- writeTicket, board <- Shown

\* The ring implements the board its consumer is promised (TelemetryBoard): tryWrite and
\* the session handlers show whole records only, each at the place its ticket selects.
ImplementsBoard == Board!BoardSpec

\* A connection whose session was preempted by a later OPEN cannot end the newer session
\* with TELEMETRY.CLOSE (close() compares owner keys, which are reused addresses).
PreemptedCloseHarmless ==
    [][\A k \in Keys :
          TelemetryClose(k) /\ opened[k] \notin {0, session} => session' = session]_vars
================================================================================
