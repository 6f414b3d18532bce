------------------------------ MODULE FlowRecords ------------------------------
(***************************************************************************)
(* The FLOW records of one conntrack entry: how packet threads count a     *)
(* packet on the entry they found (observeFlowTelemetry), start the entry  *)
(* over in a new telemetry session (ensureTelemetrySession), decide that a *)
(* BEGIN or UPDATE is due, and export it under exportInProgress, while     *)
(* another thread retires the entry with an END (sweepLocked,              *)
(* evictOneLocked).  The IPv4 and IPv6 tables run the same code.           *)
(*                                                                         *)
(* Fields of the entry are separate relaxed atomics; a step is one load or *)
(* store that another thread can tell apart from its neighbours.  Bytes    *)
(* follow the packet counters, the verdict and the conntrack state follow  *)
(* the reason, and fields that are only copied into the record are left    *)
(* out.  The ring (module FlowTelemetry) is one step that may fail.        *)
(***************************************************************************)
EXTENDS Naturals, Sequences, FiniteSets

CONSTANTS
    Threads,            \* packet threads, each on an INPUT or an OUTPUT queue
    Inbound,            \* the threads of the INPUT queues
    Nobody,
    Decisions,          \* final decisions: [reason, ruleId, known] records
    BlockReasons,       \* isBlockReason
    PacketsThreshold, MaxExportInterval, BlockTtl, Timeout,
    MaxTs, MaxPackets, MaxSession       \* bounds

ASSUME FlowRecordsAssumption ==
    /\ IsFiniteSet(Threads) /\ Inbound \subseteq Threads
    /\ Nobody \notin Threads
    /\ Decisions # {} /\ \A d \in Decisions : d.ruleId \in Nat /\ d.known \in BOOLEAN
    /\ {PacketsThreshold, MaxExportInterval, BlockTtl, Timeout} \subseteq Nat
    /\ {MaxTs, MaxPackets, MaxSession} \subseteq Nat

VARIABLES
    session,            \* sessionId of the open telemetry session, 0 if none
    nextSessionId,
    nextFlowId,         \* shared->nextFlowInstanceId
    entry,              \* "absent", "linked" in its bucket, or "retired"
    expiration,         \* expirationNs
    tele,               \* the entry's telemetry fields
    exportInProgress,   \* who holds the entry's export flag
    shardMutex,         \* who holds the shard's mutex
    pc, my,             \* each thread's place and locals
    packets,            \* packets observed in the current session, bounded
    records,            \* the records the current session's ring has taken
    counted             \* history: packets counted in the current session

vars == <<session, nextSessionId, nextFlowId, entry, expiration, tele,
          exportInProgress, shardMutex, pc, my, packets, records, counted>>
sessionVars == <<session, nextSessionId>>
tableVars == <<entry, shardMutex>>
history == <<packets, records, counted>>

NoDecision == [key |-> "none", ruleId |-> 0, known |-> FALSE]
NothingExported == [packets |-> 0, ts |-> 0, decision |-> NoDecision]

\* The telemetry fields a new session starts from.
Fresh(sid, flow, ts) ==
    [sessionId |-> sid, flowInstanceId |-> flow, recordSeq |-> 0,
     total |-> 0, in |-> 0, out |-> 0, lastSeen |-> ts, lastReason |-> "none",
     decision |-> NoDecision, exported |-> NothingExported]

Locals(ts) == [ts |-> ts, d |-> CHOOSE d \in Decisions : TRUE, total |-> 0, in |-> 0, out |-> 0,
               flow |-> 0, kind |-> "none", seen |-> 0, exportTs |-> 0, reason |-> "none",
               decision |-> NoDecision]

\* A thread past "idle" holds the shared side of mutexListeners.
Quiescent == \A t \in Threads : pc[t] = "idle"
Goto(t, label) == pc' = [pc EXCEPT ![t] = label]
\* The thread's locals end with its packet.
Proceed(t, label) ==
    /\ Goto(t, label)
    /\ my' = IF label = "idle" THEN [my EXCEPT ![t] = Locals(my[t].ts)] ELSE my

Init ==
    /\ session = 0
    /\ nextSessionId = 1
    /\ nextFlowId = 1
    /\ entry = "absent"
    /\ expiration = 0
    /\ tele = Fresh(0, 0, 0)
    /\ exportInProgress = Nobody
    /\ shardMutex = Nobody
    /\ pc = [t \in Threads |-> "idle"]
    /\ my = [t \in Threads |-> Locals(1)]
    /\ packets = 0
    /\ records = <<>>
    /\ counted = 0

-----------------------------------------------------------------------------
(* A packet reaches the entry. *)

\* commitAccepted inserts the entry of an accepted packet, without a session.
commitAccepted(t) ==
    /\ pc[t] = "idle"
    /\ entry = "absent" /\ shardMutex = Nobody
    /\ \E ts \in my[t].ts .. MaxTs :
          /\ my' = [my EXCEPT ![t].ts = ts]
          /\ expiration' = ts + Timeout
          /\ tele' = Fresh(0, nextFlowId, ts)
    /\ entry' = "linked"
    /\ nextFlowId' = nextFlowId + 1
    /\ UNCHANGED <<sessionVars, exportInProgress, shardMutex, pc, history>>

\* The packet's timestamp and decision; a thread's timestamps do not go back.
Packet(t) ==
    /\ pc[t] = "idle" /\ session # 0 /\ packets < MaxPackets
    /\ packets' = packets + 1
    /\ \E ts \in my[t].ts .. MaxTs, d \in Decisions :
          my' = [my EXCEPT ![t].ts = ts, ![t].d = d]

\* observeFlowTelemetry finds the entry before it expires; inspectForPolicy, when the
\* packet's verdict needed it, has just renewed its expiration.
FindEntry(t) ==
    /\ Packet(t)
    /\ entry = "linked" /\ my'[t].ts < expiration
    /\ expiration' \in {expiration, my'[t].ts + Timeout}
    /\ Goto(t, "ensure")
    /\ UNCHANGED <<sessionVars, nextFlowId, tableVars, tele, exportInProgress, records, counted>>

\* observeFlowTelemetry misses and inserts the entry, already in the session.
InsertEntry(t) ==
    /\ Packet(t)
    /\ entry = "absent" /\ shardMutex = Nobody
    /\ entry' = "linked"
    /\ tele' = Fresh(session, nextFlowId, my'[t].ts)
    /\ nextFlowId' = nextFlowId + 1
    /\ expiration' = my'[t].ts + Timeout
    /\ Goto(t, "ensure")
    /\ UNCHANGED <<sessionVars, exportInProgress, shardMutex, records, counted>>

\* ensureTelemetrySession: the entry already belongs to this session, or not.
EnsureLoad(t) ==
    /\ pc[t] = "ensure"
    /\ Goto(t, IF tele.sessionId = session THEN "count" ELSE "claim")
    /\ UNCHANGED <<sessionVars, nextFlowId, expiration, tableVars, tele, exportInProgress, my,
                   history>>

\* ... the flag is held by someone else: this packet is not observed.
EnsureBusy(t) ==
    /\ pc[t] = "claim" /\ exportInProgress # Nobody
    /\ Proceed(t, "idle")
    /\ UNCHANGED <<sessionVars, nextFlowId, expiration, tableVars, tele, exportInProgress, history>>

\* ... the flag is ours, but another thread started the entry over meanwhile.
EnsureLate(t) ==
    /\ pc[t] = "claim" /\ exportInProgress = Nobody /\ tele.sessionId = session
    /\ Goto(t, "count")
    /\ UNCHANGED <<sessionVars, nextFlowId, expiration, tableVars, tele, exportInProgress, my,
                   history>>

\* Mutant: the session is not checked again once the flag is held.
resetTelemetryUnchecked(t) ==
    /\ pc[t] = "claim" /\ exportInProgress = Nobody
    /\ exportInProgress' = t
    /\ tele' = Fresh(tele.sessionId, nextFlowId,
                     IF tele.sessionId = 0 THEN tele.lastSeen ELSE my[t].ts)
    /\ nextFlowId' = nextFlowId + 1
    /\ Goto(t, "publish")
    /\ UNCHANGED <<sessionVars, expiration, tableVars, my, history>>

\* ... resetTelemetryForSessionLocked zeroes every field but sessionId,
resetTelemetryForSessionLocked(t) ==
    /\ pc[t] = "claim" /\ exportInProgress = Nobody /\ tele.sessionId # session
    /\ exportInProgress' = t
    /\ tele' = Fresh(tele.sessionId, nextFlowId,
                     IF tele.sessionId = 0 THEN tele.lastSeen ELSE my[t].ts)
    /\ nextFlowId' = nextFlowId + 1
    /\ Goto(t, "publish")
    /\ UNCHANGED <<sessionVars, expiration, tableVars, my, history>>

\* ... and stores sessionId last.
PublishSession(t) ==
    /\ pc[t] = "publish"
    /\ tele' = [tele EXCEPT !.sessionId = session]
    /\ exportInProgress' = Nobody
    /\ Goto(t, "count")
    /\ UNCHANGED <<sessionVars, nextFlowId, expiration, tableVars, my, history>>

-----------------------------------------------------------------------------
(* Counting the packet. *)

CountTotal(t) ==
    /\ pc[t] = "count"
    /\ tele' = [tele EXCEPT !.total = @ + 1]
    /\ my' = [my EXCEPT ![t].total = tele.total + 1]
    /\ counted' = counted + 1
    /\ Goto(t, "direction")
    /\ UNCHANGED <<sessionVars, nextFlowId, expiration, tableVars, exportInProgress, packets,
                   records>>

CountDirection(t) ==
    /\ pc[t] = "direction"
    /\ tele' = IF t \in Inbound THEN [tele EXCEPT !.in = @ + 1] ELSE [tele EXCEPT !.out = @ + 1]
    /\ Goto(t, "facts")
    /\ UNCHANGED <<sessionVars, nextFlowId, expiration, tableVars, exportInProgress, my, history>>

Later(a, b) == IF a < b THEN b ELSE a

\* storeMaxRelaxed(lastSeenNs), the last* stores, the shorter life of a blocked flow.
StoreFacts(t) ==
    /\ pc[t] = "facts"
    /\ tele' = [tele EXCEPT !.lastSeen = Later(@, my[t].ts), !.lastReason = my[t].d.reason]
    /\ expiration' = IF my[t].d.reason \in BlockReasons /\ expiration > my[t].ts + BlockTtl
                     THEN my[t].ts + BlockTtl ELSE expiration
    /\ Goto(t, "key")
    /\ UNCHANGED <<sessionVars, nextFlowId, tableVars, exportInProgress, my, history>>

\* The decision is three atomics, stored one after the other.
StoreDecisionKey(t) ==
    /\ pc[t] = "key"
    /\ tele' = [tele EXCEPT !.decision.key = my[t].d.reason]
    /\ Goto(t, "ruleId")
    /\ UNCHANGED <<sessionVars, nextFlowId, expiration, tableVars, exportInProgress, my, history>>

StoreDecisionRuleId(t) ==
    /\ pc[t] = "ruleId"
    /\ tele' = [tele EXCEPT !.decision.ruleId = my[t].d.ruleId]
    /\ Goto(t, "known")
    /\ UNCHANGED <<sessionVars, nextFlowId, expiration, tableVars, exportInProgress, my, history>>

StoreDecisionRuleIdKnown(t) ==
    /\ pc[t] = "known"
    /\ tele' = [tele EXCEPT !.decision.known = my[t].d.known]
    /\ Goto(t, "due")
    /\ UNCHANGED <<sessionVars, nextFlowId, expiration, tableVars, exportInProgress, my, history>>

-----------------------------------------------------------------------------
(* BEGIN and UPDATE. *)

\* The export policy: the first record, a changed decision, enough packets or time.
Due(decision, total, ts) ==
    LET last == tele.exported IN
    \/ last.ts = 0
    \/ decision # last.decision
    \/ PacketsThreshold # 0 /\ total >= last.packets /\ total - last.packets >= PacketsThreshold
    \/ MaxExportInterval # 0 /\ ts > last.ts /\ ts - last.ts >= MaxExportInterval

\* Without the flag: the packet's own decision and total against the last export.
CheckDue(t) ==
    /\ pc[t] = "due"
    /\ LET own == [key |-> my[t].d.reason, ruleId |-> my[t].d.ruleId, known |-> my[t].d.known]
       IN Proceed(t, IF Due(own, my[t].total, my[t].ts) THEN "guard" ELSE "idle")
    /\ UNCHANGED <<sessionVars, nextFlowId, expiration, tableVars, tele, exportInProgress, history>>

\* The flag is taken, or another exporter has it and this packet exports nothing.
TakeGuard(t) ==
    /\ pc[t] = "guard"
    /\ exportInProgress' = IF exportInProgress = Nobody THEN t ELSE exportInProgress
    /\ Proceed(t, IF exportInProgress = Nobody THEN "load" ELSE "idle")
    /\ UNCHANGED <<sessionVars, nextFlowId, expiration, tableVars, tele, history>>

\* Mutant: the record's total is the entry's own total counter.
LoadCountersRaw(t) ==
    /\ pc[t] = "load"
    /\ my' = [my EXCEPT ![t].in = tele.in, ![t].out = tele.out, ![t].total = tele.total]
    /\ Goto(t, "recheck")
    /\ UNCHANGED <<sessionVars, nextFlowId, expiration, tableVars, tele, exportInProgress, history>>

\* loadTelemetryCounters derives the total from the two directions.
LoadCounters(t) ==
    /\ pc[t] = "load"
    /\ my' = [my EXCEPT ![t].in = tele.in, ![t].out = tele.out, ![t].total = tele.in + tele.out]
    /\ Goto(t, "recheck")
    /\ UNCHANGED <<sessionVars, nextFlowId, expiration, tableVars, tele, exportInProgress, history>>

\* Mutant: the kind follows the packet that created the entry, not the last export.
RecheckDueBeginByCount(t) ==
    /\ pc[t] = "recheck"
    /\ IF Due(tele.decision, my[t].total, tele.lastSeen)
       THEN /\ my' = [my EXCEPT ![t].kind = IF my[t].total = 1 THEN "BEGIN" ELSE "UPDATE",
                                ![t].decision = tele.decision, ![t].seen = tele.lastSeen,
                                ![t].exportTs = tele.lastSeen, ![t].flow = tele.flowInstanceId,
                                ![t].reason = my[t].d.reason]
            /\ Goto(t, "export")
            /\ UNCHANGED exportInProgress
       ELSE /\ Proceed(t, "idle")
            /\ exportInProgress' = Nobody
    /\ UNCHANGED <<sessionVars, nextFlowId, expiration, tableVars, tele, history>>

\* With the flag: the entry's decision and counters against the last export.  The
\* record's reason is the packet's own, its rule the entry's.
RecheckDue(t) ==
    /\ pc[t] = "recheck"
    /\ IF Due(tele.decision, my[t].total, tele.lastSeen)
       THEN /\ my' = [my EXCEPT ![t].kind = IF tele.exported.ts = 0 THEN "BEGIN" ELSE "UPDATE",
                                ![t].decision = tele.decision, ![t].seen = tele.lastSeen,
                                ![t].exportTs = tele.lastSeen, ![t].flow = tele.flowInstanceId,
                                ![t].reason = my[t].d.reason]
            /\ Goto(t, "export")
            /\ UNCHANGED exportInProgress
       ELSE /\ Proceed(t, "idle")
            /\ exportInProgress' = Nobody
    /\ UNCHANGED <<sessionVars, nextFlowId, expiration, tableVars, tele, history>>

Record(t) ==
    [kind |-> my[t].kind, flowInstanceId |-> my[t].flow, recordSeq |-> tele.recordSeq + 1,
     total |-> my[t].total, in |-> my[t].in, out |-> my[t].out, lastSeen |-> my[t].seen,
     reason |-> my[t].reason, hasRuleId |-> my[t].decision.known]

\* Where a thread goes once it has written or lost its record: an observer is done,
\* sweepLocked unlinks the entry, evictOneLocked (which unlinked it first) unlocks.
AfterExport(t) ==
    IF my[t].kind # "END" THEN "idle" ELSE IF entry = "linked" THEN "unlink" ELSE "unlock"

\* exportRecordHot fails: nothing is remembered, the flag is released.
ExportFails(t) ==
    /\ pc[t] = "export"
    /\ exportInProgress' = Nobody
    /\ Proceed(t, AfterExport(t))
    /\ UNCHANGED <<sessionVars, nextFlowId, expiration, tableVars, tele, history>>

\* exportRecordHot puts the record into the ring.
ExportWrites(t) ==
    /\ pc[t] = "export"
    /\ records' = Append(records, Record(t))
    /\ Goto(t, "remember")
    /\ UNCHANGED <<sessionVars, nextFlowId, expiration, tableVars, tele, exportInProgress, my,
                   packets, counted>>

\* recordSeq and the lastExport* fields are stored, then the flag is released.
RememberExport(t) ==
    /\ pc[t] = "remember"
    /\ tele' = [tele EXCEPT !.recordSeq = @ + 1,
                            !.exported = [packets |-> my[t].total, ts |-> my[t].exportTs,
                                          decision |-> my[t].decision]]
    /\ exportInProgress' = Nobody
    /\ Proceed(t, AfterExport(t))
    /\ UNCHANGED <<sessionVars, nextFlowId, expiration, tableVars, history>>

-----------------------------------------------------------------------------
(* END: sweepLocked on an expired entry, evictOneLocked under resource pressure. *)

\* A thread sweeps the shard (before an insert, or from maybeHotSweep) at a time past
\* the entry's expiration.
StartSweep(t) ==
    /\ pc[t] = "idle" /\ shardMutex = Nobody /\ entry = "linked"
    /\ \E ts \in my[t].ts .. MaxTs :
          /\ ts >= expiration
          /\ my' = [my EXCEPT ![t].ts = ts]
    /\ shardMutex' = t
    /\ Goto(t, IF session # 0 THEN "sweepFlow" ELSE "unlink")
    /\ UNCHANGED <<sessionVars, nextFlowId, entry, expiration, tele, exportInProgress, history>>

\* sweepLocked loads flowInstanceId first ...
SweepFlow(t) ==
    /\ pc[t] = "sweepFlow"
    /\ my' = [my EXCEPT ![t].flow = tele.flowInstanceId]
    /\ Goto(t, "sweepSession")
    /\ UNCHANGED <<sessionVars, nextFlowId, expiration, tableVars, tele, exportInProgress, history>>

\* ... then sessionId, the decision and lastExportTsNs: only a flow this session has
\* seen a record of gets an END.
SweepSession(t) ==
    /\ pc[t] = "sweepSession"
    /\ my' = [my EXCEPT ![t].decision = tele.decision]
    /\ Goto(t, IF tele.sessionId = session /\ tele.exported.ts # 0 THEN "sweepGuard" ELSE "unlink")
    /\ UNCHANGED <<sessionVars, nextFlowId, expiration, tableVars, tele, exportInProgress, history>>

SweepGuard(t) ==
    /\ pc[t] = "sweepGuard"
    /\ exportInProgress' = IF exportInProgress = Nobody THEN t ELSE exportInProgress
    /\ Goto(t, IF exportInProgress = Nobody THEN "endLoad" ELSE "unlink")
    /\ UNCHANGED <<sessionVars, nextFlowId, expiration, tableVars, tele, my, history>>

\* The END takes counters, last packet time and last reason from the entry.
EndLoad(t) ==
    /\ pc[t] = "endLoad"
    /\ my' = [my EXCEPT ![t].kind = "END", ![t].in = tele.in, ![t].out = tele.out,
                        ![t].total = tele.in + tele.out, ![t].seen = tele.lastSeen,
                        ![t].exportTs = my[t].ts, ![t].reason = tele.lastReason]
    /\ Goto(t, "export")
    /\ UNCHANGED <<sessionVars, nextFlowId, expiration, tableVars, tele, exportInProgress, history>>

\* The entry leaves its bucket; a thread that already found it keeps using it.
SweepUnlink(t) ==
    /\ pc[t] = "unlink"
    /\ entry' = "retired"
    /\ shardMutex' = Nobody
    /\ Proceed(t, "idle")
    /\ UNCHANGED <<sessionVars, nextFlowId, expiration, tele, exportInProgress, history>>

\* evictOneLocked unlinks a flow this session has seen a record of ...
evictOneLocked(t) ==
    /\ pc[t] = "idle" /\ shardMutex = Nobody /\ entry = "linked"
    /\ session # 0 /\ tele.sessionId = session /\ tele.exported.ts # 0
    /\ \E ts \in my[t].ts .. MaxTs : my' = [my EXCEPT ![t].ts = ts, ![t].flow = tele.flowInstanceId]
    /\ shardMutex' = t
    /\ entry' = "retired"
    /\ Goto(t, "evictGuard")
    /\ UNCHANGED <<sessionVars, nextFlowId, expiration, tele, exportInProgress, history>>

\* ... then exportTelemetryEndLocked takes the flag and only then loads the decision.
EvictGuard(t) ==
    /\ pc[t] = "evictGuard"
    /\ exportInProgress' = IF exportInProgress = Nobody THEN t ELSE exportInProgress
    /\ my' = [my EXCEPT ![t].decision = tele.decision]
    /\ Goto(t, IF exportInProgress = Nobody THEN "endLoad" ELSE "unlock")
    /\ UNCHANGED <<sessionVars, nextFlowId, expiration, tableVars, tele, history>>

EvictUnlock(t) ==
    /\ pc[t] = "unlock"
    /\ shardMutex' = Nobody
    /\ Proceed(t, "idle")
    /\ UNCHANGED <<sessionVars, nextFlowId, entry, expiration, tele, exportInProgress, history>>

-----------------------------------------------------------------------------
(* Session boundaries, under the exclusive side of mutexListeners. *)

\* TELEMETRY.OPEN, over a previous session or over none.
TelemetryOpen ==
    /\ Quiescent /\ nextSessionId <= MaxSession
    /\ session' = nextSessionId
    /\ nextSessionId' = nextSessionId + 1
    /\ records' = <<>>
    /\ counted' = 0
    /\ packets' = 0
    /\ UNCHANGED <<nextFlowId, entry, expiration, tele, exportInProgress, shardMutex, pc, my>>

\* TELEMETRY.CLOSE by the owner: an END (TELEMETRY_DISABLED) for a flow the session has
\* seen, if the ring takes it; the entry stays linked.
TelemetryClose ==
    /\ Quiescent /\ session # 0
    /\ session' = 0
    /\ \/ /\ entry = "linked" /\ tele.sessionId = session /\ tele.exported.ts # 0
          /\ records' = Append(records,
                [kind |-> "END", flowInstanceId |-> tele.flowInstanceId,
                 recordSeq |-> tele.recordSeq + 1, total |-> tele.in + tele.out, in |-> tele.in,
                 out |-> tele.out, lastSeen |-> tele.lastSeen, reason |-> tele.lastReason,
                 hasRuleId |-> tele.decision.known])
          /\ tele' = [tele EXCEPT !.recordSeq = @ + 1,
                        !.exported = [packets |-> tele.in + tele.out, ts |-> MaxTs,
                                      decision |-> tele.decision]]
       \/ UNCHANGED <<records, tele>>
    /\ UNCHANGED <<nextSessionId, nextFlowId, entry, expiration, exportInProgress, shardMutex, pc,
                   my, packets, counted>>

ThreadStep(t) ==
    \/ commitAccepted(t) \/ FindEntry(t) \/ InsertEntry(t)
    \/ EnsureLoad(t) \/ EnsureBusy(t) \/ EnsureLate(t)
    \/ resetTelemetryForSessionLocked(t) \/ PublishSession(t)
    \/ CountTotal(t) \/ CountDirection(t) \/ StoreFacts(t)
    \/ StoreDecisionKey(t) \/ StoreDecisionRuleId(t) \/ StoreDecisionRuleIdKnown(t)
    \/ CheckDue(t) \/ TakeGuard(t) \/ LoadCounters(t) \/ RecheckDue(t)
    \/ ExportFails(t) \/ ExportWrites(t) \/ RememberExport(t)
    \/ StartSweep(t) \/ SweepFlow(t) \/ SweepSession(t) \/ SweepGuard(t) \/ EndLoad(t)
    \/ SweepUnlink(t) \/ evictOneLocked(t) \/ EvictGuard(t) \/ EvictUnlock(t)

Next == TelemetryOpen \/ TelemetryClose \/ \E t \in Threads : ThreadStep(t)

Spec == Init /\ [][Next]_vars

-----------------------------------------------------------------------------
\* recordSeq numbers exactly the records that entered the session's ring, without gap or
\* repetition, whatever exports failed in between (spec.md: "increments only after a
\* record ... has successfully entered the shared-memory ring"), and the first record of
\* a flow in a session is its only BEGIN.
RecordSequence ==
    \A i \in 1 .. Len(records) :
        /\ records[i].recordSeq = i
        /\ records[i].kind = "BEGIN" <=> i = 1

\* Along recordSeq neither a counter nor lastSeenNs decreases, whichever packet context
\* exports and however the workers of the two directions interleave, and each record's
\* total is the sum of its directions.
RecordsNeverRollBack ==
    /\ \A i \in 1 .. Len(records) : records[i].total = records[i].in + records[i].out
    /\ \A i \in 1 .. Len(records) - 1 : \A f \in {"in", "out", "lastSeen"} :
          records[i][f] <= records[i+1][f]

\* No packet counted in the session is wiped by a thread starting the entry over, and the
\* directions account for the total but for threads between the two increments.
CountedPacketsKept ==
    session # 0 /\ tele.sessionId = session =>
        /\ tele.total = counted
        /\ tele.total = tele.in + tele.out + Cardinality({t \in Threads : pc[t] = "direction"})

\* spec.md: "`IFACE_BLOCK` MUST be represented as final decision `reasonId=IFACE_BLOCK` with
\* no `ruleId`".
IfaceBlockHasNoRuleId ==
    \A i \in 1 .. Len(records) : records[i].reason = "IFACE_BLOCK" => ~records[i].hasRuleId
=============================================================================
