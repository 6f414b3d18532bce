--------------------------- MODULE FlowRecordsProofs ---------------------------
(***************************************************************************)
(* The FLOW records of an entry for any number of packet threads, packets, *)
(* decisions, sessions and instants: the ring takes them numbered without  *)
(* gap and none rolls a counter back, though most fields are loaded and    *)
(* stored without the export flag, and no counted packet is wiped.         *)
(***************************************************************************)
EXTENDS FlowRecords, FiniteSetTheorems, SequenceTheorems, TLAPS

Reasons == {"none"} \cup {d.reason : d \in Decisions}
Decided == [key : Reasons, ruleId : Nat, known : BOOLEAN]
Exported == [packets : Nat, ts : Nat, decision : Decided]
Telemetry ==
    [sessionId : Nat, flowInstanceId : Nat, recordSeq : Nat, total : Nat, in : Nat, out : Nat,
     lastSeen : Nat, lastReason : Reasons, decision : Decided, exported : Exported]
Kinds == {"none", "BEGIN", "UPDATE", "END"}
Local ==
    [ts : Nat \ {0}, d : Decisions, total : Nat, in : Nat, out : Nat, flow : Nat, kind : Kinds,
     seen : Nat, exportTs : Nat, reason : Reasons, decision : Decided]
FlowRecord ==
    [kind : Kinds, flowInstanceId : Nat, recordSeq : Nat, total : Nat, in : Nat, out : Nat,
     lastSeen : Nat, reason : Reasons, hasRuleId : BOOLEAN]

\* The places of a thread: those of an observer once the entry is in the
\* session, those that hold the export flag, and the rest.
Observing == {"count", "direction", "facts", "key", "ruleId", "known", "due", "guard", "load", "recheck"}
Exporting == {"export", "remember"}
Ending == {"sweepGuard", "evictGuard", "endLoad"}
InSessionPlaces == Observing \cup Exporting \cup Ending
Flagged == {"publish", "load", "recheck", "export", "remember", "endLoad"}
Places == InSessionPlaces \cup {"idle", "ensure", "claim", "publish", "sweepFlow", "sweepSession", "unlink", "unlock"}

Types ==
    /\ session \in Nat /\ nextSessionId \in Nat /\ nextFlowId \in Nat /\ counted \in Nat
    /\ entry \in {"absent", "linked", "retired"}
    /\ tele \in Telemetry
    /\ pc \in [Threads -> Places] /\ my \in [Threads -> Local]
    /\ records \in Seq(FlowRecord)

InSession == session # 0 /\ tele.sessionId = session
Directing == {t \in Threads : pc[t] = "direction"}

\* Sessions are numbered upwards; whoever works on telemetry works for the open one.
SessionInv ==
    /\ session < nextSessionId /\ tele.sessionId < nextSessionId
    /\ \A t \in Threads : pc[t] \notin {"idle", "unlink"} => session # 0
    /\ session # 0 /\ tele.sessionId # session => counted = 0 /\ records = <<>>

\* Before the entry exists nothing happens to it; then it has been seen.
EntryInv ==
    IF entry = "absent" THEN Quiescent /\ counted = 0 /\ records = <<>> ELSE tele.lastSeen # 0

\* What the entry has counted and exported in the session.
CountInv ==
    InSession =>
        /\ tele.total = counted
        /\ tele.total = tele.in + tele.out + Cardinality(Directing)
ExportInv ==
    InSession =>
        /\ Len(records) = tele.recordSeq + (IF \E t \in Threads : pc[t] = "remember" THEN 1 ELSE 0)
        /\ tele.exported.ts = 0 <=> tele.recordSeq = 0
        /\ \A i \in 1 .. Len(records) :
              records[i].in <= tele.in /\ records[i].out <= tele.out /\ records[i].lastSeen <= tele.lastSeen

\* What a thread relies on at its place, though others run.
Holds(t) ==
    /\ pc[t] \in InSessionPlaces => InSession
    /\ pc[t] \in Flagged => exportInProgress = t
    /\ pc[t] = "publish" =>
          /\ tele.sessionId # session
          /\ tele.total = 0 /\ tele.in = 0 /\ tele.out = 0 /\ tele.recordSeq = 0 /\ tele.exported.ts = 0
    /\ pc[t] \in Ending => tele.exported.ts # 0
    /\ pc[t] \in {"recheck", "export"} =>
          /\ my[t].total = my[t].in + my[t].out /\ my[t].in <= tele.in /\ my[t].out <= tele.out
          /\ \A i \in 1 .. Len(records) : records[i].in <= my[t].in /\ records[i].out <= my[t].out
    /\ pc[t] = "export" =>
          /\ my[t].seen <= tele.lastSeen
          /\ \A i \in 1 .. Len(records) : records[i].lastSeen <= my[t].seen
    /\ pc[t] \in Exporting =>
          /\ my[t].kind = "BEGIN" <=> tele.exported.ts = 0
          /\ my[t].exportTs # 0

ThreadsInv == \A t \in Threads : Holds(t)

\* The inductive invariant of the records.
RecordsInv ==
    /\ Types /\ SessionInv /\ EntryInv /\ CountInv /\ ExportInv /\ ThreadsInv
    /\ RecordSequence /\ RecordsNeverRollBack

-----------------------------------------------------------------------------
(* Steps of one thread. *)

\* A field counts up; what has been exported stays.
Grows(u, v) ==
    /\ v \in Telemetry
    /\ v.sessionId = u.sessionId /\ v.recordSeq = u.recordSeq /\ v.exported = u.exported
    /\ u.in <= v.in /\ u.out <= v.out /\ u.lastSeen <= v.lastSeen

\* Thread t goes to l with locals x and writes no record.
Moves(t, l, x) ==
    /\ l \in Places /\ x \in Local
    /\ pc' = [pc EXCEPT ![t] = l] /\ my' = [my EXCEPT ![t] = x]
    /\ UNCHANGED <<session, nextSessionId, nextFlowId, records>>
    /\ entry # "absent" /\ entry' \in {entry, "retired"}
    /\ Grows(tele, tele') /\ counted' \in Nat
    /\ InSession \/ UNCHANGED <<tele, counted>>
    /\ exportInProgress' = exportInProgress \/ exportInProgress \in {Nobody, t}
    /\ pc[t] # "remember" /\ l # "remember"
    /\ l \notin {"idle", "unlink"} => session # 0

LEMMA MovesFacts ==
    ASSUME RecordsInv, NEW t \in Threads, NEW l, NEW x, Moves(t, l, x)
    PROVE  /\ Types' /\ pc'[t] = l /\ my'[t] = x
           /\ \A o \in Threads : o # t => pc'[o] = pc[o] /\ my'[o] = my[o]
           /\ InSession' <=> InSession
<1>1. Types
  BY DEF RecordsInv
<1>2. pc' \in [Threads -> Places] /\ my' \in [Threads -> Local]
  BY <1>1 DEF Types, Moves
<1>3. Types'
  BY <1>1, <1>2 DEF Types, Moves, Grows
<1>4. InSession' <=> InSession
  BY DEF InSession, Moves, Grows
<1> QED BY <1>1, <1>3, <1>4 DEF Types, Moves

\* What the other threads rely on stays.
LEMMA OthersHold ==
    ASSUME RecordsInv, NEW t \in Threads, NEW l, NEW x, Moves(t, l, x), NEW o \in Threads, o # t
    PROVE  Holds(o)'
<1>1. /\ Types' /\ pc'[o] = pc[o] /\ my'[o] = my[o] /\ (InSession' <=> InSession)
  BY MovesFacts
<1>2. Types /\ Holds(o) /\ o # Nobody
  BY FlowRecordsAssumption DEF RecordsInv, ThreadsInv
<1>3. records' = records /\ session' = session /\ Grows(tele, tele') /\ (InSession \/ tele' = tele)
  BY DEF Moves
<1>4. exportInProgress = o => exportInProgress' = o
  BY <1>2 DEF Moves
<1>5. pc[o] = "publish" => ~InSession
  BY <1>2 DEF Holds, InSession
<1>6. pc[o] \in InSessionPlaces => InSession'
  BY <1>1, <1>2 DEF Holds
<1>7. /\ tele.in \in Nat /\ tele'.in \in Nat /\ tele.out \in Nat /\ tele'.out \in Nat
      /\ tele.lastSeen \in Nat /\ tele'.lastSeen \in Nat
      /\ my[o].in \in Nat /\ my[o].out \in Nat /\ my[o].seen \in Nat
  BY <1>1, <1>2 DEF Types, Telemetry, Local
<1>8. /\ my[o].in <= tele.in => my[o].in <= tele'.in
      /\ my[o].out <= tele.out => my[o].out <= tele'.out
      /\ my[o].seen <= tele.lastSeen => my[o].seen <= tele'.lastSeen
  BY <1>3, <1>7 DEF Grows
<1>9. pc[o] \in Flagged => exportInProgress' = o
  BY <1>2, <1>4 DEF Holds
<1>10. pc[o] = "publish" =>
         /\ tele'.sessionId # session
         /\ tele'.total = 0 /\ tele'.in = 0 /\ tele'.out = 0 /\ tele'.recordSeq = 0 /\ tele'.exported.ts = 0
  BY <1>2, <1>3, <1>5 DEF Holds
<1>11. tele'.exported.ts = tele.exported.ts
  BY <1>3 DEF Grows
<1>12. pc[o] \in {"recheck", "export"} =>
         /\ my[o].total = my[o].in + my[o].out /\ my[o].in <= tele'.in /\ my[o].out <= tele'.out
         /\ \A i \in 1 .. Len(records) : records[i].in <= my[o].in /\ records[i].out <= my[o].out
  BY <1>2, <1>8 DEF Holds
<1>13. pc[o] = "export" =>
         /\ my[o].seen <= tele'.lastSeen
         /\ \A i \in 1 .. Len(records) : records[i].lastSeen <= my[o].seen
  BY <1>2, <1>8 DEF Holds
<1>14. /\ pc[o] \in Ending => tele'.exported.ts # 0
       /\ pc[o] \in Exporting => (my[o].kind = "BEGIN" <=> tele'.exported.ts = 0) /\ my[o].exportTs # 0
  BY <1>2, <1>11 DEF Holds
<1> QED BY <1>1, <1>3, <1>6, <1>9, <1>10, <1>12, <1>13, <1>14 DEF Holds

\* A step that writes no record keeps the invariant, if what the entry counts and
\* what the thread relies on are right after it.
LEMMA MovesKeep ==
    ASSUME RecordsInv, NEW t \in Threads, NEW l, NEW x, Moves(t, l, x), Holds(t)', CountInv'
    PROVE  RecordsInv'
<1>1. /\ Types' /\ pc'[t] = l /\ my'[t] = x /\ (InSession' <=> InSession)
      /\ \A o \in Threads : o # t => pc'[o] = pc[o]
  BY MovesFacts
<1>2. Types /\ SessionInv /\ EntryInv /\ ExportInv /\ RecordSequence /\ RecordsNeverRollBack
  BY DEF RecordsInv
<1>3. ThreadsInv'
  <2>1. \A o \in Threads : Holds(o)'
    BY OthersHold
  <2> QED BY <2>1 DEF ThreadsInv
<1>4. SessionInv'
  <2>1. session' < nextSessionId' /\ tele'.sessionId < nextSessionId'
    BY <1>2 DEF SessionInv, Moves, Grows
  <2>2. \A o \in Threads : pc'[o] \notin {"idle", "unlink"} => session' # 0
    BY <1>1, <1>2 DEF SessionInv, Moves
  <2>3. session' # 0 /\ tele'.sessionId # session' => counted' = 0 /\ records' = <<>>
    BY <1>2 DEF SessionInv, Moves, Grows, InSession
  <2> QED BY <2>1, <2>2, <2>3 DEF SessionInv
<1>5. EntryInv'
  <2>1. entry' # "absent" /\ tele.lastSeen # 0 /\ tele.lastSeen <= tele'.lastSeen
    BY <1>2 DEF EntryInv, Moves, Grows
  <2>2. tele.lastSeen \in Nat /\ tele'.lastSeen \in Nat
    BY <1>1, <1>2 DEF Types, Telemetry
  <2>3. tele'.lastSeen # 0
    BY <2>1, <2>2
  <2> QED BY <2>1, <2>3 DEF EntryInv
<1>6. ExportInv'
  <2> SUFFICES ASSUME InSession
               PROVE  /\ Len(records) = tele'.recordSeq + (IF \E o \in Threads : pc'[o] = "remember" THEN 1 ELSE 0)
                      /\ tele'.exported.ts = 0 <=> tele'.recordSeq = 0
                      /\ \A i \in 1 .. Len(records) :
                            /\ records[i].in <= tele'.in /\ records[i].out <= tele'.out
                            /\ records[i].lastSeen <= tele'.lastSeen
    BY <1>1 DEF ExportInv, Moves
  <2>1. (\E o \in Threads : pc'[o] = "remember") <=> (\E o \in Threads : pc[o] = "remember")
    BY <1>1 DEF Moves
  <2>2. tele'.recordSeq = tele.recordSeq /\ tele'.exported.ts = tele.exported.ts
    BY DEF Moves, Grows
  <2>3. \A i \in 1 .. Len(records) :
            /\ records[i].in <= tele'.in /\ records[i].out <= tele'.out
            /\ records[i].lastSeen <= tele'.lastSeen
    <3> SUFFICES ASSUME NEW i \in 1 .. Len(records)
                 PROVE  /\ records[i].in <= tele'.in /\ records[i].out <= tele'.out
                        /\ records[i].lastSeen <= tele'.lastSeen
      OBVIOUS
    <3>1. records[i].in <= tele.in /\ records[i].out <= tele.out /\ records[i].lastSeen <= tele.lastSeen
      BY <1>2 DEF ExportInv
    <3>2. records[i] \in FlowRecord
      BY <1>2 DEF Types
    <3>3. records[i].in \in Nat /\ records[i].out \in Nat /\ records[i].lastSeen \in Nat
      BY <3>2 DEF FlowRecord
    <3>4. /\ tele.in \in Nat /\ tele'.in \in Nat /\ tele.out \in Nat /\ tele'.out \in Nat
          /\ tele.lastSeen \in Nat /\ tele'.lastSeen \in Nat
          /\ tele.in <= tele'.in /\ tele.out <= tele'.out /\ tele.lastSeen <= tele'.lastSeen
      BY <1>1, <1>2 DEF Types, Telemetry, Moves, Grows
    <3> HIDE DEF Moves
    <3> QED BY SMTT(30), <3>1, <3>3, <3>4
  <2> QED BY <1>2, <2>1, <2>2, <2>3 DEF ExportInv
<1>7. RecordSequence' /\ RecordsNeverRollBack'
  BY <1>2 DEF RecordSequence, RecordsNeverRollBack, Moves
<1> QED BY <1>1, <1>3, <1>4, <1>5, <1>6, <1>7 DEF RecordsInv

\* Steps that count nothing.
LEMMA QuietMoves ==
    ASSUME RecordsInv, NEW t \in Threads, NEW l, NEW x, Moves(t, l, x), Holds(t)',
           tele'.total = tele.total, tele'.in = tele.in, tele'.out = tele.out, counted' = counted,
           pc[t] # "direction", l # "direction"
    PROVE  RecordsInv'
<1>1. /\ pc'[t] = l /\ (InSession' <=> InSession) /\ \A o \in Threads : o # t => pc'[o] = pc[o]
  BY MovesFacts
<1>2. Directing' = Directing
  BY <1>1 DEF Directing
<1>3. CountInv'
  BY <1>1, <1>2 DEF RecordsInv, CountInv
<1> QED BY <1>3, MovesKeep

-----------------------------------------------------------------------------
(* Facts about single steps. *)

LEMMA InvFacts ==
    ASSUME RecordsInv
    PROVE  /\ Types /\ SessionInv /\ EntryInv /\ CountInv /\ ExportInv /\ RecordSequence /\ RecordsNeverRollBack
           /\ \A t \in Threads : /\ Holds(t) /\ pc[t] \in Places /\ my[t] \in Local
                                 /\ pc[t] # "idle" => entry # "absent"
                                 /\ pc[t] \notin {"idle", "unlink"} => session # 0
<1>1. Types /\ SessionInv /\ EntryInv /\ ThreadsInv
  BY DEF RecordsInv
<1>2. \A t \in Threads : Holds(t) /\ pc[t] \in Places /\ my[t] \in Local
  BY <1>1 DEF Types, ThreadsInv
<1>3. \A t \in Threads : /\ pc[t] # "idle" => entry # "absent"
                         /\ pc[t] \notin {"idle", "unlink"} => session # 0
  BY <1>1 DEF EntryInv, SessionInv, Quiescent
<1> QED BY <1>1, <1>2, <1>3 DEF RecordsInv

LEMMA LocalsType == ASSUME NEW ts \in Nat \ {0} PROVE Locals(ts) \in Local
<1>1. (CHOOSE d \in Decisions : TRUE) \in Decisions
  BY FlowRecordsAssumption
<1>2. NoDecision \in Decided
  BY DEF NoDecision, Decided, Reasons
<1>3. "none" \in Reasons /\ "none" \in Kinds
  BY DEF Reasons, Kinds
<1> DEFINE c == CHOOSE d \in Decisions : TRUE
           n == NoDecision
<1> HIDE DEF c, n
<1>4. [ts |-> ts, d |-> c, total |-> 0, in |-> 0, out |-> 0, flow |-> 0, kind |-> "none", seen |-> 0,
       exportTs |-> 0, reason |-> "none", decision |-> n] \in Local
  BY <1>1, <1>2, <1>3 DEF Local, c, n
<1> QED BY <1>4 DEF Locals, c, n

LEMMA ProceedFacts ==
    ASSUME RecordsInv, NEW t \in Threads, NEW l, Proceed(t, l)
    PROVE  \E x \in Local : /\ pc' = [pc EXCEPT ![t] = l] /\ my' = [my EXCEPT ![t] = x]
                            /\ l # "idle" => x = my[t]
<1>1. my \in [Threads -> Local] /\ my[t].ts \in Nat \ {0} /\ my[t] \in Local
  BY InvFacts DEF Types, Local
<1>2. Locals(my[t].ts) \in Local
  BY <1>1, LocalsType
<1>3. my = [my EXCEPT ![t] = my[t]]
  BY <1>1
<1> QED BY <1>1, <1>2, <1>3 DEF Proceed, Goto

LEMMA StayFacts ==
    ASSUME RecordsInv, NEW t \in Threads, NEW l, Goto(t, l), UNCHANGED my
    PROVE  pc' = [pc EXCEPT ![t] = l] /\ my' = [my EXCEPT ![t] = my[t]] /\ my[t] \in Local
<1>1. my \in [Threads -> Local]
  BY InvFacts DEF Types
<1> QED BY <1>1 DEF Goto

LEMMA SameTele ==
    ASSUME RecordsInv, tele' = tele
    PROVE  Grows(tele, tele')
<1>1. tele \in Telemetry /\ tele.in \in Nat /\ tele.out \in Nat /\ tele.lastSeen \in Nat
  BY InvFacts DEF Types, Telemetry
<1> QED BY <1>1 DEF Grows

\* A place where a thread relies on nothing.
LEMMA FreeHolds ==
    ASSUME NEW t, pc'[t] \in {"idle", "ensure", "claim", "sweepFlow", "sweepSession", "unlink", "unlock"}
    PROVE  Holds(t)'
BY DEF Holds, InSessionPlaces, Observing, Exporting, Ending, Flagged

\* A step that changes the thread's place, its locals and the flag.
LEMMA PlainMoves ==
    ASSUME RecordsInv, NEW t \in Threads, NEW l \in Places, NEW x \in Local,
           pc' = [pc EXCEPT ![t] = l], my' = [my EXCEPT ![t] = x],
           UNCHANGED <<session, nextSessionId, nextFlowId, tele, records, counted>>,
           entry # "absent", entry' \in {entry, "retired"},
           exportInProgress' = exportInProgress \/ exportInProgress \in {Nobody, t},
           pc[t] \notin {"remember", "direction"}, l \notin {"remember", "direction"},
           l \notin {"idle", "unlink"} => session # 0,
           Holds(t)'
    PROVE  RecordsInv'
<1>1. counted \in Nat
  BY InvFacts DEF Types
<1>2. Moves(t, l, x)
  BY <1>1, SameTele DEF Moves
<1> QED BY <1>2, QuietMoves

LEMMA PlacesFacts ==
    /\ {"idle", "ensure", "claim", "publish", "sweepFlow", "sweepSession", "unlink", "unlock"} \subseteq Places
    /\ Observing \subseteq Places /\ Exporting \subseteq Places /\ Ending \subseteq Places
BY DEF Places, InSessionPlaces

-----------------------------------------------------------------------------
(* Steps that touch neither the entry's telemetry nor the records. *)

LEMMA EnsureKeep ==
    ASSUME RecordsInv, NEW t \in Threads, EnsureLoad(t) \/ EnsureBusy(t) \/ EnsureLate(t)
    PROVE  RecordsInv'
<1>0. /\ entry # "absent" /\ session # 0 /\ pc[t] \in {"ensure", "claim"}
      /\ UNCHANGED <<session, nextSessionId, nextFlowId, tele, records, counted, entry, exportInProgress>>
  BY InvFacts DEF EnsureLoad, EnsureBusy, EnsureLate, sessionVars, tableVars, history
<1>1. CASE EnsureBusy(t)
  <2>1. PICK x \in Local : pc' = [pc EXCEPT ![t] = "idle"] /\ my' = [my EXCEPT ![t] = x]
    BY <1>1, ProceedFacts DEF EnsureBusy
  <2>2. Holds(t)'
    <3>1. pc'[t] = "idle"
      BY <2>1, InvFacts DEF Types
    <3> QED BY <3>1, FreeHolds
  <2> QED BY <1>0, <2>1, <2>2, PlainMoves, PlacesFacts
<1>2. CASE EnsureLoad(t) /\ tele.sessionId # session
  <2>1. pc' = [pc EXCEPT ![t] = "claim"] /\ my' = [my EXCEPT ![t] = my[t]] /\ my[t] \in Local
    BY <1>2, StayFacts DEF EnsureLoad
  <2>2. Holds(t)'
    <3>1. pc'[t] = "claim"
      BY <2>1, InvFacts DEF Types
    <3> QED BY <3>1, FreeHolds
  <2> QED BY <1>0, <2>1, <2>2, PlainMoves, PlacesFacts
<1>3. CASE (EnsureLoad(t) \/ EnsureLate(t)) /\ tele.sessionId = session
  <2>1. pc' = [pc EXCEPT ![t] = "count"] /\ my' = [my EXCEPT ![t] = my[t]] /\ my[t] \in Local
    BY <1>3, StayFacts DEF EnsureLoad, EnsureLate
  <2>2. Holds(t)'
    <3>1. pc'[t] = "count" /\ InSession'
      BY <1>0, <1>3, <2>1, InvFacts DEF Types, InSession
    <3> QED BY <3>1 DEF Holds, Flagged, Ending, Exporting
  <2>3. "count" \in Places
    BY PlacesFacts DEF Observing
  <2> QED BY <1>0, <2>1, <2>2, <2>3, PlainMoves
<1> QED BY <1>1, <1>2, <1>3 DEF EnsureLate

LEMMA CheckDueKeeps == ASSUME RecordsInv, NEW t \in Threads, CheckDue(t) PROVE RecordsInv'
<1>0. /\ entry # "absent" /\ session # 0 /\ pc[t] = "due" /\ InSession
      /\ UNCHANGED <<session, nextSessionId, nextFlowId, tele, records, counted, entry, exportInProgress>>
  BY InvFacts DEF CheckDue, sessionVars, tableVars, history, Holds, InSessionPlaces, Observing
<1>1. PICK l \in {"guard", "idle"} : Proceed(t, l)
  BY DEF CheckDue
<1>2. PICK x \in Local : pc' = [pc EXCEPT ![t] = l] /\ my' = [my EXCEPT ![t] = x]
  BY <1>1, ProceedFacts
<1>3. pc'[t] = l /\ InSession' /\ l \in Places
  BY <1>0, <1>2, InvFacts, PlacesFacts DEF Types, InSession, Observing
<1>4. Holds(t)'
  BY <1>3 DEF Holds, Flagged, Ending, Exporting
<1> QED BY <1>0, <1>2, <1>3, <1>4, PlainMoves

LEMMA TakeGuardKeeps == ASSUME RecordsInv, NEW t \in Threads, TakeGuard(t) PROVE RecordsInv'
<1>0. /\ entry # "absent" /\ session # 0 /\ pc[t] = "guard" /\ InSession
      /\ UNCHANGED <<session, nextSessionId, nextFlowId, tele, records, counted, entry>>
  BY InvFacts DEF TakeGuard, sessionVars, tableVars, history, Holds, InSessionPlaces, Observing
<1>1. PICK l \in {"load", "idle"} : /\ Proceed(t, l) /\ l = (IF exportInProgress = Nobody THEN "load" ELSE "idle")
                                    /\ exportInProgress' = IF exportInProgress = Nobody THEN t ELSE exportInProgress
  BY DEF TakeGuard
<1>2. PICK x \in Local : pc' = [pc EXCEPT ![t] = l] /\ my' = [my EXCEPT ![t] = x]
  BY <1>1, ProceedFacts
<1>3. pc'[t] = l /\ InSession' /\ l \in Places
  BY <1>0, <1>2, InvFacts, PlacesFacts DEF Types, InSession, Observing
<1>4. Holds(t)'
  BY <1>1, <1>3 DEF Holds, Flagged, Ending, Exporting
<1> QED BY <1>0, <1>1, <1>2, <1>3, <1>4, PlainMoves

\* The counters are loaded with the flag: no record overtakes them.
LEMMA LoadCountersKeeps == ASSUME RecordsInv, NEW t \in Threads, LoadCounters(t) PROVE RecordsInv'
<1>0. /\ entry # "absent" /\ session # 0 /\ pc[t] = "load" /\ InSession /\ exportInProgress = t
      /\ UNCHANGED <<session, nextSessionId, nextFlowId, tele, records, counted, entry, exportInProgress>>
  BY InvFacts DEF LoadCounters, sessionVars, tableVars, history, Holds, InSessionPlaces, Observing, Flagged
<1> DEFINE s == tele.in + tele.out
           x == [my[t] EXCEPT !.in = tele.in, !.out = tele.out, !.total = s]
<1>1. my' = [my EXCEPT ![t] = x] /\ pc' = [pc EXCEPT ![t] = "recheck"]
  BY InvFacts DEF LoadCounters, Goto, Types
<1>2. my[t] \in Local /\ tele.in \in Nat /\ tele.out \in Nat /\ s \in Nat
  BY InvFacts DEF Types, Telemetry
<1>3. x \in Local /\ x.in = tele.in /\ x.out = tele.out /\ x.total = tele.in + tele.out
  BY <1>2 DEF Local
<1> HIDE DEF x
<1>4. pc'[t] = "recheck" /\ my'[t] = x /\ InSession' /\ "recheck" \in Places
  BY <1>0, <1>1, InvFacts, PlacesFacts DEF Types, InSession, Observing
<1>5. \A i \in 1 .. Len(records) : records[i].in <= tele.in /\ records[i].out <= tele.out
  BY <1>0, InvFacts DEF ExportInv
<1>6. Holds(t)'
  BY <1>0, <1>2, <1>3, <1>4, <1>5 DEF Holds, Flagged, Ending, Exporting
<1> QED BY <1>0, <1>1, <1>3, <1>4, <1>6, PlainMoves

LEMMA RecheckDueKeeps == ASSUME RecordsInv, NEW t \in Threads, RecheckDue(t) PROVE RecordsInv'
<1>0. /\ entry # "absent" /\ session # 0 /\ pc[t] = "recheck" /\ InSession /\ exportInProgress = t
      /\ UNCHANGED <<session, nextSessionId, nextFlowId, tele, records, counted, entry>>
  BY InvFacts DEF RecheckDue, sessionVars, tableVars, history, Holds, InSessionPlaces, Observing, Flagged
<1>1. CASE Proceed(t, "idle")
  <2>1. PICK x \in Local : pc' = [pc EXCEPT ![t] = "idle"] /\ my' = [my EXCEPT ![t] = x]
    BY <1>1, ProceedFacts
  <2>2. pc'[t] = "idle"
    BY <2>1, InvFacts DEF Types
  <2>3. Holds(t)' /\ "idle" \in Places
    BY <2>2, FreeHolds, PlacesFacts
  <2> QED BY <1>0, <2>1, <2>3, PlainMoves
<1>2. CASE ~Proceed(t, "idle")
  <2> DEFINE k == IF tele.exported.ts = 0 THEN "BEGIN" ELSE "UPDATE"
             x == [my[t] EXCEPT !.kind = k, !.decision = tele.decision, !.seen = tele.lastSeen,
                     !.exportTs = tele.lastSeen, !.flow = tele.flowInstanceId, !.reason = my[t].d.reason]
  <2>1. my' = [my EXCEPT ![t] = x] /\ pc' = [pc EXCEPT ![t] = "export"] /\ exportInProgress' = exportInProgress
    BY <1>2, InvFacts DEF RecheckDue, Goto, Types
  <2>2. /\ my[t] \in Local /\ k \in Kinds /\ tele.decision \in Decided /\ tele.lastSeen \in Nat
        /\ tele.flowInstanceId \in Nat /\ my[t].d.reason \in Reasons /\ tele.lastSeen # 0
        /\ k = "BEGIN" <=> tele.exported.ts = 0
    <3>1. my[t] \in Local /\ tele \in Telemetry /\ tele.lastSeen # 0
      BY <1>0, InvFacts DEF Types, EntryInv
    <3>2. my[t].d \in Decisions
      BY <3>1 DEF Local
    <3> QED BY <3>1, <3>2 DEF Telemetry, Reasons, Kinds
  <2> HIDE DEF k
  <2>3. /\ x \in Local /\ x.kind = k /\ x.seen = tele.lastSeen /\ x.exportTs = tele.lastSeen
        /\ x.in = my[t].in /\ x.out = my[t].out /\ x.total = my[t].total
    BY <2>2 DEF Local
  <2> HIDE DEF x
  <2>4. pc'[t] = "export" /\ my'[t] = x /\ InSession' /\ "export" \in Places
    BY <1>0, <2>1, InvFacts, PlacesFacts DEF Types, InSession, Exporting
  <2>5. \A i \in 1 .. Len(records) : records[i].lastSeen <= tele.lastSeen
    BY <1>0, InvFacts DEF ExportInv
  <2>6. /\ my[t].total = my[t].in + my[t].out /\ my[t].in <= tele.in /\ my[t].out <= tele.out
        /\ \A i \in 1 .. Len(records) : records[i].in <= my[t].in /\ records[i].out <= my[t].out
    BY <1>0, InvFacts DEF Holds
  <2>7. Holds(t)'
    <3>1. x.seen <= tele'.lastSeen /\ x.exportTs # 0 /\ (x.kind = "BEGIN" <=> tele'.exported.ts = 0)
      BY <1>0, <2>2, <2>3
    <3> QED BY <1>0, <2>1, <2>3, <2>4, <2>5, <2>6, <3>1 DEF Holds, Flagged, Ending, Exporting
  <2> QED BY <1>0, <2>1, <2>3, <2>4, <2>7, PlainMoves
<1> QED BY <1>1, <1>2

LEMMA AfterExportFacts ==
    ASSUME RecordsInv, NEW t \in Threads
    PROVE  AfterExport(t) \in {"idle", "unlink", "unlock"} /\ AfterExport(t) \in Places
BY PlacesFacts DEF AfterExport

LEMMA ExportFailsKeeps == ASSUME RecordsInv, NEW t \in Threads, ExportFails(t) PROVE RecordsInv'
<1>0. /\ entry # "absent" /\ session # 0 /\ pc[t] = "export" /\ exportInProgress = t
      /\ UNCHANGED <<session, nextSessionId, nextFlowId, tele, records, counted, entry>>
  BY InvFacts DEF ExportFails, sessionVars, tableVars, history, Holds, Flagged
<1> DEFINE l == AfterExport(t)
<1>1. l \in {"idle", "unlink", "unlock"} /\ l \in Places
  BY AfterExportFacts
<1>2. Proceed(t, l)
  BY DEF ExportFails
<1> HIDE DEF l
<1>3. PICK x \in Local : pc' = [pc EXCEPT ![t] = l] /\ my' = [my EXCEPT ![t] = x]
  BY <1>2, ProceedFacts
<1>4. Holds(t)'
  <2>1. pc'[t] = l
    BY <1>3, InvFacts DEF Types
  <2> QED BY <1>1, <2>1, FreeHolds
<1> QED BY <1>0, <1>1, <1>3, <1>4, PlainMoves

\* A packet's own time and decision become the thread's.
LEMMA PacketFacts ==
    ASSUME RecordsInv, NEW t \in Threads, Packet(t)
    PROVE  /\ pc[t] = "idle" /\ session # 0
           /\ \E x \in Local : my' = [my EXCEPT ![t] = x] /\ my'[t] = x
<1>1. PICK ts \in my[t].ts .. MaxTs, d \in Decisions : my' = [my EXCEPT ![t].ts = ts, ![t].d = d]
  BY DEF Packet
<1> DEFINE x == [my[t] EXCEPT !.ts = ts, !.d = d]
<1>2. my \in [Threads -> Local] /\ my[t] \in Local /\ my[t].ts \in Nat \ {0} /\ MaxTs \in Nat
  BY InvFacts, FlowRecordsAssumption DEF Types, Local
<1>3. ts \in Nat \ {0}
  BY <1>2
<1>4. x \in Local
  BY <1>2, <1>3 DEF Local
<1>5. my' = [my EXCEPT ![t] = x] /\ my'[t] = x
  BY <1>1, <1>2
<1> QED BY <1>4, <1>5 DEF Packet

LEMMA FindEntryKeeps == ASSUME RecordsInv, NEW t \in Threads, FindEntry(t) PROVE RecordsInv'
<1>0. /\ entry = "linked" /\ pc' = [pc EXCEPT ![t] = "ensure"] /\ pc[t] = "idle" /\ session # 0
      /\ UNCHANGED <<session, nextSessionId, nextFlowId, tele, records, counted, entry, exportInProgress>>
  BY PacketFacts DEF FindEntry, Goto, sessionVars, tableVars
<1>1. PICK x \in Local : my' = [my EXCEPT ![t] = x]
  BY PacketFacts DEF FindEntry
<1>2. pc'[t] = "ensure" /\ "ensure" \in Places
  BY <1>0, InvFacts, PlacesFacts DEF Types
<1>3. Holds(t)'
  BY <1>2, FreeHolds
<1> QED BY <1>0, <1>1, <1>2, <1>3, PlainMoves

LEMMA StartSweepKeeps == ASSUME RecordsInv, NEW t \in Threads, StartSweep(t) PROVE RecordsInv'
<1> DEFINE l == IF session # 0 THEN "sweepFlow" ELSE "unlink"
<1>0. /\ entry = "linked" /\ pc[t] = "idle" /\ pc' = [pc EXCEPT ![t] = l]
      /\ UNCHANGED <<session, nextSessionId, nextFlowId, tele, records, counted, entry, exportInProgress>>
  BY DEF StartSweep, Goto, sessionVars, history
<1>1. PICK ts \in my[t].ts .. MaxTs : my' = [my EXCEPT ![t].ts = ts]
  BY DEF StartSweep
<1> DEFINE x == [my[t] EXCEPT !.ts = ts]
<1>2. my \in [Threads -> Local] /\ my[t] \in Local /\ my[t].ts \in Nat \ {0} /\ MaxTs \in Nat
  BY InvFacts, FlowRecordsAssumption DEF Types, Local
<1>3. ts \in Nat \ {0}
  BY <1>2
<1>4. x \in Local /\ my' = [my EXCEPT ![t] = x]
  BY <1>1, <1>2, <1>3 DEF Local
<1>5. l \in {"sweepFlow", "unlink"} /\ (l # "unlink" => session # 0) /\ l \in Places
  BY PlacesFacts
<1> HIDE DEF l, x
<1>6. pc'[t] = l
  BY <1>0, InvFacts DEF Types
<1>7. Holds(t)'
  BY <1>5, <1>6, FreeHolds
<1> QED BY <1>0, <1>4, <1>5, <1>7, PlainMoves

LEMMA SweepFlowKeeps == ASSUME RecordsInv, NEW t \in Threads, SweepFlow(t) PROVE RecordsInv'
<1> DEFINE x == [my[t] EXCEPT !.flow = tele.flowInstanceId]
<1>0. /\ entry # "absent" /\ session # 0 /\ pc[t] = "sweepFlow" /\ pc' = [pc EXCEPT ![t] = "sweepSession"]
      /\ UNCHANGED <<session, nextSessionId, nextFlowId, tele, records, counted, entry, exportInProgress>>
  BY InvFacts DEF SweepFlow, Goto, sessionVars, tableVars, history
<1>1. my' = [my EXCEPT ![t] = x]
  BY InvFacts DEF SweepFlow, Types
<1>2. my[t] \in Local /\ tele.flowInstanceId \in Nat
  BY InvFacts DEF Types, Telemetry
<1>3. x \in Local
  BY <1>2 DEF Local
<1>4. pc'[t] = "sweepSession" /\ "sweepSession" \in Places
  BY <1>0, InvFacts, PlacesFacts DEF Types
<1>5. Holds(t)'
  BY <1>4, FreeHolds
<1> HIDE DEF x
<1> QED BY <1>0, <1>1, <1>3, <1>4, <1>5, PlainMoves

LEMMA SweepSessionKeeps == ASSUME RecordsInv, NEW t \in Threads, SweepSession(t) PROVE RecordsInv'
<1> DEFINE x == [my[t] EXCEPT !.decision = tele.decision]
           l == IF tele.sessionId = session /\ tele.exported.ts # 0 THEN "sweepGuard" ELSE "unlink"
<1>0. /\ entry # "absent" /\ session # 0 /\ pc[t] = "sweepSession" /\ pc' = [pc EXCEPT ![t] = l]
      /\ UNCHANGED <<session, nextSessionId, nextFlowId, tele, records, counted, entry, exportInProgress>>
  BY InvFacts DEF SweepSession, Goto, sessionVars, tableVars, history
<1>1. my' = [my EXCEPT ![t] = x]
  BY InvFacts DEF SweepSession, Types
<1>2. my[t] \in Local /\ tele.decision \in Decided
  BY InvFacts DEF Types, Telemetry
<1>3. x \in Local
  BY <1>2 DEF Local
<1>4. l \in {"sweepGuard", "unlink"} /\ (l = "sweepGuard" => InSession /\ tele.exported.ts # 0) /\ l \in Places
  BY <1>0, PlacesFacts DEF InSession, Ending
<1> HIDE DEF x, l
<1>5. pc'[t] = l /\ (InSession' <=> InSession)
  BY <1>0, InvFacts DEF Types, InSession
<1>6. Holds(t)'
  BY <1>0, <1>4, <1>5 DEF Holds, Flagged, Ending, Exporting, InSessionPlaces, Observing
<1> QED BY <1>0, <1>1, <1>3, <1>4, <1>6, PlainMoves

LEMMA SweepGuardKeeps == ASSUME RecordsInv, NEW t \in Threads, SweepGuard(t) PROVE RecordsInv'
<1> DEFINE l == IF exportInProgress = Nobody THEN "endLoad" ELSE "unlink"
<1>0. /\ entry # "absent" /\ session # 0 /\ pc[t] = "sweepGuard" /\ pc' = [pc EXCEPT ![t] = l]
      /\ InSession /\ tele.exported.ts # 0
      /\ exportInProgress' = (IF exportInProgress = Nobody THEN t ELSE exportInProgress)
      /\ UNCHANGED <<session, nextSessionId, nextFlowId, tele, records, counted, entry>>
  BY InvFacts DEF SweepGuard, Goto, sessionVars, tableVars, history, Holds, InSessionPlaces, Ending
<1>1. my' = [my EXCEPT ![t] = my[t]] /\ my[t] \in Local
  BY StayFacts DEF SweepGuard
<1>2. l \in {"endLoad", "unlink"} /\ l \in Places /\ (l = "endLoad" => exportInProgress' = t)
  BY <1>0, PlacesFacts DEF Ending
<1> HIDE DEF l
<1>3. pc'[t] = l /\ InSession'
  BY <1>0, InvFacts DEF Types, InSession
<1>4. Holds(t)'
  BY <1>0, <1>2, <1>3 DEF Holds, Flagged, Ending, Exporting
<1>5. exportInProgress' = exportInProgress \/ exportInProgress \in {Nobody, t}
  BY <1>0
<1> QED BY <1>0, <1>1, <1>2, <1>4, <1>5, PlainMoves

\* The END's counters and times are loaded with the flag.
LEMMA EndLoadKeeps == ASSUME RecordsInv, NEW t \in Threads, EndLoad(t) PROVE RecordsInv'
<1> DEFINE s == tele.in + tele.out
           x == [my[t] EXCEPT !.kind = "END", !.in = tele.in, !.out = tele.out, !.total = s,
                   !.seen = tele.lastSeen, !.exportTs = my[t].ts, !.reason = tele.lastReason]
<1>0. /\ entry # "absent" /\ session # 0 /\ pc[t] = "endLoad" /\ pc' = [pc EXCEPT ![t] = "export"]
      /\ InSession /\ tele.exported.ts # 0 /\ exportInProgress = t
      /\ UNCHANGED <<session, nextSessionId, nextFlowId, tele, records, counted, entry, exportInProgress>>
  BY InvFacts DEF EndLoad, Goto, sessionVars, tableVars, history, Holds, InSessionPlaces, Ending, Flagged
<1>1. my' = [my EXCEPT ![t] = x]
  BY InvFacts DEF EndLoad, Types
<1>2. /\ my[t] \in Local /\ tele.in \in Nat /\ tele.out \in Nat /\ s \in Nat /\ tele.lastSeen \in Nat
      /\ tele.lastReason \in Reasons /\ my[t].ts \in Nat \ {0}
  <2>1. my[t] \in Local /\ tele \in Telemetry
    BY InvFacts DEF Types
  <2>2. /\ tele.in \in Nat /\ tele.out \in Nat /\ tele.lastSeen \in Nat /\ tele.lastReason \in Reasons
    BY <2>1 DEF Telemetry
  <2>3. my[t].ts \in Nat \ {0}
    BY <2>1 DEF Local
  <2> QED BY <2>1, <2>2, <2>3
<1>3. /\ x \in Local /\ x.kind = "END" /\ x.in = tele.in /\ x.out = tele.out /\ x.total = tele.in + tele.out
      /\ x.seen = tele.lastSeen /\ x.exportTs = my[t].ts
  BY <1>2 DEF Local, Kinds
<1> HIDE DEF x
<1>4. pc'[t] = "export" /\ my'[t] = x /\ InSession' /\ "export" \in Places
  BY <1>0, <1>1, InvFacts, PlacesFacts DEF Types, InSession, Exporting
<1>5. \A i \in 1 .. Len(records) :
        records[i].in <= tele.in /\ records[i].out <= tele.out /\ records[i].lastSeen <= tele.lastSeen
  BY <1>0, InvFacts DEF ExportInv
<1>6. Holds(t)'
  BY <1>0, <1>2, <1>3, <1>4, <1>5 DEF Holds, Flagged, Ending, Exporting
<1> QED BY <1>0, <1>1, <1>3, <1>4, <1>6, PlainMoves

LEMMA LeaveKeeps == ASSUME RecordsInv, NEW t \in Threads, SweepUnlink(t) \/ EvictUnlock(t) PROVE RecordsInv'
<1>0. /\ entry # "absent" /\ pc[t] \in {"unlink", "unlock"} /\ entry' \in {entry, "retired"} /\ Proceed(t, "idle")
      /\ UNCHANGED <<session, nextSessionId, nextFlowId, tele, records, counted, exportInProgress>>
  BY InvFacts DEF SweepUnlink, EvictUnlock, sessionVars, history
<1>1. PICK x \in Local : pc' = [pc EXCEPT ![t] = "idle"] /\ my' = [my EXCEPT ![t] = x]
  BY <1>0, ProceedFacts
<1>2. pc'[t] = "idle" /\ "idle" \in Places
  BY <1>1, InvFacts, PlacesFacts DEF Types
<1>3. Holds(t)'
  BY <1>2, FreeHolds
<1> QED BY <1>0, <1>1, <1>2, <1>3, PlainMoves

LEMMA EvictKeeps == ASSUME RecordsInv, NEW t \in Threads, evictOneLocked(t) PROVE RecordsInv'
<1>0. /\ entry = "linked" /\ entry' = "retired" /\ pc[t] = "idle" /\ pc' = [pc EXCEPT ![t] = "evictGuard"]
      /\ InSession /\ session # 0 /\ tele.exported.ts # 0
      /\ UNCHANGED <<session, nextSessionId, nextFlowId, tele, records, counted, exportInProgress>>
  BY DEF evictOneLocked, Goto, sessionVars, history, InSession
<1>1. PICK ts \in my[t].ts .. MaxTs : my' = [my EXCEPT ![t].ts = ts, ![t].flow = tele.flowInstanceId]
  BY DEF evictOneLocked
<1> DEFINE x == [my[t] EXCEPT !.ts = ts, !.flow = tele.flowInstanceId]
<1>2. /\ my \in [Threads -> Local] /\ my[t] \in Local /\ my[t].ts \in Nat \ {0} /\ MaxTs \in Nat
      /\ tele.flowInstanceId \in Nat
  BY InvFacts, FlowRecordsAssumption DEF Types, Local, Telemetry
<1>3. ts \in Nat \ {0}
  BY <1>2
<1>4. x \in Local /\ my' = [my EXCEPT ![t] = x]
  BY <1>1, <1>2, <1>3 DEF Local
<1> HIDE DEF x
<1>5. pc'[t] = "evictGuard" /\ InSession' /\ "evictGuard" \in Places
  BY <1>0, InvFacts, PlacesFacts DEF Types, InSession, Ending
<1>6. Holds(t)'
  BY <1>0, <1>5 DEF Holds, Flagged, Ending, Exporting
<1> QED BY <1>0, <1>4, <1>5, <1>6, PlainMoves

LEMMA EvictGuardKeeps == ASSUME RecordsInv, NEW t \in Threads, EvictGuard(t) PROVE RecordsInv'
<1> DEFINE l == IF exportInProgress = Nobody THEN "endLoad" ELSE "unlock"
           x == [my[t] EXCEPT !.decision = tele.decision]
<1>0. /\ entry # "absent" /\ session # 0 /\ pc[t] = "evictGuard" /\ pc' = [pc EXCEPT ![t] = l]
      /\ InSession /\ tele.exported.ts # 0
      /\ exportInProgress' = (IF exportInProgress = Nobody THEN t ELSE exportInProgress)
      /\ UNCHANGED <<session, nextSessionId, nextFlowId, tele, records, counted, entry>>
  BY InvFacts DEF EvictGuard, Goto, sessionVars, tableVars, history, Holds, InSessionPlaces, Ending
<1>1. my' = [my EXCEPT ![t] = x]
  BY InvFacts DEF EvictGuard, Types
<1>2. my[t] \in Local /\ tele.decision \in Decided
  BY InvFacts DEF Types, Telemetry
<1>3. x \in Local
  BY <1>2 DEF Local
<1>4. l \in {"endLoad", "unlock"} /\ l \in Places /\ (l = "endLoad" => exportInProgress' = t)
  BY <1>0, PlacesFacts DEF Ending
<1> HIDE DEF l, x
<1>5. pc'[t] = l /\ InSession'
  BY <1>0, InvFacts DEF Types, InSession
<1>6. Holds(t)'
  BY <1>0, <1>4, <1>5 DEF Holds, Flagged, Ending, Exporting
<1>7. exportInProgress' = exportInProgress \/ exportInProgress \in {Nobody, t}
  BY <1>0
<1> QED BY <1>0, <1>1, <1>3, <1>4, <1>6, <1>7, PlainMoves

-----------------------------------------------------------------------------
(* Counting a packet. *)

LEMMA DirectingFinite == IsFiniteSet(Directing) /\ Cardinality(Directing) \in Nat
<1>1. IsFiniteSet(Directing)
  BY FlowRecordsAssumption, FS_Subset DEF Directing
<1> QED BY <1>1, FS_CardinalityType

\* An observer works on an entry of the open session.
LEMMA ObserverFacts ==
    ASSUME RecordsInv, NEW t \in Threads, pc[t] \in Observing
    PROVE  /\ entry # "absent" /\ session # 0 /\ InSession /\ tele \in Telemetry /\ counted \in Nat
           /\ my[t] \in Local /\ my[t].d \in Decisions
           /\ tele.total \in Nat /\ tele.in \in Nat /\ tele.out \in Nat /\ tele.lastSeen \in Nat
<1>1. entry # "absent" /\ session # 0 /\ InSession
  BY InvFacts DEF Observing, Holds, InSessionPlaces
<1>2. tele \in Telemetry /\ my[t] \in Local /\ counted \in Nat
  BY InvFacts DEF Types
<1> QED BY <1>1, <1>2 DEF Telemetry, Local

LEMMA CountTotalKeeps == ASSUME RecordsInv, NEW t \in Threads, CountTotal(t) PROVE RecordsInv'
<1> DEFINE n == tele.total + 1
           x == [my[t] EXCEPT !.total = n]
<1>0. /\ pc[t] = "count" /\ pc' = [pc EXCEPT ![t] = "direction"] /\ counted' = counted + 1
      /\ tele' = [tele EXCEPT !.total = n] /\ my' = [my EXCEPT ![t] = x]
      /\ UNCHANGED <<session, nextSessionId, nextFlowId, records, entry, exportInProgress>>
  BY InvFacts DEF CountTotal, Goto, sessionVars, tableVars, Types
<1>1. /\ entry # "absent" /\ session # 0 /\ InSession /\ tele \in Telemetry /\ counted \in Nat
      /\ my[t] \in Local /\ tele.total \in Nat /\ tele.in \in Nat /\ tele.out \in Nat /\ tele.lastSeen \in Nat
  BY <1>0, ObserverFacts DEF Observing
<1>2. n \in Nat
  BY <1>1
<1> HIDE DEF n
<1>3. x \in Local
  BY <1>1, <1>2 DEF Local
<1>4. tele' \in Telemetry
  BY <1>0, <1>1, <1>2 DEF Telemetry
<1>5. /\ tele'.sessionId = tele.sessionId /\ tele'.recordSeq = tele.recordSeq /\ tele'.exported = tele.exported
      /\ tele'.in = tele.in /\ tele'.out = tele.out /\ tele'.lastSeen = tele.lastSeen /\ tele'.total = n
  BY <1>0, <1>1 DEF Telemetry
<1>6. Grows(tele, tele')
  BY <1>1, <1>4, <1>5 DEF Grows
<1> HIDE DEF x
<1>7. Moves(t, "direction", x)
  <2>1. "direction" \in Places /\ counted' \in Nat
    BY <1>0, <1>1, PlacesFacts DEF Observing
  <2> QED BY <1>0, <1>1, <1>3, <1>6, <2>1 DEF Moves
<1>8. pc'[t] = "direction" /\ InSession' /\ \A o \in Threads : o # t => pc'[o] = pc[o]
  BY <1>1, <1>7, MovesFacts
<1>9. Holds(t)'
  BY <1>8 DEF Holds, Flagged, Ending, Exporting
<1>10. CountInv'
  <2>1. Directing' = Directing \cup {t} /\ t \notin Directing
    BY <1>0, <1>8 DEF Directing
  <2>2. Cardinality(Directing') = Cardinality(Directing) + 1
    BY <2>1, DirectingFinite, FS_AddElement
  <2>3. tele.total = counted /\ tele.total = tele.in + tele.out + Cardinality(Directing)
    BY <1>1, InvFacts DEF CountInv
  <2> DEFINE c == Cardinality(Directing)
  <2>4. c \in Nat
    BY DirectingFinite
  <2> HIDE DEF c
  <2>5. n = counted + 1 /\ n = tele.in + tele.out + (c + 1)
    BY <1>1, <2>3, <2>4 DEF c, n
  <2>6. tele'.total = counted' /\ tele'.total = tele'.in + tele'.out + Cardinality(Directing')
    BY <1>0, <1>5, <2>2, <2>5 DEF c
  <2> QED BY <2>6 DEF CountInv
<1> QED BY <1>7, <1>9, <1>10, MovesKeep

LEMMA CountDirectionKeeps == ASSUME RecordsInv, NEW t \in Threads, CountDirection(t) PROVE RecordsInv'
<1> DEFINE i == IF t \in Inbound THEN tele.in + 1 ELSE tele.in
           o == IF t \in Inbound THEN tele.out ELSE tele.out + 1
<1>0. /\ pc[t] = "direction" /\ Goto(t, "facts") /\ my' = my /\ counted' = counted
      /\ UNCHANGED <<session, nextSessionId, nextFlowId, records, entry, exportInProgress>>
  BY DEF CountDirection, sessionVars, tableVars, history
<1>1. /\ entry # "absent" /\ session # 0 /\ InSession /\ tele \in Telemetry /\ counted \in Nat
      /\ tele.total \in Nat /\ tele.in \in Nat /\ tele.out \in Nat /\ tele.lastSeen \in Nat
  BY <1>0, ObserverFacts DEF Observing
<1>2. pc' = [pc EXCEPT ![t] = "facts"] /\ my' = [my EXCEPT ![t] = my[t]] /\ my[t] \in Local
  BY <1>0, StayFacts
<1>3. /\ i \in Nat /\ o \in Nat /\ i + o = tele.in + tele.out + 1 /\ tele.in <= i /\ tele.out <= o
  BY <1>1
<1>4. tele' = [tele EXCEPT !.in = i, !.out = o]
  BY <1>1 DEF CountDirection, Telemetry
<1> HIDE DEF i, o
<1>5. tele' \in Telemetry
  BY <1>1, <1>3, <1>4 DEF Telemetry
<1>6. /\ tele'.sessionId = tele.sessionId /\ tele'.recordSeq = tele.recordSeq /\ tele'.exported = tele.exported
      /\ tele'.in = i /\ tele'.out = o /\ tele'.lastSeen = tele.lastSeen /\ tele'.total = tele.total
  BY <1>1, <1>4 DEF Telemetry
<1>7. Grows(tele, tele')
  BY <1>1, <1>3, <1>5, <1>6 DEF Grows
<1>8. Moves(t, "facts", my[t])
  <2>1. "facts" \in Places
    BY PlacesFacts DEF Observing
  <2> QED BY <1>0, <1>1, <1>2, <1>7, <2>1 DEF Moves
<1>9. pc'[t] = "facts" /\ InSession' /\ \A p \in Threads : p # t => pc'[p] = pc[p]
  BY <1>1, <1>8, MovesFacts
<1>10. Holds(t)'
  BY <1>9 DEF Holds, Flagged, Ending, Exporting
<1>11. CountInv'
  <2>1. Directing' = Directing \ {t} /\ t \in Directing
    BY <1>0, <1>9 DEF Directing
  <2>2. Cardinality(Directing') = Cardinality(Directing) - 1
    BY <2>1, DirectingFinite, FS_RemoveElement
  <2>3. tele.total = counted /\ tele.total = tele.in + tele.out + Cardinality(Directing)
    BY <1>1, InvFacts DEF CountInv
  <2> DEFINE c == Cardinality(Directing)
  <2>4. c \in Nat
    BY DirectingFinite
  <2> HIDE DEF c
  <2>5. tele.total = i + o + (c - 1)
    BY <1>1, <1>3, <2>3, <2>4 DEF c
  <2>6. tele'.total = counted' /\ tele'.total = tele'.in + tele'.out + Cardinality(Directing')
    BY <1>0, <1>6, <2>2, <2>3, <2>5 DEF c
  <2> QED BY <2>6 DEF CountInv
<1> QED BY <1>8, <1>10, <1>11, MovesKeep

\* The stores between the counters and the export check leave the counters alone.
LEMMA StoreKeeps ==
    ASSUME RecordsInv, NEW t \in Threads, NEW l \in {"key", "ruleId", "known", "due"},
           pc[t] \in Observing \ {"direction"}, Goto(t, l), my' = my, tele' \in Telemetry,
           tele'.sessionId = tele.sessionId, tele'.recordSeq = tele.recordSeq, tele'.exported = tele.exported,
           tele'.in = tele.in, tele'.out = tele.out, tele'.total = tele.total, tele.lastSeen <= tele'.lastSeen,
           UNCHANGED <<session, nextSessionId, nextFlowId, records, entry, exportInProgress, counted>>
    PROVE  RecordsInv'
<1>1. /\ entry # "absent" /\ session # 0 /\ InSession /\ counted \in Nat
      /\ tele.total \in Nat /\ tele.in \in Nat /\ tele.out \in Nat
  BY ObserverFacts
<1>2. pc' = [pc EXCEPT ![t] = l] /\ my' = [my EXCEPT ![t] = my[t]] /\ my[t] \in Local
  BY StayFacts
<1>3. Grows(tele, tele')
  BY <1>1 DEF Grows
<1>4. Moves(t, l, my[t])
  <2>1. l \in Places
    BY PlacesFacts DEF Observing
  <2>2. pc[t] # "remember"
    BY DEF Observing
  <2> QED BY <1>1, <1>2, <1>3, <2>1, <2>2 DEF Moves
<1>5. pc'[t] = l /\ InSession'
  BY <1>1, <1>4, MovesFacts
<1>6. Holds(t)'
  BY <1>5 DEF Holds, Flagged, Ending, Exporting
<1> QED BY <1>4, <1>6, QuietMoves

LEMMA StoreFactsKeeps == ASSUME RecordsInv, NEW t \in Threads, StoreFacts(t) PROVE RecordsInv'
<1> DEFINE s == Later(tele.lastSeen, my[t].ts)
           r == my[t].d.reason
<1>0. /\ pc[t] = "facts" /\ Goto(t, "key") /\ my' = my
      /\ tele' = [tele EXCEPT !.lastSeen = s, !.lastReason = r]
      /\ UNCHANGED <<session, nextSessionId, nextFlowId, records, entry, exportInProgress, counted>>
  BY DEF StoreFacts, sessionVars, tableVars, history
<1>1. tele \in Telemetry /\ my[t] \in Local /\ my[t].d \in Decisions /\ tele.lastSeen \in Nat
  BY <1>0, ObserverFacts DEF Observing
<1>2. my[t].ts \in Nat
  BY <1>1 DEF Local
<1>3. s \in Nat /\ tele.lastSeen <= s /\ r \in Reasons
  BY <1>1, <1>2 DEF Later, Reasons
<1> HIDE DEF s, r
<1>4. tele' \in Telemetry
  BY <1>0, <1>1, <1>3 DEF Telemetry
<1>5. /\ tele'.sessionId = tele.sessionId /\ tele'.recordSeq = tele.recordSeq /\ tele'.exported = tele.exported
      /\ tele'.in = tele.in /\ tele'.out = tele.out /\ tele'.lastSeen = s /\ tele'.total = tele.total
  BY <1>0, <1>1 DEF Telemetry
<1> QED BY <1>0, <1>3, <1>4, <1>5, StoreKeeps DEF Observing

\* The decision's three stores.
LEMMA StoreDecisionKeeps ==
    ASSUME RecordsInv, NEW t \in Threads,
           StoreDecisionKey(t) \/ StoreDecisionRuleId(t) \/ StoreDecisionRuleIdKnown(t)
    PROVE  RecordsInv'
<1>0. /\ pc[t] \in {"key", "ruleId", "known"} /\ my' = my
      /\ UNCHANGED <<session, nextSessionId, nextFlowId, records, entry, exportInProgress, counted>>
  BY DEF StoreDecisionKey, StoreDecisionRuleId, StoreDecisionRuleIdKnown, sessionVars, tableVars, history
<1>1. PICK l \in {"ruleId", "known", "due"} : Goto(t, l)
  BY DEF StoreDecisionKey, StoreDecisionRuleId, StoreDecisionRuleIdKnown
<1>2. tele \in Telemetry /\ my[t].d \in Decisions /\ tele.lastSeen \in Nat
  BY <1>0, ObserverFacts DEF Observing
<1>3. tele.decision \in Decided
  BY <1>2 DEF Telemetry
<1>4. my[t].d.reason \in Reasons /\ my[t].d.ruleId \in Nat /\ my[t].d.known \in BOOLEAN
  BY <1>2, FlowRecordsAssumption DEF Reasons
<1>5. PICK v \in Decided : tele' = [tele EXCEPT !.decision = v]
  <2>1. CASE StoreDecisionKey(t)
    <3>1. [tele.decision EXCEPT !.key = my[t].d.reason] \in Decided
      BY <1>3, <1>4 DEF Decided
    <3>2. tele' = [tele EXCEPT !.decision = [tele.decision EXCEPT !.key = my[t].d.reason]]
      BY <1>2, <2>1 DEF StoreDecisionKey, Telemetry
    <3> QED BY <3>1, <3>2
  <2>2. CASE StoreDecisionRuleId(t)
    <3>1. [tele.decision EXCEPT !.ruleId = my[t].d.ruleId] \in Decided
      BY <1>3, <1>4 DEF Decided
    <3>2. tele' = [tele EXCEPT !.decision = [tele.decision EXCEPT !.ruleId = my[t].d.ruleId]]
      BY <1>2, <2>2 DEF StoreDecisionRuleId, Telemetry
    <3> QED BY <3>1, <3>2
  <2>3. CASE StoreDecisionRuleIdKnown(t)
    <3>1. [tele.decision EXCEPT !.known = my[t].d.known] \in Decided
      BY <1>3, <1>4 DEF Decided
    <3>2. tele' = [tele EXCEPT !.decision = [tele.decision EXCEPT !.known = my[t].d.known]]
      BY <1>2, <2>3 DEF StoreDecisionRuleIdKnown, Telemetry
    <3> QED BY <3>1, <3>2
  <2> QED BY <2>1, <2>2, <2>3
<1>6. tele' \in Telemetry
  BY <1>2, <1>5 DEF Telemetry
<1>7. /\ tele'.sessionId = tele.sessionId /\ tele'.recordSeq = tele.recordSeq /\ tele'.exported = tele.exported
      /\ tele'.in = tele.in /\ tele'.out = tele.out /\ tele'.lastSeen = tele.lastSeen /\ tele'.total = tele.total
  BY <1>2, <1>5 DEF Telemetry
<1>8. pc[t] \in Observing \ {"direction"} /\ tele.lastSeen <= tele'.lastSeen
  BY <1>0, <1>2, <1>7 DEF Observing
<1> QED BY <1>0, <1>1, <1>6, <1>7, <1>8, StoreKeeps

-----------------------------------------------------------------------------
(* A record enters the ring. *)

\* Only one thread has the export flag.
LEMMA OneFlag ==
    ASSUME RecordsInv, NEW t \in Threads, exportInProgress \in {Nobody, t}
    PROVE  \A o \in Threads : o # t => pc[o] \notin Flagged
BY InvFacts, FlowRecordsAssumption DEF Holds

\* The next record is numbered next, and is a BEGIN exactly if it is the first.
LEMMA AppendKeeps ==
    ASSUME RecordsInv, InSession, \A o \in Threads : pc[o] # "remember",
           NEW r \in FlowRecord, records' = Append(records, r),
           r.recordSeq = tele.recordSeq + 1, r.total = r.in + r.out,
           r.kind = "BEGIN" <=> tele.exported.ts = 0,
           \A i \in 1 .. Len(records) :
              records[i].in <= r.in /\ records[i].out <= r.out /\ records[i].lastSeen <= r.lastSeen
    PROVE  /\ records' \in Seq(FlowRecord) /\ Len(records') = tele.recordSeq + 1
           /\ \A i \in 1 .. Len(records') : (i \in 1 .. Len(records) /\ records'[i] = records[i]) \/ records'[i] = r
           /\ RecordSequence' /\ RecordsNeverRollBack'
<1> DEFINE n == Len(records)
           q == tele.recordSeq
<1>0. Types /\ ExportInv /\ RecordSequence /\ RecordsNeverRollBack
  BY InvFacts
<1>1. records \in Seq(FlowRecord) /\ n \in Nat /\ n = q /\ (q = 0 <=> tele.exported.ts = 0)
  <2>1. records \in Seq(FlowRecord) /\ tele \in Telemetry
    BY <1>0 DEF Types
  <2>2. tele.recordSeq \in Nat
    BY <2>1 DEF Telemetry
  <2>3. n = q + 0 /\ (q = 0 <=> tele.exported.ts = 0)
    BY <1>0 DEF ExportInv
  <2> QED BY <2>1, <2>2, <2>3
<1>2. /\ records' \in Seq(FlowRecord) /\ Len(records') = n + 1
      /\ \A i \in 1 .. n : records'[i] = records[i]
      /\ records'[n + 1] = r
  BY <1>1, AppendProperties
<1>3. /\ r.recordSeq = n + 1 /\ (r.kind = "BEGIN" <=> n = 0)
  BY <1>1
<1>4. /\ \A i \in 1 .. n : records[i].recordSeq = i /\ (records[i].kind = "BEGIN" <=> i = 1)
      /\ \A i \in 1 .. n : records[i].total = records[i].in + records[i].out
      /\ \A i \in 1 .. n - 1 : \A f \in {"in", "out", "lastSeen"} : records[i][f] <= records[i+1][f]
  <2>1. \A i \in 1 .. n : records[i].recordSeq = i /\ (records[i].kind = "BEGIN" <=> i = 1)
    BY <1>0 DEF RecordSequence
  <2>2. /\ \A i \in 1 .. n : records[i].total = records[i].in + records[i].out
        /\ \A i \in 1 .. n - 1 : \A f \in {"in", "out", "lastSeen"} : records[i][f] <= records[i+1][f]
    BY <1>0 DEF RecordsNeverRollBack
  <2> QED BY <2>1, <2>2
<1>5. \A i \in 1 .. n : \A f \in {"in", "out", "lastSeen"} : records[i][f] <= r[f]
  OBVIOUS
<1> HIDE DEF n, q
<1>6. \A i \in 1 .. n + 1 : i \in 1 .. n \/ i = n + 1
  BY <1>1
<1>7. \A i \in 1 .. n + 1 : (i \in 1 .. n /\ records'[i] = records[i]) \/ records'[i] = r
  BY <1>2, <1>6
<1>8. RecordSequence'
  <2>1. \A i \in 1 .. n + 1 : records'[i].recordSeq = i /\ (records'[i].kind = "BEGIN" <=> i = 1)
    BY <1>1, <1>2, <1>3, <1>4, <1>6
  <2> QED BY <1>2, <2>1 DEF RecordSequence
<1>9. RecordsNeverRollBack'
  <2>1. \A i \in 1 .. n + 1 : records'[i].total = records'[i].in + records'[i].out
    BY <1>2, <1>4, <1>6
  <2>2. ASSUME NEW i \in 1 .. (n + 1) - 1, NEW f \in {"in", "out", "lastSeen"}
        PROVE  records'[i][f] <= records'[i+1][f]
    <3>1. i \in 1 .. n /\ records'[i] = records[i]
      BY <1>1, <1>2
    <3>2. CASE i = n
      BY <1>2, <1>5, <3>1, <3>2
    <3>3. CASE i # n
      <4>1. i \in 1 .. n - 1 /\ i + 1 \in 1 .. n
        BY <1>1, <3>1, <3>3
      <4> QED BY <1>2, <1>4, <3>1, <4>1
    <3> QED BY <3>2, <3>3
  <2> QED BY <1>2, <2>1, <2>2 DEF RecordsNeverRollBack
<1> QED BY <1>1, <1>2, <1>7, <1>8, <1>9 DEF n, q

\* exportRecordHot: the record is what the exporter loaded with the flag.
LEMMA ExportWritesKeeps == ASSUME RecordsInv, NEW t \in Threads, ExportWrites(t) PROVE RecordsInv'
<1> DEFINE r == Record(t)
<1>0. /\ pc[t] = "export" /\ pc' = [pc EXCEPT ![t] = "remember"] /\ records' = Append(records, r) /\ my' = my
      /\ UNCHANGED <<session, nextSessionId, nextFlowId, tele, entry, exportInProgress, counted>>
  BY DEF ExportWrites, Goto, sessionVars, tableVars
<1>1. /\ Types /\ SessionInv /\ EntryInv /\ CountInv /\ ExportInv /\ Holds(t) /\ my[t] \in Local /\ tele \in Telemetry
      /\ entry # "absent" /\ session # 0
  BY <1>0, InvFacts DEF Types
<1>2. /\ InSession /\ exportInProgress = t /\ my[t].total = my[t].in + my[t].out
      /\ my[t].in <= tele.in /\ my[t].out <= tele.out /\ my[t].seen <= tele.lastSeen
      /\ my[t].kind = "BEGIN" <=> tele.exported.ts = 0
      /\ my[t].exportTs # 0
  BY <1>0, <1>1 DEF Holds, InSessionPlaces, Exporting, Flagged
<1>3. \A i \in 1 .. Len(records) :
        records[i].in <= my[t].in /\ records[i].out <= my[t].out /\ records[i].lastSeen <= my[t].seen
  BY <1>0, <1>1 DEF Holds
<1>4. \A o \in Threads : o # t => pc[o] \notin Flagged
  BY <1>2, OneFlag
<1>5. \A o \in Threads : pc[o] # "remember"
  BY <1>0, <1>4 DEF Flagged
<1>6. r \in FlowRecord
  <2>1. /\ my[t].kind \in Kinds /\ my[t].flow \in Nat /\ my[t].total \in Nat /\ my[t].in \in Nat /\ my[t].out \in Nat
        /\ my[t].seen \in Nat /\ my[t].reason \in Reasons /\ my[t].decision \in Decided
    BY <1>1 DEF Local
  <2>2. my[t].decision.known \in BOOLEAN
    BY <2>1 DEF Decided
  <2>3. tele.recordSeq \in Nat
    BY <1>1 DEF Telemetry
  <2> DEFINE q == tele.recordSeq + 1
             b == my[t].decision.known
  <2>4. q \in Nat
    BY <2>3
  <2> HIDE DEF q, b
  <2>5. r = [kind |-> my[t].kind, flowInstanceId |-> my[t].flow, recordSeq |-> q,
             total |-> my[t].total, in |-> my[t].in, out |-> my[t].out, lastSeen |-> my[t].seen,
             reason |-> my[t].reason, hasRuleId |-> b]
    BY DEF Record, q, b
  <2>6. b \in BOOLEAN
    BY <2>2 DEF b
  <2> QED BY <2>1, <2>4, <2>5, <2>6 DEF FlowRecord
<1>7. /\ r.kind = my[t].kind /\ r.recordSeq = tele.recordSeq + 1 /\ r.total = my[t].total
      /\ r.in = my[t].in /\ r.out = my[t].out /\ r.lastSeen = my[t].seen
  BY DEF Record
<1> HIDE DEF r
<1>8. /\ records' \in Seq(FlowRecord) /\ Len(records') = tele.recordSeq + 1
      /\ \A i \in 1 .. Len(records') : (i \in 1 .. Len(records) /\ records'[i] = records[i]) \/ records'[i] = r
      /\ RecordSequence' /\ RecordsNeverRollBack'
  BY <1>0, <1>2, <1>3, <1>5, <1>6, <1>7, AppendKeeps
<1>9. /\ pc'[t] = "remember" /\ pc' \in [Threads -> Places] /\ (InSession' <=> InSession)
      /\ \A o \in Threads : o # t => pc'[o] = pc[o]
  <2>1. "remember" \in Places /\ pc \in [Threads -> Places]
    BY <1>1, PlacesFacts DEF Exporting, Types
  <2> QED BY <1>0, <2>1 DEF InSession
<1>10. Types'
  BY <1>0, <1>1, <1>8, <1>9 DEF Types
<1>11. SessionInv' /\ EntryInv'
  BY <1>0, <1>1, <1>2, <1>9 DEF SessionInv, EntryInv, InSession
<1>12. CountInv'
  <2>1. Directing' = Directing
    BY <1>0, <1>9 DEF Directing
  <2> QED BY <1>0, <1>1, <1>9, <2>1 DEF CountInv
<1>13. ExportInv'
  <2>1. \A i \in 1 .. Len(records') :
           records'[i].in <= tele.in /\ records'[i].out <= tele.out /\ records'[i].lastSeen <= tele.lastSeen
    BY <1>1, <1>2, <1>7, <1>8 DEF ExportInv
  <2>2. tele.exported.ts = 0 <=> tele.recordSeq = 0
    BY <1>1, <1>2 DEF ExportInv
  <2> QED BY <1>0, <1>8, <1>9, <2>1, <2>2 DEF ExportInv
<1>14. ThreadsInv'
  <2>1. Holds(t)'
    BY <1>0, <1>2, <1>9 DEF Holds, InSessionPlaces, Exporting, Flagged, Ending
  <2>2. ASSUME NEW o \in Threads, o # t PROVE Holds(o)'
    <3>1. Holds(o) /\ pc'[o] = pc[o] /\ pc[o] \notin Flagged
      BY <1>4, <1>9, <2>2, InvFacts
    <3> QED BY <1>0, <1>9, <3>1 DEF Holds, Flagged, Exporting
  <2> QED BY <2>1, <2>2 DEF ThreadsInv
<1> QED BY <1>8, <1>10, <1>11, <1>12, <1>13, <1>14 DEF RecordsInv

\* The exporter remembers what it exported and releases the flag.
LEMMA RememberExportKeeps == ASSUME RecordsInv, NEW t \in Threads, RememberExport(t) PROVE RecordsInv'
<1> DEFINE l == AfterExport(t)
           e == [packets |-> my[t].total, ts |-> my[t].exportTs, decision |-> my[t].decision]
           q == tele.recordSeq + 1
<1>0. /\ pc[t] = "remember" /\ exportInProgress' = Nobody /\ Proceed(t, l)
      /\ tele' = [tele EXCEPT !.recordSeq = q, !.exported = e]
      /\ UNCHANGED <<session, nextSessionId, nextFlowId, records, entry, counted>>
  BY DEF RememberExport, sessionVars, tableVars, history
<1>1. /\ Types /\ SessionInv /\ EntryInv /\ CountInv /\ ExportInv /\ RecordSequence /\ RecordsNeverRollBack
      /\ Holds(t) /\ my[t] \in Local /\ tele \in Telemetry /\ entry # "absent" /\ session # 0
  BY <1>0, InvFacts DEF Types
<1>2. InSession /\ exportInProgress = t /\ my[t].exportTs # 0
  BY <1>0, <1>1 DEF Holds, InSessionPlaces, Exporting, Flagged
<1>3. \A o \in Threads : o # t => pc[o] \notin Flagged
  BY <1>2, OneFlag
<1>4. l \in {"idle", "unlink", "unlock"} /\ l \in Places
  BY AfterExportFacts
<1>5. q \in Nat /\ q # 0 /\ tele.recordSeq \in Nat
  <2>1. tele.recordSeq \in Nat
    BY <1>1 DEF Telemetry
  <2> QED BY <2>1
<1>6. e \in Exported /\ e.ts # 0
  <2>1. my[t].total \in Nat /\ my[t].exportTs \in Nat /\ my[t].decision \in Decided
    BY <1>1 DEF Local
  <2> QED BY <1>2, <2>1 DEF Exported
<1>7. Len(records) = q
  BY <1>0, <1>1, <1>2 DEF ExportInv
<1> HIDE DEF l, e, q
<1>8. tele' \in Telemetry
  BY <1>0, <1>1, <1>5, <1>6 DEF Telemetry
<1>9. /\ tele'.sessionId = tele.sessionId /\ tele'.recordSeq = q /\ tele'.exported = e
      /\ tele'.in = tele.in /\ tele'.out = tele.out /\ tele'.lastSeen = tele.lastSeen /\ tele'.total = tele.total
  BY <1>0, <1>1 DEF Telemetry
<1>10. PICK x \in Local : pc' = [pc EXCEPT ![t] = l] /\ my' = [my EXCEPT ![t] = x]
  BY <1>0, ProceedFacts
<1>11. /\ pc' \in [Threads -> Places] /\ my' \in [Threads -> Local] /\ pc'[t] = l /\ (InSession' <=> InSession)
       /\ \A o \in Threads : o # t => pc'[o] = pc[o] /\ my'[o] = my[o]
  BY <1>0, <1>1, <1>4, <1>9, <1>10 DEF Types, InSession
<1>12. Types'
  BY <1>0, <1>1, <1>8, <1>11 DEF Types
<1>13. SessionInv'
  <2>1. \A o \in Threads : pc'[o] \notin {"idle", "unlink"} => session' # 0
    BY <1>0, <1>1
  <2> QED BY <1>0, <1>1, <1>2, <1>9, <2>1 DEF SessionInv, InSession
<1>14. EntryInv'
  BY <1>0, <1>1, <1>9 DEF EntryInv
<1>15. CountInv'
  <2>1. Directing' = Directing
    BY <1>0, <1>4, <1>11 DEF Directing
  <2> QED BY <1>0, <1>1, <1>9, <1>11, <2>1 DEF CountInv
<1>16. ExportInv'
  <2>1. ~\E o \in Threads : pc'[o] = "remember"
    BY <1>3, <1>4, <1>11 DEF Flagged
  <2>2. \A i \in 1 .. Len(records) :
           records[i].in <= tele.in /\ records[i].out <= tele.out /\ records[i].lastSeen <= tele.lastSeen
    BY <1>1, <1>2 DEF ExportInv
  <2>3. Len(records') = tele'.recordSeq + 0
    BY <1>0, <1>5, <1>7, <1>9
  <2>4. tele'.exported.ts = 0 <=> tele'.recordSeq = 0
    BY <1>5, <1>6, <1>9
  <2> QED BY <1>0, <1>9, <2>1, <2>2, <2>3, <2>4 DEF ExportInv
<1>17. ThreadsInv'
  <2>1. Holds(t)'
    BY <1>4, <1>11, FreeHolds
  <2>2. ASSUME NEW o \in Threads, o # t PROVE Holds(o)'
    <3>1. Holds(o) /\ pc'[o] = pc[o] /\ pc[o] \notin Flagged
      BY <1>3, <1>11, <2>2, InvFacts
    <3>2. tele'.exported.ts # 0
      BY <1>6, <1>9
    <3> QED BY <1>2, <1>11, <3>1, <3>2 DEF Holds, Flagged, Exporting
  <2> QED BY <2>1, <2>2 DEF ThreadsInv
<1>18. RecordSequence' /\ RecordsNeverRollBack'
  BY <1>0, <1>1 DEF RecordSequence, RecordsNeverRollBack
<1> QED BY <1>12, <1>13, <1>14, <1>15, <1>16, <1>17, <1>18 DEF RecordsInv

-----------------------------------------------------------------------------
(* The entry starts, or starts over in a new session. *)

\* A place where a thread relies on nothing, told by what it is not.
LEMMA UnboundHolds ==
    ASSUME NEW o, pc'[o] \notin InSessionPlaces, pc'[o] \notin Flagged
    PROVE  Holds(o)'
BY DEF Holds, InSessionPlaces, Observing, Exporting, Ending, Flagged

\* As long as the entry is not in the session, whoever lacks the flag relies on nothing.
LEMMA OutOfSession ==
    ASSUME RecordsInv, ~InSession, NEW t \in Threads, exportInProgress \in {Nobody, t}
    PROVE  \A o \in Threads : o # t => pc[o] \notin InSessionPlaces /\ pc[o] \notin Flagged
BY OneFlag, InvFacts DEF Holds

LEMMA FreshFacts ==
    ASSUME NEW s \in Nat, NEW f \in Nat, NEW ts \in Nat
    PROVE  /\ Fresh(s, f, ts) \in Telemetry /\ Fresh(s, f, ts).sessionId = s /\ Fresh(s, f, ts).lastSeen = ts
           /\ Fresh(s, f, ts).total = 0 /\ Fresh(s, f, ts).in = 0 /\ Fresh(s, f, ts).out = 0
           /\ Fresh(s, f, ts).recordSeq = 0 /\ Fresh(s, f, ts).exported.ts = 0
<1> DEFINE n == NoDecision
           e == NothingExported
<1>1. n \in Decided
  BY DEF NoDecision, Decided, Reasons
<1>2. e \in Exported /\ e.ts = 0
  BY <1>1 DEF NothingExported, Exported
<1>3. "none" \in Reasons
  BY DEF Reasons
<1> HIDE DEF n, e
<1>4. Fresh(s, f, ts) = [sessionId |-> s, flowInstanceId |-> f, recordSeq |-> 0, total |-> 0, in |-> 0, out |-> 0,
                         lastSeen |-> ts, lastReason |-> "none", decision |-> n, exported |-> e]
  BY DEF Fresh, n, e
<1> QED BY <1>1, <1>2, <1>3, <1>4 DEF Telemetry

LEMMA ResetKeeps == ASSUME RecordsInv, NEW t \in Threads, resetTelemetryForSessionLocked(t) PROVE RecordsInv'
<1> DEFINE ts == IF tele.sessionId = 0 THEN tele.lastSeen ELSE my[t].ts
<1>0. /\ pc[t] = "claim" /\ pc' = [pc EXCEPT ![t] = "publish"] /\ exportInProgress = Nobody /\ exportInProgress' = t
      /\ tele.sessionId # session /\ tele' = Fresh(tele.sessionId, nextFlowId, ts) /\ nextFlowId' = nextFlowId + 1
      /\ UNCHANGED <<session, nextSessionId, entry, my, records, counted>>
  BY DEF resetTelemetryForSessionLocked, Goto, sessionVars, tableVars, history
<1>1. /\ Types /\ SessionInv /\ EntryInv /\ RecordSequence /\ RecordsNeverRollBack
      /\ my[t] \in Local /\ tele \in Telemetry /\ entry # "absent" /\ session # 0 /\ nextFlowId \in Nat
  BY <1>0, InvFacts DEF Types
<1>2. tele.sessionId \in Nat /\ ts \in Nat /\ ts # 0
  <2>1. tele.sessionId \in Nat /\ tele.lastSeen \in Nat /\ tele.lastSeen # 0
    BY <1>1 DEF Telemetry, EntryInv
  <2>2. my[t].ts \in Nat \ {0}
    BY <1>1 DEF Local
  <2> QED BY <2>1, <2>2
<1> HIDE DEF ts
<1>3. /\ tele' \in Telemetry /\ tele'.sessionId = tele.sessionId /\ tele'.lastSeen = ts
      /\ tele'.total = 0 /\ tele'.in = 0 /\ tele'.out = 0 /\ tele'.recordSeq = 0 /\ tele'.exported.ts = 0
  BY <1>0, <1>1, <1>2, FreshFacts
<1>4. ~InSession /\ ~InSession'
  BY <1>0, <1>3 DEF InSession
<1>5. \A o \in Threads : o # t => pc[o] \notin InSessionPlaces /\ pc[o] \notin Flagged
  BY <1>0, <1>4, OutOfSession
<1>6. /\ pc'[t] = "publish" /\ pc' \in [Threads -> Places] /\ \A o \in Threads : o # t => pc'[o] = pc[o]
  BY <1>0, <1>1, PlacesFacts DEF Types
<1>7. Types'
  <2>1. nextFlowId' \in Nat
    BY <1>0, <1>1
  <2> QED BY <1>0, <1>1, <1>3, <1>6, <2>1 DEF Types
<1>8. SessionInv' /\ EntryInv'
  BY <1>0, <1>1, <1>2, <1>3, <1>6 DEF SessionInv, EntryInv
<1>9. CountInv' /\ ExportInv'
  BY <1>4 DEF CountInv, ExportInv
<1>10. ThreadsInv'
  <2>1. Holds(t)'
    BY <1>0, <1>3, <1>6 DEF Holds, InSessionPlaces, Observing, Exporting, Ending
  <2>2. \A o \in Threads : o # t => Holds(o)'
    BY <1>5, <1>6, UnboundHolds
  <2> QED BY <2>1, <2>2 DEF ThreadsInv
<1>11. RecordSequence' /\ RecordsNeverRollBack'
  BY <1>0, <1>1 DEF RecordSequence, RecordsNeverRollBack
<1> QED BY <1>7, <1>8, <1>9, <1>10, <1>11 DEF RecordsInv

\* Nothing counted, nothing exported, nobody under way: the entry joins the session.
LEMMA JoinsSession ==
    ASSUME counted' = 0, records' = <<>>, tele'.total = 0, tele'.in = 0, tele'.out = 0,
           tele'.recordSeq = 0, tele'.exported.ts = 0,
           \A o \in Threads : pc'[o] \notin {"direction", "remember"}
    PROVE  CountInv' /\ ExportInv' /\ RecordSequence' /\ RecordsNeverRollBack'
<1>1. Directing' = {}
  BY DEF Directing
<1>2. Cardinality(Directing') = 0
  BY <1>1, FS_EmptySet
<1>3. CountInv'
  BY <1>2 DEF CountInv
<1>4. Len(records') = 0
  OBVIOUS
<1>5. ~\E o \in Threads : pc'[o] = "remember"
  OBVIOUS
<1>6. ExportInv'
  BY <1>4, <1>5 DEF ExportInv
<1>7. RecordSequence' /\ RecordsNeverRollBack'
  BY <1>4 DEF RecordSequence, RecordsNeverRollBack
<1> QED BY <1>3, <1>6, <1>7

LEMMA PublishKeeps == ASSUME RecordsInv, NEW t \in Threads, PublishSession(t) PROVE RecordsInv'
<1>0. /\ pc[t] = "publish" /\ pc' = [pc EXCEPT ![t] = "count"] /\ exportInProgress' = Nobody
      /\ tele' = [tele EXCEPT !.sessionId = session]
      /\ UNCHANGED <<session, nextSessionId, nextFlowId, entry, my, records, counted>>
  BY DEF PublishSession, Goto, sessionVars, tableVars, history
<1>1. /\ Types /\ SessionInv /\ EntryInv /\ Holds(t) /\ tele \in Telemetry /\ session \in Nat
      /\ entry # "absent" /\ session # 0
  BY <1>0, InvFacts DEF Types
<1>2. /\ exportInProgress = t /\ tele.sessionId # session
      /\ tele.total = 0 /\ tele.in = 0 /\ tele.out = 0 /\ tele.recordSeq = 0 /\ tele.exported.ts = 0
  BY <1>0, <1>1 DEF Holds, Flagged
<1>3. counted = 0 /\ records = <<>> /\ ~InSession
  BY <1>1, <1>2 DEF SessionInv, InSession
<1>4. \A o \in Threads : o # t => pc[o] \notin InSessionPlaces /\ pc[o] \notin Flagged
  BY <1>2, <1>3, OutOfSession
<1>5. tele' \in Telemetry
  BY <1>0, <1>1 DEF Telemetry
<1>6. /\ tele'.sessionId = session /\ tele'.recordSeq = 0 /\ tele'.exported.ts = 0
      /\ tele'.in = 0 /\ tele'.out = 0 /\ tele'.lastSeen = tele.lastSeen /\ tele'.total = 0
  BY <1>0, <1>1, <1>2 DEF Telemetry
<1>7. /\ pc'[t] = "count" /\ pc' \in [Threads -> Places] /\ \A o \in Threads : o # t => pc'[o] = pc[o]
  <2>1. "count" \in Places /\ pc \in [Threads -> Places]
    BY <1>1, PlacesFacts DEF Observing, Types
  <2> QED BY <1>0, <2>1
<1>8. Types'
  BY <1>0, <1>1, <1>5, <1>7 DEF Types
<1>9. SessionInv' /\ EntryInv'
  BY <1>0, <1>1, <1>6, <1>7 DEF SessionInv, EntryInv
<1>10. \A o \in Threads : pc'[o] \notin {"direction", "remember"}
  BY <1>4, <1>7 DEF InSessionPlaces, Observing, Exporting
<1>11. CountInv' /\ ExportInv' /\ RecordSequence' /\ RecordsNeverRollBack'
  BY <1>0, <1>3, <1>6, <1>10, JoinsSession
<1>12. ThreadsInv'
  <2>1. Holds(t)'
    BY <1>0, <1>1, <1>6, <1>7 DEF Holds, InSession, Flagged, Exporting, Ending
  <2>2. \A o \in Threads : o # t => Holds(o)'
    BY <1>4, <1>7, UnboundHolds
  <2> QED BY <2>1, <2>2 DEF ThreadsInv
<1> QED BY <1>8, <1>9, <1>11, <1>12 DEF RecordsInv

\* The entry is inserted, outside a session or in the open one, while nobody is under way.
LEMMA InsertKeeps ==
    ASSUME RecordsInv, NEW t \in Threads, NEW s \in {0, session}, NEW l \in {"idle", "ensure"}, NEW x \in Local,
           entry = "absent", entry' = "linked", tele' = Fresh(s, nextFlowId, x.ts), nextFlowId' = nextFlowId + 1,
           pc' = [pc EXCEPT ![t] = l], my' = [my EXCEPT ![t] = x], l = "ensure" => session # 0,
           UNCHANGED <<session, nextSessionId, records, counted>>
    PROVE  RecordsInv'
<1>1. Types /\ SessionInv /\ Quiescent /\ counted = 0 /\ records = <<>>
  BY InvFacts DEF EntryInv
<1>2. session \in Nat /\ nextSessionId \in Nat /\ nextFlowId \in Nat /\ session < nextSessionId
  BY <1>1 DEF Types, SessionInv
<1>3. s \in Nat /\ s < nextSessionId /\ x.ts \in Nat \ {0}
  BY <1>2 DEF Local
<1>4. /\ tele' \in Telemetry /\ tele'.sessionId = s /\ tele'.lastSeen = x.ts
      /\ tele'.total = 0 /\ tele'.in = 0 /\ tele'.out = 0 /\ tele'.recordSeq = 0 /\ tele'.exported.ts = 0
  BY <1>2, <1>3, FreshFacts
<1>5. /\ pc'[t] = l /\ pc' \in [Threads -> Places] /\ my' \in [Threads -> Local]
      /\ \A o \in Threads : o # t => pc'[o] = "idle"
  BY <1>1, PlacesFacts DEF Types, Quiescent
<1>6. Types'
  <2>1. nextFlowId' \in Nat /\ entry' \in {"absent", "linked", "retired"}
    BY <1>2
  <2> QED BY <1>1, <1>4, <1>5, <2>1 DEF Types
<1>7. SessionInv' /\ EntryInv'
  <2>1. \A o \in Threads : pc'[o] \notin {"idle", "unlink"} => session' # 0
    BY <1>5
  <2>2. EntryInv'
    BY <1>3, <1>4 DEF EntryInv
  <2> QED BY <1>1, <1>2, <1>3, <1>4, <2>1, <2>2 DEF SessionInv
<1>8. \A o \in Threads : pc'[o] \notin {"direction", "remember"}
  BY <1>5
<1>9. CountInv' /\ ExportInv' /\ RecordSequence' /\ RecordsNeverRollBack'
  BY <1>1, <1>4, <1>8, JoinsSession
<1>10. \A o \in Threads : pc'[o] \in {"idle", "ensure"}
  BY <1>5
<1>11. ThreadsInv'
  BY <1>10, FreeHolds DEF ThreadsInv
<1> QED BY <1>6, <1>7, <1>9, <1>11 DEF RecordsInv

LEMMA CommitAcceptedKeeps == ASSUME RecordsInv, NEW t \in Threads, commitAccepted(t) PROVE RecordsInv'
<1>1. PICK ts \in my[t].ts .. MaxTs : my' = [my EXCEPT ![t].ts = ts] /\ tele' = Fresh(0, nextFlowId, ts)
  BY DEF commitAccepted
<1> DEFINE x == [my[t] EXCEPT !.ts = ts]
<1>2. /\ my \in [Threads -> Local] /\ my[t] \in Local /\ my[t].ts \in Nat \ {0} /\ MaxTs \in Nat
      /\ pc \in [Threads -> Places]
  BY InvFacts, FlowRecordsAssumption DEF Types, Local
<1>3. ts \in Nat \ {0}
  BY <1>2
<1>4. x \in Local /\ x.ts = ts
  BY <1>2, <1>3 DEF Local
<1>5. my' = [my EXCEPT ![t] = x]
  BY <1>1, <1>2
<1> HIDE DEF x
<1>6. /\ entry = "absent" /\ entry' = "linked" /\ nextFlowId' = nextFlowId + 1 /\ pc[t] = "idle" /\ pc' = pc
      /\ UNCHANGED <<session, nextSessionId, records, counted>>
  BY DEF commitAccepted, sessionVars, history
<1>7. pc' = [pc EXCEPT ![t] = "idle"]
  BY <1>2, <1>6
<1> QED BY <1>1, <1>4, <1>5, <1>6, <1>7, InsertKeeps

LEMMA InsertEntryKeeps == ASSUME RecordsInv, NEW t \in Threads, InsertEntry(t) PROVE RecordsInv'
<1>1. PICK x \in Local : my' = [my EXCEPT ![t] = x] /\ my'[t] = x
  BY PacketFacts DEF InsertEntry
<1>2. /\ entry = "absent" /\ entry' = "linked" /\ nextFlowId' = nextFlowId + 1 /\ pc' = [pc EXCEPT ![t] = "ensure"]
      /\ tele' = Fresh(session, nextFlowId, x.ts) /\ session # 0
      /\ UNCHANGED <<session, nextSessionId, records, counted>>
  BY <1>1, PacketFacts DEF InsertEntry, Goto, sessionVars
<1> QED BY <1>1, <1>2, InsertKeeps

-----------------------------------------------------------------------------
(* Session boundaries. *)

LEMMA QuiescentHolds == ASSUME Quiescent, pc' = pc PROVE ThreadsInv'
<1>1. \A o \in Threads : pc'[o] = "idle"
  BY DEF Quiescent
<1> QED BY <1>1, FreeHolds DEF ThreadsInv

LEMMA OpenKeeps == ASSUME RecordsInv, TelemetryOpen PROVE RecordsInv'
<1>0. /\ Quiescent /\ session' = nextSessionId /\ nextSessionId' = nextSessionId + 1 /\ records' = <<>> /\ counted' = 0
      /\ UNCHANGED <<nextFlowId, entry, tele, pc, my>>
  BY DEF TelemetryOpen
<1>1. Types /\ SessionInv /\ EntryInv
  BY InvFacts
<1>2. nextSessionId \in Nat /\ nextSessionId + 1 \in Nat /\ session \in Nat /\ session < nextSessionId
      /\ tele \in Telemetry /\ tele.sessionId < nextSessionId
  BY <1>1 DEF Types, SessionInv
<1>3. tele.sessionId \in Nat
  BY <1>2 DEF Telemetry
<1>4. tele.sessionId # nextSessionId /\ tele.sessionId < nextSessionId + 1 /\ nextSessionId < nextSessionId + 1
  BY <1>2, <1>3
<1>5. Types'
  <2>1. records' \in Seq(FlowRecord)
    BY <1>0
  <2> QED BY <1>0, <1>1, <1>2, <2>1 DEF Types
<1>6. SessionInv'
  BY <1>0, <1>4 DEF SessionInv, Quiescent
<1>7. EntryInv'
  BY <1>0, <1>1 DEF EntryInv, Quiescent
<1>8. CountInv' /\ ExportInv'
  BY <1>0, <1>4 DEF CountInv, ExportInv, InSession
<1>9. Len(records') = 0
  BY <1>0
<1>10. RecordSequence' /\ RecordsNeverRollBack'
  BY <1>9 DEF RecordSequence, RecordsNeverRollBack
<1> QED BY <1>0, <1>5, <1>6, <1>7, <1>8, <1>10, QuiescentHolds DEF RecordsInv

\* After a close only the records, their types and the entry's fields matter.
LEMMA ClosedKeeps ==
    ASSUME RecordsInv, Quiescent, session' = 0, tele' \in Telemetry, tele'.sessionId = tele.sessionId,
           tele'.lastSeen = tele.lastSeen, records' \in Seq(FlowRecord), entry = "absent" => records' = records,
           RecordSequence', RecordsNeverRollBack',
           UNCHANGED <<nextSessionId, nextFlowId, entry, pc, my, counted>>
    PROVE  RecordsInv'
<1>1. Types /\ SessionInv /\ EntryInv
  BY InvFacts
<1>2. Types'
  BY <1>1 DEF Types
<1>3. SessionInv'
  <2>1. session \in Nat /\ nextSessionId \in Nat /\ session < nextSessionId
    BY <1>1 DEF Types, SessionInv
  <2>2. session' < nextSessionId'
    BY <2>1
  <2> QED BY <1>1, <2>2 DEF SessionInv, Quiescent
<1>4. EntryInv'
  BY <1>1 DEF EntryInv, Quiescent
<1>5. CountInv' /\ ExportInv'
  BY DEF CountInv, ExportInv, InSession
<1> QED BY <1>2, <1>3, <1>4, <1>5, QuiescentHolds DEF RecordsInv

LEMMA CloseKeeps == ASSUME RecordsInv, TelemetryClose PROVE RecordsInv'
<1>0. /\ Quiescent /\ session # 0 /\ session' = 0 /\ UNCHANGED <<nextSessionId, nextFlowId, entry, pc, my, counted>>
  BY DEF TelemetryClose
<1>1. Types /\ ExportInv /\ RecordSequence /\ RecordsNeverRollBack /\ tele \in Telemetry /\ records \in Seq(FlowRecord)
  BY InvFacts DEF Types
<1>2. CASE UNCHANGED <<records, tele>>
  <2>1. RecordSequence' /\ RecordsNeverRollBack'
    BY <1>1, <1>2 DEF RecordSequence, RecordsNeverRollBack
  <2> QED BY <1>0, <1>1, <1>2, <2>1, ClosedKeeps
<1>3. CASE ~UNCHANGED <<records, tele>>
  <2> DEFINE q == tele.recordSeq + 1
             n == tele.in + tele.out
             b == tele.decision.known
             r == [kind |-> "END", flowInstanceId |-> tele.flowInstanceId, recordSeq |-> q, total |-> n, in |-> tele.in,
                   out |-> tele.out, lastSeen |-> tele.lastSeen, reason |-> tele.lastReason, hasRuleId |-> b]
             e == [packets |-> n, ts |-> MaxTs, decision |-> tele.decision]
  <2>1. /\ entry = "linked" /\ tele.sessionId = session /\ tele.exported.ts # 0 /\ records' = Append(records, r)
        /\ tele' = [tele EXCEPT !.recordSeq = q, !.exported = e]
    BY <1>3 DEF TelemetryClose
  <2>2. /\ tele.recordSeq \in Nat /\ tele.in \in Nat /\ tele.out \in Nat /\ tele.flowInstanceId \in Nat
        /\ tele.lastSeen \in Nat /\ tele.lastReason \in Reasons /\ tele.decision \in Decided
    BY <1>1 DEF Telemetry
  <2>3. q \in Nat /\ n \in Nat
    BY <2>2
  <2>4. b \in BOOLEAN
    BY <2>2 DEF Decided
  <2>5. e \in Exported
    BY <2>2, <2>3, FlowRecordsAssumption DEF Exported
  <2> HIDE DEF q, n, b
  <2>6. r \in FlowRecord
    BY <2>2, <2>3, <2>4 DEF FlowRecord, Kinds
  <2>7. r.kind = "END" /\ r.recordSeq = q /\ r.total = n /\ r.in = tele.in /\ r.out = tele.out /\ r.lastSeen = tele.lastSeen
    OBVIOUS
  <2> HIDE DEF r, e
  <2>8. InSession /\ \A o \in Threads : pc[o] # "remember"
    BY <1>0, <2>1 DEF InSession, Quiescent
  <2>9. \A i \in 1 .. Len(records) :
          records[i].in <= r.in /\ records[i].out <= r.out /\ records[i].lastSeen <= r.lastSeen
    BY <1>1, <2>7, <2>8 DEF ExportInv
  <2>10. /\ r.recordSeq = tele.recordSeq + 1 /\ r.total = r.in + r.out /\ (r.kind = "BEGIN" <=> tele.exported.ts = 0)
    BY <2>1, <2>7 DEF q, n
  <2>11. records' \in Seq(FlowRecord) /\ RecordSequence' /\ RecordsNeverRollBack'
    BY <2>1, <2>6, <2>8, <2>9, <2>10, AppendKeeps
  <2>12. tele' \in Telemetry
    BY <1>1, <2>1, <2>3, <2>5 DEF Telemetry
  <2>13. tele'.sessionId = tele.sessionId /\ tele'.lastSeen = tele.lastSeen
    BY <1>1, <2>1 DEF Telemetry
  <2> QED BY <1>0, <2>1, <2>11, <2>12, <2>13, ClosedKeeps
<1> QED BY <1>2, <1>3

-----------------------------------------------------------------------------
(* The theorems. *)

LEMMA InitKeeps == Init => RecordsInv
<1> SUFFICES ASSUME Init PROVE RecordsInv
  OBVIOUS
<1>0. /\ session = 0 /\ nextSessionId = 1 /\ nextFlowId = 1 /\ entry = "absent" /\ tele = Fresh(0, 0, 0)
      /\ exportInProgress = Nobody /\ pc = [t \in Threads |-> "idle"] /\ my = [t \in Threads |-> Locals(1)]
      /\ records = <<>> /\ counted = 0
  BY DEF Init
<1>1. tele \in Telemetry /\ tele.sessionId = 0
  BY <1>0, FreshFacts
<1>2. \A t \in Threads : pc[t] = "idle"
  BY <1>0
<1>3. Types
  <2>1. Locals(1) \in Local
    BY LocalsType
  <2>2. my \in [Threads -> Local] /\ pc \in [Threads -> Places]
    BY <1>0, <2>1, PlacesFacts
  <2>3. records \in Seq(FlowRecord)
    BY <1>0
  <2> QED BY <1>0, <1>1, <2>2, <2>3 DEF Types
<1>4. SessionInv
  BY <1>0, <1>1, <1>2 DEF SessionInv
<1>5. EntryInv
  BY <1>0, <1>2 DEF EntryInv, Quiescent
<1>6. CountInv /\ ExportInv
  BY <1>0 DEF CountInv, ExportInv, InSession
<1>7. ThreadsInv
  BY <1>2 DEF ThreadsInv, Holds, InSessionPlaces, Observing, Exporting, Ending, Flagged
<1>8. Len(records) = 0
  BY <1>0
<1>9. RecordSequence /\ RecordsNeverRollBack
  BY <1>8 DEF RecordSequence, RecordsNeverRollBack
<1> QED BY <1>3, <1>4, <1>5, <1>6, <1>7, <1>9 DEF RecordsInv

LEMMA StutterKeeps == ASSUME RecordsInv, UNCHANGED vars PROVE RecordsInv'
BY DEF RecordsInv, vars, Types, SessionInv, EntryInv, Quiescent, CountInv, InSession, Directing, ExportInv, ThreadsInv,
       Holds, RecordSequence, RecordsNeverRollBack

LEMMA ThreadKeeps == ASSUME RecordsInv, NEW t \in Threads, ThreadStep(t) PROVE RecordsInv'
BY CommitAcceptedKeeps, FindEntryKeeps, InsertEntryKeeps, EnsureKeep, ResetKeeps, PublishKeeps,
   CountTotalKeeps, CountDirectionKeeps, StoreFactsKeeps, StoreDecisionKeeps, CheckDueKeeps,
   TakeGuardKeeps, LoadCountersKeeps, RecheckDueKeeps, ExportFailsKeeps, ExportWritesKeeps,
   RememberExportKeeps, StartSweepKeeps, SweepFlowKeeps, SweepSessionKeeps, SweepGuardKeeps,
   EndLoadKeeps, LeaveKeeps, EvictKeeps, EvictGuardKeeps DEF ThreadStep

\* RecordsInv is inductive: whatever loads and stores of the packet threads, the sweep and the
\* session boundaries interleave, each thread may rely on what Holds says at its place.
THEOREM RecordsInvariant == Spec => []RecordsInv
<1>1. Init => RecordsInv
  BY InitKeeps
<1>2. RecordsInv /\ [Next]_vars => RecordsInv'
  BY OpenKeeps, CloseKeeps, ThreadKeeps, StutterKeeps DEF Next
<1> QED BY <1>1, <1>2, PTL DEF Spec

\* recordSeq numbers exactly the records the session's ring took, and the first is the only
\* BEGIN, for any number of threads, packets, failed exports and sessions: recordSeq is stored
\* after exportRecordHot, but under the export flag (observeFlowTelemetry, sweepLocked).
THEOREM RecordsNumbered == Spec => []RecordSequence
<1>1. RecordsInv => RecordSequence
  BY DEF RecordsInv
<1> QED BY <1>1, RecordsInvariant, PTL

\* No record rolls a counter or lastSeenNs back and each total is the sum of its directions,
\* because an exporter loads them with the flag and derives the total (loadTelemetryCounters).
THEOREM RecordsDoNotRollBack == Spec => []RecordsNeverRollBack
<1>1. RecordsInv => RecordsNeverRollBack
  BY DEF RecordsInv
<1> QED BY <1>1, RecordsInvariant, PTL

\* No thread that starts the entry over (ensureTelemetrySession) wipes a packet counted in the
\* session, and the directions account for the total but for threads between the increments.
THEOREM CountedPacketsAreKept == Spec => []CountedPacketsKept
<1>1. RecordsInv => CountedPacketsKept
  BY DEF RecordsInv, CountInv, InSession, Directing, CountedPacketsKept
<1> QED BY <1>1, RecordsInvariant, PTL
===============================================================================
