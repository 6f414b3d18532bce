--------------------------- MODULE ConntrackEpochProofs ---------------------------
(***************************************************************************)
(* Safety of Conntrack's deferred reclamation for any number of threads,   *)
(* slots and entries.  Besides the types, the inductive invariant says:    *)
(* who has which slot (SlotInv), what the reclaim gate shuts out (GateInv),*)
(* who holds the mutex (MutexInv), where every entry is (HomeInv, ListInv) *)
(* and what a guarded thread can still reach (ReachInv).                   *)
(***************************************************************************)
EXTENDS ConntrackEpoch, TLAPS

\* A registered thread that published its slot and saw the gate open after that.
Protected(t) == slotOf[t] \in Slots /\ (pc[t] = "checkEpoch" \/ Guarded(t))

\* The thread has closed the gate.
Reclaimer(r) == pc[r] \in {"used", "scan", "take", "free"}

SlotInv ==
    /\ \A t \in Threads : slotOf[t] \in Slots => slotOf[t] < used
    /\ \A t, u \in Threads : slotOf[t] = slotOf[u] /\ slotOf[t] \in Slots => t = u
    /\ \A t \in Threads : pc[t] \in Entering => slotOf[t] \in Slots
    /\ \A t \in Threads : Guarded(t) => slotOf[t] # Unset
    /\ \A t \in Threads : op[t] = "commit" =>
          pc[t] \notin Entering \cup {"accepted", "guarded", "miss", "hold", "leave"}
    /\ \A t \in Threads :
          slotOf[t] \in Slots /\ (pc[t] \in {"checkGate", "retract"} \/ Protected(t))
            => slotEpoch[slotOf[t]] # Quiescent

GateInv ==
    /\ \A r \in Threads : Reclaimer(r) => reclaiming
    /\ \A r, s \in Threads : Reclaimer(r) /\ Reclaimer(s) => r = s
    /\ \A r, t \in Threads : Protected(t) =>
          /\ pc[r] \notin {"take", "free"}
          /\ pc[r] = "scan" => scan[r] <= slotOf[t] /\ slotOf[t] < limit[r]
    /\ \A r \in Threads : scan[r] <= limit[r]

MutexInv ==
    /\ \A t \in Threads : pc[t] \in Locked => mutex = t
    /\ \A t \in Threads : mutex = t => pc[t] \in Locked \cup {"walk"}
    /\ \A t \in Threads : pc[t] = "walk" /\ op[t] = "commit" => mutex = t

\* The bucket a sweep will store: its local head, or the head nobody is changing.
Sweeping(t) == pc[t] \in {"sweep", "evict"}

HomeInv ==
    /\ heap = table \cup Retired \cup UNION {toFree[t] : t \in Threads}
    /\ \A g, h \in Epochs : g # h => retired[g] \cap retired[h] = {}
    /\ \A t \in Threads : toFree[t] # {} => pc[t] = "free"
    /\ \A t \in Threads : toFree[t] \cap (table \cup Retired) = {}
    /\ (\A t \in Threads : pc[t] # "sweep") => table \cap Retired = {}

ListInv ==
    /\ head \in table \cup {Nil}
    /\ \A e \in table : next[e] \in table \cup {Nil}
    /\ \A e \in Kept : next[e] \in Kept \cup {Nil}
    /\ \A d, e \in Kept : next[d] = next[e] /\ next[d] # Nil => d = e
    /\ \E f \in [Entries -> Nat] : \A e \in Kept : next[e] # Nil => f[next[e]] < f[e]
    /\ (\A t \in Threads : pc[t] # "sweep") => \A e \in Kept : next[e] = head => head = Nil
    /\ \A t \in Threads : Sweeping(t) =>
          /\ newHead[t] \in Kept \cup {Nil}
          /\ \A e \in Kept : next[e] = newHead[t] => newHead[t] = Nil
          /\ cur[t] \in Kept \cup {Nil}
          /\ prev[t] \in Kept \cup {Nil}
          /\ prev[t] = Nil => newHead[t] = cur[t]
          /\ prev[t] # Nil => next[prev[t]] = cur[t]
    /\ \A t \in Threads : pc[t] = "evict" => newHead[t] = head

ReachInv ==
    /\ \A t \in Threads : pc[t] \notin {"walk", "hold", "sweep", "evict"} => cur[t] = Nil
    /\ \A t \in Threads : mutex = t => cur[t] \in table \cup {Nil}
    /\ \A t \in Threads : Guarded(t) /\ slotOf[t] # NoSlot =>
          /\ table \subseteq seen[t]
          /\ seen[t] \subseteq heap
          /\ \A e \in seen[t] : next[e] \in seen[t] \cup {Nil}
          /\ cur[t] \in seen[t] \cup {Nil}

EpochInv == TypeOK /\ SlotInv /\ GateInv /\ MutexInv /\ HomeInv /\ ListInv /\ ReachInv

\* maybeAdvanceAndReclaim returns into its caller, out of every guard only for a commit.
LEMMA CallerType ==
    ASSUME NEW t \in Threads
    PROVE  /\ op[t] = "commit" => CallerOf(t) = "idle"
           /\ op[t] # "commit" => CallerOf(t) \in {"guarded", "leave"}
  BY DEF CallerOf

\* Every step keeps the types.
LEMMA TypeStep == EpochInv /\ [Next]_vars => TypeOK'
<1> SUFFICES ASSUME EpochInv, [Next]_vars
             PROVE  TypeOK'
  OBVIOUS
<1> USE ConntrackEpochAssumption DEF EpochInv, TypeOK, PCs, Entering, Unlocked,
      Locked, Advancing, Ops, Pointers, Epochs, Slots, NoSlot, Unset, Quiescent,
      Kept, Retired, epochVars, shardVars, sweepVars, reclaimVars, Goto
<1>1. ASSUME NEW t \in Threads, slotForThread(t)
     PROVE  TypeOK'
  <2>1. used' \in Nat /\ slotOf' \in [Threads -> Slots \cup {NoSlot, Unset}]
    <3>1. CASE slotOf[t] # Unset
      BY <1>1, <3>1, ZenonT(40) DEF slotForThread
    <3>2. CASE slotOf[t] = Unset
      <4>1. /\ used' = used + 1
            /\ slotOf' = [slotOf EXCEPT ![t] = IF used < MaxSlots THEN used ELSE NoSlot]
        BY <1>1, <3>2 DEF slotForThread
      <4>2. QED
        BY <4>1
    <3>3. QED
      BY <3>1, <3>2
  <2>2. exhausted' \in BOOLEAN
    BY <1>1 DEF slotForThread
  <2>3. pc' \in [Threads -> PCs] /\ op' \in [Threads -> Ops]
    BY <1>1 DEF slotForThread
  <2>4. QED
    BY <1>1, <2>1, <2>2, <2>3 DEF slotForThread
<1>2. ASSUME NEW t \in Threads, WaitGate(t)
     PROVE  TypeOK'
  BY <1>2 DEF WaitGate
<1>3. ASSUME NEW t \in Threads, LoadEpoch(t)
     PROVE  TypeOK'
  BY <1>3 DEF LoadEpoch
<1>4. ASSUME NEW t \in Threads, PublishEpoch(t)
     PROVE  TypeOK'
  BY <1>4 DEF PublishEpoch
<1>5. ASSUME NEW t \in Threads, CheckGate(t)
     PROVE  TypeOK'
  BY <1>5 DEF CheckGate
<1>6. ASSUME NEW t \in Threads, CheckEpoch(t)
     PROVE  TypeOK'
  BY <1>6 DEF CheckEpoch
<1>7. ASSUME NEW t \in Threads, Retract(t)
     PROVE  TypeOK'
  BY <1>7 DEF Retract
<1>8. ASSUME NEW t \in Threads, exit(t)
     PROVE  TypeOK'
  <2>1. pc' \in [Threads -> PCs]
    <3>1. CASE Goto(t, "idle")
      BY <3>1
    <3>2. CASE Goto(t, "accepted")
      BY <3>2
    <3>3. QED
      BY <1>8, <3>1, <3>2 DEF exit
  <2>2. slotEpoch' \in [Slots -> Epochs \cup {Quiescent}]
    BY <1>8 DEF exit
  <2>3. QED
    BY <1>8, <2>1, <2>2 DEF exit
<1>9. ASSUME NEW t \in Threads, StartWalk(t)
     PROVE  TypeOK'
  BY <1>9 DEF StartWalk
<1>10. ASSUME NEW t \in Threads, WalkOn(t)
     PROVE  TypeOK'
  BY <1>10 DEF WalkOn
<1>11. ASSUME NEW t \in Threads, WalkHit(t)
     PROVE  TypeOK'
  <2>1. pc' \in [Threads -> PCs] /\ cur' \in [Threads -> Pointers]
    <3>1. CASE op[t] = "commit"
      <4>1. pc' = [pc EXCEPT ![t] = "idle"] /\ cur' = [cur EXCEPT ![t] = Nil]
        BY <1>11, <3>1 DEF WalkHit
      <4>2. QED
        BY <4>1
    <3>2. CASE op[t] # "commit"
      <4>1. pc' = [pc EXCEPT ![t] = "hold"] /\ cur' = cur
        BY <1>11, <3>2 DEF WalkHit
      <4>2. QED
        BY <4>1
    <3>3. QED
      BY <3>1, <3>2
  <2>2. mutex' \in Threads \cup {Nobody}
    BY <1>11 DEF WalkHit
  <2>3. UNCHANGED <<epochVars, head, next, retired, heap, table, op, sweepVars, observed,
                    reclaimVars, seen>>
    BY <1>11 DEF WalkHit
  <2>4. QED
    BY <2>1, <2>2, <2>3
<1>12. ASSUME NEW t \in Threads, WalkMiss(t)
     PROVE  TypeOK'
  <2>1. UNCHANGED <<epochVars, shardVars, op, didRetire, observed, reclaimVars, seen>>
    BY <1>12 DEF WalkMiss
  <2>2. /\ pc' \in [Threads -> PCs] /\ cur' \in [Threads -> Pointers]
        /\ prev' \in [Threads -> Pointers] /\ newHead' \in [Threads -> Pointers]
        /\ retireEpoch' \in [Threads -> Epochs]
    <3>1. CASE mutex = t
      <4>1. /\ pc' = [pc EXCEPT ![t] = "sweep"] /\ cur' = [cur EXCEPT ![t] = head]
            /\ prev' = [prev EXCEPT ![t] = Nil] /\ newHead' = [newHead EXCEPT ![t] = head]
            /\ retireEpoch' = [retireEpoch EXCEPT ![t] = global]
        BY <1>12, <3>1 DEF WalkMiss, StartSweep
      <4>2. QED
        BY <4>1
    <3>2. CASE mutex # t
      <4>1. /\ pc' = [pc EXCEPT ![t] = "miss"] /\ cur' = [cur EXCEPT ![t] = Nil]
            /\ UNCHANGED <<retireEpoch, newHead, prev>>
        BY <1>12, <3>2 DEF WalkMiss
      <4>2. QED
        BY <4>1
    <3>3. QED
      BY <3>1, <3>2
  <2>3. QED
    BY <2>1, <2>2
<1>13. ASSUME NEW t \in Threads, Release(t)
     PROVE  TypeOK'
  BY <1>13 DEF Release
<1>14. ASSUME NEW t \in Threads, Lock(t)
     PROVE  TypeOK'
  BY <1>14 DEF Lock
<1>15. ASSUME NEW t \in Threads, maybeHotSweep(t)
     PROVE  TypeOK'
  <2>1. CASE mutex' = t /\ StartSweep(t) /\ UNCHANGED op
    BY <1>15, <2>1 DEF maybeHotSweep, StartSweep
  <2>2. CASE op' = [op EXCEPT ![t] = "inspect"]
             /\ UNCHANGED <<mutex, pc, cur, retireEpoch, newHead, prev>>
    BY <1>15, <2>2 DEF maybeHotSweep
  <2>3. QED
    BY <1>15, <2>1, <2>2 DEF maybeHotSweep
<1>16. ASSUME NEW t \in Threads, SweepRetire(t)
     PROVE  TypeOK'
  <2>1. cur[t] \in Entries /\ next[cur[t]] \in Pointers
    BY <1>16 DEF SweepRetire
  <2>2. retired' \in [Epochs -> SUBSET Entries]
    BY <1>16, <2>1 DEF SweepRetire, Unlink
  <2>3. next' \in [Entries -> Pointers] /\ newHead' \in [Threads -> Pointers]
    BY <1>16, <2>1, ZenonT(40) DEF SweepRetire, Unlink
  <2>4. QED
    BY <1>16, <2>1, <2>2, <2>3 DEF SweepRetire, Unlink
<1>17. ASSUME NEW t \in Threads, SweepKeep(t)
     PROVE  TypeOK'
  BY <1>17 DEF SweepKeep
<1>18. ASSUME NEW t \in Threads, SweepStore(t)
     PROVE  TypeOK'
  BY <1>18 DEF SweepStore
<1>19. ASSUME NEW t \in Threads, StartEvict(t)
     PROVE  TypeOK'
  BY <1>19 DEF StartEvict
<1>20. ASSUME NEW t \in Threads, evictOneLocked(t)
     PROVE  TypeOK'
  <2>1. cur[t] \in Entries /\ next[cur[t]] \in Pointers
    BY <1>20 DEF evictOneLocked
  <2>2. retired' \in [Epochs -> SUBSET Entries]
    BY <1>20, <2>1 DEF evictOneLocked, Unlink
  <2>3. next' \in [Entries -> Pointers] /\ newHead' \in [Threads -> Pointers]
    BY <1>20, <2>1, ZenonT(40) DEF evictOneLocked, Unlink
  <2>4. head' \in Pointers /\ table' \in SUBSET Entries
    BY <1>20, <2>3 DEF evictOneLocked
  <2>5. didRetire' \in [Threads -> BOOLEAN]
    BY <1>20 DEF evictOneLocked, Unlink
  <2>6. QED
    BY <1>20, <2>2, <2>3, <2>4, <2>5 DEF evictOneLocked
<1>21. ASSUME NEW t \in Threads, ReturnLocked(t)
     PROVE  TypeOK'
  BY <1>21 DEF ReturnLocked, Unlock
<1>22. ASSUME NEW t \in Threads, UnlockSwept(t)
     PROVE  TypeOK'
  BY <1>22 DEF UnlockSwept, Unlock
<1>23. ASSUME NEW t \in Threads, Insert(t)
     PROVE  TypeOK'
  BY <1>23 DEF Insert, Unlock
<1>24. ASSUME NEW t \in Threads, AdvanceDeclined(t)
     PROVE  TypeOK'
  BY <1>24, CallerType DEF AdvanceDeclined, Return
<1>25. ASSUME NEW t \in Threads, CloseGate(t)
     PROVE  TypeOK'
  BY <1>25 DEF CloseGate
<1>26. ASSUME NEW t \in Threads, LoadUsed(t)
     PROVE  TypeOK'
  BY <1>26 DEF LoadUsed
<1>27. ASSUME NEW t \in Threads, ScanSlot(t)
     PROVE  TypeOK'
  <2>1. CASE slotEpoch[scan[t]] = Quiescent
    <3>1. scan' = [scan EXCEPT ![t] = @ + 1] /\ UNCHANGED <<pc, reclaiming, limit>>
      BY <1>27, <2>1 DEF ScanSlot
    <3>2. QED
      BY <1>27, <3>1 DEF ScanSlot
  <2>2. CASE slotEpoch[scan[t]] # Quiescent
    <3>1. /\ reclaiming' = FALSE /\ Return(t)
          /\ scan' = [scan EXCEPT ![t] = 0] /\ limit' = [limit EXCEPT ![t] = 0]
      BY <1>27, <2>2 DEF ScanSlot
    <3>2. QED
      BY <1>27, <3>1, CallerType DEF ScanSlot, Return
  <2>3. QED
    BY <2>1, <2>2
<1>28. ASSUME NEW t \in Threads, AdvanceEpoch(t)
     PROVE  TypeOK'
  BY <1>28 DEF AdvanceEpoch
<1>29. ASSUME NEW t \in Threads, TakeRetired(t)
     PROVE  TypeOK'
  BY <1>29 DEF TakeRetired, ReclaimEpoch
<1>30. ASSUME NEW t \in Threads, Free(t)
     PROVE  TypeOK'
  BY <1>30 DEF Free
<1>31. ASSUME NEW t \in Threads, endReclaim(t)
     PROVE  TypeOK'
  BY <1>31, CallerType DEF endReclaim, Return
<1>32. CASE UNCHANGED vars
  BY <1>32 DEF vars
<1>33. QED
  BY <1>1, <1>2, <1>3, <1>4, <1>5, <1>6, <1>7, <1>8, <1>9, <1>10, <1>11, <1>12,
     <1>13, <1>14, <1>15, <1>16, <1>17, <1>18, <1>19, <1>20, <1>21, <1>22, <1>23,
     <1>24, <1>25, <1>26, <1>27, <1>28, <1>29, <1>30, <1>31, <1>32 DEF Next, Step

\* Slots stay private to their threads, and published while the guard lasts.
LEMMA SlotStep == EpochInv /\ [Next]_vars => SlotInv'
<1> SUFFICES ASSUME EpochInv, [Next]_vars
             PROVE  SlotInv'
  OBVIOUS
<1> USE ConntrackEpochAssumption DEF EpochInv, TypeOK, PCs, Entering, Unlocked,
      Locked, Advancing, Ops, Epochs, Slots, NoSlot, Unset, Quiescent, epochVars,
      shardVars, sweepVars, reclaimVars, Goto, SlotInv, Protected, Guarded
<1>1. ASSUME NEW t \in Threads, slotForThread(t)
     PROVE  SlotInv'
  <2>1. CASE slotOf[t] # Unset
    <3>1. UNCHANGED <<used, slotOf, exhausted>>
      BY <1>1, <2>1 DEF slotForThread
    <3>2. QED
      BY <1>1, <2>1, <3>1 DEF slotForThread
  <2>2. CASE slotOf[t] = Unset
    <3>1. /\ used' = used + 1
          /\ slotOf' = [slotOf EXCEPT ![t] = IF used < MaxSlots THEN used ELSE NoSlot]
      BY <1>1, <2>2 DEF slotForThread
    <3>2. QED
      BY <1>1, <2>2, <3>1, SMTT(30) DEF slotForThread
  <2>3. QED
    BY <2>1, <2>2
<1>2. ASSUME NEW t \in Threads, WaitGate(t)
     PROVE  SlotInv'
  BY <1>2 DEF WaitGate
<1>3. ASSUME NEW t \in Threads, LoadEpoch(t)
     PROVE  SlotInv'
  BY <1>3 DEF LoadEpoch
<1>4. ASSUME NEW t \in Threads, PublishEpoch(t)
     PROVE  SlotInv'
  <2>1. slotEpoch' = [slotEpoch EXCEPT ![slotOf[t]] = observed[t]]
    BY <1>4 DEF PublishEpoch
  <2>2. observed[t] # Quiescent
    <3>1. observed[t] \in 0 .. 2
      BY DEF EpochInv, TypeOK, Epochs
    <3>2. QED
      BY <3>1, SMT DEF Quiescent
  <2>3. QED
    BY <1>4, <2>1, <2>2 DEF PublishEpoch
<1>5. ASSUME NEW t \in Threads, CheckGate(t)
     PROVE  SlotInv'
  BY <1>5 DEF CheckGate
<1>6. ASSUME NEW t \in Threads, CheckEpoch(t)
     PROVE  SlotInv'
  BY <1>6 DEF CheckEpoch
<1>7. ASSUME NEW t \in Threads, Retract(t)
     PROVE  SlotInv'
  BY <1>7 DEF Retract
<1>8. ASSUME NEW t \in Threads, exit(t)
     PROVE  SlotInv'
  BY <1>8, SMTT(30) DEF exit
<1>9. ASSUME NEW t \in Threads, StartWalk(t)
     PROVE  SlotInv'
  BY <1>9 DEF StartWalk
<1>10. ASSUME NEW t \in Threads, WalkOn(t)
     PROVE  SlotInv'
  BY <1>10 DEF WalkOn
<1>11. ASSUME NEW t \in Threads, WalkHit(t)
     PROVE  SlotInv'
  BY <1>11 DEF WalkHit
<1>12. ASSUME NEW t \in Threads, WalkMiss(t)
     PROVE  SlotInv'
  <2>1. CASE mutex = t
    <3>1. StartSweep(t)
      BY <1>12, <2>1 DEF WalkMiss
    <3>2. QED
      BY <1>12, <2>1, <3>1 DEF WalkMiss, StartSweep, MutexInv
  <2>2. CASE mutex # t
    <3>1. /\ cur' = [cur EXCEPT ![t] = Nil] /\ pc' = [pc EXCEPT ![t] = "miss"]
          /\ UNCHANGED <<retireEpoch, newHead, prev>>
      BY <1>12, <2>2 DEF WalkMiss
    <3>2. QED
      BY <1>12, <2>2, <3>1 DEF WalkMiss, MutexInv
  <2>3. QED
    BY <2>1, <2>2
<1>13. ASSUME NEW t \in Threads, Release(t)
     PROVE  SlotInv'
  BY <1>13 DEF Release
<1>14. ASSUME NEW t \in Threads, Lock(t)
     PROVE  SlotInv'
  BY <1>14 DEF Lock
<1>15. ASSUME NEW t \in Threads, maybeHotSweep(t)
     PROVE  SlotInv'
  BY <1>15, SMTT(30) DEF maybeHotSweep, StartSweep
<1>16. ASSUME NEW t \in Threads, SweepRetire(t)
     PROVE  SlotInv'
  BY <1>16 DEF SweepRetire, Unlink
<1>17. ASSUME NEW t \in Threads, SweepKeep(t)
     PROVE  SlotInv'
  BY <1>17 DEF SweepKeep
<1>18. ASSUME NEW t \in Threads, SweepStore(t)
     PROVE  SlotInv'
  BY <1>18 DEF SweepStore
<1>19. ASSUME NEW t \in Threads, StartEvict(t)
     PROVE  SlotInv'
  BY <1>19 DEF StartEvict
<1>20. ASSUME NEW t \in Threads, evictOneLocked(t)
     PROVE  SlotInv'
  BY <1>20 DEF evictOneLocked, Unlink
<1>21. ASSUME NEW t \in Threads, ReturnLocked(t)
     PROVE  SlotInv'
  BY <1>21 DEF ReturnLocked, Unlock
<1>22. ASSUME NEW t \in Threads, UnlockSwept(t)
     PROVE  SlotInv'
  BY <1>22 DEF UnlockSwept, Unlock
<1>23. ASSUME NEW t \in Threads, Insert(t)
     PROVE  SlotInv'
  BY <1>23 DEF Insert, Unlock
<1>24. ASSUME NEW t \in Threads, AdvanceDeclined(t)
     PROVE  SlotInv'
  BY <1>24, CallerType DEF AdvanceDeclined, Return
<1>25. ASSUME NEW t \in Threads, CloseGate(t)
     PROVE  SlotInv'
  BY <1>25 DEF CloseGate
<1>26. ASSUME NEW t \in Threads, LoadUsed(t)
     PROVE  SlotInv'
  BY <1>26 DEF LoadUsed
<1>27. ASSUME NEW t \in Threads, ScanSlot(t)
     PROVE  SlotInv'
  <2>1. CASE slotEpoch[scan[t]] = Quiescent
    <3>1. scan' = [scan EXCEPT ![t] = @ + 1] /\ UNCHANGED <<pc, reclaiming, limit>>
      BY <1>27, <2>1 DEF ScanSlot
    <3>2. QED
      BY <1>27, <2>1, <3>1 DEF ScanSlot
  <2>2. CASE slotEpoch[scan[t]] # Quiescent
    <3>1. /\ reclaiming' = FALSE /\ pc' = [pc EXCEPT ![t] = CallerOf(t)]
          /\ scan' = [scan EXCEPT ![t] = 0] /\ limit' = [limit EXCEPT ![t] = 0]
      BY <1>27, <2>2 DEF ScanSlot, Return
    <3>2. CASE op[t] = "commit"
      <4>1. CallerOf(t) = "idle"
        BY <3>2, CallerType
      <4>2. QED
        BY <1>27, <3>1, <3>2, <4>1 DEF ScanSlot
    <3>3. CASE op[t] # "commit"
      <4>1. CallerOf(t) \in {"guarded", "leave"}
        BY <3>3, CallerType
      <4>2. QED
        BY <1>27, <3>1, <3>3, <4>1, SMTT(30) DEF ScanSlot
    <3>4. QED
      BY <3>2, <3>3
  <2>3. QED
    BY <2>1, <2>2
<1>28. ASSUME NEW t \in Threads, AdvanceEpoch(t)
     PROVE  SlotInv'
  BY <1>28 DEF AdvanceEpoch
<1>29. ASSUME NEW t \in Threads, TakeRetired(t)
     PROVE  SlotInv'
  BY <1>29 DEF TakeRetired, ReclaimEpoch
<1>30. ASSUME NEW t \in Threads, Free(t)
     PROVE  SlotInv'
  BY <1>30 DEF Free
<1>31. ASSUME NEW t \in Threads, endReclaim(t)
     PROVE  SlotInv'
  BY <1>31, CallerType DEF endReclaim, Return
<1>32. CASE UNCHANGED vars
  BY <1>32 DEF vars
<1> HIDE DEF EpochInv, TypeOK, PCs, Entering, Unlocked, Locked, Advancing, Ops,
      Epochs, Slots, NoSlot, Unset, Quiescent, epochVars, shardVars, sweepVars,
      reclaimVars, Goto, SlotInv, Protected, Guarded
<1>33. QED
  BY <1>1, <1>2, <1>3, <1>4, <1>5, <1>6, <1>7, <1>8, <1>9, <1>10, <1>11, <1>12,
     <1>13, <1>14, <1>15, <1>16, <1>17, <1>18, <1>19, <1>20, <1>21, <1>22, <1>23,
     <1>24, <1>25, <1>26, <1>27, <1>28, <1>29, <1>30, <1>31, <1>32 DEF Next, Step

\* The mutex is held exactly where the code holds it.
LEMMA MutexStep == EpochInv /\ [Next]_vars => MutexInv'
<1> SUFFICES ASSUME EpochInv, [Next]_vars
             PROVE  MutexInv'
  OBVIOUS
<1> USE ConntrackEpochAssumption DEF EpochInv, TypeOK, PCs, Entering, Unlocked,
      Locked, Advancing, Ops, Epochs, Slots, NoSlot, Unset, Quiescent, epochVars,
      shardVars, sweepVars, reclaimVars, Goto, MutexInv
<1>1. ASSUME NEW t \in Threads, slotForThread(t)
     PROVE  MutexInv'
  BY <1>1 DEF slotForThread
<1>2. ASSUME NEW t \in Threads, WaitGate(t)
     PROVE  MutexInv'
  BY <1>2 DEF WaitGate
<1>3. ASSUME NEW t \in Threads, LoadEpoch(t)
     PROVE  MutexInv'
  BY <1>3 DEF LoadEpoch
<1>4. ASSUME NEW t \in Threads, PublishEpoch(t)
     PROVE  MutexInv'
  BY <1>4 DEF PublishEpoch
<1>5. ASSUME NEW t \in Threads, CheckGate(t)
     PROVE  MutexInv'
  BY <1>5 DEF CheckGate
<1>6. ASSUME NEW t \in Threads, CheckEpoch(t)
     PROVE  MutexInv'
  BY <1>6 DEF CheckEpoch
<1>7. ASSUME NEW t \in Threads, Retract(t)
     PROVE  MutexInv'
  BY <1>7 DEF Retract
<1>8. ASSUME NEW t \in Threads, exit(t)
     PROVE  MutexInv'
  BY <1>8 DEF exit
<1>9. ASSUME NEW t \in Threads, StartWalk(t)
     PROVE  MutexInv'
  BY <1>9 DEF StartWalk, SlotInv
<1>10. ASSUME NEW t \in Threads, WalkOn(t)
     PROVE  MutexInv'
  BY <1>10 DEF WalkOn
<1>11. ASSUME NEW t \in Threads, WalkHit(t)
     PROVE  MutexInv'
  BY <1>11 DEF WalkHit
<1>12. ASSUME NEW t \in Threads, WalkMiss(t)
     PROVE  MutexInv'
  BY <1>12 DEF WalkMiss, StartSweep
<1>13. ASSUME NEW t \in Threads, Release(t)
     PROVE  MutexInv'
  BY <1>13 DEF Release
<1>14. ASSUME NEW t \in Threads, Lock(t)
     PROVE  MutexInv'
  BY <1>14 DEF Lock
<1>15. ASSUME NEW t \in Threads, maybeHotSweep(t)
     PROVE  MutexInv'
  BY <1>15 DEF maybeHotSweep, StartSweep
<1>16. ASSUME NEW t \in Threads, SweepRetire(t)
     PROVE  MutexInv'
  BY <1>16 DEF SweepRetire, Unlink
<1>17. ASSUME NEW t \in Threads, SweepKeep(t)
     PROVE  MutexInv'
  BY <1>17 DEF SweepKeep
<1>18. ASSUME NEW t \in Threads, SweepStore(t)
     PROVE  MutexInv'
  BY <1>18 DEF SweepStore
<1>19. ASSUME NEW t \in Threads, StartEvict(t)
     PROVE  MutexInv'
  BY <1>19 DEF StartEvict
<1>20. ASSUME NEW t \in Threads, evictOneLocked(t)
     PROVE  MutexInv'
  BY <1>20 DEF evictOneLocked, Unlink
<1>21. ASSUME NEW t \in Threads, ReturnLocked(t)
     PROVE  MutexInv'
  BY <1>21 DEF ReturnLocked, Unlock
<1>22. ASSUME NEW t \in Threads, UnlockSwept(t)
     PROVE  MutexInv'
  BY <1>22 DEF UnlockSwept, Unlock
<1>23. ASSUME NEW t \in Threads, Insert(t)
     PROVE  MutexInv'
  BY <1>23 DEF Insert, Unlock
<1>24. ASSUME NEW t \in Threads, AdvanceDeclined(t)
     PROVE  MutexInv'
  BY <1>24, CallerType, ZenonT(40) DEF AdvanceDeclined, Return
<1>25. ASSUME NEW t \in Threads, CloseGate(t)
     PROVE  MutexInv'
  BY <1>25 DEF CloseGate
<1>26. ASSUME NEW t \in Threads, LoadUsed(t)
     PROVE  MutexInv'
  BY <1>26 DEF LoadUsed
<1>27. ASSUME NEW t \in Threads, ScanSlot(t)
     PROVE  MutexInv'
  <2>1. CASE slotEpoch[scan[t]] = Quiescent
    <3>1. scan' = [scan EXCEPT ![t] = @ + 1] /\ UNCHANGED <<pc, reclaiming, limit>>
      BY <1>27, <2>1 DEF ScanSlot
    <3>2. QED
      BY <1>27, <2>1, <3>1 DEF ScanSlot
  <2>2. CASE slotEpoch[scan[t]] # Quiescent
    <3>1. /\ reclaiming' = FALSE /\ pc' = [pc EXCEPT ![t] = CallerOf(t)]
          /\ scan' = [scan EXCEPT ![t] = 0] /\ limit' = [limit EXCEPT ![t] = 0]
      BY <1>27, <2>2 DEF ScanSlot, Return
    <3>2. CASE op[t] = "commit"
      <4>1. CallerOf(t) = "idle"
        BY <3>2, CallerType
      <4>2. QED
        BY <1>27, <3>1, <3>2, <4>1 DEF ScanSlot
    <3>3. CASE op[t] # "commit"
      <4>1. CallerOf(t) \in {"guarded", "leave"}
        BY <3>3, CallerType
      <4>2. QED
        BY <1>27, <3>1, <3>3, <4>1 DEF ScanSlot
    <3>4. QED
      BY <3>2, <3>3
  <2>3. QED
    BY <2>1, <2>2
<1>28. ASSUME NEW t \in Threads, AdvanceEpoch(t)
     PROVE  MutexInv'
  BY <1>28 DEF AdvanceEpoch
<1>29. ASSUME NEW t \in Threads, TakeRetired(t)
     PROVE  MutexInv'
  BY <1>29 DEF TakeRetired, ReclaimEpoch
<1>30. ASSUME NEW t \in Threads, Free(t)
     PROVE  MutexInv'
  BY <1>30 DEF Free
<1>31. ASSUME NEW t \in Threads, endReclaim(t)
     PROVE  MutexInv'
  BY <1>31, CallerType, ZenonT(40) DEF endReclaim, Return
<1>32. CASE UNCHANGED vars
  BY <1>32 DEF vars
<1> HIDE DEF EpochInv, TypeOK, PCs, Entering, Unlocked, Locked, Advancing, Ops,
      Epochs, Slots, NoSlot, Unset, Quiescent, epochVars, shardVars, sweepVars,
      reclaimVars, Goto, MutexInv
<1>33. QED
  BY <1>1, <1>2, <1>3, <1>4, <1>5, <1>6, <1>7, <1>8, <1>9, <1>10, <1>11, <1>12,
     <1>13, <1>14, <1>15, <1>16, <1>17, <1>18, <1>19, <1>20, <1>21, <1>22, <1>23,
     <1>24, <1>25, <1>26, <1>27, <1>28, <1>29, <1>30, <1>31, <1>32 DEF Next, Step

\* The gate admits one reclaimer, and its scan cannot pass a protected slot.
LEMMA GateStep == EpochInv /\ [Next]_vars => GateInv'
<1> SUFFICES ASSUME EpochInv, [Next]_vars
             PROVE  GateInv'
  OBVIOUS
<1> USE ConntrackEpochAssumption DEF EpochInv, TypeOK, PCs, Entering, Unlocked,
      Locked, Advancing, Ops, Epochs, Slots, NoSlot, Unset, Quiescent, epochVars,
      shardVars, sweepVars, reclaimVars, Goto, GateInv, SlotInv, Protected, Guarded,
      Reclaimer
<1>1. ASSUME NEW t \in Threads, slotForThread(t)
     PROVE  GateInv'
  <2>1. CASE slotOf[t] # Unset
    <3>1. UNCHANGED <<used, slotOf, exhausted>>
      BY <1>1, <2>1 DEF slotForThread
    <3>2. QED
      BY <1>1, <2>1, <3>1 DEF slotForThread
  <2>2. CASE slotOf[t] = Unset
    <3>1. /\ used' = used + 1
          /\ slotOf' = [slotOf EXCEPT ![t] = IF used < MaxSlots THEN used ELSE NoSlot]
      BY <1>1, <2>2 DEF slotForThread
    <3>2. QED
      BY <1>1, <2>2, <3>1 DEF slotForThread
  <2>3. QED
    BY <2>1, <2>2
<1>2. ASSUME NEW t \in Threads, WaitGate(t)
     PROVE  GateInv'
  BY <1>2 DEF WaitGate
<1>3. ASSUME NEW t \in Threads, LoadEpoch(t)
     PROVE  GateInv'
  BY <1>3 DEF LoadEpoch
<1>4. ASSUME NEW t \in Threads, PublishEpoch(t)
     PROVE  GateInv'
  BY <1>4 DEF PublishEpoch
<1>5. ASSUME NEW t \in Threads, CheckGate(t)
     PROVE  GateInv'
  BY <1>5 DEF CheckGate
<1>6. ASSUME NEW t \in Threads, CheckEpoch(t)
     PROVE  GateInv'
  BY <1>6 DEF CheckEpoch
<1>7. ASSUME NEW t \in Threads, Retract(t)
     PROVE  GateInv'
  BY <1>7 DEF Retract
<1>8. ASSUME NEW t \in Threads, exit(t)
     PROVE  GateInv'
  <2>1. CASE Goto(t, "idle")
    BY <1>8, <2>1 DEF exit
  <2>2. CASE Goto(t, "accepted")
    BY <1>8, <2>2 DEF exit
  <2>3. QED
    BY <1>8, <2>1, <2>2 DEF exit
<1>9. ASSUME NEW t \in Threads, StartWalk(t)
     PROVE  GateInv'
  BY <1>9 DEF StartWalk
<1>10. ASSUME NEW t \in Threads, WalkOn(t)
     PROVE  GateInv'
  BY <1>10 DEF WalkOn
<1>11. ASSUME NEW t \in Threads, WalkHit(t)
     PROVE  GateInv'
  <2>1. CASE op[t] = "commit"
    <3>1. pc' = [pc EXCEPT ![t] = "idle"] /\ cur' = [cur EXCEPT ![t] = Nil]
      BY <1>11, <2>1 DEF WalkHit
    <3>2. QED
      BY <1>11, <2>1, <3>1 DEF WalkHit
  <2>2. CASE op[t] # "commit"
    <3>1. pc' = [pc EXCEPT ![t] = "hold"] /\ UNCHANGED cur
      BY <1>11, <2>2 DEF WalkHit
    <3>2. QED
      BY <1>11, <2>2, <3>1 DEF WalkHit
  <2>3. QED
    BY <2>1, <2>2
<1>12. ASSUME NEW t \in Threads, WalkMiss(t)
     PROVE  GateInv'
  <2>1. CASE mutex = t
    <3>1. StartSweep(t)
      BY <1>12, <2>1 DEF WalkMiss
    <3>2. QED
      BY <1>12, <2>1, <3>1 DEF WalkMiss, StartSweep, MutexInv
  <2>2. CASE mutex # t
    <3>1. /\ cur' = [cur EXCEPT ![t] = Nil] /\ pc' = [pc EXCEPT ![t] = "miss"]
          /\ UNCHANGED <<retireEpoch, newHead, prev>>
      BY <1>12, <2>2 DEF WalkMiss
    <3>2. QED
      BY <1>12, <2>2, <3>1 DEF WalkMiss, MutexInv
  <2>3. QED
    BY <2>1, <2>2
<1>13. ASSUME NEW t \in Threads, Release(t)
     PROVE  GateInv'
  BY <1>13 DEF Release
<1>14. ASSUME NEW t \in Threads, Lock(t)
     PROVE  GateInv'
  BY <1>14 DEF Lock
<1>15. ASSUME NEW t \in Threads, maybeHotSweep(t)
     PROVE  GateInv'
  BY <1>15, SMTT(30) DEF maybeHotSweep, StartSweep
<1>16. ASSUME NEW t \in Threads, SweepRetire(t)
     PROVE  GateInv'
  BY <1>16 DEF SweepRetire, Unlink
<1>17. ASSUME NEW t \in Threads, SweepKeep(t)
     PROVE  GateInv'
  BY <1>17 DEF SweepKeep
<1>18. ASSUME NEW t \in Threads, SweepStore(t)
     PROVE  GateInv'
  BY <1>18 DEF SweepStore
<1>19. ASSUME NEW t \in Threads, StartEvict(t)
     PROVE  GateInv'
  BY <1>19 DEF StartEvict
<1>20. ASSUME NEW t \in Threads, evictOneLocked(t)
     PROVE  GateInv'
  BY <1>20 DEF evictOneLocked, Unlink
<1>21. ASSUME NEW t \in Threads, ReturnLocked(t)
     PROVE  GateInv'
  BY <1>21 DEF ReturnLocked, Unlock
<1>22. ASSUME NEW t \in Threads, UnlockSwept(t)
     PROVE  GateInv'
  BY <1>22 DEF UnlockSwept, Unlock
<1>23. ASSUME NEW t \in Threads, Insert(t)
     PROVE  GateInv'
  BY <1>23 DEF Insert, Unlock
<1>24. ASSUME NEW t \in Threads, AdvanceDeclined(t)
     PROVE  GateInv'
  <2>1. CASE op[t] = "commit"
    <3>1. pc' = [pc EXCEPT ![t] = "idle"]
      BY <1>24, <2>1, CallerType DEF AdvanceDeclined, Return
    <3>2. QED
      BY <1>24, <2>1, <3>1 DEF AdvanceDeclined
  <2>2. CASE op[t] # "commit"
    <3>1. CallerOf(t) \in {"guarded", "leave"} /\ pc' = [pc EXCEPT ![t] = CallerOf(t)]
      BY <1>24, <2>2, CallerType DEF AdvanceDeclined, Return
    <3>2. QED
      BY <1>24, <2>2, <3>1, SMTT(30) DEF AdvanceDeclined
  <2>3. QED
    BY <2>1, <2>2
<1>25. ASSUME NEW t \in Threads, CloseGate(t)
     PROVE  GateInv'
  BY <1>25 DEF CloseGate
<1>26. ASSUME NEW t \in Threads, LoadUsed(t)
     PROVE  GateInv'
  BY <1>26 DEF LoadUsed
<1>27. ASSUME NEW t \in Threads, ScanSlot(t)
     PROVE  GateInv'
  <2>1. CASE slotEpoch[scan[t]] = Quiescent
    <3>1. scan' = [scan EXCEPT ![t] = @ + 1] /\ UNCHANGED <<pc, reclaiming, limit>>
      BY <1>27, <2>1 DEF ScanSlot
    <3>2. QED
      BY <1>27, <2>1, <3>1 DEF ScanSlot
  <2>2. CASE slotEpoch[scan[t]] # Quiescent
    <3>1. /\ reclaiming' = FALSE /\ pc' = [pc EXCEPT ![t] = CallerOf(t)]
          /\ scan' = [scan EXCEPT ![t] = 0] /\ limit' = [limit EXCEPT ![t] = 0]
      BY <1>27, <2>2 DEF ScanSlot, Return
    <3>2. CASE op[t] = "commit"
      <4>1. CallerOf(t) = "idle"
        BY <3>2, CallerType
      <4>2. QED
        BY <1>27, <3>1, <3>2, <4>1 DEF ScanSlot
    <3>3. CASE op[t] # "commit"
      <4>1. CallerOf(t) \in {"guarded", "leave"}
        BY <3>3, CallerType
      <4>2. QED
        BY <1>27, <3>1, <3>3, <4>1, SMTT(30) DEF ScanSlot
    <3>4. QED
      BY <3>2, <3>3
  <2>3. QED
    BY <2>1, <2>2
<1>28. ASSUME NEW t \in Threads, AdvanceEpoch(t)
     PROVE  GateInv'
  BY <1>28 DEF AdvanceEpoch
<1>29. ASSUME NEW t \in Threads, TakeRetired(t)
     PROVE  GateInv'
  BY <1>29 DEF TakeRetired, ReclaimEpoch
<1>30. ASSUME NEW t \in Threads, Free(t)
     PROVE  GateInv'
  BY <1>30 DEF Free
<1>31. ASSUME NEW t \in Threads, endReclaim(t)
     PROVE  GateInv'
  <2>1. CASE op[t] = "commit"
    <3>1. pc' = [pc EXCEPT ![t] = "idle"]
      BY <1>31, <2>1, CallerType DEF endReclaim, Return
    <3>2. QED
      BY <1>31, <2>1, <3>1 DEF endReclaim
  <2>2. CASE op[t] # "commit"
    <3>1. CallerOf(t) \in {"guarded", "leave"} /\ pc' = [pc EXCEPT ![t] = CallerOf(t)]
      BY <1>31, <2>2, CallerType DEF endReclaim, Return
    <3>2. QED
      BY <1>31, <2>2, <3>1, SMTT(30) DEF endReclaim
  <2>3. QED
    BY <2>1, <2>2
<1>32. CASE UNCHANGED vars
  BY <1>32 DEF vars
<1> HIDE DEF EpochInv, TypeOK, PCs, Entering, Unlocked, Locked, Advancing, Ops,
      Epochs, Slots, NoSlot, Unset, Quiescent, epochVars, shardVars, sweepVars,
      reclaimVars, Goto, GateInv, SlotInv, Protected, Guarded, Reclaimer
<1>33. QED
  BY <1>1, <1>2, <1>3, <1>4, <1>5, <1>6, <1>7, <1>8, <1>9, <1>10, <1>11, <1>12,
     <1>13, <1>14, <1>15, <1>16, <1>17, <1>18, <1>19, <1>20, <1>21, <1>22, <1>23,
     <1>24, <1>25, <1>26, <1>27, <1>28, <1>29, <1>30, <1>31, <1>32 DEF Next, Step

\* Every allocated entry keeps exactly one home.
LEMMA HomeStep == EpochInv /\ [Next]_vars => HomeInv'
<1> SUFFICES ASSUME EpochInv, [Next]_vars
             PROVE  HomeInv'
  OBVIOUS
<1> USE ConntrackEpochAssumption DEF EpochInv, TypeOK, PCs, Entering, Unlocked,
      Locked, Advancing, Ops, Epochs, Slots, NoSlot, Unset, Quiescent, epochVars,
      shardVars, sweepVars, reclaimVars, Goto, HomeInv, Retired, Kept, Pointers,
      ReclaimEpoch
<1>1. ASSUME NEW t \in Threads, slotForThread(t)
     PROVE  HomeInv'
  BY <1>1 DEF slotForThread
<1>2. ASSUME NEW t \in Threads, WaitGate(t)
     PROVE  HomeInv'
  BY <1>2 DEF WaitGate
<1>3. ASSUME NEW t \in Threads, LoadEpoch(t)
     PROVE  HomeInv'
  BY <1>3 DEF LoadEpoch
<1>4. ASSUME NEW t \in Threads, PublishEpoch(t)
     PROVE  HomeInv'
  BY <1>4 DEF PublishEpoch
<1>5. ASSUME NEW t \in Threads, CheckGate(t)
     PROVE  HomeInv'
  BY <1>5 DEF CheckGate
<1>6. ASSUME NEW t \in Threads, CheckEpoch(t)
     PROVE  HomeInv'
  BY <1>6 DEF CheckEpoch
<1>7. ASSUME NEW t \in Threads, Retract(t)
     PROVE  HomeInv'
  BY <1>7, SMTT(30) DEF Retract
<1>8. ASSUME NEW t \in Threads, exit(t)
     PROVE  HomeInv'
  <2>1. CASE Goto(t, "idle")
    BY <1>8, <2>1, SMTT(30) DEF exit
  <2>2. CASE Goto(t, "accepted")
    BY <1>8, <2>2, SMTT(30) DEF exit
  <2>3. QED
    BY <1>8, <2>1, <2>2 DEF exit
<1>9. ASSUME NEW t \in Threads, StartWalk(t)
     PROVE  HomeInv'
  BY <1>9 DEF StartWalk
<1>10. ASSUME NEW t \in Threads, WalkOn(t)
     PROVE  HomeInv'
  BY <1>10 DEF WalkOn
<1>11. ASSUME NEW t \in Threads, WalkHit(t)
     PROVE  HomeInv'
  <2>1. CASE op[t] = "commit"
    <3>1. pc' = [pc EXCEPT ![t] = "idle"] /\ cur' = [cur EXCEPT ![t] = Nil]
      BY <1>11, <2>1 DEF WalkHit
    <3>2. QED
      BY <1>11, <2>1, <3>1 DEF WalkHit
  <2>2. CASE op[t] # "commit"
    <3>1. pc' = [pc EXCEPT ![t] = "hold"] /\ UNCHANGED cur
      BY <1>11, <2>2 DEF WalkHit
    <3>2. QED
      BY <1>11, <2>2, <3>1 DEF WalkHit
  <2>3. QED
    BY <2>1, <2>2
<1>12. ASSUME NEW t \in Threads, WalkMiss(t)
     PROVE  HomeInv'
  <2>1. CASE mutex = t
    <3>1. StartSweep(t)
      BY <1>12, <2>1 DEF WalkMiss
    <3>2. QED
      BY <1>12, <2>1, <3>1 DEF WalkMiss, StartSweep
  <2>2. CASE mutex # t
    <3>1. /\ cur' = [cur EXCEPT ![t] = Nil] /\ pc' = [pc EXCEPT ![t] = "miss"]
          /\ UNCHANGED <<retireEpoch, newHead, prev>>
      BY <1>12, <2>2 DEF WalkMiss
    <3>2. QED
      BY <1>12, <2>2, <3>1 DEF WalkMiss
  <2>3. QED
    BY <2>1, <2>2
<1>13. ASSUME NEW t \in Threads, Release(t)
     PROVE  HomeInv'
  BY <1>13 DEF Release
<1>14. ASSUME NEW t \in Threads, Lock(t)
     PROVE  HomeInv'
  BY <1>14 DEF Lock
<1>15. ASSUME NEW t \in Threads, maybeHotSweep(t)
     PROVE  HomeInv'
  <2>1. CASE op' = [op EXCEPT ![t] = "inspect"]
             /\ UNCHANGED <<mutex, pc, cur, retireEpoch, newHead, prev>>
    BY <1>15, <2>1 DEF maybeHotSweep
  <2>2. CASE mutex = Nobody /\ mutex' = t /\ StartSweep(t) /\ UNCHANGED op
    BY <1>15, <2>2 DEF maybeHotSweep, StartSweep
  <2>3. QED
    BY <1>15, <2>1, <2>2 DEF maybeHotSweep
<1>16. ASSUME NEW t \in Threads, SweepRetire(t)
     PROVE  HomeInv'
  <2>1. cur[t] \in Kept
    BY <1>16 DEF SweepRetire, ListInv, Sweeping
  <2>2. retired' = [retired EXCEPT ![retireEpoch[t]] = @ \cup {cur[t]}]
    BY <1>16 DEF SweepRetire, Unlink
  <2>3. \A g \in Epochs : retired'[g] \subseteq retired[g] \cup {cur[t]}
    BY <2>2
  <2>4. Retired' = Retired \cup {cur[t]}
    BY <2>2
  <2>5. \A g, h \in Epochs : g # h => retired'[g] \cap retired'[h] = {}
    BY <2>1, <2>2
  <2>6. table' \subseteq table /\ table \subseteq table' \cup {cur[t]} /\ UNCHANGED <<heap, toFree>>
    BY <1>16, <2>1 DEF SweepRetire
  <2>7. heap' = table' \cup Retired' \cup UNION {toFree'[u] : u \in Threads}
    BY <2>1, <2>4, <2>6
  <2>8. QED
    BY <1>16, <2>1, <2>4, <2>5, <2>6, <2>7 DEF SweepRetire
<1>17. ASSUME NEW t \in Threads, SweepKeep(t)
     PROVE  HomeInv'
  BY <1>17 DEF SweepKeep
<1>18. ASSUME NEW t \in Threads, SweepStore(t)
     PROVE  HomeInv'
  BY <1>18 DEF SweepStore
<1>19. ASSUME NEW t \in Threads, StartEvict(t)
     PROVE  HomeInv'
  BY <1>19 DEF StartEvict
<1>20. ASSUME NEW t \in Threads, evictOneLocked(t)
     PROVE  HomeInv'
  <2>1. cur[t] \in Kept
    BY <1>20 DEF evictOneLocked, ListInv, Sweeping
  <2>2. retired' = [retired EXCEPT ![retireEpoch[t]] = @ \cup {cur[t]}]
    BY <1>20 DEF evictOneLocked, Unlink
  <2>3. \A g \in Epochs : retired'[g] \subseteq retired[g] \cup {cur[t]}
    BY <2>2
  <2>4. Retired' = Retired \cup {cur[t]}
    BY <2>2
  <2>5. \A g, h \in Epochs : g # h => retired'[g] \cap retired'[h] = {}
    BY <2>1, <2>2
  <2>6. table' = Kept \ {cur[t]} /\ UNCHANGED <<heap, toFree>>
    BY <1>20 DEF evictOneLocked
  <2>7. heap' = table' \cup Retired' \cup UNION {toFree'[u] : u \in Threads}
    BY <2>1, <2>4, <2>6
  <2>8. QED
    BY <1>20, <2>1, <2>4, <2>5, <2>6, <2>7 DEF evictOneLocked
<1>21. ASSUME NEW t \in Threads, ReturnLocked(t)
     PROVE  HomeInv'
  BY <1>21 DEF ReturnLocked, Unlock
<1>22. ASSUME NEW t \in Threads, UnlockSwept(t)
     PROVE  HomeInv'
  BY <1>22 DEF UnlockSwept, Unlock
<1>23. ASSUME NEW t \in Threads, Insert(t)
     PROVE  HomeInv'
  BY <1>23 DEF Insert, Unlock
<1>24. ASSUME NEW t \in Threads, AdvanceDeclined(t)
     PROVE  HomeInv'
  <2>1. CASE op[t] = "commit"
    <3>1. pc' = [pc EXCEPT ![t] = "idle"]
      BY <1>24, <2>1, CallerType DEF AdvanceDeclined, Return
    <3>2. QED
      BY <1>24, <2>1, <3>1 DEF AdvanceDeclined
  <2>2. CASE op[t] # "commit"
    <3>1. CallerOf(t) \in {"guarded", "leave"} /\ pc' = [pc EXCEPT ![t] = CallerOf(t)]
      BY <1>24, <2>2, CallerType DEF AdvanceDeclined, Return
    <3>2. QED
      BY <1>24, <2>2, <3>1 DEF AdvanceDeclined
  <2>3. QED
    BY <2>1, <2>2
<1>25. ASSUME NEW t \in Threads, CloseGate(t)
     PROVE  HomeInv'
  BY <1>25 DEF CloseGate
<1>26. ASSUME NEW t \in Threads, LoadUsed(t)
     PROVE  HomeInv'
  BY <1>26, SMTT(30) DEF LoadUsed
<1>27. ASSUME NEW t \in Threads, ScanSlot(t)
     PROVE  HomeInv'
  <2>1. CASE slotEpoch[scan[t]] = Quiescent
    <3>1. scan' = [scan EXCEPT ![t] = @ + 1] /\ UNCHANGED <<pc, reclaiming, limit>>
      BY <1>27, <2>1 DEF ScanSlot
    <3>2. QED
      BY <1>27, <2>1, <3>1, SMTT(30) DEF ScanSlot
  <2>2. CASE slotEpoch[scan[t]] # Quiescent
    <3>1. /\ reclaiming' = FALSE /\ pc' = [pc EXCEPT ![t] = CallerOf(t)]
          /\ scan' = [scan EXCEPT ![t] = 0] /\ limit' = [limit EXCEPT ![t] = 0]
      BY <1>27, <2>2 DEF ScanSlot, Return
    <3>2. CASE op[t] = "commit"
      <4>1. CallerOf(t) = "idle"
        BY <3>2, CallerType
      <4>2. QED
        BY <1>27, <3>1, <3>2, <4>1 DEF ScanSlot
    <3>3. CASE op[t] # "commit"
      <4>1. CallerOf(t) \in {"guarded", "leave"}
        BY <3>3, CallerType
      <4>2. QED
        BY <1>27, <3>1, <3>3, <4>1 DEF ScanSlot
    <3>4. QED
      BY <3>2, <3>3
  <2>3. QED
    BY <2>1, <2>2
<1>28. ASSUME NEW t \in Threads, AdvanceEpoch(t)
     PROVE  HomeInv'
  BY <1>28 DEF AdvanceEpoch
<1>29. ASSUME NEW t \in Threads, TakeRetired(t)
     PROVE  HomeInv'
  <2> DEFINE R == ReclaimEpoch
  <2>1. R \in Epochs
    OBVIOUS
  <2>2. /\ toFree' = [toFree EXCEPT ![t] = retired[R]]
        /\ retired' = [retired EXCEPT ![R] = {}]
        /\ UNCHANGED <<heap, table>> /\ pc' = [pc EXCEPT ![t] = "free"]
    BY <1>29 DEF TakeRetired
  <2> HIDE DEF R
  <2>3. table \cap Retired = {} /\ toFree[t] = {}
    <3>1. mutex = Nobody /\ pc[t] = "take"
      BY <1>29 DEF TakeRetired
    <3>2. \A u \in Threads : pc[u] # "sweep"
      BY <3>1 DEF MutexInv
    <3>3. QED
      BY <3>1, <3>2
  <2>4. Retired = Retired' \cup retired[R] /\ Retired' \cap retired[R] = {}
    BY <2>1, <2>2
  <2>5. heap' = table' \cup Retired' \cup UNION {toFree'[u] : u \in Threads}
    <3>1. UNION {toFree'[u] : u \in Threads} = retired[R] \cup UNION {toFree[u] : u \in Threads}
      BY <2>2, <2>3
    <3>2. QED
      BY <2>2, <2>4, <3>1
  <2>6. \A g, h \in Epochs : g # h => retired'[g] \cap retired'[h] = {}
    BY <2>1, <2>2
  <2>7. \A u \in Threads : toFree'[u] \cap (table' \cup Retired') = {}
    BY <2>1, <2>2, <2>3, <2>4
  <2>8. QED
    BY <2>2, <2>3, <2>4, <2>5, <2>6, <2>7
<1>30. ASSUME NEW t \in Threads, Free(t)
     PROVE  HomeInv'
  <2>1. PICK e \in toFree[t] : /\ heap' = heap \ {e}
                              /\ toFree' = [toFree EXCEPT ![t] = @ \ {e}]
    BY <1>30 DEF Free
  <2>2. UNCHANGED <<retired, table, pc>> /\ pc[t] = "free"
    BY <1>30 DEF Free
  <2>3. \A u \in Threads : u # t => toFree[u] = {}
    BY <2>2 DEF GateInv, Reclaimer
  <2>4. e \notin table \cup Retired
    BY <2>1
  <2>5. heap' = table' \cup Retired' \cup UNION {toFree'[u] : u \in Threads}
    <3>1. UNION {toFree'[u] : u \in Threads} = toFree[t] \ {e}
      BY <2>1, <2>3
    <3>2. UNION {toFree[u] : u \in Threads} = toFree[t]
      <4> HIDE DEF EpochInv
      <4>1. \A x : x \in UNION {toFree[u] : u \in Threads} <=> x \in toFree[t]
        BY <2>3
      <4>2. QED
        BY <4>1
    <3>3. QED
      BY <2>1, <2>2, <2>4, <3>1, <3>2
  <2>6. QED
    BY <2>1, <2>2, <2>5
<1>31. ASSUME NEW t \in Threads, endReclaim(t)
     PROVE  HomeInv'
  <2>1. CASE op[t] = "commit"
    <3>1. pc' = [pc EXCEPT ![t] = "idle"]
      BY <1>31, <2>1, CallerType DEF endReclaim, Return
    <3>2. QED
      BY <1>31, <2>1, <3>1 DEF endReclaim
  <2>2. CASE op[t] # "commit"
    <3>1. CallerOf(t) \in {"guarded", "leave"} /\ pc' = [pc EXCEPT ![t] = CallerOf(t)]
      BY <1>31, <2>2, CallerType DEF endReclaim, Return
    <3>2. QED
      BY <1>31, <2>2, <3>1, SMTT(30) DEF endReclaim
  <2>3. QED
    BY <2>1, <2>2
<1>32. CASE UNCHANGED vars
  BY <1>32 DEF vars
<1> HIDE DEF EpochInv, TypeOK, PCs, Entering, Unlocked, Locked, Advancing, Ops,
      Epochs, Slots, NoSlot, Unset, Quiescent, epochVars, shardVars, sweepVars,
      reclaimVars, Goto, HomeInv, Retired, Kept, Pointers, ReclaimEpoch
<1>33. QED
  BY <1>1, <1>2, <1>3, <1>4, <1>5, <1>6, <1>7, <1>8, <1>9, <1>10, <1>11, <1>12,
     <1>13, <1>14, <1>15, <1>16, <1>17, <1>18, <1>19, <1>20, <1>21, <1>22, <1>23,
     <1>24, <1>25, <1>26, <1>27, <1>28, <1>29, <1>30, <1>31, <1>32 DEF Next, Step

\* A step that leaves the bucket and every sweep alone keeps the list.
LEMMA ListFrame ==
    ASSUME EpochInv, UNCHANGED <<head, table, next, retired>>,
           \A u \in Threads : pc'[u] = "sweep" <=> pc[u] = "sweep",
           \A u \in Threads : pc'[u] = "evict" => pc[u] = "evict",
           \A u \in Threads : pc'[u] \in {"sweep", "evict"} =>
               newHead'[u] = newHead[u] /\ cur'[u] = cur[u] /\ prev'[u] = prev[u]
    PROVE  ListInv'
<1>1. Kept' = Kept
  BY DEF Kept, Retired
<1>2. \A u \in Threads : Sweeping(u)' => Sweeping(u)
  BY DEF Sweeping
<1>3. QED
  BY <1>1, <1>2 DEF EpochInv, ListInv, Sweeping

\* The mutex keeps other sweeps away.
LEMMA OneSweep ==
    ASSUME EpochInv, NEW t \in Threads, mutex \in {t, Nobody}
    PROVE  \A u \in Threads : Sweeping(u) => u = t
  BY ConntrackEpochAssumption DEF EpochInv, MutexInv, Sweeping, Locked

\* With no sweep under way the table holds no retired entry.
LEMMA Settled ==
    ASSUME EpochInv, \A u \in Threads : pc[u] # "sweep"
    PROVE  /\ table \cap Retired = {} /\ Kept = table
           /\ \A e \in Kept : next[e] = head => head = Nil
  BY DEF EpochInv, HomeInv, ListInv, Kept

\* A sweep starts at the head of a settled list.
LEMMA StartList ==
    ASSUME EpochInv, NEW t \in Threads, \A u \in Threads : ~Sweeping(u),
           UNCHANGED <<head, table, next, retired>>,
           newHead'[t] = head, cur'[t] = head, prev'[t] = Nil,
           \A u \in Threads : u # t => pc'[u] = pc[u],
           pc'[t] \in {"sweep", "evict"}
    PROVE  ListInv'
<1>1. Kept' = Kept
  BY DEF Kept, Retired
<1>2. Kept = table /\ \A e \in Kept : next[e] = head => head = Nil
  BY Settled DEF Sweeping
<1>3. \A u \in Threads : Sweeping(u)' => u = t
  BY DEF Sweeping
<1>4. head \in Kept \cup {Nil}
  BY <1>2 DEF EpochInv, ListInv
<1>5. \A u \in Threads : Sweeping(u)' =>
          /\ newHead'[u] \in Kept' \cup {Nil}
          /\ \A e \in Kept' : next'[e] = newHead'[u] => newHead'[u] = Nil
          /\ cur'[u] \in Kept' \cup {Nil}
          /\ prev'[u] \in Kept' \cup {Nil}
          /\ prev'[u] = Nil => newHead'[u] = cur'[u]
          /\ prev'[u] # Nil => next'[prev'[u]] = cur'[u]
  BY <1>1, <1>2, <1>3, <1>4
<1>6. \A u \in Threads : pc'[u] = "evict" => newHead'[u] = head'
  BY <1>3 DEF Sweeping
<1>7. QED
  BY <1>1, <1>2, <1>5, <1>6 DEF EpochInv, ListInv

\* Unlinking cur leaves a list of the other kept entries, headed by the local head.
LEMMA UnlinkList ==
    ASSUME EpochInv, NEW t \in Threads, Sweeping(t), cur[t] # Nil, Unlink(t),
           NEW K, K = Kept \ {cur[t]}
    PROVE  /\ \A e \in table : next'[e] \in table \cup {Nil}
           /\ \A e \in K : next'[e] \in K \cup {Nil}
           /\ \A d, e \in K : next'[d] = next'[e] /\ next'[d] # Nil => d = e
           /\ \E f \in [Entries -> Nat] : \A e \in K : next'[e] # Nil => f[next'[e]] < f[e]
           /\ newHead'[t] \in K \cup {Nil}
           /\ \A e \in K : next'[e] = newHead'[t] => newHead'[t] = Nil
           /\ next[cur[t]] \in K \cup {Nil}
           /\ prev[t] \in K \cup {Nil}
           /\ prev[t] = Nil => newHead'[t] = next[cur[t]]
           /\ prev[t] # Nil => next'[prev[t]] = next[cur[t]]
<1> DEFINE c == cur[t]
           p == prev[t]
           n == next[cur[t]]
<1> USE ConntrackEpochAssumption
<1>1. /\ c \in Kept /\ p \in Kept \cup {Nil} /\ newHead[t] \in Kept \cup {Nil}
      /\ p = Nil => newHead[t] = c
      /\ p # Nil => next[p] = c
      /\ \A e \in Kept : next[e] = newHead[t] => newHead[t] = Nil
  BY DEF EpochInv, ListInv
<1>2. /\ \A e \in table : next[e] \in table \cup {Nil}
      /\ \A e \in Kept : next[e] \in Kept \cup {Nil}
      /\ \A d, e \in Kept : next[d] = next[e] /\ next[d] # Nil => d = e
      /\ Kept \subseteq table /\ table \subseteq Entries
  BY DEF EpochInv, ListInv, TypeOK, Kept
<1>3. PICK f \in [Entries -> Nat] : \A e \in Kept : next[e] # Nil => f[next[e]] < f[e]
  BY DEF EpochInv, ListInv
<1>4. next \in [Entries -> Pointers] /\ newHead \in [Threads -> Pointers]
  BY DEF EpochInv, TypeOK
<1>5. c # Nil /\ c \in Entries /\ n # c /\ n \in Kept \cup {Nil}
  <2>1. n # Nil => f[n] < f[c]
    BY <1>1, <1>3
  <2>2. n \in Kept \cup {Nil}
    BY <1>1, <1>2
  <2>3. f[c] \in Nat
    BY <1>1, <1>2, <1>3
  <2>4. QED
    BY <1>1, <1>2, <2>1, <2>2, <2>3
<1>6. CASE p = Nil
  <2>1. newHead' = [newHead EXCEPT ![t] = n] /\ next' = next
    BY <1>6 DEF Unlink
  <2>2. QED
    BY <1>1, <1>2, <1>3, <1>4, <1>5, <1>6, <2>1
<1>7. CASE p # Nil
  <2>1. next' = [next EXCEPT ![p] = n] /\ newHead' = newHead
    BY <1>7 DEF Unlink
  <2>2. p \in Kept /\ p \in Entries /\ next[p] = c /\ p # c
    <3>1. p \in Kept /\ p \in Entries /\ next[p] = c
      BY <1>1, <1>2, <1>7
    <3>2. f[c] < f[p] /\ f[c] \in Nat
      BY <1>3, <1>5, <3>1
    <3>3. QED
      BY <3>1, <3>2
  <2>3. next'[p] = n /\ \A e \in Entries : e # p => next'[e] = next[e]
    BY <1>4, <2>1, <2>2
  <2>4. newHead[t] # c
    BY <1>1, <1>5, <2>2
  <2>5. \A e \in table : next'[e] \in table \cup {Nil}
    BY <1>2, <1>5, <2>3
  <2>6. \A e \in K : next'[e] \in K \cup {Nil}
    BY <1>2, <1>5, <2>2, <2>3
  <2>7. \A d, e \in K : next'[d] = next'[e] /\ next'[d] # Nil => d = e
    BY <1>1, <1>2, <1>5, <2>2, <2>3
  <2>8. \A e \in K : next'[e] # Nil => f[next'[e]] < f[e]
    <3>1. SUFFICES ASSUME NEW e \in K, next'[e] # Nil PROVE f[next'[e]] < f[e]
      OBVIOUS
    <3>2. CASE e # p
      BY <1>2, <1>3, <2>3, <3>1, <3>2
    <3>3. CASE e = p
      <4>1. n # Nil /\ n \in Entries
        BY <1>2, <1>5, <2>3, <3>1, <3>3
      <4>2. f[n] < f[c] /\ f[c] < f[p]
        BY <1>1, <1>3, <1>5, <2>2, <4>1
      <4>3. f[n] \in Nat /\ f[c] \in Nat /\ f[p] \in Nat
        BY <1>3, <1>5, <2>2, <4>1
      <4>4. QED
        BY <2>3, <3>3, <4>2, <4>3
    <3>4. QED
      BY <3>2, <3>3
  <2>9. \A e \in K : next'[e] = newHead'[t] => newHead'[t] = Nil
    BY <1>1, <1>2, <2>1, <2>3
  <2>10. QED
    BY <1>1, <1>3, <1>5, <1>7, <2>1, <2>2, <2>3, <2>4, <2>5, <2>6, <2>7, <2>8, <2>9
<1>8. QED
  BY <1>6, <1>7

\* The bucket stays a list of unretired entries.
LEMMA ListStep == EpochInv /\ [Next]_vars => ListInv'
<1> SUFFICES ASSUME EpochInv, [Next]_vars
             PROVE  ListInv'
  OBVIOUS
<1> USE ConntrackEpochAssumption DEF EpochInv, TypeOK, PCs, Entering, Unlocked,
      Locked, Advancing, Ops, Epochs, Slots, NoSlot, Unset, Quiescent, epochVars,
      shardVars, sweepVars, reclaimVars, Goto, Pointers
<1>1. ASSUME NEW t \in Threads, slotForThread(t)
     PROVE  ListInv'
  BY <1>1, ListFrame DEF slotForThread, Sweeping
<1>2. ASSUME NEW t \in Threads, WaitGate(t)
     PROVE  ListInv'
  BY <1>2, ListFrame DEF WaitGate, Sweeping
<1>3. ASSUME NEW t \in Threads, LoadEpoch(t)
     PROVE  ListInv'
  BY <1>3, ListFrame DEF LoadEpoch, Sweeping
<1>4. ASSUME NEW t \in Threads, PublishEpoch(t)
     PROVE  ListInv'
  BY <1>4, ListFrame DEF PublishEpoch, Sweeping
<1>5. ASSUME NEW t \in Threads, CheckGate(t)
     PROVE  ListInv'
  BY <1>5, ListFrame DEF CheckGate, Sweeping
<1>6. ASSUME NEW t \in Threads, CheckEpoch(t)
     PROVE  ListInv'
  BY <1>6, ListFrame DEF CheckEpoch, Sweeping
<1>7. ASSUME NEW t \in Threads, Retract(t)
     PROVE  ListInv'
  BY <1>7, ListFrame DEF Retract, Sweeping
<1>8. ASSUME NEW t \in Threads, exit(t)
     PROVE  ListInv'
  <2>1. CASE Goto(t, "idle")
    BY <1>8, <2>1, ListFrame DEF exit, Sweeping
  <2>2. CASE Goto(t, "accepted")
    BY <1>8, <2>2, ListFrame DEF exit, Sweeping
  <2>3. QED
    BY <1>8, <2>1, <2>2 DEF exit
<1>9. ASSUME NEW t \in Threads, StartWalk(t)
     PROVE  ListInv'
  BY <1>9, ListFrame DEF StartWalk, Sweeping
<1>10. ASSUME NEW t \in Threads, WalkOn(t)
     PROVE  ListInv'
  BY <1>10, ListFrame DEF WalkOn, Sweeping
<1>11. ASSUME NEW t \in Threads, WalkHit(t)
     PROVE  ListInv'
  <2>1. CASE op[t] = "commit"
    <3>1. pc' = [pc EXCEPT ![t] = "idle"] /\ cur' = [cur EXCEPT ![t] = Nil]
      BY <1>11, <2>1 DEF WalkHit
    <3>2. QED
      BY <1>11, <2>1, <3>1, ListFrame DEF WalkHit, Sweeping
  <2>2. CASE op[t] # "commit"
    <3>1. pc' = [pc EXCEPT ![t] = "hold"] /\ UNCHANGED cur
      BY <1>11, <2>2 DEF WalkHit
    <3>2. QED
      BY <1>11, <2>2, <3>1, ListFrame DEF WalkHit, Sweeping
  <2>3. QED
    BY <2>1, <2>2
<1>12. ASSUME NEW t \in Threads, WalkMiss(t)
     PROVE  ListInv'
  <2>1. CASE mutex = t
    <3>1. StartSweep(t)
      BY <1>12, <2>1 DEF WalkMiss
    <3>2. \A u \in Threads : ~Sweeping(u)
      BY <1>12, <2>1, OneSweep DEF WalkMiss, Sweeping
    <3>3. QED
      BY <1>12, <3>1, <3>2, StartList DEF WalkMiss, StartSweep
  <2>2. CASE mutex # t
    <3>1. /\ cur' = [cur EXCEPT ![t] = Nil] /\ pc' = [pc EXCEPT ![t] = "miss"]
          /\ UNCHANGED <<retireEpoch, newHead, prev>>
      BY <1>12, <2>2 DEF WalkMiss
    <3>2. QED
      BY <1>12, <3>1, ListFrame DEF WalkMiss, Sweeping
  <2>3. QED
    BY <2>1, <2>2
<1>13. ASSUME NEW t \in Threads, Release(t)
     PROVE  ListInv'
  BY <1>13, ListFrame DEF Release, Sweeping
<1>14. ASSUME NEW t \in Threads, Lock(t)
     PROVE  ListInv'
  BY <1>14, ListFrame DEF Lock, Sweeping
<1>15. ASSUME NEW t \in Threads, maybeHotSweep(t)
     PROVE  ListInv'
  <2>1. CASE UNCHANGED <<mutex, pc, cur, retireEpoch, newHead, prev>>
    BY <1>15, <2>1, ListFrame DEF maybeHotSweep
  <2>2. CASE mutex = Nobody /\ mutex' = t /\ StartSweep(t) /\ UNCHANGED op
    <3>1. \A u \in Threads : ~Sweeping(u)
      BY <1>15, <2>2, OneSweep DEF maybeHotSweep, Sweeping
    <3>2. QED
      BY <1>15, <2>2, <3>1, StartList DEF maybeHotSweep, StartSweep
  <2>3. QED
    BY <1>15, <2>1, <2>2 DEF maybeHotSweep
<1>16. ASSUME NEW t \in Threads, SweepRetire(t)
     PROVE  ListInv'
  <2>1. \A u \in Threads : Sweeping(u) => u = t
    BY <1>16, OneSweep DEF SweepRetire, MutexInv
  <2>2. Sweeping(t) /\ cur[t] # Nil /\ Unlink(t) /\ pc[t] = "sweep" /\ UNCHANGED <<head, table, pc, prev>>
    BY <1>16 DEF SweepRetire, Sweeping
  <2>3. retired' = [retired EXCEPT ![retireEpoch[t]] = @ \cup {cur[t]}]
    BY <2>2 DEF Unlink
  <2>4. Kept' = Kept \ {cur[t]}
    BY <2>2, <2>3 DEF Kept, Retired
  <2>5. cur'[t] = next[cur[t]]
    BY <1>16 DEF SweepRetire
  <2>6. \A u \in Threads : Sweeping(u)' => u = t
    BY <2>1, <2>2 DEF Sweeping
  <2>7. head \in table \cup {Nil} /\ pc'[t] = "sweep"
    BY <2>2 DEF ListInv
  <2> HIDE DEF EpochInv
  <2>8. /\ \A e \in table : next'[e] \in table \cup {Nil}
        /\ \A e \in Kept' : next'[e] \in Kept' \cup {Nil}
        /\ \A d, e \in Kept' : next'[d] = next'[e] /\ next'[d] # Nil => d = e
        /\ \E f \in [Entries -> Nat] : \A e \in Kept' : next'[e] # Nil => f[next'[e]] < f[e]
        /\ newHead'[t] \in Kept' \cup {Nil}
        /\ \A e \in Kept' : next'[e] = newHead'[t] => newHead'[t] = Nil
        /\ next[cur[t]] \in Kept' \cup {Nil}
        /\ prev[t] \in Kept' \cup {Nil}
        /\ prev[t] = Nil => newHead'[t] = next[cur[t]]
        /\ prev[t] # Nil => next'[prev[t]] = next[cur[t]]
    BY <2>2, <2>4, UnlinkList, SMTT(30)
  <2>9. \A u \in Threads : Sweeping(u)' =>
          /\ newHead'[u] \in Kept' \cup {Nil}
          /\ \A e \in Kept' : next'[e] = newHead'[u] => newHead'[u] = Nil
          /\ cur'[u] \in Kept' \cup {Nil}
          /\ prev'[u] \in Kept' \cup {Nil}
          /\ prev'[u] = Nil => newHead'[u] = cur'[u]
          /\ prev'[u] # Nil => next'[prev'[u]] = cur'[u]
    BY <2>2, <2>5, <2>6, <2>8
  <2>10. \A u \in Threads : pc'[u] # "evict"
    BY <2>6, <2>7 DEF Sweeping
  <2>11. QED
    BY <2>2, <2>7, <2>8, <2>9, <2>10 DEF ListInv
<1>17. ASSUME NEW t \in Threads, SweepKeep(t)
     PROVE  ListInv'
  <2>1. \A u \in Threads : Sweeping(u) => u = t
    BY <1>17, OneSweep DEF SweepKeep, MutexInv
  <2>2. Kept' = Kept /\ \A u \in Threads : Sweeping(u)' <=> Sweeping(u)
    BY <1>17 DEF SweepKeep, Kept, Retired, Sweeping
  <2>3. Sweeping(t) /\ cur[t] \in Kept
    BY <1>17 DEF SweepKeep, Sweeping, ListInv
  <2>4. next[cur[t]] \in Kept \cup {Nil}
    BY <2>3 DEF ListInv
  <2>5. /\ UNCHANGED <<head, table, next, newHead, pc>>
        /\ prev'[t] = cur[t] /\ cur'[t] = next[cur[t]]
    BY <1>17 DEF SweepKeep
  <2>6. /\ newHead[t] \in Kept \cup {Nil} /\ cur[t] # Nil
        /\ \A e \in Kept : next[e] = newHead[t] => newHead[t] = Nil
    BY <1>17, <2>3 DEF ListInv, SweepKeep
  <2> HIDE DEF EpochInv
  <2>7. \A u \in Threads : Sweeping(u)' =>
          /\ newHead'[u] \in Kept' \cup {Nil}
          /\ \A e \in Kept' : next'[e] = newHead'[u] => newHead'[u] = Nil
          /\ cur'[u] \in Kept' \cup {Nil}
          /\ prev'[u] \in Kept' \cup {Nil}
          /\ prev'[u] = Nil => newHead'[u] = cur'[u]
          /\ prev'[u] # Nil => next'[prev'[u]] = cur'[u]
    BY <2>1, <2>2, <2>3, <2>4, <2>5, <2>6
  <2>8. ListInv
    BY DEF EpochInv
  <2>9. /\ head' \in table' \cup {Nil}
        /\ \A e \in table' : next'[e] \in table' \cup {Nil}
    BY <2>5, <2>8 DEF ListInv
  <2>10. /\ \A e \in Kept' : next'[e] \in Kept' \cup {Nil}
         /\ \A d, e \in Kept' : next'[d] = next'[e] /\ next'[d] # Nil => d = e
         /\ \E f \in [Entries -> Nat] : \A e \in Kept' : next'[e] # Nil => f[next'[e]] < f[e]
    BY <2>2, <2>5, <2>8, Zenon DEF ListInv
  <2>11. /\ (\A u \in Threads : pc'[u] # "sweep") =>
               \A e \in Kept' : next'[e] = head' => head' = Nil
         /\ \A u \in Threads : pc'[u] = "evict" => newHead'[u] = head'
    BY <2>2, <2>5, <2>8 DEF ListInv
  <2>12. QED
    BY <2>7, <2>9, <2>10, <2>11, Zenon DEF ListInv
<1>18. ASSUME NEW t \in Threads, SweepStore(t)
     PROVE  ListInv'
  <2>1. \A u \in Threads : Sweeping(u) => u = t
    BY <1>18, OneSweep DEF SweepStore, MutexInv
  <2>2. /\ head' = newHead[t] /\ table' = Kept /\ UNCHANGED <<next, retired>>
        /\ pc' = [pc EXCEPT ![t] = "swept"] /\ Sweeping(t)
    BY <1>18 DEF SweepStore, Sweeping
  <2>3. Kept' = Kept
    BY <2>2 DEF Kept, Retired
  <2>4. \A u \in Threads : ~Sweeping(u)'
    BY <2>1, <2>2 DEF Sweeping
  <2>5. \A u \in Threads : pc'[u] # "evict"
    BY <2>4 DEF Sweeping
  <2>6. QED
    BY <2>2, <2>3, <2>4, <2>5, ZenonT(40) DEF ListInv
<1>19. ASSUME NEW t \in Threads, StartEvict(t)
     PROVE  ListInv'
  <2>1. \A u \in Threads : ~Sweeping(u)
    BY <1>19, OneSweep DEF StartEvict, MutexInv, Sweeping
  <2>2. QED
    BY <1>19, <2>1, StartList DEF StartEvict
<1>20. ASSUME NEW t \in Threads, evictOneLocked(t)
     PROVE  ListInv'
  <2>1. \A u \in Threads : Sweeping(u) => u = t
    BY <1>20, OneSweep DEF evictOneLocked, MutexInv
  <2>2. /\ Sweeping(t) /\ cur[t] # Nil /\ Unlink(t) /\ head' = newHead'[t]
        /\ table' = Kept \ {cur[t]} /\ pc' = [pc EXCEPT ![t] = "insert"]
    BY <1>20 DEF evictOneLocked, Sweeping
  <2>3. retired' = [retired EXCEPT ![retireEpoch[t]] = @ \cup {cur[t]}]
    BY <2>2 DEF Unlink
  <2>4. Kept' = Kept \ {cur[t]}
    BY <2>2, <2>3 DEF Kept, Retired
  <2>5. \A u \in Threads : ~Sweeping(u)' /\ pc'[u] # "evict"
    BY <2>1, <2>2 DEF Sweeping
  <2> HIDE DEF EpochInv
  <2>6. /\ \A e \in Kept' : next'[e] \in Kept' \cup {Nil}
        /\ \A d, e \in Kept' : next'[d] = next'[e] /\ next'[d] # Nil => d = e
        /\ \E f \in [Entries -> Nat] : \A e \in Kept' : next'[e] # Nil => f[next'[e]] < f[e]
        /\ newHead'[t] \in Kept' \cup {Nil}
        /\ \A e \in Kept' : next'[e] = newHead'[t] => newHead'[t] = Nil
    BY <2>2, <2>4, UnlinkList
  <2>7. QED
    BY <2>2, <2>4, <2>5, <2>6 DEF ListInv
<1>21. ASSUME NEW t \in Threads, ReturnLocked(t)
     PROVE  ListInv'
  BY <1>21, ListFrame DEF ReturnLocked, Unlock, Sweeping
<1>22. ASSUME NEW t \in Threads, UnlockSwept(t)
     PROVE  ListInv'
  BY <1>22, ListFrame DEF UnlockSwept, Unlock, Sweeping
<1>23. ASSUME NEW t \in Threads, Insert(t)
     PROVE  ListInv'
  <2>1. \A u \in Threads : ~Sweeping(u)
    BY <1>23, OneSweep DEF Insert, MutexInv, Sweeping
  <2>2. PICK e \in Entries \ heap : /\ next' = [next EXCEPT ![e] = head] /\ head' = e
                                  /\ table' = table \cup {e}
    BY <1>23 DEF Insert
  <2>3. UNCHANGED retired /\ \A u \in Threads : pc'[u] \notin {"sweep", "evict"}
    BY <1>23, <2>1 DEF Insert, Sweeping
  <2>4. /\ table \cap Retired = {} /\ Kept = table
        /\ \A d \in Kept : next[d] = head => head = Nil
    BY <2>1, Settled DEF Sweeping
  <2>5. e \notin table /\ e \notin Retired /\ e # Nil
    BY <2>2 DEF HomeInv
  <2>6. Kept' = Kept \cup {e}
    BY <2>2, <2>3, <2>4, <2>5 DEF Kept, Retired
  <2>7. /\ next'[e] = head /\ head \in table \cup {Nil}
        /\ \A d \in table : next'[d] = next[d] /\ next[d] \in table \cup {Nil}
    BY <2>2, <2>5 DEF ListInv
  <2>8. \A d, x \in Kept' : next'[d] = next'[x] /\ next'[d] # Nil => d = x
    BY <2>4, <2>6, <2>7 DEF ListInv
  <2>9. \E f \in [Entries -> Nat] : \A d \in Kept' : next'[d] # Nil => f[next'[d]] < f[d]
    <3>1. PICK f \in [Entries -> Nat] : \A d \in Kept : next[d] # Nil => f[next[d]] < f[d]
      BY DEF ListInv
    <3> DEFINE g == [f EXCEPT ![e] = IF head = Nil THEN 0 ELSE f[head] + 1]
    <3>2. g \in [Entries -> Nat]
      BY <2>7, <3>1
    <3>3. \A d \in Kept' : next'[d] # Nil => g[next'[d]] < g[d]
      <4>1. SUFFICES ASSUME NEW d \in Kept', next'[d] # Nil PROVE g[next'[d]] < g[d]
        OBVIOUS
      <4>2. CASE d = e
        BY <2>2, <2>5, <2>7, <3>1, <4>1, <4>2
      <4>3. CASE d # e
        <5>1. d \in Kept /\ next'[d] = next[d] /\ next[d] \in table
          BY <2>4, <2>6, <2>7, <4>1, <4>3
        <5>2. g[d] = f[d] /\ g[next[d]] = f[next[d]]
          BY <2>2, <2>5, <3>1, <4>3, <5>1
        <5>3. QED
          BY <3>1, <4>1, <5>1, <5>2
      <4>4. QED
        BY <4>2, <4>3
    <3>4. QED
      BY <3>2, <3>3
  <2>10. \A u \in Threads : ~Sweeping(u)' /\ pc'[u] # "evict"
    BY <2>3 DEF Sweeping
  <2>11. \A d \in Kept' : next'[d] # head'
    BY <2>2, <2>4, <2>5, <2>6, <2>7
  <2>12. head' \in table' \cup {Nil} /\ \A d \in table' : next'[d] \in table' \cup {Nil}
    BY <2>2, <2>7
  <2>13. \A d \in Kept' : next'[d] \in Kept' \cup {Nil}
    BY <2>4, <2>6, <2>7
  <2>14. QED
    BY <2>8, <2>9, <2>10, <2>11, <2>12, <2>13 DEF ListInv
<1>24. ASSUME NEW t \in Threads, AdvanceDeclined(t)
     PROVE  ListInv'
  <2>1. CASE op[t] = "commit"
    <3>1. pc' = [pc EXCEPT ![t] = "idle"]
      BY <1>24, <2>1, CallerType DEF AdvanceDeclined, Return
    <3>2. QED
      BY <1>24, <2>1, <3>1, ListFrame DEF AdvanceDeclined, Sweeping
  <2>2. CASE op[t] # "commit"
    <3>1. CallerOf(t) \in {"guarded", "leave"} /\ pc' = [pc EXCEPT ![t] = CallerOf(t)]
      BY <1>24, <2>2, CallerType DEF AdvanceDeclined, Return
    <3>2. QED
      BY <1>24, <2>2, <3>1, ListFrame DEF AdvanceDeclined, Sweeping
  <2>3. QED
    BY <2>1, <2>2
<1>25. ASSUME NEW t \in Threads, CloseGate(t)
     PROVE  ListInv'
  BY <1>25, ListFrame DEF CloseGate, Sweeping
<1>26. ASSUME NEW t \in Threads, LoadUsed(t)
     PROVE  ListInv'
  BY <1>26, ListFrame DEF LoadUsed, Sweeping
<1>27. ASSUME NEW t \in Threads, ScanSlot(t)
     PROVE  ListInv'
  <2>1. CASE slotEpoch[scan[t]] = Quiescent
    <3>1. scan' = [scan EXCEPT ![t] = @ + 1] /\ UNCHANGED <<pc, reclaiming, limit>>
      BY <1>27, <2>1 DEF ScanSlot
    <3>2. QED
      BY <1>27, <2>1, <3>1, ListFrame DEF ScanSlot, Sweeping
  <2>2. CASE slotEpoch[scan[t]] # Quiescent
    <3>1. /\ reclaiming' = FALSE /\ pc' = [pc EXCEPT ![t] = CallerOf(t)]
          /\ scan' = [scan EXCEPT ![t] = 0] /\ limit' = [limit EXCEPT ![t] = 0]
      BY <1>27, <2>2 DEF ScanSlot, Return
    <3>2. CASE op[t] = "commit"
      <4>1. CallerOf(t) = "idle"
        BY <3>2, CallerType
      <4>2. QED
        BY <1>27, <3>1, <3>2, <4>1, ListFrame DEF ScanSlot, Sweeping
    <3>3. CASE op[t] # "commit"
      <4>1. CallerOf(t) \in {"guarded", "leave"}
        BY <3>3, CallerType
      <4>2. QED
        BY <1>27, <3>1, <3>3, <4>1, ListFrame, SMTT(30) DEF ScanSlot, Sweeping
    <3>4. QED
      BY <3>2, <3>3
  <2>3. QED
    BY <2>1, <2>2
<1>28. ASSUME NEW t \in Threads, AdvanceEpoch(t)
     PROVE  ListInv'
  BY <1>28, ListFrame DEF AdvanceEpoch, Sweeping
<1>29. ASSUME NEW t \in Threads, TakeRetired(t)
     PROVE  ListInv'
  <2>1. \A u \in Threads : ~Sweeping(u)
    BY <1>29, OneSweep DEF TakeRetired, MutexInv, Sweeping
  <2>2. table \cap Retired = {} /\ Kept = table
    BY <2>1, Settled DEF Sweeping
  <2>3. /\ Retired' \subseteq Retired /\ UNCHANGED <<head, table, next>>
        /\ pc' = [pc EXCEPT ![t] = "free"]
    BY <1>29 DEF TakeRetired, Retired
  <2>4. Kept' = Kept
    BY <2>2, <2>3 DEF Kept
  <2>5. \A u \in Threads : ~Sweeping(u)' /\ pc[u] # "sweep"
    BY <2>1, <2>3 DEF Sweeping
  <2>6. \A u \in Threads : pc'[u] # "evict"
    BY <2>5 DEF Sweeping
  <2>7. QED
    BY <2>3, <2>4, <2>5, <2>6, ZenonT(40) DEF ListInv
<1>30. ASSUME NEW t \in Threads, Free(t)
     PROVE  ListInv'
  BY <1>30, ListFrame DEF Free, Sweeping
<1>31. ASSUME NEW t \in Threads, endReclaim(t)
     PROVE  ListInv'
  <2>1. CASE op[t] = "commit"
    <3>1. pc' = [pc EXCEPT ![t] = "idle"]
      BY <1>31, <2>1, CallerType DEF endReclaim, Return
    <3>2. QED
      BY <1>31, <2>1, <3>1, ListFrame DEF endReclaim, Sweeping
  <2>2. CASE op[t] # "commit"
    <3>1. CallerOf(t) \in {"guarded", "leave"} /\ pc' = [pc EXCEPT ![t] = CallerOf(t)]
      BY <1>31, <2>2, CallerType DEF endReclaim, Return
    <3>2. QED
      BY <1>31, <2>2, <3>1, ListFrame DEF endReclaim, Sweeping
  <2>3. QED
    BY <2>1, <2>2
<1>32. CASE UNCHANGED vars
  BY <1>32, ListFrame DEF vars, Sweeping
<1> HIDE DEF EpochInv, TypeOK, PCs, Entering, Unlocked, Locked, Advancing, Ops,
      Epochs, Slots, NoSlot, Unset, Quiescent, epochVars, shardVars, sweepVars,
      reclaimVars, Goto, Pointers
<1>33. QED
  BY <1>1, <1>2, <1>3, <1>4, <1>5, <1>6, <1>7, <1>8, <1>9, <1>10, <1>11, <1>12,
     <1>13, <1>14, <1>15, <1>16, <1>17, <1>18, <1>19, <1>20, <1>21, <1>22, <1>23,
     <1>24, <1>25, <1>26, <1>27, <1>28, <1>29, <1>30, <1>31, <1>32 DEF Next, Step

\* What a guarded thread can reach stays allocated.
LEMMA ReachStep == EpochInv /\ [Next]_vars => ReachInv'
<1> SUFFICES ASSUME EpochInv, [Next]_vars
             PROVE  ReachInv'
  OBVIOUS
<1> USE ConntrackEpochAssumption DEF EpochInv, TypeOK, PCs, Entering, Unlocked,
      Locked, Advancing, Ops, Epochs, Slots, NoSlot, Unset, Quiescent, epochVars,
      shardVars, sweepVars, reclaimVars, Goto, Pointers
<1>1. ASSUME NEW t \in Threads, slotForThread(t)
     PROVE  ReachInv'
  <2>1. CASE slotOf[t] # Unset
    <3>1. UNCHANGED <<used, slotOf, exhausted>>
      BY <1>1, <2>1 DEF slotForThread
    <3>2. QED
      BY <1>1, <2>1, <3>1 DEF slotForThread, ReachInv, Guarded
  <2>2. CASE slotOf[t] = Unset
    <3>1. /\ used' = used + 1
          /\ slotOf' = [slotOf EXCEPT ![t] = IF used < MaxSlots THEN used ELSE NoSlot]
      BY <1>1, <2>2 DEF slotForThread
    <3>2. QED
      BY <1>1, <2>2, <3>1 DEF slotForThread, ReachInv, Guarded
  <2>3. QED
    BY <2>1, <2>2
<1>2. ASSUME NEW t \in Threads, WaitGate(t)
     PROVE  ReachInv'
  BY <1>2 DEF WaitGate, ReachInv, Guarded
<1>3. ASSUME NEW t \in Threads, LoadEpoch(t)
     PROVE  ReachInv'
  BY <1>3 DEF LoadEpoch, ReachInv, Guarded
<1>4. ASSUME NEW t \in Threads, PublishEpoch(t)
     PROVE  ReachInv'
  BY <1>4 DEF PublishEpoch, ReachInv, Guarded
<1>5. ASSUME NEW t \in Threads, CheckGate(t)
     PROVE  ReachInv'
  BY <1>5 DEF CheckGate, ReachInv, Guarded
<1>6. ASSUME NEW t \in Threads, CheckEpoch(t)
     PROVE  ReachInv'
  BY <1>6, SMTT(30) DEF CheckEpoch, ReachInv, Guarded, ListInv, Kept, HomeInv, SlotInv,
       MutexInv
<1>7. ASSUME NEW t \in Threads, Retract(t)
     PROVE  ReachInv'
  BY <1>7 DEF Retract, ReachInv, Guarded
<1>8. ASSUME NEW t \in Threads, exit(t)
     PROVE  ReachInv'
  <2>1. CASE Goto(t, "idle")
    BY <1>8, <2>1 DEF exit, ReachInv, Guarded, ListInv, Kept, HomeInv, SlotInv, MutexInv
  <2>2. CASE Goto(t, "accepted")
    BY <1>8, <2>2 DEF exit, ReachInv, Guarded, ListInv, Kept, HomeInv, SlotInv, MutexInv
  <2>3. QED
    BY <1>8, <2>1, <2>2 DEF exit
<1>9. ASSUME NEW t \in Threads, StartWalk(t)
     PROVE  ReachInv'
  BY <1>9 DEF StartWalk, ReachInv, Guarded, ListInv, Kept, HomeInv, SlotInv,
       MutexInv
<1>10. ASSUME NEW t \in Threads, WalkOn(t)
     PROVE  ReachInv'
  BY <1>10, SMTT(30) DEF WalkOn, ReachInv, Guarded, ListInv, Kept, HomeInv, SlotInv,
       MutexInv
<1>11. ASSUME NEW t \in Threads, WalkHit(t)
     PROVE  ReachInv'
  <2>1. CASE op[t] = "commit"
    <3>1. pc' = [pc EXCEPT ![t] = "idle"] /\ cur' = [cur EXCEPT ![t] = Nil]
      BY <1>11, <2>1 DEF WalkHit
    <3>2. QED
      BY <1>11, <2>1, <3>1 DEF WalkHit, ReachInv, Guarded
  <2>2. CASE op[t] # "commit"
    <3>1. pc' = [pc EXCEPT ![t] = "hold"] /\ UNCHANGED cur
      BY <1>11, <2>2 DEF WalkHit
    <3>2. QED
      BY <1>11, <2>2, <3>1 DEF WalkHit, ReachInv, Guarded
  <2>3. QED
    BY <2>1, <2>2
<1>12. ASSUME NEW t \in Threads, WalkMiss(t)
     PROVE  ReachInv'
  <2>1. CASE mutex = t
    <3>1. StartSweep(t)
      BY <1>12, <2>1 DEF WalkMiss
    <3>2. QED
      BY <1>12, <2>1, <3>1 DEF WalkMiss, StartSweep, ReachInv, Guarded, ListInv, Kept, HomeInv, SlotInv, MutexInv
  <2>2. CASE mutex # t
    <3>1. /\ cur' = [cur EXCEPT ![t] = Nil] /\ pc' = [pc EXCEPT ![t] = "miss"]
          /\ UNCHANGED <<retireEpoch, newHead, prev>>
      BY <1>12, <2>2 DEF WalkMiss
    <3>2. QED
      BY <1>12, <2>2, <3>1 DEF WalkMiss, ReachInv, Guarded, ListInv, Kept, HomeInv, SlotInv, MutexInv
  <2>3. QED
    BY <2>1, <2>2
<1>13. ASSUME NEW t \in Threads, Release(t)
     PROVE  ReachInv'
  BY <1>13 DEF Release, ReachInv, Guarded
<1>14. ASSUME NEW t \in Threads, Lock(t)
     PROVE  ReachInv'
  <2>1. cur[t] = Nil /\ UNCHANGED <<cur, table, seen, heap, next, slotOf>> /\ mutex = Nobody /\ mutex' = t
    BY <1>14 DEF Lock, ReachInv
  <2>2. \A u \in Threads : Guarded(u)' => Guarded(u)
    <3>1. CASE pc[t] = "miss"
      BY <1>14, <3>1 DEF Lock, Guarded
    <3>2. CASE pc[t] = "accepted"
      BY <1>14, <3>2 DEF Lock, Guarded
    <3>3. QED
      BY <1>14, <3>1, <3>2 DEF Lock
  <2>3. \A u \in Threads : pc'[u] # pc[u] => u = t
    BY <1>14 DEF Lock
  <2>4. QED
    BY <2>1, <2>2, <2>3 DEF ReachInv
<1>15. ASSUME NEW t \in Threads, maybeHotSweep(t)
     PROVE  ReachInv'
  <2>1. CASE op' = [op EXCEPT ![t] = "inspect"]
             /\ UNCHANGED <<mutex, pc, cur, retireEpoch, newHead, prev>>
    BY <1>15, <2>1, SMTT(30) DEF maybeHotSweep, ReachInv, Guarded, ListInv, Kept, HomeInv, SlotInv, MutexInv
  <2>2. CASE mutex = Nobody /\ mutex' = t /\ StartSweep(t) /\ UNCHANGED op
    BY <1>15, <2>2 DEF maybeHotSweep, StartSweep, ReachInv, Guarded, ListInv, Kept, HomeInv, SlotInv, MutexInv
  <2>3. QED
    BY <1>15, <2>1, <2>2 DEF maybeHotSweep
<1>16. ASSUME NEW t \in Threads, SweepRetire(t)
     PROVE  ReachInv'
  <2>1. /\ cur[t] \in Kept /\ next[cur[t]] \in table \cup {Nil} /\ Kept \subseteq table
        /\ mutex = t
    BY <1>16 DEF SweepRetire, ListInv, Sweeping, Kept, MutexInv
  <2>2. \A e \in Entries : next'[e] = next[e] \/ next'[e] = next[cur[t]]
    BY <1>16 DEF SweepRetire, Unlink
  <2>3. table' \subseteq table /\ UNCHANGED <<heap, seen, slotOf, op, mutex>>
    BY <1>16, <2>1 DEF SweepRetire
  <2>4. \A u \in Threads : Guarded(u)' => Guarded(u)
    BY <1>16 DEF SweepRetire, Guarded
  <2>5. \A u \in Threads : u # t => cur'[u] = cur[u] /\ pc'[u] = pc[u]
    BY <1>16 DEF SweepRetire
  <2>6. cur'[t] = next[cur[t]] /\ table' = table
    BY <1>16 DEF SweepRetire
  <2>7. \A u \in Threads : Guarded(u) /\ slotOf[u] # NoSlot =>
          /\ table' \subseteq seen'[u] /\ seen'[u] \subseteq heap'
          /\ \A e \in seen'[u] : next'[e] \in seen'[u] \cup {Nil}
          /\ cur'[u] \in seen'[u] \cup {Nil}
    BY <2>1, <2>2, <2>3, <2>5, <2>6 DEF ReachInv
  <2>8. QED
    BY <1>16, <2>1, <2>3, <2>4, <2>5, <2>6, <2>7 DEF SweepRetire, ReachInv
<1>17. ASSUME NEW t \in Threads, SweepKeep(t)
     PROVE  ReachInv'
  BY <1>17 DEF SweepKeep, ReachInv, Guarded, ListInv, Kept, HomeInv, SlotInv,
       MutexInv
<1>18. ASSUME NEW t \in Threads, SweepStore(t)
     PROVE  ReachInv'
  BY <1>18 DEF SweepStore, ReachInv, Guarded, ListInv, Kept, HomeInv, SlotInv,
       MutexInv
<1>19. ASSUME NEW t \in Threads, StartEvict(t)
     PROVE  ReachInv'
  BY <1>19 DEF StartEvict, ReachInv, Guarded, ListInv, Kept, HomeInv, SlotInv,
       MutexInv
<1>20. ASSUME NEW t \in Threads, evictOneLocked(t)
     PROVE  ReachInv'
  <2>1. /\ cur[t] \in Kept /\ next[cur[t]] \in table \cup {Nil} /\ Kept \subseteq table
        /\ mutex = t
    BY <1>20 DEF evictOneLocked, ListInv, Sweeping, Kept, MutexInv
  <2>2. \A e \in Entries : next'[e] = next[e] \/ next'[e] = next[cur[t]]
    BY <1>20 DEF evictOneLocked, Unlink
  <2>3. table' \subseteq table /\ UNCHANGED <<heap, seen, slotOf, op, mutex>>
    BY <1>20, <2>1 DEF evictOneLocked
  <2>4. \A u \in Threads : Guarded(u)' => Guarded(u)
    BY <1>20 DEF evictOneLocked, Guarded
  <2>5. \A u \in Threads : u # t => cur'[u] = cur[u] /\ pc'[u] = pc[u]
    BY <1>20 DEF evictOneLocked
  <2>6. cur'[t] = Nil
    BY <1>20 DEF evictOneLocked
  <2>7. \A u \in Threads : Guarded(u) /\ slotOf[u] # NoSlot =>
          /\ table' \subseteq seen'[u] /\ seen'[u] \subseteq heap'
          /\ \A e \in seen'[u] : next'[e] \in seen'[u] \cup {Nil}
          /\ cur'[u] \in seen'[u] \cup {Nil}
    BY <2>1, <2>2, <2>3, <2>5, <2>6 DEF ReachInv
  <2>8. QED
    BY <1>20, <2>1, <2>3, <2>4, <2>5, <2>6, <2>7 DEF evictOneLocked, ReachInv
<1>21. ASSUME NEW t \in Threads, ReturnLocked(t)
     PROVE  ReachInv'
  BY <1>21 DEF ReturnLocked, Unlock, ReachInv, Guarded
<1>22. ASSUME NEW t \in Threads, UnlockSwept(t)
     PROVE  ReachInv'
  BY <1>22 DEF UnlockSwept, Unlock, ReachInv, Guarded
<1>23. ASSUME NEW t \in Threads, Insert(t)
     PROVE  ReachInv'
  BY <1>23, SMTT(30) DEF Insert, Unlock, ReachInv, Guarded, ListInv, Kept, HomeInv, SlotInv,
       MutexInv
<1>24. ASSUME NEW t \in Threads, AdvanceDeclined(t)
     PROVE  ReachInv'
  <2>1. CASE op[t] = "commit"
    <3>1. pc' = [pc EXCEPT ![t] = "idle"]
      BY <1>24, <2>1, CallerType DEF AdvanceDeclined, Return
    <3>2. QED
      BY <1>24, <2>1, <3>1 DEF AdvanceDeclined, ReachInv, Guarded
  <2>2. CASE op[t] # "commit"
    <3>1. CallerOf(t) \in {"guarded", "leave"} /\ pc' = [pc EXCEPT ![t] = CallerOf(t)]
      BY <1>24, <2>2, CallerType DEF AdvanceDeclined, Return
    <3>2. QED
      BY <1>24, <2>2, <3>1 DEF AdvanceDeclined, ReachInv, Guarded
  <2>3. QED
    BY <2>1, <2>2
<1>25. ASSUME NEW t \in Threads, CloseGate(t)
     PROVE  ReachInv'
  BY <1>25 DEF CloseGate, ReachInv, Guarded
<1>26. ASSUME NEW t \in Threads, LoadUsed(t)
     PROVE  ReachInv'
  BY <1>26 DEF LoadUsed, ReachInv, Guarded
<1>27. ASSUME NEW t \in Threads, ScanSlot(t)
     PROVE  ReachInv'
  <2>1. CASE slotEpoch[scan[t]] = Quiescent
    <3>1. scan' = [scan EXCEPT ![t] = @ + 1] /\ UNCHANGED <<pc, reclaiming, limit>>
      BY <1>27, <2>1 DEF ScanSlot
    <3>2. QED
      BY <1>27, <2>1, <3>1 DEF ScanSlot, ReachInv, Guarded
  <2>2. CASE slotEpoch[scan[t]] # Quiescent
    <3>1. /\ reclaiming' = FALSE /\ pc' = [pc EXCEPT ![t] = CallerOf(t)]
          /\ scan' = [scan EXCEPT ![t] = 0] /\ limit' = [limit EXCEPT ![t] = 0]
      BY <1>27, <2>2 DEF ScanSlot, Return
    <3>2. CASE op[t] = "commit"
      <4>1. CallerOf(t) = "idle"
        BY <3>2, CallerType
      <4>2. QED
        BY <1>27, <3>1, <3>2, <4>1 DEF ScanSlot, ReachInv, Guarded
    <3>3. CASE op[t] # "commit"
      <4>1. CallerOf(t) \in {"guarded", "leave"}
        BY <3>3, CallerType
      <4>2. QED
        BY <1>27, <3>1, <3>3, <4>1 DEF ScanSlot, ReachInv, Guarded
    <3>4. QED
      BY <3>2, <3>3
  <2>3. QED
    BY <2>1, <2>2
<1>28. ASSUME NEW t \in Threads, AdvanceEpoch(t)
     PROVE  ReachInv'
  BY <1>28 DEF AdvanceEpoch, ReachInv, Guarded
<1>29. ASSUME NEW t \in Threads, TakeRetired(t)
     PROVE  ReachInv'
  BY <1>29 DEF TakeRetired, ReclaimEpoch, ReachInv, Guarded
<1>30. ASSUME NEW t \in Threads, Free(t)
     PROVE  ReachInv'
  BY <1>30 DEF Free, ReachInv, Guarded, GateInv, Protected, SlotInv
<1>31. ASSUME NEW t \in Threads, endReclaim(t)
     PROVE  ReachInv'
  <2>1. CASE op[t] = "commit"
    <3>1. pc' = [pc EXCEPT ![t] = "idle"]
      BY <1>31, <2>1, CallerType DEF endReclaim, Return
    <3>2. QED
      BY <1>31, <2>1, <3>1 DEF endReclaim, ReachInv, Guarded
  <2>2. CASE op[t] # "commit"
    <3>1. CallerOf(t) \in {"guarded", "leave"} /\ pc' = [pc EXCEPT ![t] = CallerOf(t)]
      BY <1>31, <2>2, CallerType DEF endReclaim, Return
    <3>2. QED
      BY <1>31, <2>2, <3>1 DEF endReclaim, ReachInv, Guarded
  <2>3. QED
    BY <2>1, <2>2
<1>32. CASE UNCHANGED vars
  BY <1>32 DEF vars, ReachInv, Guarded
<1> HIDE DEF EpochInv, TypeOK, PCs, Entering, Unlocked, Locked, Advancing, Ops,
      Epochs, Slots, NoSlot, Unset, Quiescent, epochVars, shardVars, sweepVars,
      reclaimVars, Goto, Pointers
<1>33. QED
  BY <1>1, <1>2, <1>3, <1>4, <1>5, <1>6, <1>7, <1>8, <1>9, <1>10, <1>11, <1>12,
     <1>13, <1>14, <1>15, <1>16, <1>17, <1>18, <1>19, <1>20, <1>21, <1>22, <1>23,
     <1>24, <1>25, <1>26, <1>27, <1>28, <1>29, <1>30, <1>31, <1>32 DEF Next, Step

\* The invariant holds initially.
LEMMA EpochInit == Init => EpochInv
<1> SUFFICES ASSUME Init PROVE EpochInv
  OBVIOUS
<1> USE ConntrackEpochAssumption DEF Init, Epochs, Slots, Unset, NoSlot, Pointers, Kept, Retired
<1>1. TypeOK
  <2>1. slotEpoch \in [Slots -> Epochs \cup {Quiescent}]
    BY DEF Quiescent
  <2>2. slotOf \in [Threads -> Slots \cup {NoSlot, Unset}] /\ retired \in [Epochs -> SUBSET Entries]
    OBVIOUS
  <2>3. pc \in [Threads -> PCs] /\ op \in [Threads -> Ops]
    BY DEF PCs, Ops
  <2>4. /\ mutex \in Threads \cup {Nobody} /\ next \in [Entries -> Pointers]
        /\ toFree \in [Threads -> SUBSET Entries] /\ seen \in [Threads -> SUBSET Entries]
    OBVIOUS
  <2>5. global \in Epochs /\ used \in Nat
    OBVIOUS
  <2>8. /\ reclaiming \in BOOLEAN /\ exhausted \in BOOLEAN
        /\ head \in Pointers /\ heap \in SUBSET Entries /\ table \in SUBSET Entries
    BY Zenon
  <2>6. /\ cur \in [Threads -> Pointers] /\ prev \in [Threads -> Pointers]
        /\ newHead \in [Threads -> Pointers]
    OBVIOUS
  <2>7. /\ retireEpoch \in [Threads -> Epochs] /\ didRetire \in [Threads -> BOOLEAN]
        /\ observed \in [Threads -> Epochs]
        /\ limit \in [Threads -> Nat] /\ scan \in [Threads -> Nat]
    OBVIOUS
  <2> HIDE DEF Init
  <2>9. QED
    BY <2>1, <2>2, <2>3, <2>4, <2>5, <2>6, <2>7, <2>8 DEF TypeOK
<1>2. SlotInv /\ GateInv /\ MutexInv
  BY DEF SlotInv, GateInv, MutexInv, Entering, Locked, Guarded, Protected, Reclaimer, Unlocked, Advancing
<1>3. HomeInv
  BY DEF HomeInv
<1>4. ListInv
  <2>1. [e \in Entries |-> 0] \in [Entries -> Nat]
    OBVIOUS
  <2>2. Kept = {}
    OBVIOUS
  <2>3. \E f \in [Entries -> Nat] : \A e \in Kept : next[e] # Nil => f[next[e]] < f[e]
    BY <2>1, <2>2
  <2> HIDE DEF Kept
  <2>4. QED
    BY <2>2, <2>3 DEF ListInv, Sweeping
<1>5. ReachInv
  BY DEF ReachInv, Guarded, Unlocked, Locked, Advancing
<1>6. QED
  BY <1>1, <1>2, <1>3, <1>4, <1>5 DEF EpochInv

\* EpochInv is an invariant of the reclamation protocol.
THEOREM ReclamationInvariant == Spec => []EpochInv
<1>1. EpochInv /\ [Next]_vars => EpochInv'
  BY TypeStep, SlotStep, MutexStep, GateStep, HomeStep, ListStep, ReachStep DEF EpochInv
<1>2. QED
  BY <1>1, EpochInit, PTL DEF Spec

\* Types, for any number of threads, slots and entries.
THEOREM ReclamationTypes == Spec => []TypeOK
  BY ReclamationInvariant, PTL DEF EpochInv

\* No thread with a registered slot, and no holder of the shard mutex, stands on an
\* entry that maybeAdvanceAndReclaim has deleted.
THEOREM WalkersNeverSeeFreedEntries == Spec => []NoUseAfterFree
<1>1. EpochInv => NoUseAfterFree
  <2> SUFFICES ASSUME EpochInv, NEW t \in Threads, slotOf[t] # NoSlot \/ mutex = t
               PROVE  cur[t] \in heap \cup {Nil}
    BY DEF NoUseAfterFree
  <2>1. table \subseteq heap
    BY DEF EpochInv, HomeInv
  <2>2. CASE mutex = t
    BY <2>1, <2>2 DEF EpochInv, ReachInv
  <2>3. CASE mutex # t /\ pc[t] \in {"walk", "hold"}
    <3>1. Guarded(t)
      BY <2>3 DEF EpochInv, MutexInv, SlotInv, Guarded, Unlocked
    <3>2. QED
      BY <2>3, <3>1 DEF EpochInv, ReachInv
  <2>4. CASE mutex # t /\ pc[t] \notin {"walk", "hold"}
    BY <2>4 DEF EpochInv, ReachInv, MutexInv, Locked
  <2>5. QED
    BY <2>2, <2>3, <2>4
<1>2. QED
  BY <1>1, ReclamationInvariant, PTL

\* The gate that beginAdvanceForReclaim closes shuts every registered reader out of
\* the window in which retired lists are detached and deleted.
THEOREM ReclaimWindowHasNoReaders == Spec => []GateExcludesReaders
<1>1. EpochInv => GateExcludesReaders
  BY ConntrackEpochAssumption
     DEF EpochInv, GateInv, SlotInv, TypeOK, GateExcludesReaders, Protected, Slots, NoSlot, Unset
<1>2. QED
  BY <1>1, ReclamationInvariant, PTL

\* Every allocated entry is in exactly one of the table, the three retired lists and
\* the list under deletion.
THEOREM EntriesHaveOneHome == Spec => []OneHome
<1>1. EpochInv => OneHome
  <2> SUFFICES ASSUME EpochInv PROVE OneHome
    OBVIOUS
  <2>1. \A t, u \in Threads : t # u => toFree[t] \cap toFree[u] = {}
    BY DEF EpochInv, HomeInv, GateInv, Reclaimer
  <2>2. mutex = Nobody => \A t \in Threads : pc[t] # "sweep"
    BY ConntrackEpochAssumption DEF EpochInv, MutexInv, Locked
  <2>3. QED
    BY <2>1, <2>2 DEF EpochInv, HomeInv, OneHome
<1>2. QED
  BY <1>1, ReclamationInvariant, PTL

\* With the shard mutex free, a walk from the bucket meets unretired entries only.
THEOREM WalksMeetLiveEntries == Spec => []RetiredUnreachable
<1>1. EpochInv => RetiredUnreachable
  <2> SUFFICES ASSUME EpochInv, mutex = Nobody PROVE RetiredUnreachable
    BY DEF RetiredUnreachable
  <2>1. \A t \in Threads : pc[t] # "sweep"
    BY ConntrackEpochAssumption DEF EpochInv, MutexInv, Locked
  <2>2. Kept = table
    BY <2>1, Settled
  <2>3. QED
    BY <2>2 DEF EpochInv, ListInv, RetiredUnreachable
<1>2. QED
  BY <1>1, ReclamationInvariant, PTL
====
