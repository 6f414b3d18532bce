------------------------------ MODULE ConntrackEpoch ------------------------------
(***************************************************************************)
(* Memory reclamation of the connection tracker (Conntrack.cpp; ImplV4 and *)
(* ImplV6 hold the same code).  Packet threads walk a bucket's list of     *)
(* entries without a lock, inside an epoch guard; entries are linked and   *)
(* unlinked under the shard mutex, parked in one of three retired lists,   *)
(* and freed by a thread that closed the reclaim gate and found every      *)
(* registered reader slot quiescent.                                       *)
(*                                                                         *)
(* One bucket of one shard is modelled, with its pointers: head, next and  *)
(* the retired lists.  Every load and store another thread can see is a    *)
(* step.  Keys and times are abstracted: whether an entry matches, has     *)
(* expired or may be evicted is chosen at each visit, and a sweep's budget *)
(* may end at any entry.                                                   *)
(***************************************************************************)
EXTENDS Naturals, FiniteSets

CONSTANTS
    Threads,        \* packet threads
    Entries,        \* heap cells: addresses that an Entry can have
    Nil,            \* nullptr, as an entry pointer
    Nobody,         \* nobody holds the shard mutex
    MaxSlots        \* Epoch::kMaxSlots

ASSUME ConntrackEpochAssumption ==
    /\ MaxSlots \in Nat
    /\ Nil \notin Entries
    /\ Nobody \notin Threads

Epochs == 0 .. 2
Slots == 0 .. MaxSlots - 1
Quiescent == 255        \* Epoch::kQuiescent
Unset == MaxSlots + 1   \* the thread has not called slotForThread
NoSlot == MaxSlots      \* slotForThread returned nullptr

VARIABLES
    \* Epoch
    global, reclaiming, exhausted, used, slotEpoch, slotOf,
    \* the shard: its mutex, its bucket and its retired lists
    mutex, head, next, retired,
    heap,           \* allocated entries
    \* per thread
    pc, op,         \* where the thread is, in which of the three functions
    cur, prev,      \* list cursors
    newHead,        \* sweepLocked's local copy of the bucket head
    retireEpoch, didRetire, observed, limit, scan,
    toFree,         \* the detached retired list the thread is deleting
    \* history
    table,          \* entries inserted and not yet behind a bucket store that drops them
    seen            \* entries in the table at some moment of the thread's guard

epochVars == <<global, reclaiming, exhausted, used, slotEpoch, slotOf>>
shardVars == <<mutex, head, next, retired, heap, table>>
sweepVars == <<newHead, retireEpoch, didRetire, prev>>
reclaimVars == <<limit, scan, toFree>>
vars == <<global, reclaiming, exhausted, used, slotEpoch, slotOf,
          mutex, head, next, retired, heap, pc, op, cur, prev, newHead,
          retireEpoch, didRetire, observed, limit, scan, toFree, table, seen>>

Pointers == Entries \cup {Nil}
Retired == UNION {retired[g] : g \in Epochs}
\* The thread has not unlinked these, or nobody has.
Kept == table \ Retired

Entering == {"gate", "load", "publish", "checkGate", "checkEpoch", "retract"}
Unlocked == {"guarded", "walk", "miss", "hold", "leave"}
Locked == {"locked", "sweep", "swept", "evict", "insert"}
Advancing == {"advance", "used", "scan", "take", "free"}
PCs == {"idle", "accepted"} \cup Entering \cup Unlocked \cup Locked \cup Advancing

\* enter() returned and exit() has not run: the thread may hold entry pointers.
Guarded(t) ==
    /\ pc[t] \in Unlocked \cup Locked \cup Advancing
    /\ op[t] # "commit"

Init ==
    /\ global = 0 /\ reclaiming = FALSE /\ exhausted = FALSE /\ used = 0
    /\ slotEpoch = [i \in Slots |-> Quiescent]
    /\ slotOf = [t \in Threads |-> Unset]
    /\ mutex = Nobody /\ head = Nil
    /\ next = [e \in Entries |-> Nil]
    /\ retired = [g \in Epochs |-> {}]
    /\ heap = {} /\ table = {}
    /\ pc = [t \in Threads |-> "idle"]
    /\ op = [t \in Threads |-> "inspect"]
    /\ cur = [t \in Threads |-> Nil]
    /\ prev = [t \in Threads |-> Nil]
    /\ newHead = [t \in Threads |-> Nil]
    /\ retireEpoch = [t \in Threads |-> 0]
    /\ didRetire = [t \in Threads |-> FALSE]
    /\ observed = [t \in Threads |-> 0]
    /\ limit = [t \in Threads |-> 0]
    /\ scan = [t \in Threads |-> 0]
    /\ toFree = [t \in Threads |-> {}]
    /\ seen = [t \in Threads |-> {}]

Goto(t, l) == pc' = [pc EXCEPT ![t] = l]

\* The lock_guard's destructor; the locals of the locked block die with it.
Unlock(t) ==
    /\ mutex' = Nobody
    /\ retireEpoch' = [retireEpoch EXCEPT ![t] = 0]
    /\ newHead' = [newHead EXCEPT ![t] = Nil]
    /\ prev' = [prev EXCEPT ![t] = Nil]

-----------------------------------------------------------------------------
(* Epoch::slotForThread and Epoch::enter *)

\* A guarded function starts: the thread's first call registers a slot, or finds
\* the slots exhausted and goes on without one (enter(nullptr) returns at once).
slotForThread(t) ==
    /\ pc[t] \in {"idle", "accepted"}
    /\ \E o \in {"hot", "observe"} : op' = [op EXCEPT ![t] = o]
    /\ didRetire' = [didRetire EXCEPT ![t] = FALSE]
    /\ \/ /\ slotOf[t] # Unset
          /\ UNCHANGED <<used, slotOf, exhausted>>
       \/ /\ slotOf[t] = Unset
          /\ used' = used + 1
          /\ slotOf' = [slotOf EXCEPT ![t] = IF used < MaxSlots THEN used ELSE NoSlot]
          /\ exhausted' = IF used < MaxSlots THEN exhausted ELSE TRUE
    /\ Goto(t, IF slotOf'[t] = NoSlot THEN "guarded" ELSE "gate")
    /\ UNCHANGED <<global, reclaiming, slotEpoch, shardVars, cur, newHead, retireEpoch,
                   prev, observed, reclaimVars, seen>>

\* while (reclaiming) {}
WaitGate(t) ==
    /\ pc[t] = "gate" /\ ~reclaiming
    /\ Goto(t, "load")
    /\ UNCHANGED <<epochVars, shardVars, op, cur, sweepVars, observed, reclaimVars, seen>>

LoadEpoch(t) ==
    /\ pc[t] = "load"
    /\ observed' = [observed EXCEPT ![t] = global]
    /\ Goto(t, "publish")
    /\ UNCHANGED <<epochVars, shardVars, op, cur, sweepVars, reclaimVars, seen>>

PublishEpoch(t) ==
    /\ pc[t] = "publish"
    /\ slotEpoch' = [slotEpoch EXCEPT ![slotOf[t]] = observed[t]]
    /\ Goto(t, "checkGate")
    /\ UNCHANGED <<global, reclaiming, exhausted, used, slotOf, shardVars, op, cur,
                   sweepVars, observed, reclaimVars, seen>>

\* The second look at the gate, after the slot is published.
CheckGate(t) ==
    /\ pc[t] = "checkGate"
    /\ Goto(t, IF reclaiming THEN "retract" ELSE "checkEpoch")
    /\ UNCHANGED <<epochVars, shardVars, op, cur, sweepVars, observed, reclaimVars, seen>>

\* global == observed: enter() returns; otherwise the slot is withdrawn.
CheckEpoch(t) ==
    /\ pc[t] = "checkEpoch"
    /\ Goto(t, IF global = observed[t] THEN "guarded" ELSE "retract")
    /\ seen' = [seen EXCEPT ![t] = IF global = observed[t] THEN table ELSE {}]
    /\ observed' = [observed EXCEPT ![t] = 0]
    /\ UNCHANGED <<epochVars, shardVars, op, cur, sweepVars, reclaimVars>>

Retract(t) ==
    /\ pc[t] = "retract"
    /\ slotEpoch' = [slotEpoch EXCEPT ![slotOf[t]] = Quiescent]
    /\ Goto(t, "gate")
    /\ UNCHANGED <<global, reclaiming, exhausted, used, slotOf, shardVars, op, cur,
                   sweepVars, observed, reclaimVars, seen>>

\* The guard's destructor: exit(slot).  A packet that inspectForPolicy found NEW may
\* be accepted next; anything else ends here.
exit(t) ==
    /\ pc[t] = "leave"
    /\ slotEpoch' = IF slotOf[t] = NoSlot THEN slotEpoch
                    ELSE [slotEpoch EXCEPT ![slotOf[t]] = Quiescent]
    /\ \/ Goto(t, "idle")
       \/ op[t] = "new" /\ Goto(t, "accepted")
    /\ cur' = [cur EXCEPT ![t] = Nil]
    /\ seen' = [seen EXCEPT ![t] = {}]
    /\ UNCHANGED <<global, reclaiming, exhausted, used, slotOf, shardVars, op,
                   sweepVars, observed, reclaimVars>>

-----------------------------------------------------------------------------
(* The bucket walk, lock-free under the guard and again under the mutex. *)

\* The bucket's head is loaded.
StartWalk(t) ==
    /\ pc[t] = "locked" \/ (pc[t] = "guarded" /\ op[t] # "hot")
    /\ cur' = [cur EXCEPT ![t] = head]
    /\ Goto(t, "walk")
    /\ UNCHANGED <<epochVars, shardVars, op, sweepVars, observed, reclaimVars, seen>>

\* cur is not the flow: follow cur->next.
WalkOn(t) ==
    /\ pc[t] = "walk" /\ cur[t] # Nil
    /\ cur' = [cur EXCEPT ![t] = next[cur[t]]]
    /\ UNCHANGED <<epochVars, shardVars, pc, op, sweepVars, observed, reclaimVars, seen>>

\* cur is the flow and is live: its user keeps the pointer and drops the mutex, if
\* it holds it.  commitAccepted returns.
WalkHit(t) ==
    /\ pc[t] = "walk" /\ cur[t] # Nil
    /\ mutex' = IF mutex = t THEN Nobody ELSE mutex
    /\ IF op[t] = "commit"
       THEN Goto(t, "idle") /\ cur' = [cur EXCEPT ![t] = Nil]
       ELSE Goto(t, "hold") /\ UNCHANGED cur
    /\ UNCHANGED <<epochVars, head, next, retired, heap, table, op, sweepVars,
                   observed, reclaimVars, seen>>

\* retireEpoch = epoch.current(), and sweepLocked starts at the bucket's head.
StartSweep(t) ==
    /\ retireEpoch' = [retireEpoch EXCEPT ![t] = global]
    /\ newHead' = [newHead EXCEPT ![t] = head]
    /\ prev' = [prev EXCEPT ![t] = Nil]
    /\ cur' = [cur EXCEPT ![t] = head]
    /\ Goto(t, "sweep")

\* The end of the list, or an expired match: the lock-free walk goes for the mutex,
\* the one under the mutex starts the sweep.
WalkMiss(t) ==
    /\ pc[t] = "walk"
    /\ \/ /\ mutex = t
          /\ StartSweep(t)
       \/ /\ mutex # t
          /\ cur' = [cur EXCEPT ![t] = Nil]
          /\ Goto(t, "miss")
          /\ UNCHANGED <<retireEpoch, newHead, prev>>
    /\ UNCHANGED <<epochVars, shardVars, op, didRetire, observed, reclaimVars, seen>>

\* The user of a found entry is done with it.
Release(t) ==
    /\ pc[t] = "hold"
    /\ cur' = [cur EXCEPT ![t] = Nil]
    /\ Goto(t, IF didRetire[t] THEN "advance" ELSE "leave")
    /\ UNCHANGED <<epochVars, shardVars, op, sweepVars, observed, reclaimVars, seen>>

\* The create path of a guarded function, and commitAccepted, take the shard mutex.
Lock(t) ==
    /\ pc[t] \in {"miss", "accepted"}
    /\ mutex = Nobody
    /\ mutex' = t
    /\ op' = [op EXCEPT ![t] = IF pc[t] = "accepted" THEN "commit" ELSE @]
    /\ Goto(t, "locked")
    /\ UNCHANGED <<epochVars, head, next, retired, heap, table, cur, sweepVars,
                   observed, reclaimVars, seen>>

\* maybeHotSweep: skipped inside its interval or when try_lock fails.
maybeHotSweep(t) ==
    /\ pc[t] = "guarded" /\ op[t] = "hot"
    /\ \/ /\ op' = [op EXCEPT ![t] = "inspect"]
          /\ UNCHANGED <<mutex, pc, cur, retireEpoch, newHead, prev>>
       \/ /\ mutex = Nobody
          /\ mutex' = t
          /\ StartSweep(t)
          /\ UNCHANGED op
    /\ UNCHANGED <<epochVars, head, next, retired, heap, table, didRetire, observed,
                   reclaimVars, seen>>

-----------------------------------------------------------------------------
(* sweepLocked and evictOneLocked, under the mutex *)

\* cur leaves the list by its predecessor's next, or by the local copy of the head,
\* and goes into the retired list of the epoch loaded before the walk.
Unlink(t) ==
    /\ IF prev[t] = Nil
       THEN /\ newHead' = [newHead EXCEPT ![t] = next[cur[t]]]
            /\ UNCHANGED next
       ELSE /\ next' = [next EXCEPT ![prev[t]] = next[cur[t]]]
            /\ UNCHANGED newHead
    /\ retired' = [retired EXCEPT ![retireEpoch[t]] = @ \cup {cur[t]}]
    /\ didRetire' = [didRetire EXCEPT ![t] = TRUE]

\* cur has expired: unlink and retire it, and visit the next one.
SweepRetire(t) ==
    /\ pc[t] = "sweep" /\ cur[t] # Nil
    /\ Unlink(t)
    /\ cur' = [cur EXCEPT ![t] = next[cur[t]]]
    /\ UNCHANGED <<epochVars, mutex, head, heap, table, pc, op, prev, retireEpoch,
                   observed, reclaimVars, seen>>

\* cur stays (not expired, or no eviction candidate).
SweepKeep(t) ==
    /\ pc[t] \in {"sweep", "evict"} /\ cur[t] # Nil
    /\ prev' = [prev EXCEPT ![t] = cur[t]]
    /\ cur' = [cur EXCEPT ![t] = next[cur[t]]]
    /\ UNCHANGED <<epochVars, shardVars, pc, op, newHead, retireEpoch, didRetire,
                   observed, reclaimVars, seen>>

\* Mutant: the bucket keeps pointing at an unlinked first entry.
SweepStoreForgotten(t) ==
    /\ pc[t] = "sweep"
    /\ table' = Kept
    /\ cur' = [cur EXCEPT ![t] = Nil]
    /\ newHead' = [newHead EXCEPT ![t] = Nil]
    /\ prev' = [prev EXCEPT ![t] = Nil]
    /\ Goto(t, "swept")
    /\ UNCHANGED <<epochVars, mutex, head, next, retired, heap, op, retireEpoch,
                   didRetire, observed, reclaimVars, seen>>

\* The end of the list or of the budget: the bucket's head is stored.
SweepStore(t) ==
    /\ pc[t] = "sweep"
    /\ head' = newHead[t]
    /\ table' = Kept
    /\ cur' = [cur EXCEPT ![t] = Nil]
    /\ newHead' = [newHead EXCEPT ![t] = Nil]
    /\ prev' = [prev EXCEPT ![t] = Nil]
    /\ Goto(t, "swept")
    /\ UNCHANGED <<epochVars, mutex, next, retired, heap, op, retireEpoch, didRetire, observed,
                   reclaimVars, seen>>

\* observeFlowTelemetry at its cap looks for an exported flow to evict.
StartEvict(t) ==
    /\ pc[t] = "swept" /\ op[t] = "observe"
    /\ newHead' = [newHead EXCEPT ![t] = head]
    /\ prev' = [prev EXCEPT ![t] = Nil]
    /\ cur' = [cur EXCEPT ![t] = head]
    /\ Goto(t, "evict")
    /\ UNCHANGED <<epochVars, shardVars, op, retireEpoch, didRetire, observed,
                   reclaimVars, seen>>

\* The candidate is unlinked, the bucket stored and the entry retired.
evictOneLocked(t) ==
    /\ pc[t] = "evict" /\ cur[t] # Nil
    /\ Unlink(t)
    /\ head' = newHead'[t]
    /\ table' = Kept \ {cur[t]}
    /\ cur' = [cur EXCEPT ![t] = Nil]
    /\ Goto(t, "insert")
    /\ UNCHANGED <<epochVars, mutex, heap, op, prev, retireEpoch, observed,
                   reclaimVars, seen>>

\* A function that holds the mutex returns at once (invalid packet, cap, nothing to
\* evict, no memory): the advance that didRetire asks for is skipped.
ReturnLocked(t) ==
    /\ \/ pc[t] = "swept" /\ op[t] # "hot"
       \/ pc[t] \in {"evict", "insert"}
    /\ Unlock(t)
    /\ cur' = [cur EXCEPT ![t] = Nil]
    /\ Goto(t, IF op[t] = "commit" THEN "idle" ELSE "leave")
    /\ UNCHANGED <<epochVars, head, next, retired, heap, table, op, didRetire,
                   observed, reclaimVars, seen>>

\* maybeHotSweep and inspectForPolicy's NEW verdict unlock after their sweep.
UnlockSwept(t) ==
    /\ pc[t] = "swept" /\ op[t] \in {"hot", "inspect"}
    /\ Goto(t, IF didRetire[t] THEN "advance"
               ELSE IF op[t] = "hot" THEN "guarded" ELSE "leave")
    /\ op' = [op EXCEPT ![t] = IF @ = "hot" THEN "inspect" ELSE "new"]
    /\ Unlock(t)
    /\ UNCHANGED <<epochVars, head, next, retired, heap, table, cur, didRetire,
                   observed, reclaimVars, seen>>

\* A new entry is filled in and becomes the bucket's head; the mutex is released.
Insert(t) ==
    /\ \/ pc[t] = "swept" /\ op[t] \in {"commit", "observe"}
       \/ pc[t] = "insert"
    /\ \E e \in Entries \ heap :
          /\ heap' = heap \cup {e}
          /\ next' = [next EXCEPT ![e] = head]
          /\ head' = e
          /\ table' = table \cup {e}
          /\ seen' = [u \in Threads |-> IF Guarded(u) THEN seen[u] \cup {e} ELSE seen[u]]
          /\ cur' = [cur EXCEPT ![t] = IF op[t] = "observe" THEN e ELSE Nil]
    /\ Goto(t, IF op[t] = "observe" THEN "hold"
               ELSE IF didRetire[t] THEN "advance" ELSE "idle")
    /\ Unlock(t)
    /\ UNCHANGED <<epochVars, retired, op, didRetire, observed, reclaimVars>>

-----------------------------------------------------------------------------
(* maybeAdvanceAndReclaim: Epoch::beginAdvanceForReclaim, reclaimEpochAllShards,
   Epoch::endReclaim *)

\* Where the caller goes on: the walk after the hot sweep, the end of its guard, or
\* commitAccepted's return.
CallerOf(t) == CASE op[t] = "inspect" -> "guarded"
                 [] op[t] = "commit"  -> "idle"
                 [] OTHER             -> "leave"
Return(t) == Goto(t, CallerOf(t))

\* Inside the minimum interval, slots exhausted, or the gate already closed: nothing.
AdvanceDeclined(t) ==
    /\ pc[t] = "advance"
    /\ Return(t)
    /\ didRetire' = [didRetire EXCEPT ![t] = FALSE]
    /\ UNCHANGED <<epochVars, shardVars, op, cur, newHead, retireEpoch, prev, observed,
                   reclaimVars, seen>>

\* The compare_exchange closes the gate.
CloseGate(t) ==
    /\ pc[t] = "advance"
    /\ ~exhausted /\ ~reclaiming
    /\ reclaiming' = TRUE
    /\ didRetire' = [didRetire EXCEPT ![t] = FALSE]
    /\ Goto(t, "used")
    /\ UNCHANGED <<global, exhausted, used, slotEpoch, slotOf, shardVars, op, cur,
                   newHead, retireEpoch, prev, observed, reclaimVars, seen>>

\* Mutant: the scan stops one slot short of the registered ones.
LoadUsedOneShort(t) ==
    /\ pc[t] = "used"
    /\ limit' = [limit EXCEPT ![t] = IF used = 0 THEN 0 ELSE used - 1]
    /\ scan' = [scan EXCEPT ![t] = 0]
    /\ Goto(t, "scan")
    /\ UNCHANGED <<epochVars, shardVars, op, cur, sweepVars, observed, toFree, seen>>

\* used.load(): the slots to look at.
LoadUsed(t) ==
    /\ pc[t] = "used"
    /\ limit' = [limit EXCEPT ![t] = IF used < MaxSlots THEN used ELSE MaxSlots]
    /\ scan' = [scan EXCEPT ![t] = 0]
    /\ Goto(t, "scan")
    /\ UNCHANGED <<epochVars, shardVars, op, cur, sweepVars, observed, toFree, seen>>

\* Mutant: the scan lets readers of the current epoch be, as the first version did.
ScanSlotCurrentEpoch(t) ==
    /\ pc[t] = "scan" /\ scan[t] < limit[t]
    /\ \/ /\ slotEpoch[scan[t]] \in {Quiescent, global}
          /\ scan' = [scan EXCEPT ![t] = @ + 1]
          /\ UNCHANGED <<pc, reclaiming, limit>>
       \/ /\ slotEpoch[scan[t]] \notin {Quiescent, global}
          /\ reclaiming' = FALSE
          /\ Return(t)
          /\ scan' = [scan EXCEPT ![t] = 0]
          /\ limit' = [limit EXCEPT ![t] = 0]
    /\ UNCHANGED <<global, exhausted, used, slotEpoch, slotOf, shardVars, op, cur,
                   sweepVars, observed, toFree, seen>>

\* Mutant: an attempt that meets a reader scans again instead of giving up.
ScanSlotRetries(t) ==
    /\ pc[t] = "scan" /\ scan[t] < limit[t]
    /\ scan' = [scan EXCEPT ![t] = IF slotEpoch[scan[t]] = Quiescent THEN @ + 1 ELSE 0]
    /\ UNCHANGED <<epochVars, shardVars, pc, op, cur, sweepVars, observed, limit,
                   toFree, seen>>

\* One slot is loaded: a reader in it reopens the gate and ends the attempt.
ScanSlot(t) ==
    /\ pc[t] = "scan" /\ scan[t] < limit[t]
    /\ \/ /\ slotEpoch[scan[t]] = Quiescent
          /\ scan' = [scan EXCEPT ![t] = @ + 1]
          /\ UNCHANGED <<pc, reclaiming, limit>>
       \/ /\ slotEpoch[scan[t]] # Quiescent
          /\ reclaiming' = FALSE
          /\ Return(t)
          /\ scan' = [scan EXCEPT ![t] = 0]
          /\ limit' = [limit EXCEPT ![t] = 0]
    /\ UNCHANGED <<global, exhausted, used, slotEpoch, slotOf, shardVars, op, cur,
                   sweepVars, observed, toFree, seen>>

\* Every slot was quiescent: the global epoch advances.
AdvanceEpoch(t) ==
    /\ pc[t] = "scan" /\ scan[t] = limit[t]
    /\ global' = (global + 1) % 3
    /\ scan' = [scan EXCEPT ![t] = 0]
    /\ limit' = [limit EXCEPT ![t] = 0]
    /\ Goto(t, "take")
    /\ UNCHANGED <<reclaiming, exhausted, used, slotEpoch, slotOf, shardVars, op, cur,
                   sweepVars, observed, toFree, seen>>

\* The list of the epoch two advances old.
ReclaimEpoch == (global + 1) % 3

\* Mutant: the detached list stays behind in the shard.
TakeRetiredKeepsList(t) ==
    /\ pc[t] = "take"
    /\ mutex = Nobody
    /\ toFree' = [toFree EXCEPT ![t] = retired[ReclaimEpoch]]
    /\ Goto(t, "free")
    /\ UNCHANGED <<epochVars, shardVars, op, cur, sweepVars, observed, limit, scan, seen>>

\* reclaimEpochAllShards detaches the list under the shard mutex.
TakeRetired(t) ==
    /\ pc[t] = "take"
    /\ mutex = Nobody
    /\ toFree' = [toFree EXCEPT ![t] = retired[ReclaimEpoch]]
    /\ retired' = [retired EXCEPT ![ReclaimEpoch] = {}]
    /\ Goto(t, "free")
    /\ UNCHANGED <<epochVars, mutex, head, next, heap, table, op, cur, sweepVars,
                   observed, limit, scan, seen>>

\* delete toFree
Free(t) ==
    /\ pc[t] = "free"
    /\ \E e \in toFree[t] :
          /\ heap' = heap \ {e}
          /\ toFree' = [toFree EXCEPT ![t] = @ \ {e}]
    /\ UNCHANGED <<epochVars, mutex, head, next, retired, table, pc, op, cur, sweepVars,
                   observed, limit, scan, seen>>

endReclaim(t) ==
    /\ pc[t] = "free" /\ toFree[t] = {}
    /\ reclaiming' = FALSE
    /\ Return(t)
    /\ UNCHANGED <<global, exhausted, used, slotEpoch, slotOf, shardVars, op, cur,
                   sweepVars, observed, reclaimVars, seen>>

-----------------------------------------------------------------------------

\* What a thread does to finish the function it is in.
Step(t) ==
    \/ WaitGate(t) \/ LoadEpoch(t) \/ PublishEpoch(t) \/ CheckGate(t) \/ CheckEpoch(t)
    \/ Retract(t) \/ exit(t)
    \/ StartWalk(t) \/ WalkOn(t) \/ WalkHit(t) \/ WalkMiss(t) \/ Release(t)
    \/ (pc[t] = "miss" /\ Lock(t)) \/ maybeHotSweep(t)
    \/ SweepRetire(t) \/ SweepKeep(t) \/ SweepStore(t) \/ StartEvict(t)
    \/ evictOneLocked(t) \/ ReturnLocked(t) \/ UnlockSwept(t) \/ Insert(t)
    \/ AdvanceDeclined(t) \/ CloseGate(t) \/ LoadUsed(t) \/ ScanSlot(t)
    \/ AdvanceEpoch(t) \/ TakeRetired(t) \/ Free(t) \/ endReclaim(t)

Next == \E t \in Threads : slotForThread(t) \/ Lock(t) \/ Step(t)

Spec == Init /\ [][Next]_vars

-----------------------------------------------------------------------------
(* Properties *)

Ops == {"hot", "inspect", "new", "observe", "commit"}

\* The variables have the types of Conntrack's members and locals.
TypeOK ==
    /\ global \in Epochs /\ reclaiming \in BOOLEAN /\ exhausted \in BOOLEAN
    /\ used \in Nat
    /\ slotEpoch \in [Slots -> Epochs \cup {Quiescent}]
    /\ slotOf \in [Threads -> Slots \cup {NoSlot, Unset}]
    /\ mutex \in Threads \cup {Nobody}
    /\ head \in Pointers /\ next \in [Entries -> Pointers]
    /\ retired \in [Epochs -> SUBSET Entries]
    /\ heap \in SUBSET Entries /\ table \in SUBSET Entries
    /\ pc \in [Threads -> PCs] /\ op \in [Threads -> Ops]
    /\ cur \in [Threads -> Pointers] /\ prev \in [Threads -> Pointers]
    /\ newHead \in [Threads -> Pointers]
    /\ retireEpoch \in [Threads -> Epochs] /\ didRetire \in [Threads -> BOOLEAN]
    /\ observed \in [Threads -> Epochs]
    /\ limit \in [Threads -> Nat] /\ scan \in [Threads -> Nat]
    /\ toFree \in [Threads -> SUBSET Entries]
    /\ seen \in [Threads -> SUBSET Entries]

\* No use after free: the entry a thread stands on, walking or updating it inside its
\* guard or under the shard mutex, is allocated memory.  (A thread that found the
\* slots exhausted has no guard: it is safe only under the mutex.)
NoUseAfterFree ==
    \A t \in Threads :
        (slotOf[t] # NoSlot \/ mutex = t) => cur[t] \in heap \cup {Nil}

\* While a thread detaches and deletes a retired list, no registered reader is
\* between enter and exit: not even the thread itself.
GateExcludesReaders ==
    \A r, t \in Threads :
        pc[r] \in {"take", "free"} => ~(Guarded(t) /\ slotOf[t] # NoSlot)

\* An allocated entry is in the table, in one retired list or in one list under
\* deletion: nothing leaks and nothing can be deleted twice.
OneHome ==
    /\ heap = table \cup Retired \cup UNION {toFree[t] : t \in Threads}
    /\ \A g, h \in Epochs : g # h => retired[g] \cap retired[h] = {}
    /\ \A t, u \in Threads : t # u => toFree[t] \cap toFree[u] = {}
    /\ \A t \in Threads : toFree[t] \cap (table \cup Retired) = {}
    /\ mutex = Nobody => table \cap Retired = {}

\* Once the mutex is free, no walk that starts at the bucket meets a retired entry.
RetiredUnreachable ==
    mutex = Nobody =>
        /\ head \in Kept \cup {Nil}
        /\ \A e \in Kept : next[e] \in Kept \cup {Nil}

====
