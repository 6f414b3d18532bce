-------------------------- MODULE ResetBoundaryProofs --------------------------
(***************************************************************************)
(* The reset boundary for any number of workers, DNS and control sessions, *)
(* uids and addresses.  Besides the types, the inductive invariant says    *)
(* which command is at which step (CommandInv), which thread holds which   *)
(* lock (LockInv), that an odd epoch is a reset in progress (EpochInv),    *)
(* what a reset has cleared so far (TableInv, SaveInv), and that what a    *)
(* thread prepared is of the current generation as long as the epoch it    *)
(* read is the current one (HotInv).                                       *)
(***************************************************************************)
EXTENDS ResetBoundary, TLAPS

\* The steps of each command.
CommandInv ==
    \A c \in Controls :
       /\ op[c] = "none" <=> pc[c] = "idle"
       /\ op[c] = "RESETALL" => pc[c] \notin {"apply", "lockShared", "legacy", "metrics", "restore"}
       /\ op[c] = "CHECKPOINT.RESTORE" =>
             pc[c] \notin {"lockShared", "legacy", "metrics", "resetApps", "resetDomains",
                           "resetNames", "parse", "diff", "install"}
       /\ op[c] = "CONFIG.SET" => pc[c] \in {"lockControl", "apply"}
       /\ op[c] = "METRICS.RESET" => pc[c] \in {"lockControl", "lockListeners", "drain", "metrics"}
       /\ op[c] = "LEGACY" => pc[c] \in {"lockShared", "legacy"}
       /\ op[c] = "LEGACY.METRICS" => pc[c] \in {"lockListeners", "drain", "metrics"}

\* The steps a control session takes with mutexListeners held exclusively.
Exclusive == ResetPCs \cup {"drain", "metrics", "begin"}

LockInv ==
    /\ \A t \in Hot : t \in readers <=> pc[t] \in {"publish", "host", "make", "domain"}
    /\ \A c \in Controls :
          /\ c \in readers <=> pc[c] = "legacy"
          /\ writer = c <=> pc[c] \in Exclusive
          /\ controlMutations = c <=>
                op[c] \notin {"none", "LEGACY", "LEGACY.METRICS"}
                  /\ pc[c] \notin {"lockSave", "lockControl"}
          /\ saveReset = c <=> op[c] \in Resetting /\ pc[c] # "lockSave"
    /\ \A m \in Mains :
          /\ saveReset = m <=> pc[m] \notin {"idle", "saving", "lockSave", "exited"}
          /\ controlMutations = m =>
                pc[m] \in {"lockListeners", "drain", "saveState", "saveApps", "writeApps",
                           "finalSaved"}
          /\ pc[m] \in {"lockListeners", "drain", "finalSaved"} => controlMutations = m
          /\ writer = m <=> controlMutations = m /\ pc[m] # "lockListeners"
    /\ \A t \in Controls \cup Mains : writer = t /\ pc[t] # "drain" => readers = {}

\* The epoch is odd exactly while a command is resetting.
EpochInv ==
    /\ \A c \in Controls : pc[c] \in ResetPCs => ~Stable(epoch)
    /\ ~Stable(epoch) => \E c \in Controls : pc[c] \in ResetPCs

Dirty(l) == \E c \in Controls : pc[c] = l

\* A generation that is none or the current one.
Current(g) == g = 0 \/ g = generation

\* Whatever a reset in progress has still to clear, and nothing else, may be old.
TableInv ==
    /\ ~Dirty("resetApps") => /\ \A u \in Uids : Current(apps[u].gen)
                              /\ stats = generation
    /\ ~Dirty("resetApps") /\ ~Dirty("resetDomains") =>
          /\ Current(domain) /\ policy = generation
          /\ \A a \in Addresses : Current(ipmap[a])
    /\ ~Dirty("resetApps") /\ ~Dirty("resetDomains") /\ ~Dirty("resetHosts") =>
          \A a \in Addresses : Current(hosts[a].gen) /\ Current(hosts[a].dom)

\* The save tree, and the snapshot of the apps that a save holds in memory.
SaveInv ==
    /\ ~Dirty("resetApps") =>
          \A u \in Uids : disk.apps[u] = 0 \/ disk.apps[u] \in cleared .. generation
    /\ (\A c \in Controls : pc[c] # "resetApps" /\ (op[c] = "CHECKPOINT.RESTORE" =>
                               pc[c] \notin {"resetHosts", "saveState"}))
         => disk.state = generation
    /\ \A u \in Uids : Current(snapshot[u])
    /\ (\A t \in Controls \cup Mains : pc[t] # "writeApps") => \A u \in Uids : snapshot[u] = 0
    /\ \A m \in Mains : controlMutations = m /\ pc[m] = "writeApps" =>
          \A u \in Uids : snapshot[u] = apps[u].gen
    /\ FinalSaveComplete

\* A thread past its look at the epoch; past AppManager::find.
Prepared == HotPCs \ {"idle", "epoch", "wait"}
Found == Prepared \ {"find"}

HotInvOf(t) ==
    /\ hot[t].epoch <= epoch
    /\ pc[t] # "idle" => hot[t].uid \in Uids /\ hot[t].addr \in Addresses
    /\ pc[t] \in Prepared => Stable(hot[t].epoch)
    /\ pc[t] \notin Found => hot[t].host = NoHost /\ hot[t].dom = 0
    /\ pc[t] \in Found /\ hot[t].epoch = epoch =>
          /\ hot[t].app.gen = generation
          /\ Current(hot[t].host.gen) /\ Current(hot[t].host.dom) /\ Current(hot[t].dom)
    /\ pc[t] \in {"host", "make", "domain"} => hot[t].epoch = epoch
HotInv == \A t \in Hot : HotInvOf(t)

\* The inductive invariant of the boundary.
BoundaryInv ==
    TypeOK /\ CommandInv /\ LockInv /\ EpochInv /\ TableInv /\ SaveInv /\ HotInv
\* The epoch counts parity: one step ends or begins a reset.
LEMMA Parity == \A e \in Nat : Stable(e + 1) <=> ~Stable(e)
  BY DEF Stable

\* One assigned field keeps a record of a packet or DNS thread, of an app or of an update typed.
LEMMA LocalsFields ==
    ASSUME NEW r \in Locals
    PROVE  /\ \A e \in Nat : [r EXCEPT !.epoch = e] \in Locals
           /\ \A f \in BOOLEAN, a \in AppRecords :
                 /\ [r EXCEPT !.found = f, !.app = a] \in Locals
                 /\ [r EXCEPT !.app = a, !.found = f] \in Locals
           /\ \A h \in HostRecords : [r EXCEPT !.host = h] \in Locals
           /\ \A d \in Nat : [r EXCEPT !.dom = d] \in Locals
  BY DEF Locals

LEMMA RecordFields ==
    /\ \A a \in AppRecords, b \in BOOLEAN : /\ [a EXCEPT !.named = b] \in AppRecords
                                            /\ [a EXCEPT !.iface = b] \in AppRecords
    /\ \A n \in Nat : [NoApp EXCEPT !.gen = n] \in AppRecords
    /\ \A r \in Updates, s \in SUBSET Uids : [r EXCEPT !.new = s] \in Updates
    /\ NoApp \in AppRecords /\ NoHost \in HostRecords /\ NoLocals \in Locals
    /\ NoUpdate \in Updates
    /\ \A u \in Uids, a \in Addresses : [NoLocals EXCEPT !.uid = u, !.addr = a] \in Locals
    /\ \A r \in Locals : [NoLocals EXCEPT !.uid = r.uid, !.addr = r.addr] \in Locals
    /\ \A g, d \in Nat : [gen |-> g, dom |-> d] \in HostRecords
    /\ \A s, i, r \in SUBSET Uids : [new |-> s, installs |-> i, removes |-> r] \in Updates
  BY DEF AppRecords, HostRecords, Locals, Updates, NoApp, NoHost, NoLocals, NoUpdate

\* The fields of a record have their types.
LEMMA FieldTypes ==
    /\ \A r \in Locals : r.epoch \in Nat /\ r.app \in AppRecords /\ r.host \in HostRecords
                          /\ r.dom \in Nat
    /\ \A a \in AppRecords : a.gen \in Nat /\ a.iface \in BOOLEAN
    /\ \A r \in Updates : r.new \subseteq Uids /\ r.installs \subseteq Uids /\ r.removes \subseteq Uids
  BY DEF Locals, AppRecords, Updates

\* What restoreBundleToLivePolicy leaves behind, whatever the bundle holds.
LEMMA Restored ==
    ASSUME TypeOK, NEW c \in Controls, RestoreLive(c)
    PROVE  /\ pc[c] = "restore" /\ pc' = [pc EXCEPT ![c] = "resetHosts"]
           /\ generation' = generation + 1 /\ cleared' = cleared
           /\ apps' \in [Uids -> AppRecords] /\ \A u \in Uids : apps'[u].gen \in {0, generation'}
           /\ domain' \in {0, generation'} /\ ipmap' = [a \in Addresses |-> 0]
           /\ stats' = generation' /\ policy' = generation'
           /\ UNCHANGED <<locks, hosts, packages, epoch, disk, op, hot, snapshot>>
<1>1. PICK bundle \in SUBSET Uids, iface \in [Uids -> BOOLEAN] :
         apps' = [u \in Uids |->
                    IF apps[u].gen = 0 /\ u \notin bundle THEN NoApp
                    ELSE [apps[u] EXCEPT !.gen = generation', !.iface = iface[u]]]
  BY DEF RestoreLive
<1>2. generation' = generation + 1 /\ generation' \in Nat
  <2>1. generation' = generation + 1
    BY Zenon DEF RestoreLive
  <2> QED BY <2>1 DEF TypeOK
<1>3. \A u \in Uids : apps'[u] \in AppRecords /\ apps'[u].gen \in {0, generation'}
  <2> TAKE u \in Uids
  <2>1. /\ NoApp \in AppRecords /\ NoApp.gen = 0
        /\ [apps[u] EXCEPT !.gen = generation', !.iface = iface[u]] \in AppRecords
        /\ [apps[u] EXCEPT !.gen = generation', !.iface = iface[u]].gen = generation'
    BY <1>2 DEF TypeOK, AppRecords, NoApp
  <2> QED BY <1>1, <2>1
<1> QED BY <1>1, <1>2, <1>3 DEF RestoreLive, Goto

\* Every step keeps the types.
LEMMA TypeKept == BoundaryInv /\ [Next]_vars => TypeOK'
<1> SUFFICES ASSUME BoundaryInv, [Next]_vars PROVE TypeOK'
  OBVIOUS
<1> USE ResetBoundaryAssumption
      DEF BoundaryInv, Goto, locks, tables, packages, ghosts, Nobody, Hot, Threads, CanRead,
          TypeOK, HotPCs, ControlPCs, MainPCs, ListenerPCs, ResetPCs, Commands, Resetting,
          Older, LiveState, AfterUpdate
<1>1. ASSUME NEW t \in Hot, Arrive(t) PROVE TypeOK'
  <2>1. PICK u \in Uids, a \in Addresses :
               hot' = [hot EXCEPT ![t] = [NoLocals EXCEPT !.uid = u, !.addr = a]]
    BY <1>1 DEF Arrive
  <2>2. [NoLocals EXCEPT !.uid = u, !.addr = a] \in Locals
    BY RecordFields
  <2>3. hot' \in [Hot -> Locals]
    BY <2>1, <2>2
  <2> QED BY <1>1, <2>3 DEF Arrive
<1>2. ASSUME NEW t \in Hot, ReadEpoch(t) PROVE TypeOK'
  <2>1. [hot[t] EXCEPT !.epoch = epoch] \in Locals
    BY LocalsFields DEF TypeOK
  <2>2. hot' \in [Hot -> Locals]
    BY <1>2, <2>1 DEF ReadEpoch
  <2> QED BY <1>2, <2>2 DEF ReadEpoch
<1>3. ASSUME NEW t \in Hot, WaitReset(t) PROVE TypeOK'
  BY <1>3 DEF WaitReset
<1>4. ASSUME NEW t \in Hot, FindApp(t) PROVE TypeOK'
  <2> DEFINE found == apps[hot[t].uid].gen # 0
             app == IF found THEN apps[hot[t].uid] ELSE [NoApp EXCEPT !.gen = generation]
  <2>1. hot[t].uid \in Uids
    BY <1>4 DEF FindApp, HotInv, HotInvOf
  <2>f. found \in BOOLEAN
    OBVIOUS
  <2>2. app \in AppRecords
    BY ZenonT(30), <2>1, RecordFields
  <2> HIDE DEF app, found
  <2>3. [hot[t] EXCEPT !.found = found, !.app = app] \in Locals
    BY <2>2, <2>f, LocalsFields
  <2>4. hot' \in [Hot -> Locals]
    <3>1. hot' = [hot EXCEPT ![t] = [hot[t] EXCEPT !.found = found, !.app = app]]
      BY <1>4 DEF FindApp, app, found
    <3> QED BY <2>3, <3>1
  <2> QED BY <1>4, <2>4 DEF FindApp
<1>5. ASSUME NEW t \in Hot, FindHost(t) PROVE TypeOK'
  <2> DEFINE a == hot[t].addr
             host == IF hot[t].app.iface THEN NoHost
                     ELSE IF hosts[a].gen # 0 THEN hosts[a]
                     ELSE [gen |-> generation, dom |-> ipmap[a]]
  <2>1. a \in Addresses
    BY <1>5 DEF FindHost, HotInv, HotInvOf
  <2>2. host \in HostRecords
    BY ZenonT(30), <2>1, RecordFields
  <2>3. [hot[t] EXCEPT !.host = host] \in Locals
    BY <2>2, LocalsFields
  <2>4. hot' \in [Hot -> Locals]
    BY <1>5, <2>3 DEF FindHost
  <2> QED BY <1>5, <2>4 DEF FindHost
<1>6. ASSUME NEW t \in Hot, LockShared(t) PROVE TypeOK'
  BY <1>6 DEF LockShared
<1>7. ASSUME NEW t \in Hot, PublishFails(t) PROVE TypeOK'
  <2>1. [NoLocals EXCEPT !.uid = hot[t].uid, !.addr = hot[t].addr] \in Locals
    BY RecordFields
  <2>2. hot' \in [Hot -> Locals]
    BY <1>7, <2>1 DEF PublishFails, Retry
  <2> QED BY <1>7, <2>2 DEF PublishFails, Retry
<1>8. ASSUME NEW t \in Hot, PublishApp(t) PROVE TypeOK'
  <2>1. hot[t].uid \in Uids
    BY <1>8 DEF PublishApp, HotInv, HotInvOf
  <2>2. apps' \in [Uids -> AppRecords]
    BY <1>8, <2>1, FieldTypes DEF PublishApp
  <2>3. [hot[t] EXCEPT !.app = apps'[hot[t].uid], !.found = FALSE] \in Locals
    BY <2>1, <2>2, LocalsFields
  <2>4. hot' \in [Hot -> Locals]
    BY <1>8, <2>3 DEF PublishApp
  <2> QED BY <1>8, <2>2, <2>4 DEF PublishApp
<1>9. ASSUME NEW t \in Hot, HostMissing(t) PROVE TypeOK'
  <2>1. [NoLocals EXCEPT !.uid = hot[t].uid, !.addr = hot[t].addr] \in Locals
    BY RecordFields
  <2>2. hot' \in [Hot -> Locals]
    BY <1>9, <2>1 DEF HostMissing, Retry
  <2> QED BY <1>9, <2>2 DEF HostMissing, Retry
<1>10. ASSUME NEW t \in Hot, PublishHost(t) PROVE TypeOK'
  <2> DEFINE host == IF hot[t].app.iface THEN NoHost ELSE hosts'[hot[t].addr]
  <2>1. hot[t].addr \in Addresses
    BY <1>10 DEF PublishHost, HotInv, HotInvOf
  <2>2. hosts' \in [Addresses -> HostRecords]
    BY <1>10, <2>1, FieldTypes DEF PublishHost
  <2>3. [hot[t] EXCEPT !.host = host] \in Locals
    <3>1. host \in HostRecords
      BY <2>1, <2>2, RecordFields
    <3> QED BY <3>1, LocalsFields
  <2>4. hot' \in [Hot -> Locals]
    BY <1>10, <2>3 DEF PublishHost
  <2> QED BY <1>10, <2>2, <2>4 DEF PublishHost
<1>11. ASSUME NEW t \in Hot, make(t) PROVE TypeOK'
  BY <1>11, RecordFields, FieldTypes DEF make
<1>12. ASSUME NEW t \in Hot, makeDomain(t) PROVE TypeOK'
  <2>1. domain' \in Nat
    BY <1>12 DEF makeDomain
  <2>2. [hot[t] EXCEPT !.dom = domain'] \in Locals
    BY <2>1, LocalsFields
  <2>3. hot' \in [Hot -> Locals]
    BY <1>12, <2>2 DEF makeDomain
  <2>4. stats' \in Nat
    BY <1>12, FieldTypes DEF makeDomain
  <2> QED BY <1>12, <2>1, <2>3, <2>4 DEF makeDomain
<1>13. ASSUME NEW t \in Hot, Reply(t) PROVE TypeOK'
  <2>1. CASE Goto(t, "removeIPs")
    BY <1>13, <2>1 DEF Reply
  <2>2. CASE Goto(t, "stats")
    BY <1>13, <2>2 DEF Reply
  <2> QED BY <1>13, <2>1, <2>2 DEF Reply
<1>14. ASSUME NEW t \in Hot, SessionFails(t) PROVE TypeOK'
  BY <1>14, RecordFields DEF SessionFails
<1>15. ASSUME NEW t \in Hot, removeIPs(t) PROVE TypeOK'
  BY <1>15 DEF removeIPs
<1>16. ASSUME NEW t \in Hot, addIPBoth(t) PROVE TypeOK'
  <2>1. PICK a \in Addresses : ipmap' \in {ipmap, [ipmap EXCEPT ![a] = hot[t].dom]}
    BY <1>16 DEF addIPBoth
  <2>2. ipmap' \in [Addresses -> Nat]
    BY <2>1, FieldTypes
  <2> QED BY <1>16, <2>2 DEF addIPBoth
<1>17. ASSUME NEW t \in Hot, EndOfAddresses(t) PROVE TypeOK'
  BY <1>17 DEF EndOfAddresses
<1>18. ASSUME NEW t \in Hot, updateStats(t) PROVE TypeOK'
  BY <1>18, RecordFields, FieldTypes DEF updateStats
<1>19. ASSUME NEW t \in Controls \cup Mains, LockSave(t) PROVE TypeOK'
  BY <1>19 DEF LockSave
<1>20. ASSUME NEW t \in Controls \cup Mains, LockControl(t) PROVE TypeOK'
  BY <1>20 DEF LockControl
<1>21. ASSUME NEW t \in Controls \cup Mains, EnterListeners(t) PROVE TypeOK'
  BY <1>21 DEF EnterListeners
<1>22. ASSUME NEW t \in Controls \cup Mains, DrainListeners(t) PROVE TypeOK'
  <2>1. CASE t \in Mains
    BY <1>22, <2>1 DEF DrainListeners
  <2>2. CASE t \in Controls /\ op[t] \in Resetting
    BY <1>22, <2>2 DEF DrainListeners
  <2>3. CASE t \in Controls /\ op[t] \notin Resetting
    BY <1>22, <2>3 DEF DrainListeners
  <2> QED BY <2>1, <2>2, <2>3
<1>23. ASSUME NEW t \in Controls \cup Mains, SaveState(t) PROVE TypeOK'
  BY <1>23 DEF SaveState
<1>24. ASSUME NEW t \in Controls \cup Mains, SnapshotApps(t) PROVE TypeOK'
  BY <1>24, FieldTypes DEF SnapshotApps
<1>25. ASSUME NEW t \in Controls \cup Mains, WriteApps(t) PROVE TypeOK'
  <2>1. snapshot' \in [Uids -> Nat]
    BY <1>25 DEF WriteApps
  <2>2. disk' \in [state : Nat, apps : [Uids -> Nat]]
    BY <1>25 DEF WriteApps
  <2>3. CASE t \in Controls
    BY <1>25, <2>1, <2>2, <2>3 DEF WriteApps
  <2>4. CASE t \in Mains
    BY <1>25, <2>1, <2>2, <2>4 DEF WriteApps
  <2> QED BY <2>3, <2>4
<1>26. ASSUME NEW t \in Controls \cup {"packages"}, ParsePackages(t) PROVE TypeOK'
  <2>1. [upd[t] EXCEPT !.new = installed] \in Updates
    BY RecordFields
  <2>2. upd' \in [Controls \cup {"packages"} -> Updates]
    BY <1>26, <2>1 DEF ParsePackages
  <2> QED BY <1>26, <2>2 DEF ParsePackages
<1>27. ASSUME NEW t \in Controls \cup {"packages"}, GiveUp(t) PROVE TypeOK'
  BY <1>27 DEF GiveUp
<1>28. ASSUME NEW t \in Controls \cup {"packages"}, DiffNames(t) PROVE TypeOK'
  BY <1>28, RecordFields, FieldTypes DEF DiffNames
<1>29. ASSUME NEW t \in Controls \cup {"packages"}, ApplyPackages(t) PROVE TypeOK'
  <2>1. apps' \in [Uids -> AppRecords]
    <3>1. \A u \in Uids : apps'[u] \in AppRecords
      <4> TAKE u \in Uids
      <4>1. [IF apps[u].gen # 0 THEN apps[u] ELSE [NoApp EXCEPT !.gen = generation]
               EXCEPT !.named = TRUE] \in AppRecords
        BY ZenonT(30), RecordFields, FieldTypes
      <4> QED BY ZenonT(30), <1>29, <4>1, RecordFields DEF ApplyPackages
    <3> QED BY <1>29, <3>1 DEF ApplyPackages
  <2>2. disk' \in [state : Nat, apps : [Uids -> Nat]]
    BY <1>29 DEF ApplyPackages
  <2>3. upd' \in [Controls \cup {"packages"} -> Updates]
    BY <1>29, RecordFields DEF ApplyPackages
  <2> QED BY <1>29, <2>1, <2>2, <2>3 DEF ApplyPackages
<1>30. ASSUME NEW t \in Controls, Request(t) PROVE TypeOK'
  BY <1>30 DEF Request
<1>31. ASSUME NEW t \in Controls, ConfigSetDevice(t) PROVE TypeOK'
  BY <1>31 DEF ConfigSetDevice, Done, ReleaseAll
<1>32. ASSUME NEW t \in Controls, ConfigSetApp(t) PROVE TypeOK'
  <2>1. PICK u \in Uids : /\ apps' = [apps EXCEPT ![u].iface = ~@]
                         /\ disk' = [disk EXCEPT !.apps[u] = apps[u].gen]
    BY <1>32 DEF ConfigSetApp
  <2>2. apps' \in [Uids -> AppRecords] /\ disk' \in [state : Nat, apps : [Uids -> Nat]]
    <3>1. [apps[u] EXCEPT !.iface = ~@] \in AppRecords
      BY RecordFields, FieldTypes
    <3>2. [disk.apps EXCEPT ![u] = apps[u].gen] \in [Uids -> Nat]
      BY FieldTypes
    <3> QED BY <2>1, <3>1, <3>2
  <2> QED BY <1>32, <2>2 DEF ConfigSetApp, Done, ReleaseAll
<1>33. ASSUME NEW t \in Controls, ConfigSetRefused(t) PROVE TypeOK'
  BY <1>33 DEF ConfigSetRefused, Done, ReleaseAll
<1>34. ASSUME NEW t \in Controls, MetricsReset(t) PROVE TypeOK'
  BY <1>34 DEF MetricsReset, Done, ReleaseAll
<1>35. ASSUME NEW t \in Controls, LegacyLock(t) PROVE TypeOK'
  BY <1>35 DEF LegacyLock
<1>36. ASSUME NEW t \in Controls, LegacyApply(t) PROVE TypeOK'
  BY <1>36 DEF LegacyApply, Done, ReleaseAll
<1>37. ASSUME NEW t \in Controls, StageRestore(t) PROVE TypeOK'
  BY <1>37 DEF StageRestore
<1>38. ASSUME NEW t \in Controls, StageRestoreFails(t) PROVE TypeOK'
  BY <1>38 DEF StageRestoreFails, Done, ReleaseAll
<1>39. ASSUME NEW t \in Controls, BeginResetEpoch(t) PROVE TypeOK'
  BY <1>39 DEF BeginResetEpoch
<1>40. ASSUME NEW t \in Controls, ResetApps(t) PROVE TypeOK'
  BY <1>40, RecordFields DEF ResetApps
<1>41. ASSUME NEW t \in Controls, ResetDomains(t) PROVE TypeOK'
  BY <1>41 DEF ResetDomains
<1>42. ASSUME NEW t \in Controls, ResetHosts(t) PROVE TypeOK'
  BY <1>42, RecordFields DEF ResetHosts
<1>43. ASSUME NEW t \in Controls, RestoreLive(t) PROVE TypeOK'
  BY <1>43, Restored
<1>44. ASSUME NEW t \in Controls, RestoreFails(t) PROVE TypeOK'
  BY <1>44 DEF RestoreFails, Done, ReleaseAll
<1>45. ASSUME NEW t \in Controls, EndResetEpoch(t) PROVE TypeOK'
  BY <1>45 DEF EndResetEpoch, Done, ReleaseAll
<1>46. ASSUME NEW t \in Controls, ResetNames(t) PROVE TypeOK'
  BY <1>46 DEF ResetNames
<1>47. ASSUME NEW t \in Mains, PeriodicSave(t) PROVE TypeOK'
  BY <1>47 DEF PeriodicSave
<1>48. ASSUME NEW t \in Mains, PeriodicSaved(t) PROVE TypeOK'
  BY <1>48 DEF PeriodicSaved
<1>49. ASSUME NEW t \in Mains, FinalSave(t) PROVE TypeOK'
  BY <1>49 DEF FinalSave
<1>50. ASSUME NEW t \in Mains, Exit(t) PROVE TypeOK'
  BY <1>50 DEF Exit, ReleaseAll
<1>51. ASSUME PackagesChange PROVE TypeOK'
  BY <1>51 DEF PackagesChange
<1>52. ASSUME StartUpdate PROVE TypeOK'
  BY <1>52 DEF StartUpdate
<1>53. CASE UNCHANGED vars
  BY <1>53 DEF vars
<1> QED BY <1>1, <1>2, <1>3, <1>4, <1>5, <1>6, <1>7, <1>8, <1>9, <1>10, <1>11, <1>12, <1>13,
      <1>14, <1>15, <1>16, <1>17, <1>18, <1>19, <1>20, <1>21, <1>22, <1>23, <1>24, <1>25,
      <1>26, <1>27, <1>28, <1>29, <1>30, <1>31, <1>32, <1>33, <1>34, <1>35, <1>36, <1>37,
      <1>38, <1>39, <1>40, <1>41, <1>42, <1>43, <1>44, <1>45, <1>46, <1>47, <1>48, <1>49,
      <1>50, <1>51, <1>52, <1>53
    DEF Next, HotStep, LockStep, SaveStep, UpdateStep, CommandStep

\* Every step keeps the commands to their steps.
LEMMA CommandKept == BoundaryInv /\ [Next]_vars => CommandInv'
<1> SUFFICES ASSUME BoundaryInv, [Next]_vars PROVE CommandInv'
  OBVIOUS
<1> USE ResetBoundaryAssumption
      DEF BoundaryInv, Goto, locks, tables, packages, ghosts, Nobody, Hot, Threads, CanRead,
          TypeOK, CommandInv, HotPCs, ControlPCs, MainPCs, ListenerPCs, ResetPCs, Commands,
          Resetting, AfterUpdate
<1>1. ASSUME NEW t \in Hot, Arrive(t) PROVE CommandInv'
  BY <1>1 DEF Arrive
<1>2. ASSUME NEW t \in Hot, ReadEpoch(t) PROVE CommandInv'
  BY <1>2 DEF ReadEpoch
<1>3. ASSUME NEW t \in Hot, WaitReset(t) PROVE CommandInv'
  BY <1>3 DEF WaitReset
<1>4. ASSUME NEW t \in Hot, FindApp(t) PROVE CommandInv'
  BY <1>4 DEF FindApp
<1>5. ASSUME NEW t \in Hot, FindHost(t) PROVE CommandInv'
  BY <1>5 DEF FindHost
<1>6. ASSUME NEW t \in Hot, LockShared(t) PROVE CommandInv'
  BY <1>6 DEF LockShared
<1>7. ASSUME NEW t \in Hot, PublishFails(t) PROVE CommandInv'
  BY <1>7 DEF PublishFails, Retry
<1>8. ASSUME NEW t \in Hot, PublishApp(t) PROVE CommandInv'
  BY <1>8 DEF PublishApp
<1>9. ASSUME NEW t \in Hot, HostMissing(t) PROVE CommandInv'
  BY <1>9 DEF HostMissing, Retry
<1>10. ASSUME NEW t \in Hot, PublishHost(t) PROVE CommandInv'
  BY <1>10 DEF PublishHost
<1>11. ASSUME NEW t \in Hot, make(t) PROVE CommandInv'
  BY <1>11 DEF make
<1>12. ASSUME NEW t \in Hot, makeDomain(t) PROVE CommandInv'
  BY <1>12 DEF makeDomain
<1>13. ASSUME NEW t \in Hot, Reply(t) PROVE CommandInv'
  BY <1>13 DEF Reply
<1>14. ASSUME NEW t \in Hot, SessionFails(t) PROVE CommandInv'
  BY <1>14 DEF SessionFails
<1>15. ASSUME NEW t \in Hot, removeIPs(t) PROVE CommandInv'
  BY <1>15 DEF removeIPs
<1>16. ASSUME NEW t \in Hot, addIPBoth(t) PROVE CommandInv'
  BY <1>16 DEF addIPBoth
<1>17. ASSUME NEW t \in Hot, EndOfAddresses(t) PROVE CommandInv'
  BY <1>17 DEF EndOfAddresses
<1>18. ASSUME NEW t \in Hot, updateStats(t) PROVE CommandInv'
  BY <1>18 DEF updateStats
<1>19. ASSUME NEW t \in Controls \cup Mains, LockSave(t) PROVE CommandInv'
  BY <1>19 DEF LockSave
<1>20. ASSUME NEW t \in Controls \cup Mains, LockControl(t) PROVE CommandInv'
  BY <1>20 DEF LockControl
<1>21. ASSUME NEW t \in Controls \cup Mains, EnterListeners(t) PROVE CommandInv'
  BY <1>21 DEF EnterListeners
<1>22. ASSUME NEW t \in Controls \cup Mains, DrainListeners(t) PROVE CommandInv'
  BY <1>22 DEF DrainListeners
<1>23. ASSUME NEW t \in Controls \cup Mains, SaveState(t) PROVE CommandInv'
  BY <1>23 DEF SaveState
<1>24. ASSUME NEW t \in Controls \cup Mains, SnapshotApps(t) PROVE CommandInv'
  BY <1>24 DEF SnapshotApps
<1>25. ASSUME NEW t \in Controls \cup Mains, WriteApps(t) PROVE CommandInv'
  BY <1>25 DEF WriteApps
<1>26. ASSUME NEW t \in Controls \cup {"packages"}, ParsePackages(t) PROVE CommandInv'
  BY <1>26 DEF ParsePackages
<1>27. ASSUME NEW t \in Controls \cup {"packages"}, GiveUp(t) PROVE CommandInv'
  BY <1>27 DEF GiveUp
<1>28. ASSUME NEW t \in Controls \cup {"packages"}, DiffNames(t) PROVE CommandInv'
  BY <1>28 DEF DiffNames
<1>29. ASSUME NEW t \in Controls \cup {"packages"}, ApplyPackages(t) PROVE CommandInv'
  BY <1>29 DEF ApplyPackages
<1>30. ASSUME NEW t \in Controls, Request(t) PROVE CommandInv'
  BY <1>30 DEF Request
<1>31. ASSUME NEW t \in Controls, ConfigSetDevice(t) PROVE CommandInv'
  BY <1>31 DEF ConfigSetDevice, Done, ReleaseAll
<1>32. ASSUME NEW t \in Controls, ConfigSetApp(t) PROVE CommandInv'
  BY <1>32 DEF ConfigSetApp, Done, ReleaseAll
<1>33. ASSUME NEW t \in Controls, ConfigSetRefused(t) PROVE CommandInv'
  BY <1>33 DEF ConfigSetRefused, Done, ReleaseAll
<1>34. ASSUME NEW t \in Controls, MetricsReset(t) PROVE CommandInv'
  BY <1>34 DEF MetricsReset, Done, ReleaseAll
<1>35. ASSUME NEW t \in Controls, LegacyLock(t) PROVE CommandInv'
  BY <1>35 DEF LegacyLock
<1>36. ASSUME NEW t \in Controls, LegacyApply(t) PROVE CommandInv'
  BY <1>36 DEF LegacyApply, Done, ReleaseAll
<1>37. ASSUME NEW t \in Controls, StageRestore(t) PROVE CommandInv'
  BY <1>37 DEF StageRestore
<1>38. ASSUME NEW t \in Controls, StageRestoreFails(t) PROVE CommandInv'
  BY <1>38 DEF StageRestoreFails, Done, ReleaseAll
<1>39. ASSUME NEW t \in Controls, BeginResetEpoch(t) PROVE CommandInv'
  BY <1>39 DEF BeginResetEpoch
<1>40. ASSUME NEW t \in Controls, ResetApps(t) PROVE CommandInv'
  BY <1>40 DEF ResetApps
<1>41. ASSUME NEW t \in Controls, ResetDomains(t) PROVE CommandInv'
  BY <1>41 DEF ResetDomains
<1>42. ASSUME NEW t \in Controls, ResetHosts(t) PROVE CommandInv'
  BY <1>42 DEF ResetHosts
<1>43. ASSUME NEW t \in Controls, RestoreLive(t) PROVE CommandInv'
  BY <1>43 DEF RestoreLive
<1>44. ASSUME NEW t \in Controls, RestoreFails(t) PROVE CommandInv'
  BY <1>44 DEF RestoreFails, Done, ReleaseAll
<1>45. ASSUME NEW t \in Controls, EndResetEpoch(t) PROVE CommandInv'
  BY <1>45 DEF EndResetEpoch, Done, ReleaseAll
<1>46. ASSUME NEW t \in Controls, ResetNames(t) PROVE CommandInv'
  BY <1>46 DEF ResetNames
<1>47. ASSUME NEW t \in Mains, PeriodicSave(t) PROVE CommandInv'
  BY <1>47 DEF PeriodicSave
<1>48. ASSUME NEW t \in Mains, PeriodicSaved(t) PROVE CommandInv'
  BY <1>48 DEF PeriodicSaved
<1>49. ASSUME NEW t \in Mains, FinalSave(t) PROVE CommandInv'
  BY <1>49 DEF FinalSave
<1>50. ASSUME NEW t \in Mains, Exit(t) PROVE CommandInv'
  BY <1>50 DEF Exit, ReleaseAll
<1>51. ASSUME PackagesChange PROVE CommandInv'
  BY <1>51 DEF PackagesChange
<1>52. ASSUME StartUpdate PROVE CommandInv'
  BY <1>52 DEF StartUpdate
<1>53. CASE UNCHANGED vars
  BY <1>53 DEF vars
<1> QED BY <1>1, <1>2, <1>3, <1>4, <1>5, <1>6, <1>7, <1>8, <1>9, <1>10, <1>11, <1>12, <1>13,
      <1>14, <1>15, <1>16, <1>17, <1>18, <1>19, <1>20, <1>21, <1>22, <1>23, <1>24, <1>25,
      <1>26, <1>27, <1>28, <1>29, <1>30, <1>31, <1>32, <1>33, <1>34, <1>35, <1>36, <1>37,
      <1>38, <1>39, <1>40, <1>41, <1>42, <1>43, <1>44, <1>45, <1>46, <1>47, <1>48, <1>49,
      <1>50, <1>51, <1>52, <1>53
    DEF Next, HotStep, LockStep, SaveStep, UpdateStep, CommandStep

\* Every step takes and leaves the locks its place says.
LEMMA LockKept == BoundaryInv /\ [Next]_vars => LockInv'
<1> SUFFICES ASSUME BoundaryInv, [Next]_vars PROVE LockInv'
  OBVIOUS
<1> USE ResetBoundaryAssumption
      DEF BoundaryInv, Goto, locks, tables, packages, ghosts, Nobody, Hot, Threads, CanRead,
          TypeOK, CommandInv, LockInv, Exclusive, HotPCs, ControlPCs, MainPCs, ListenerPCs,
          ResetPCs, Commands, Resetting, AfterUpdate
<1>1. ASSUME NEW t \in Hot, Arrive(t) PROVE LockInv'
  BY <1>1 DEF Arrive
<1>2. ASSUME NEW t \in Hot, ReadEpoch(t) PROVE LockInv'
  BY <1>2 DEF ReadEpoch
<1>3. ASSUME NEW t \in Hot, WaitReset(t) PROVE LockInv'
  BY <1>3 DEF WaitReset
<1>4. ASSUME NEW t \in Hot, FindApp(t) PROVE LockInv'
  BY <1>4 DEF FindApp
<1>5. ASSUME NEW t \in Hot, FindHost(t) PROVE LockInv'
  BY <1>5 DEF FindHost
<1>6. ASSUME NEW t \in Hot, LockShared(t) PROVE LockInv'
  BY <1>6 DEF LockShared
<1>7. ASSUME NEW t \in Hot, PublishFails(t) PROVE LockInv'
  BY <1>7 DEF PublishFails, Retry
<1>8. ASSUME NEW t \in Hot, PublishApp(t) PROVE LockInv'
  BY <1>8 DEF PublishApp
<1>9. ASSUME NEW t \in Hot, HostMissing(t) PROVE LockInv'
  BY <1>9 DEF HostMissing, Retry
<1>10. ASSUME NEW t \in Hot, PublishHost(t) PROVE LockInv'
  BY <1>10 DEF PublishHost
<1>11. ASSUME NEW t \in Hot, make(t) PROVE LockInv'
  BY <1>11 DEF make
<1>12. ASSUME NEW t \in Hot, makeDomain(t) PROVE LockInv'
  BY <1>12 DEF makeDomain
<1>13. ASSUME NEW t \in Hot, Reply(t) PROVE LockInv'
  BY <1>13 DEF Reply
<1>14. ASSUME NEW t \in Hot, SessionFails(t) PROVE LockInv'
  BY <1>14 DEF SessionFails
<1>15. ASSUME NEW t \in Hot, removeIPs(t) PROVE LockInv'
  BY <1>15 DEF removeIPs
<1>16. ASSUME NEW t \in Hot, addIPBoth(t) PROVE LockInv'
  BY <1>16 DEF addIPBoth
<1>17. ASSUME NEW t \in Hot, EndOfAddresses(t) PROVE LockInv'
  BY <1>17 DEF EndOfAddresses
<1>18. ASSUME NEW t \in Hot, updateStats(t) PROVE LockInv'
  BY <1>18 DEF updateStats
<1>19. ASSUME NEW t \in Controls \cup Mains, LockSave(t) PROVE LockInv'
  BY <1>19 DEF LockSave
<1>20. ASSUME NEW t \in Controls \cup Mains, LockControl(t) PROVE LockInv'
  BY <1>20 DEF LockControl
<1>21. ASSUME NEW t \in Controls \cup Mains, EnterListeners(t) PROVE LockInv'
  BY <1>21 DEF EnterListeners
<1>22. ASSUME NEW t \in Controls \cup Mains, DrainListeners(t) PROVE LockInv'
  <2>1. CASE t \in Mains
    BY <1>22, <2>1 DEF DrainListeners
  <2>2. CASE t \in Controls /\ op[t] \in Resetting
    BY <1>22, <2>2 DEF DrainListeners
  <2>3. CASE t \in Controls /\ op[t] \notin Resetting
    BY <1>22, <2>3 DEF DrainListeners
  <2> QED BY <2>1, <2>2, <2>3
<1>23. ASSUME NEW t \in Controls \cup Mains, SaveState(t) PROVE LockInv'
  BY <1>23 DEF SaveState
<1>24. ASSUME NEW t \in Controls \cup Mains, SnapshotApps(t) PROVE LockInv'
  BY <1>24 DEF SnapshotApps
<1>25. ASSUME NEW t \in Controls \cup Mains, WriteApps(t) PROVE LockInv'
  <2>1. CASE t \in Controls
    BY <1>25, <2>1 DEF WriteApps
  <2>2. CASE t \in Mains
    BY <1>25, <2>2 DEF WriteApps
  <2> QED BY <2>1, <2>2
<1>26. ASSUME NEW t \in Controls \cup {"packages"}, ParsePackages(t) PROVE LockInv'
  BY <1>26 DEF ParsePackages
<1>27. ASSUME NEW t \in Controls \cup {"packages"}, GiveUp(t) PROVE LockInv'
  BY <1>27 DEF GiveUp
<1>28. ASSUME NEW t \in Controls \cup {"packages"}, DiffNames(t) PROVE LockInv'
  BY <1>28 DEF DiffNames
<1>29. ASSUME NEW t \in Controls \cup {"packages"}, ApplyPackages(t) PROVE LockInv'
  BY <1>29 DEF ApplyPackages
<1>30. ASSUME NEW t \in Controls, Request(t) PROVE LockInv'
  BY <1>30 DEF Request
<1>31. ASSUME NEW t \in Controls, ConfigSetDevice(t) PROVE LockInv'
  BY <1>31 DEF ConfigSetDevice, Done, ReleaseAll
<1>32. ASSUME NEW t \in Controls, ConfigSetApp(t) PROVE LockInv'
  BY <1>32 DEF ConfigSetApp, Done, ReleaseAll
<1>33. ASSUME NEW t \in Controls, ConfigSetRefused(t) PROVE LockInv'
  BY <1>33 DEF ConfigSetRefused, Done, ReleaseAll
<1>34. ASSUME NEW t \in Controls, MetricsReset(t) PROVE LockInv'
  BY <1>34 DEF MetricsReset, Done, ReleaseAll
<1>35. ASSUME NEW t \in Controls, LegacyLock(t) PROVE LockInv'
  BY <1>35 DEF LegacyLock
<1>36. ASSUME NEW t \in Controls, LegacyApply(t) PROVE LockInv'
  BY <1>36 DEF LegacyApply, Done, ReleaseAll
<1>37. ASSUME NEW t \in Controls, StageRestore(t) PROVE LockInv'
  BY <1>37 DEF StageRestore
<1>38. ASSUME NEW t \in Controls, StageRestoreFails(t) PROVE LockInv'
  BY <1>38 DEF StageRestoreFails, Done, ReleaseAll
<1>39. ASSUME NEW t \in Controls, BeginResetEpoch(t) PROVE LockInv'
  BY <1>39 DEF BeginResetEpoch
<1>40. ASSUME NEW t \in Controls, ResetApps(t) PROVE LockInv'
  BY <1>40 DEF ResetApps
<1>41. ASSUME NEW t \in Controls, ResetDomains(t) PROVE LockInv'
  BY <1>41 DEF ResetDomains
<1>42. ASSUME NEW t \in Controls, ResetHosts(t) PROVE LockInv'
  BY <1>42 DEF ResetHosts
<1>43. ASSUME NEW t \in Controls, RestoreLive(t) PROVE LockInv'
  BY <1>43, Restored
<1>44. ASSUME NEW t \in Controls, RestoreFails(t) PROVE LockInv'
  BY <1>44 DEF RestoreFails, Done, ReleaseAll
<1>45. ASSUME NEW t \in Controls, EndResetEpoch(t) PROVE LockInv'
  BY <1>45 DEF EndResetEpoch, Done, ReleaseAll
<1>46. ASSUME NEW t \in Controls, ResetNames(t) PROVE LockInv'
  BY <1>46 DEF ResetNames
<1>47. ASSUME NEW t \in Mains, PeriodicSave(t) PROVE LockInv'
  BY <1>47 DEF PeriodicSave
<1>48. ASSUME NEW t \in Mains, PeriodicSaved(t) PROVE LockInv'
  BY <1>48 DEF PeriodicSaved
<1>49. ASSUME NEW t \in Mains, FinalSave(t) PROVE LockInv'
  BY <1>49 DEF FinalSave
<1>50. ASSUME NEW t \in Mains, Exit(t) PROVE LockInv'
  BY <1>50 DEF Exit, ReleaseAll
<1>51. ASSUME PackagesChange PROVE LockInv'
  BY <1>51 DEF PackagesChange
<1>52. ASSUME StartUpdate PROVE LockInv'
  BY <1>52 DEF StartUpdate
<1>53. CASE UNCHANGED vars
  BY <1>53 DEF vars
<1> QED BY <1>1, <1>2, <1>3, <1>4, <1>5, <1>6, <1>7, <1>8, <1>9, <1>10, <1>11, <1>12, <1>13,
      <1>14, <1>15, <1>16, <1>17, <1>18, <1>19, <1>20, <1>21, <1>22, <1>23, <1>24, <1>25,
      <1>26, <1>27, <1>28, <1>29, <1>30, <1>31, <1>32, <1>33, <1>34, <1>35, <1>36, <1>37,
      <1>38, <1>39, <1>40, <1>41, <1>42, <1>43, <1>44, <1>45, <1>46, <1>47, <1>48, <1>49,
      <1>50, <1>51, <1>52, <1>53
    DEF Next, HotStep, LockStep, SaveStep, UpdateStep, CommandStep

\* Only the one resetting command changes the epoch, on its way in and out.
LEMMA EpochKept == BoundaryInv /\ [Next]_vars => EpochInv'
<1> SUFFICES ASSUME BoundaryInv, [Next]_vars PROVE EpochInv'
  OBVIOUS
<1> USE ResetBoundaryAssumption, Parity
      DEF BoundaryInv, Goto, locks, tables, packages, ghosts, Nobody, Hot, Threads, CanRead,
          TypeOK, CommandInv, LockInv, EpochInv, Exclusive, HotPCs, ControlPCs, MainPCs,
          ListenerPCs, ResetPCs, Commands, Resetting, AfterUpdate
<1>1. ASSUME NEW t \in Hot, Arrive(t) PROVE EpochInv'
  BY <1>1 DEF Arrive
<1>2. ASSUME NEW t \in Hot, ReadEpoch(t) PROVE EpochInv'
  BY <1>2 DEF ReadEpoch
<1>3. ASSUME NEW t \in Hot, WaitReset(t) PROVE EpochInv'
  BY <1>3 DEF WaitReset
<1>4. ASSUME NEW t \in Hot, FindApp(t) PROVE EpochInv'
  BY <1>4 DEF FindApp
<1>5. ASSUME NEW t \in Hot, FindHost(t) PROVE EpochInv'
  BY <1>5 DEF FindHost
<1>6. ASSUME NEW t \in Hot, LockShared(t) PROVE EpochInv'
  BY <1>6 DEF LockShared
<1>7. ASSUME NEW t \in Hot, PublishFails(t) PROVE EpochInv'
  BY <1>7 DEF PublishFails, Retry
<1>8. ASSUME NEW t \in Hot, PublishApp(t) PROVE EpochInv'
  BY <1>8 DEF PublishApp
<1>9. ASSUME NEW t \in Hot, HostMissing(t) PROVE EpochInv'
  BY <1>9 DEF HostMissing, Retry
<1>10. ASSUME NEW t \in Hot, PublishHost(t) PROVE EpochInv'
  BY <1>10 DEF PublishHost
<1>11. ASSUME NEW t \in Hot, make(t) PROVE EpochInv'
  BY <1>11 DEF make
<1>12. ASSUME NEW t \in Hot, makeDomain(t) PROVE EpochInv'
  BY <1>12 DEF makeDomain
<1>13. ASSUME NEW t \in Hot, Reply(t) PROVE EpochInv'
  BY <1>13 DEF Reply
<1>14. ASSUME NEW t \in Hot, SessionFails(t) PROVE EpochInv'
  BY <1>14 DEF SessionFails
<1>15. ASSUME NEW t \in Hot, removeIPs(t) PROVE EpochInv'
  BY <1>15 DEF removeIPs
<1>16. ASSUME NEW t \in Hot, addIPBoth(t) PROVE EpochInv'
  BY <1>16 DEF addIPBoth
<1>17. ASSUME NEW t \in Hot, EndOfAddresses(t) PROVE EpochInv'
  BY <1>17 DEF EndOfAddresses
<1>18. ASSUME NEW t \in Hot, updateStats(t) PROVE EpochInv'
  BY <1>18 DEF updateStats
<1>19. ASSUME NEW t \in Controls \cup Mains, LockSave(t) PROVE EpochInv'
  BY <1>19 DEF LockSave
<1>20. ASSUME NEW t \in Controls \cup Mains, LockControl(t) PROVE EpochInv'
  BY <1>20 DEF LockControl
<1>21. ASSUME NEW t \in Controls \cup Mains, EnterListeners(t) PROVE EpochInv'
  BY <1>21 DEF EnterListeners
<1>22. ASSUME NEW t \in Controls \cup Mains, DrainListeners(t) PROVE EpochInv'
  BY <1>22 DEF DrainListeners
<1>23. ASSUME NEW t \in Controls \cup Mains, SaveState(t) PROVE EpochInv'
  BY <1>23 DEF SaveState
<1>24. ASSUME NEW t \in Controls \cup Mains, SnapshotApps(t) PROVE EpochInv'
  BY <1>24 DEF SnapshotApps
<1>25. ASSUME NEW t \in Controls \cup Mains, WriteApps(t) PROVE EpochInv'
  <2>1. CASE t \in Controls
    BY <1>25, <2>1 DEF WriteApps
  <2>2. CASE t \in Mains
    BY <1>25, <2>2 DEF WriteApps
  <2> QED BY <2>1, <2>2
<1>26. ASSUME NEW t \in Controls \cup {"packages"}, ParsePackages(t) PROVE EpochInv'
  BY <1>26 DEF ParsePackages
<1>27. ASSUME NEW t \in Controls \cup {"packages"}, GiveUp(t) PROVE EpochInv'
  BY <1>27 DEF GiveUp
<1>28. ASSUME NEW t \in Controls \cup {"packages"}, DiffNames(t) PROVE EpochInv'
  BY <1>28 DEF DiffNames
<1>29. ASSUME NEW t \in Controls \cup {"packages"}, ApplyPackages(t) PROVE EpochInv'
  BY <1>29 DEF ApplyPackages
<1>30. ASSUME NEW t \in Controls, Request(t) PROVE EpochInv'
  BY <1>30 DEF Request
<1>31. ASSUME NEW t \in Controls, ConfigSetDevice(t) PROVE EpochInv'
  BY <1>31 DEF ConfigSetDevice, Done, ReleaseAll
<1>32. ASSUME NEW t \in Controls, ConfigSetApp(t) PROVE EpochInv'
  BY <1>32 DEF ConfigSetApp, Done, ReleaseAll
<1>33. ASSUME NEW t \in Controls, ConfigSetRefused(t) PROVE EpochInv'
  BY <1>33 DEF ConfigSetRefused, Done, ReleaseAll
<1>34. ASSUME NEW t \in Controls, MetricsReset(t) PROVE EpochInv'
  BY <1>34 DEF MetricsReset, Done, ReleaseAll
<1>35. ASSUME NEW t \in Controls, LegacyLock(t) PROVE EpochInv'
  BY <1>35 DEF LegacyLock
<1>36. ASSUME NEW t \in Controls, LegacyApply(t) PROVE EpochInv'
  BY <1>36 DEF LegacyApply, Done, ReleaseAll
<1>37. ASSUME NEW t \in Controls, StageRestore(t) PROVE EpochInv'
  BY <1>37 DEF StageRestore
<1>38. ASSUME NEW t \in Controls, StageRestoreFails(t) PROVE EpochInv'
  BY <1>38 DEF StageRestoreFails, Done, ReleaseAll
<1>39. ASSUME NEW t \in Controls, BeginResetEpoch(t) PROVE EpochInv'
  BY <1>39 DEF BeginResetEpoch
<1>40. ASSUME NEW t \in Controls, ResetApps(t) PROVE EpochInv'
  BY <1>40 DEF ResetApps
<1>41. ASSUME NEW t \in Controls, ResetDomains(t) PROVE EpochInv'
  BY <1>41 DEF ResetDomains
<1>42. ASSUME NEW t \in Controls, ResetHosts(t) PROVE EpochInv'
  BY <1>42 DEF ResetHosts
<1>43. ASSUME NEW t \in Controls, RestoreLive(t) PROVE EpochInv'
  BY ZenonT(30), <1>43 DEF RestoreLive
<1>44. ASSUME NEW t \in Controls, RestoreFails(t) PROVE EpochInv'
  BY <1>44 DEF RestoreFails, Done, ReleaseAll
<1>45. ASSUME NEW t \in Controls, EndResetEpoch(t) PROVE EpochInv'
  BY <1>45 DEF EndResetEpoch, Done, ReleaseAll
<1>46. ASSUME NEW t \in Controls, ResetNames(t) PROVE EpochInv'
  BY <1>46 DEF ResetNames
<1>47. ASSUME NEW t \in Mains, PeriodicSave(t) PROVE EpochInv'
  BY <1>47 DEF PeriodicSave
<1>48. ASSUME NEW t \in Mains, PeriodicSaved(t) PROVE EpochInv'
  BY <1>48 DEF PeriodicSaved
<1>49. ASSUME NEW t \in Mains, FinalSave(t) PROVE EpochInv'
  BY <1>49 DEF FinalSave
<1>50. ASSUME NEW t \in Mains, Exit(t) PROVE EpochInv'
  BY <1>50 DEF Exit, ReleaseAll
<1>51. ASSUME PackagesChange PROVE EpochInv'
  BY <1>51 DEF PackagesChange
<1>52. ASSUME StartUpdate PROVE EpochInv'
  BY <1>52 DEF StartUpdate
<1>53. CASE UNCHANGED vars
  BY <1>53 DEF vars
<1> QED BY <1>1, <1>2, <1>3, <1>4, <1>5, <1>6, <1>7, <1>8, <1>9, <1>10, <1>11, <1>12, <1>13,
      <1>14, <1>15, <1>16, <1>17, <1>18, <1>19, <1>20, <1>21, <1>22, <1>23, <1>24, <1>25,
      <1>26, <1>27, <1>28, <1>29, <1>30, <1>31, <1>32, <1>33, <1>34, <1>35, <1>36, <1>37,
      <1>38, <1>39, <1>40, <1>41, <1>42, <1>43, <1>44, <1>45, <1>46, <1>47, <1>48, <1>49,
      <1>50, <1>51, <1>52, <1>53
    DEF Next, HotStep, LockStep, SaveStep, UpdateStep, CommandStep

\* No step puts anything old into what is already cleared.
LEMMA TableKept == BoundaryInv /\ [Next]_vars => TableInv'
<1> SUFFICES ASSUME BoundaryInv, [Next]_vars PROVE TableInv'
  OBVIOUS
<1> USE ResetBoundaryAssumption
      DEF BoundaryInv, Goto, locks, tables, packages, ghosts, Nobody, Hot, Threads, CanRead,
          TypeOK, CommandInv, LockInv, EpochInv, TableInv, HotInv, HotInvOf, Current, Dirty,
          Found, Prepared, Exclusive, HotPCs, ControlPCs, MainPCs, ListenerPCs, ResetPCs,
          Commands, Resetting, AppRecords, HostRecords, Locals, Updates, NoApp, NoHost, Older,
          AfterUpdate, StillCurrent
<1>1. ASSUME NEW t \in Hot, Arrive(t) PROVE TableInv'
  BY <1>1 DEF Arrive
<1>2. ASSUME NEW t \in Hot, ReadEpoch(t) PROVE TableInv'
  BY <1>2 DEF ReadEpoch
<1>3. ASSUME NEW t \in Hot, WaitReset(t) PROVE TableInv'
  BY <1>3 DEF WaitReset
<1>4. ASSUME NEW t \in Hot, FindApp(t) PROVE TableInv'
  BY <1>4 DEF FindApp
<1>5. ASSUME NEW t \in Hot, FindHost(t) PROVE TableInv'
  BY <1>5 DEF FindHost
<1>6. ASSUME NEW t \in Hot, LockShared(t) PROVE TableInv'
  BY <1>6 DEF LockShared
<1>7. ASSUME NEW t \in Hot, PublishFails(t) PROVE TableInv'
  BY <1>7 DEF PublishFails, Retry
<1>8. ASSUME NEW t \in Hot, PublishApp(t) PROVE TableInv'
  <2>1. epoch = hot[t].epoch /\ Stable(epoch) /\ hot[t].uid \in Uids /\ hot[t].app.gen = generation
    BY <1>8 DEF PublishApp
  <2>2. \A u \in Uids : apps'[u].gen \in {apps[u].gen, hot[t].app.gen}
    BY <1>8, <2>1 DEF PublishApp
  <2>3. \A c \in Controls : pc'[c] = pc[c] /\ pc[c] # "resetApps"
    BY <1>8, <2>1 DEF PublishApp
  <2>4. /\ UNCHANGED <<hosts, domain, ipmap, stats, epoch, generation, cleared, policy, op>>
        /\ \A s \in {"resetApps", "resetDomains", "resetHosts"} : Dirty(s)' = Dirty(s)
    BY <1>8, <2>3 DEF PublishApp
  <2>5. ~Dirty("resetApps") => \A u \in Uids : Current(apps[u].gen)
    OBVIOUS
  <2>6. ~Dirty("resetApps") => \A u \in Uids : Current(apps'[u].gen)
    BY <2>1, <2>2, <2>5
  <2> QED BY <2>4, <2>6
<1>9. ASSUME NEW t \in Hot, HostMissing(t) PROVE TableInv'
  BY <1>9 DEF HostMissing, Retry
<1>10. ASSUME NEW t \in Hot, PublishHost(t) PROVE TableInv'
  BY <1>10 DEF PublishHost
<1>11. ASSUME NEW t \in Hot, make(t) PROVE TableInv'
  BY <1>11 DEF make
<1>12. ASSUME NEW t \in Hot, makeDomain(t) PROVE TableInv'
  BY <1>12 DEF makeDomain
<1>13. ASSUME NEW t \in Hot, Reply(t) PROVE TableInv'
  BY <1>13 DEF Reply
<1>14. ASSUME NEW t \in Hot, SessionFails(t) PROVE TableInv'
  BY <1>14 DEF SessionFails
<1>15. ASSUME NEW t \in Hot, removeIPs(t) PROVE TableInv'
  BY <1>15 DEF removeIPs
<1>16. ASSUME NEW t \in Hot, addIPBoth(t) PROVE TableInv'
  BY <1>16 DEF addIPBoth
<1>17. ASSUME NEW t \in Hot, EndOfAddresses(t) PROVE TableInv'
  BY <1>17 DEF EndOfAddresses
<1>18. ASSUME NEW t \in Hot, updateStats(t) PROVE TableInv'
  BY <1>18 DEF updateStats
<1>19. ASSUME NEW t \in Controls \cup Mains, LockSave(t) PROVE TableInv'
  BY <1>19 DEF LockSave
<1>20. ASSUME NEW t \in Controls \cup Mains, LockControl(t) PROVE TableInv'
  BY <1>20 DEF LockControl
<1>21. ASSUME NEW t \in Controls \cup Mains, EnterListeners(t) PROVE TableInv'
  BY <1>21 DEF EnterListeners
<1>22. ASSUME NEW t \in Controls \cup Mains, DrainListeners(t) PROVE TableInv'
  BY <1>22 DEF DrainListeners
<1>23. ASSUME NEW t \in Controls \cup Mains, SaveState(t) PROVE TableInv'
  BY <1>23 DEF SaveState
<1>24. ASSUME NEW t \in Controls \cup Mains, SnapshotApps(t) PROVE TableInv'
  BY <1>24 DEF SnapshotApps
<1>25. ASSUME NEW t \in Controls \cup Mains, WriteApps(t) PROVE TableInv'
  BY <1>25 DEF WriteApps
<1>26. ASSUME NEW t \in Controls \cup {"packages"}, ParsePackages(t) PROVE TableInv'
  BY <1>26 DEF ParsePackages
<1>27. ASSUME NEW t \in Controls \cup {"packages"}, GiveUp(t) PROVE TableInv'
  BY <1>27 DEF GiveUp
<1>28. ASSUME NEW t \in Controls \cup {"packages"}, DiffNames(t) PROVE TableInv'
  BY <1>28 DEF DiffNames
<1>29. ASSUME NEW t \in Controls \cup {"packages"}, ApplyPackages(t) PROVE TableInv'
  BY <1>29 DEF ApplyPackages
<1>30. ASSUME NEW t \in Controls, Request(t) PROVE TableInv'
  BY <1>30 DEF Request
<1>31. ASSUME NEW t \in Controls, ConfigSetDevice(t) PROVE TableInv'
  BY <1>31 DEF ConfigSetDevice, Done, ReleaseAll
<1>32. ASSUME NEW t \in Controls, ConfigSetApp(t) PROVE TableInv'
  BY <1>32 DEF ConfigSetApp, Done, ReleaseAll
<1>33. ASSUME NEW t \in Controls, ConfigSetRefused(t) PROVE TableInv'
  BY <1>33 DEF ConfigSetRefused, Done, ReleaseAll
<1>34. ASSUME NEW t \in Controls, MetricsReset(t) PROVE TableInv'
  BY <1>34 DEF MetricsReset, Done, ReleaseAll
<1>35. ASSUME NEW t \in Controls, LegacyLock(t) PROVE TableInv'
  BY <1>35 DEF LegacyLock
<1>36. ASSUME NEW t \in Controls, LegacyApply(t) PROVE TableInv'
  BY <1>36 DEF LegacyApply, Done, ReleaseAll
<1>37. ASSUME NEW t \in Controls, StageRestore(t) PROVE TableInv'
  BY <1>37 DEF StageRestore
<1>38. ASSUME NEW t \in Controls, StageRestoreFails(t) PROVE TableInv'
  BY <1>38 DEF StageRestoreFails, Done, ReleaseAll
<1>39. ASSUME NEW t \in Controls, BeginResetEpoch(t) PROVE TableInv'
  BY <1>39 DEF BeginResetEpoch
<1>40. ASSUME NEW t \in Controls, ResetApps(t) PROVE TableInv'
  BY <1>40 DEF ResetApps
<1>41. ASSUME NEW t \in Controls, ResetDomains(t) PROVE TableInv'
  BY <1>41 DEF ResetDomains
<1>42. ASSUME NEW t \in Controls, ResetHosts(t) PROVE TableInv'
  BY <1>42 DEF ResetHosts
<1>43. ASSUME NEW t \in Controls, RestoreLive(t) PROVE TableInv'
  BY <1>43, Restored
<1>44. ASSUME NEW t \in Controls, RestoreFails(t) PROVE TableInv'
  BY <1>44 DEF RestoreFails, Done, ReleaseAll
<1>45. ASSUME NEW t \in Controls, EndResetEpoch(t) PROVE TableInv'
  BY <1>45 DEF EndResetEpoch, Done, ReleaseAll
<1>46. ASSUME NEW t \in Controls, ResetNames(t) PROVE TableInv'
  BY <1>46 DEF ResetNames
<1>47. ASSUME NEW t \in Mains, PeriodicSave(t) PROVE TableInv'
  BY <1>47 DEF PeriodicSave
<1>48. ASSUME NEW t \in Mains, PeriodicSaved(t) PROVE TableInv'
  BY <1>48 DEF PeriodicSaved
<1>49. ASSUME NEW t \in Mains, FinalSave(t) PROVE TableInv'
  BY <1>49 DEF FinalSave
<1>50. ASSUME NEW t \in Mains, Exit(t) PROVE TableInv'
  BY <1>50 DEF Exit, ReleaseAll
<1>51. ASSUME PackagesChange PROVE TableInv'
  BY <1>51 DEF PackagesChange
<1>52. ASSUME StartUpdate PROVE TableInv'
  BY <1>52 DEF StartUpdate
<1>53. CASE UNCHANGED vars
  BY <1>53 DEF vars
<1> QED BY <1>1, <1>2, <1>3, <1>4, <1>5, <1>6, <1>7, <1>8, <1>9, <1>10, <1>11, <1>12, <1>13,
      <1>14, <1>15, <1>16, <1>17, <1>18, <1>19, <1>20, <1>21, <1>22, <1>23, <1>24, <1>25,
      <1>26, <1>27, <1>28, <1>29, <1>30, <1>31, <1>32, <1>33, <1>34, <1>35, <1>36, <1>37,
      <1>38, <1>39, <1>40, <1>41, <1>42, <1>43, <1>44, <1>45, <1>46, <1>47, <1>48, <1>49,
      <1>50, <1>51, <1>52, <1>53
    DEF Next, HotStep, LockStep, SaveStep, UpdateStep, CommandStep

\* No step writes anything old to the save tree.
LEMMA SaveKept == BoundaryInv /\ [Next]_vars => SaveInv'
<1> SUFFICES ASSUME BoundaryInv, [Next]_vars PROVE SaveInv'
  OBVIOUS
<1> USE ResetBoundaryAssumption, Parity
      DEF BoundaryInv, Goto, locks, tables, packages, ghosts, Nobody, Hot, Threads, CanRead,
          TypeOK, CommandInv, LockInv, EpochInv, TableInv, SaveInv, FinalSaveComplete,
          Current, Dirty, Exclusive, LiveState, Older, NoApp, HotPCs, ControlPCs, MainPCs,
          ListenerPCs, ResetPCs, Commands, Resetting, AppRecords, Updates, AfterUpdate
<1>1. ASSUME NEW t \in Hot, Arrive(t) PROVE SaveInv'
  BY <1>1 DEF Arrive
<1>2. ASSUME NEW t \in Hot, ReadEpoch(t) PROVE SaveInv'
  BY <1>2 DEF ReadEpoch
<1>3. ASSUME NEW t \in Hot, WaitReset(t) PROVE SaveInv'
  BY <1>3 DEF WaitReset
<1>4. ASSUME NEW t \in Hot, FindApp(t) PROVE SaveInv'
  BY <1>4 DEF FindApp
<1>5. ASSUME NEW t \in Hot, FindHost(t) PROVE SaveInv'
  BY <1>5 DEF FindHost
<1>6. ASSUME NEW t \in Hot, LockShared(t) PROVE SaveInv'
  BY <1>6 DEF LockShared
<1>7. ASSUME NEW t \in Hot, PublishFails(t) PROVE SaveInv'
  BY <1>7 DEF PublishFails, Retry
<1>8. ASSUME NEW t \in Hot, PublishApp(t) PROVE SaveInv'
  BY <1>8 DEF PublishApp
<1>9. ASSUME NEW t \in Hot, HostMissing(t) PROVE SaveInv'
  BY <1>9 DEF HostMissing, Retry
<1>10. ASSUME NEW t \in Hot, PublishHost(t) PROVE SaveInv'
  BY <1>10 DEF PublishHost
<1>11. ASSUME NEW t \in Hot, make(t) PROVE SaveInv'
  BY <1>11 DEF make
<1>12. ASSUME NEW t \in Hot, makeDomain(t) PROVE SaveInv'
  BY <1>12 DEF makeDomain
<1>13. ASSUME NEW t \in Hot, Reply(t) PROVE SaveInv'
  BY <1>13 DEF Reply
<1>14. ASSUME NEW t \in Hot, SessionFails(t) PROVE SaveInv'
  BY <1>14 DEF SessionFails
<1>15. ASSUME NEW t \in Hot, removeIPs(t) PROVE SaveInv'
  BY <1>15 DEF removeIPs
<1>16. ASSUME NEW t \in Hot, addIPBoth(t) PROVE SaveInv'
  BY <1>16 DEF addIPBoth
<1>17. ASSUME NEW t \in Hot, EndOfAddresses(t) PROVE SaveInv'
  BY <1>17 DEF EndOfAddresses
<1>18. ASSUME NEW t \in Hot, updateStats(t) PROVE SaveInv'
  BY <1>18 DEF updateStats
<1>19. ASSUME NEW t \in Controls \cup Mains, LockSave(t) PROVE SaveInv'
  BY <1>19 DEF LockSave
<1>20. ASSUME NEW t \in Controls \cup Mains, LockControl(t) PROVE SaveInv'
  BY <1>20 DEF LockControl
<1>21. ASSUME NEW t \in Controls \cup Mains, EnterListeners(t) PROVE SaveInv'
  BY <1>21 DEF EnterListeners
<1>22. ASSUME NEW t \in Controls \cup Mains, DrainListeners(t) PROVE SaveInv'
  BY <1>22 DEF DrainListeners
<1>23. ASSUME NEW t \in Controls \cup Mains, SaveState(t) PROVE SaveInv'
  BY <1>23 DEF SaveState
<1>24. ASSUME NEW t \in Controls \cup Mains, SnapshotApps(t) PROVE SaveInv'
  BY SMTT(30), <1>24 DEF SnapshotApps
<1>25. ASSUME NEW t \in Controls \cup Mains, WriteApps(t) PROVE SaveInv'
  BY SMTT(30), <1>25 DEF WriteApps
<1>26. ASSUME NEW t \in Controls \cup {"packages"}, ParsePackages(t) PROVE SaveInv'
  BY <1>26 DEF ParsePackages
<1>27. ASSUME NEW t \in Controls \cup {"packages"}, GiveUp(t) PROVE SaveInv'
  BY <1>27 DEF GiveUp
<1>28. ASSUME NEW t \in Controls \cup {"packages"}, DiffNames(t) PROVE SaveInv'
  BY <1>28 DEF DiffNames
<1>29. ASSUME NEW t \in Controls \cup {"packages"}, ApplyPackages(t) PROVE SaveInv'
  BY <1>29 DEF ApplyPackages
<1>30. ASSUME NEW t \in Controls, Request(t) PROVE SaveInv'
  BY <1>30 DEF Request
<1>31. ASSUME NEW t \in Controls, ConfigSetDevice(t) PROVE SaveInv'
  BY <1>31 DEF ConfigSetDevice, Done, ReleaseAll
<1>32. ASSUME NEW t \in Controls, ConfigSetApp(t) PROVE SaveInv'
  BY <1>32 DEF ConfigSetApp, Done, ReleaseAll
<1>33. ASSUME NEW t \in Controls, ConfigSetRefused(t) PROVE SaveInv'
  BY <1>33 DEF ConfigSetRefused, Done, ReleaseAll
<1>34. ASSUME NEW t \in Controls, MetricsReset(t) PROVE SaveInv'
  BY <1>34 DEF MetricsReset, Done, ReleaseAll
<1>35. ASSUME NEW t \in Controls, LegacyLock(t) PROVE SaveInv'
  BY <1>35 DEF LegacyLock
<1>36. ASSUME NEW t \in Controls, LegacyApply(t) PROVE SaveInv'
  BY <1>36 DEF LegacyApply, Done, ReleaseAll
<1>37. ASSUME NEW t \in Controls, StageRestore(t) PROVE SaveInv'
  BY <1>37 DEF StageRestore
<1>38. ASSUME NEW t \in Controls, StageRestoreFails(t) PROVE SaveInv'
  BY <1>38 DEF StageRestoreFails, Done, ReleaseAll
<1>39. ASSUME NEW t \in Controls, BeginResetEpoch(t) PROVE SaveInv'
  <2>1. CASE op[t] = "RESETALL"
    <3>1. pc'[t] = "resetApps"
      BY <1>39, <2>1 DEF BeginResetEpoch
    <3>2. \A s \in Controls \cup Mains : pc[s] # "writeApps"
      BY SMTT(30), <1>39 DEF BeginResetEpoch
    <3> QED BY <1>39, <2>1, <3>1, <3>2 DEF BeginResetEpoch
  <2>2. CASE op[t] # "RESETALL"
    BY <1>39, <2>2 DEF BeginResetEpoch
  <2> QED BY <2>1, <2>2
<1>40. ASSUME NEW t \in Controls, ResetApps(t) PROVE SaveInv'
  BY <1>40 DEF ResetApps
<1>41. ASSUME NEW t \in Controls, ResetDomains(t) PROVE SaveInv'
  BY <1>41 DEF ResetDomains
<1>42. ASSUME NEW t \in Controls, ResetHosts(t) PROVE SaveInv'
  BY <1>42 DEF ResetHosts
<1>43. ASSUME NEW t \in Controls, RestoreLive(t) PROVE SaveInv'
  <2>1. \A s \in Controls \cup Mains : pc[s] # "writeApps"
    <3>1. pc[t] = "restore" /\ op[t] = "CHECKPOINT.RESTORE"
      BY SMTT(30), <1>43, Restored
    <3>2. saveReset = t
      BY <3>1
    <3> QED BY <3>1, <3>2
  <2>2. \A u \in Uids : snapshot'[u] = 0
    BY <1>43, <2>1, Restored
  <2>3. \A u \in Uids : disk'.apps[u] = 0 \/ disk'.apps[u] \in cleared' .. generation'
    <3>1. \A s \in Controls : pc[s] # "resetApps"
      BY <1>43, Restored
    <3> QED BY <1>43, <3>1, Restored
  <2>4. \A s \in Controls \cup Mains : pc'[s] # "writeApps"
    BY <1>43, <2>1, Restored
  <2>5. op'[t] = "CHECKPOINT.RESTORE" /\ pc'[t] = "resetHosts"
    BY SMTT(30), <1>43, Restored
  <2>6. FinalSaveComplete'
    BY <1>43, Restored
  <2> QED BY <2>2, <2>3, <2>4, <2>5, <2>6
<1>44. ASSUME NEW t \in Controls, RestoreFails(t) PROVE SaveInv'
  BY <1>44 DEF RestoreFails, Done, ReleaseAll
<1>45. ASSUME NEW t \in Controls, EndResetEpoch(t) PROVE SaveInv'
  BY <1>45 DEF EndResetEpoch, Done, ReleaseAll
<1>46. ASSUME NEW t \in Controls, ResetNames(t) PROVE SaveInv'
  BY <1>46 DEF ResetNames
<1>47. ASSUME NEW t \in Mains, PeriodicSave(t) PROVE SaveInv'
  BY <1>47 DEF PeriodicSave
<1>48. ASSUME NEW t \in Mains, PeriodicSaved(t) PROVE SaveInv'
  BY <1>48 DEF PeriodicSaved
<1>49. ASSUME NEW t \in Mains, FinalSave(t) PROVE SaveInv'
  BY <1>49 DEF FinalSave
<1>50. ASSUME NEW t \in Mains, Exit(t) PROVE SaveInv'
  BY <1>50 DEF Exit, ReleaseAll
<1>51. ASSUME PackagesChange PROVE SaveInv'
  BY <1>51 DEF PackagesChange
<1>52. ASSUME StartUpdate PROVE SaveInv'
  BY <1>52 DEF StartUpdate
<1>53. CASE UNCHANGED vars
  BY <1>53 DEF vars
<1> QED BY <1>1, <1>2, <1>3, <1>4, <1>5, <1>6, <1>7, <1>8, <1>9, <1>10, <1>11, <1>12, <1>13,
      <1>14, <1>15, <1>16, <1>17, <1>18, <1>19, <1>20, <1>21, <1>22, <1>23, <1>24, <1>25,
      <1>26, <1>27, <1>28, <1>29, <1>30, <1>31, <1>32, <1>33, <1>34, <1>35, <1>36, <1>37,
      <1>38, <1>39, <1>40, <1>41, <1>42, <1>43, <1>44, <1>45, <1>46, <1>47, <1>48, <1>49,
      <1>50, <1>51, <1>52, <1>53
    DEF Next, HotStep, LockStep, SaveStep, UpdateStep, CommandStep

\* What a packet or DNS thread holds stays current as long as its epoch is.
LEMMA HotKept == BoundaryInv /\ [Next]_vars => HotInv'
<1> SUFFICES ASSUME BoundaryInv, [Next]_vars PROVE HotInv'
  OBVIOUS
<1> USE ResetBoundaryAssumption, Parity
      DEF BoundaryInv, Goto, locks, tables, packages, ghosts, Nobody, Hot, Threads, CanRead,
          TypeOK, CommandInv, LockInv, EpochInv, TableInv, HotInv, HotInvOf, Current, Dirty,
          Found, Prepared, Exclusive, HotPCs, ControlPCs, MainPCs, ListenerPCs, ResetPCs,
          Commands, Resetting, AppRecords, HostRecords, Locals, NoApp, NoHost, NoLocals,
          AfterUpdate
<1>1. ASSUME NEW t \in Hot, Arrive(t) PROVE HotInv'
  BY <1>1 DEF Arrive
<1>2. ASSUME NEW t \in Hot, ReadEpoch(t) PROVE HotInv'
  BY <1>2 DEF ReadEpoch
<1>3. ASSUME NEW t \in Hot, WaitReset(t) PROVE HotInv'
  BY <1>3 DEF WaitReset
<1>4. ASSUME NEW t \in Hot, FindApp(t) PROVE HotInv'
  <2> DEFINE app == IF apps[hot[t].uid].gen # 0 THEN apps[hot[t].uid]
                    ELSE [NoApp EXCEPT !.gen = generation]
  <2>1. hot[t].uid \in Uids /\ Stable(hot[t].epoch)
    BY <1>4 DEF FindApp
  <2>2. hot[t].epoch = epoch => app.gen = generation
    BY <2>1
  <2>3. /\ hot'[t].epoch = hot[t].epoch /\ hot'[t].uid = hot[t].uid
        /\ hot'[t].addr = hot[t].addr /\ hot'[t].host = hot[t].host
        /\ hot'[t].dom = hot[t].dom /\ hot'[t].app = app
    BY <1>4 DEF FindApp
  <2>4. /\ \A s \in Hot \ {t} : hot'[s] = hot[s] /\ pc'[s] = pc[s]
        /\ pc[t] = "find" /\ pc'[t] \in {"findHost", "lock"}
        /\ UNCHANGED <<epoch, generation>>
    BY <1>4 DEF FindApp
  <2> HIDE DEF app
  <2>6. ASSUME NEW s \in Hot, s # t PROVE HotInvOf(s)'
    BY <2>6, <2>4 DEF HotInvOf
  <2>7. HotInvOf(t)'
    BY <2>1, <2>2, <2>3, <2>4 DEF HotInvOf
  <2> QED BY <2>6, <2>7 DEF HotInvOf
<1>5. ASSUME NEW t \in Hot, FindHost(t) PROVE HotInv'
  BY <1>5 DEF FindHost
<1>6. ASSUME NEW t \in Hot, LockShared(t) PROVE HotInv'
  BY <1>6 DEF LockShared
<1>7. ASSUME NEW t \in Hot, PublishFails(t) PROVE HotInv'
  BY <1>7 DEF PublishFails, Retry
<1>8. ASSUME NEW t \in Hot, PublishApp(t) PROVE HotInv'
  <2>1. epoch = hot[t].epoch /\ Stable(epoch) /\ hot[t].uid \in Uids /\ hot[t].app.gen = generation
    BY <1>8 DEF PublishApp
  <2>2. apps[hot[t].uid].gen \in {0, generation}
    BY <2>1
  <2>3. apps'[hot[t].uid].gen = generation
    BY <1>8, <2>1, <2>2 DEF PublishApp
  <2>4. /\ hot'[t].epoch = hot[t].epoch /\ hot'[t].uid = hot[t].uid
        /\ hot'[t].addr = hot[t].addr /\ hot'[t].host = hot[t].host
        /\ hot'[t].dom = hot[t].dom /\ hot'[t].app.gen = generation
    BY <1>8, <2>3 DEF PublishApp
  <2>5. /\ \A s \in Hot \ {t} : hot'[s] = hot[s] /\ pc'[s] = pc[s]
        /\ pc[t] = "publish" /\ pc'[t] \in {"host", "domain"}
        /\ UNCHANGED <<epoch, generation>>
    BY <1>8 DEF PublishApp
  <2>6. ASSUME NEW s \in Hot, s # t PROVE HotInvOf(s)'
    BY <2>6, <2>5 DEF HotInvOf
  <2>7. HotInvOf(t)'
    BY <2>1, <2>3, <2>4, <2>5 DEF HotInvOf
  <2> QED BY <2>6, <2>7 DEF HotInvOf
<1>9. ASSUME NEW t \in Hot, HostMissing(t) PROVE HotInv'
  BY <1>9 DEF HostMissing, Retry
<1>10. ASSUME NEW t \in Hot, PublishHost(t) PROVE HotInv'
  BY <1>10 DEF PublishHost
<1>11. ASSUME NEW t \in Hot, make(t) PROVE HotInv'
  BY <1>11 DEF make
<1>12. ASSUME NEW t \in Hot, makeDomain(t) PROVE HotInv'
  BY <1>12 DEF makeDomain
<1>13. ASSUME NEW t \in Hot, Reply(t) PROVE HotInv'
  BY <1>13 DEF Reply
<1>14. ASSUME NEW t \in Hot, SessionFails(t) PROVE HotInv'
  BY <1>14 DEF SessionFails
<1>15. ASSUME NEW t \in Hot, removeIPs(t) PROVE HotInv'
  BY <1>15 DEF removeIPs
<1>16. ASSUME NEW t \in Hot, addIPBoth(t) PROVE HotInv'
  BY <1>16 DEF addIPBoth
<1>17. ASSUME NEW t \in Hot, EndOfAddresses(t) PROVE HotInv'
  BY <1>17 DEF EndOfAddresses
<1>18. ASSUME NEW t \in Hot, updateStats(t) PROVE HotInv'
  BY <1>18 DEF updateStats
<1>19. ASSUME NEW t \in Controls \cup Mains, LockSave(t) PROVE HotInv'
  BY <1>19 DEF LockSave
<1>20. ASSUME NEW t \in Controls \cup Mains, LockControl(t) PROVE HotInv'
  BY <1>20 DEF LockControl
<1>21. ASSUME NEW t \in Controls \cup Mains, EnterListeners(t) PROVE HotInv'
  BY <1>21 DEF EnterListeners
<1>22. ASSUME NEW t \in Controls \cup Mains, DrainListeners(t) PROVE HotInv'
  BY <1>22 DEF DrainListeners
<1>23. ASSUME NEW t \in Controls \cup Mains, SaveState(t) PROVE HotInv'
  BY <1>23 DEF SaveState
<1>24. ASSUME NEW t \in Controls \cup Mains, SnapshotApps(t) PROVE HotInv'
  BY <1>24 DEF SnapshotApps
<1>25. ASSUME NEW t \in Controls \cup Mains, WriteApps(t) PROVE HotInv'
  BY <1>25 DEF WriteApps
<1>26. ASSUME NEW t \in Controls \cup {"packages"}, ParsePackages(t) PROVE HotInv'
  BY <1>26 DEF ParsePackages
<1>27. ASSUME NEW t \in Controls \cup {"packages"}, GiveUp(t) PROVE HotInv'
  BY <1>27 DEF GiveUp
<1>28. ASSUME NEW t \in Controls \cup {"packages"}, DiffNames(t) PROVE HotInv'
  BY <1>28 DEF DiffNames
<1>29. ASSUME NEW t \in Controls \cup {"packages"}, ApplyPackages(t) PROVE HotInv'
  BY <1>29 DEF ApplyPackages
<1>30. ASSUME NEW t \in Controls, Request(t) PROVE HotInv'
  BY <1>30 DEF Request
<1>31. ASSUME NEW t \in Controls, ConfigSetDevice(t) PROVE HotInv'
  BY <1>31 DEF ConfigSetDevice, Done, ReleaseAll
<1>32. ASSUME NEW t \in Controls, ConfigSetApp(t) PROVE HotInv'
  BY <1>32 DEF ConfigSetApp, Done, ReleaseAll
<1>33. ASSUME NEW t \in Controls, ConfigSetRefused(t) PROVE HotInv'
  BY <1>33 DEF ConfigSetRefused, Done, ReleaseAll
<1>34. ASSUME NEW t \in Controls, MetricsReset(t) PROVE HotInv'
  BY <1>34 DEF MetricsReset, Done, ReleaseAll
<1>35. ASSUME NEW t \in Controls, LegacyLock(t) PROVE HotInv'
  BY <1>35 DEF LegacyLock
<1>36. ASSUME NEW t \in Controls, LegacyApply(t) PROVE HotInv'
  BY <1>36 DEF LegacyApply, Done, ReleaseAll
<1>37. ASSUME NEW t \in Controls, StageRestore(t) PROVE HotInv'
  BY <1>37 DEF StageRestore
<1>38. ASSUME NEW t \in Controls, StageRestoreFails(t) PROVE HotInv'
  BY <1>38 DEF StageRestoreFails, Done, ReleaseAll
<1>39. ASSUME NEW t \in Controls, BeginResetEpoch(t) PROVE HotInv'
  BY <1>39 DEF BeginResetEpoch
<1>40. ASSUME NEW t \in Controls, ResetApps(t) PROVE HotInv'
  BY <1>40 DEF ResetApps
<1>41. ASSUME NEW t \in Controls, ResetDomains(t) PROVE HotInv'
  BY <1>41 DEF ResetDomains
<1>42. ASSUME NEW t \in Controls, ResetHosts(t) PROVE HotInv'
  BY <1>42 DEF ResetHosts
<1>43. ASSUME NEW t \in Controls, RestoreLive(t) PROVE HotInv'
  BY <1>43, Restored
<1>44. ASSUME NEW t \in Controls, RestoreFails(t) PROVE HotInv'
  BY <1>44 DEF RestoreFails, Done, ReleaseAll
<1>45. ASSUME NEW t \in Controls, EndResetEpoch(t) PROVE HotInv'
  BY <1>45 DEF EndResetEpoch, Done, ReleaseAll
<1>46. ASSUME NEW t \in Controls, ResetNames(t) PROVE HotInv'
  BY <1>46 DEF ResetNames
<1>47. ASSUME NEW t \in Mains, PeriodicSave(t) PROVE HotInv'
  BY <1>47 DEF PeriodicSave
<1>48. ASSUME NEW t \in Mains, PeriodicSaved(t) PROVE HotInv'
  BY <1>48 DEF PeriodicSaved
<1>49. ASSUME NEW t \in Mains, FinalSave(t) PROVE HotInv'
  BY <1>49 DEF FinalSave
<1>50. ASSUME NEW t \in Mains, Exit(t) PROVE HotInv'
  BY <1>50 DEF Exit, ReleaseAll
<1>51. ASSUME PackagesChange PROVE HotInv'
  BY <1>51 DEF PackagesChange
<1>52. ASSUME StartUpdate PROVE HotInv'
  BY <1>52 DEF StartUpdate
<1>53. CASE UNCHANGED vars
  BY <1>53 DEF vars
<1> QED BY ZenonT(30), <1>1, <1>2, <1>3, <1>4, <1>5, <1>6, <1>7, <1>8, <1>9, <1>10, <1>11, <1>12, <1>13,
      <1>14, <1>15, <1>16, <1>17, <1>18, <1>19, <1>20, <1>21, <1>22, <1>23, <1>24, <1>25,
      <1>26, <1>27, <1>28, <1>29, <1>30, <1>31, <1>32, <1>33, <1>34, <1>35, <1>36, <1>37,
      <1>38, <1>39, <1>40, <1>41, <1>42, <1>43, <1>44, <1>45, <1>46, <1>47, <1>48, <1>49,
      <1>50, <1>51, <1>52, <1>53
    DEF Next, HotStep, LockStep, SaveStep, UpdateStep, CommandStep
-----------------------------------------------------------------------------
\* snort() has started: nothing is locked, prepared or older than the first generation.
LEMMA BoundaryInit == Init => BoundaryInv
<1> SUFFICES ASSUME Init PROVE BoundaryInv
  OBVIOUS
<1> USE ResetBoundaryAssumption DEF Init, Nobody, Hot, Threads
<1>1. Stable(epoch)
  BY DEF Stable
<1>2. apps \in [Uids -> AppRecords] /\ \A u \in Uids : apps[u].gen \in {0, 1}
  BY DEF AppRecords, NoApp
<1>3. TypeOK
  <2>1. /\ hosts \in [Addresses -> HostRecords] /\ hot \in [Hot -> Locals]
        /\ upd \in [Controls \cup {"packages"} -> Updates]
        /\ disk \in [state : Nat, apps : [Uids -> Nat]]
    BY RecordFields
  <2>2. /\ pc \in [Threads -> HotPCs \cup ControlPCs \cup MainPCs \cup ListenerPCs]
        /\ \A t \in Hot : pc[t] \in HotPCs
        /\ \A c \in Controls : pc[c] \in ControlPCs
        /\ \A m \in Mains : pc[m] \in MainPCs
        /\ pc["packages"] \in ListenerPCs
    BY DEF HotPCs, ControlPCs, MainPCs, ListenerPCs
  <2>3. ipmap \in [Addresses -> Nat] /\ snapshot \in [Uids -> Nat]
    OBVIOUS
  <2>4. op \in [Controls -> Commands \cup {"none"}]
    OBVIOUS
  <2>5. cleared \in 1 .. generation /\ changes \in 0 .. MaxChanges
    OBVIOUS
  <2>6. event \in BOOLEAN
    OBVIOUS
  <2> QED BY <1>2, <2>1, <2>2, <2>3, <2>4, <2>5, <2>6 DEF TypeOK
<1>4. CommandInv /\ LockInv
  BY DEF CommandInv, LockInv, Resetting, Exclusive, ResetPCs
<1>5. EpochInv /\ TableInv
  BY <1>1, <1>2 DEF EpochInv, TableInv, Dirty, Current, ResetPCs, NoHost
<1>6. SaveInv
  BY DEF SaveInv, FinalSaveComplete, Dirty, Current
<1>7. HotInv
  BY DEF HotInv, HotInvOf, NoLocals, Prepared, Found
<1> QED BY <1>3, <1>4, <1>5, <1>6, <1>7 DEF BoundaryInv

\* The inductive invariant holds in every reachable state.
THEOREM BoundaryInvariant == Spec => []BoundaryInv
<1>1. BoundaryInv /\ [Next]_vars => BoundaryInv'
  BY TypeKept, CommandKept, LockKept, EpochKept, TableKept, SaveKept, HotKept DEF BoundaryInv
<1> QED BY <1>1, BoundaryInit, PTL DEF Spec

\* Every variable keeps its type, and every thread to the steps of its role, for any number
\* of threads.
THEOREM BoundaryTypes == Spec => []TypeOK
  BY BoundaryInvariant, PTL DEF BoundaryInv

\* With an even epoch nothing is dirty: no command is resetting.
LEMMA StableIsClean ==
    ASSUME BoundaryInv, Stable(epoch)
    PROVE  \A c \in Controls : pc[c] \notin ResetPCs
  BY DEF BoundaryInv, EpochInv

\* RESETALL and CHECKPOINT.RESTORE leave a clean baseline whatever was in flight, for any
\* number of packet, DNS and control threads.
THEOREM ResetLeavesCleanBaseline == Spec => []CleanBaseline
<1>1. BoundaryInv => CleanBaseline
  <2> SUFFICES ASSUME BoundaryInv, Stable(epoch) PROVE CleanBaseline
    BY DEF CleanBaseline
  <2>1. ~Dirty("resetApps") /\ ~Dirty("resetDomains") /\ ~Dirty("resetHosts")
    BY StableIsClean DEF Dirty, ResetPCs
  <2> QED BY <2>1 DEF BoundaryInv, TableInv, Current, CleanBaseline
<1> QED BY <1>1, BoundaryInvariant, PTL

\* PacketManager::make judges a packet with the app and host of the current generation.
THEOREM VerdictsOfOneEpoch == Spec => []VerdictsUseOneEpoch
<1>1. BoundaryInv => VerdictsUseOneEpoch
  BY DEF BoundaryInv, HotInv, HotInvOf, Hot, Found, Prepared, HotPCs, Current,
         VerdictsUseOneEpoch
<1> QED BY <1>1, BoundaryInvariant, PTL

\* No save, periodic or in a reset, brings back state from before the last reset.
THEOREM SavesKeepTheBoundary == Spec => []SaveTreeClean
<1>1. BoundaryInv => SaveTreeClean
  <2> SUFFICES ASSUME BoundaryInv, Stable(epoch) PROVE SaveTreeClean
    BY DEF SaveTreeClean
  <2>1. ~Dirty("resetApps")
    BY StableIsClean DEF Dirty, ResetPCs
  <2>2. \A c \in Controls : pc[c] \notin {"resetApps", "resetHosts", "saveState"}
    BY StableIsClean DEF ResetPCs
  <2> QED BY <2>1, <2>2 DEF BoundaryInv, SaveInv, SaveTreeClean
<1> QED BY <1>1, BoundaryInvariant, PTL

\* The save before exit misses no app: every writer of the app table is shut out meanwhile.
THEOREM FinalSaveMissesNothing == Spec => []FinalSaveComplete
  BY BoundaryInvariant, PTL DEF BoundaryInv, SaveInv
===============================================================================
