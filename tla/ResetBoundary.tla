----------------------------- MODULE ResetBoundary -----------------------------
(* The boundary RESETALL and CHECKPOINT.RESTORE draw through the running daemon: the     *)
(* reset epoch (SnortRuntime.cpp), the three locks g_snortSaveResetMutex,                *)
(* mutexControlMutations and mutexListeners, and everybody who crosses it: packet        *)
(* workers, DNS sessions, control sessions, the periodic save, the package listener.     *)
(*                                                                                       *)
(* A generation (ghost) is the life of the daemon between two resets that took effect.   *)
(* Every object carries the generation whose state it was made from; 0 stands for "no    *)
(* object" (nullptr, an absent key, no file). Names, masks, verdicts and payloads are    *)
(* left out: who may publish what, and when, is kept.                                    *)
EXTENDS Naturals, FiniteSets

CONSTANTS Packets,      \* NFQUEUE worker threads
          Dns,          \* DNS session threads
          Controls,     \* control sessions, legacy and vNext
          Mains,        \* the main thread (or none), which saves periodically and exits
          Uids,         \* application uids
          Addresses,    \* remote addresses
          MaxResets,    \* bound: RESETALL and CHECKPOINT.RESTORE commands that get to run
          MaxChanges    \* bound: changes of the installed packages

VARIABLES saveReset,         \* holder of g_snortSaveResetMutex
          controlMutations,  \* holder of mutexControlMutations
          readers, writer,   \* mutexListeners: shared holders; the thread that entered lock()
          epoch,             \* g_snortResetEpoch
          generation,        \* ghost: generations begun, and the one the last
          cleared,           \* RESETALL began
          apps,              \* AppManager::_byUid: generation, named by a package, iface block
          hosts,             \* HostManager::_byIPv4/6: generation of the host and of its domain
          domain,            \* the Domain object of the one name asked (DomainManager::_byName)
          ipmap,             \* DomainManager::_byIPv4/6: generation of the mapped domain
          stats,             \* oldest generation whose traffic the counters may hold
          policy,            \* oldest generation whose commands the policy may hold
          disk,              \* save tree: oldest generation in the managers' files; app files
          names,             \* PackageListener::_names
          installed,         \* packages.list and package-restrictions.xml (external)
          event,             \* an inotify event is queued (external)
          changes,           \* changes of the installed packages so far
          pc, op,            \* where each thread is; the command a control session runs
          hot,               \* locals of the packet and DNS threads
          upd,               \* locals of updatePackagesImpl, per thread that runs it
          snapshot           \* AppManager::save: the apps collected for writing (generations)

vars == <<saveReset, controlMutations, readers, writer, epoch, generation, cleared, apps, hosts,
          domain, ipmap, stats, policy, disk, names, installed, event, changes, pc, op, hot,
          upd, snapshot>>

ghosts == <<generation, cleared>>
locks == <<saveReset, controlMutations, readers, writer>>
tables == <<apps, hosts, domain, ipmap, stats>>
packages == <<names, installed, event, changes, upd>>

Nobody == "nobody"
Hot == Packets \cup Dns
Threads == Hot \cup Controls \cup Mains \cup {"packages"}

\* Every thread has one role. The package listener is one thread of its own.
ASSUME ResetBoundaryAssumption ==
    /\ Packets \cap Dns = {} /\ Hot \cap Controls = {}
    /\ (Hot \cup Controls) \cap Mains = {}
    /\ {"packages", Nobody} \cap (Hot \cup Controls \cup Mains) = {}
    /\ MaxResets \in Nat /\ MaxChanges \in Nat

NoApp == [gen |-> 0, named |-> FALSE, iface |-> FALSE]
NoHost == [gen |-> 0, dom |-> 0]
NoLocals == [epoch |-> 0, uid |-> 0, addr |-> 0, found |-> FALSE, app |-> NoApp,
             host |-> NoHost, dom |-> 0]
NoUpdate == [new |-> {}, installs |-> {}, removes |-> {}]

Stable(e) == e % 2 = 0
Older(g, h) == IF g < h THEN g ELSE h

\* std::shared_mutex of libc++: lock() first closes the gate to new readers, then waits
\* for the readers inside to leave; lock_shared() waits while a writer has entered.
CanRead == writer = Nobody
Goto(t, l) == pc' = [pc EXCEPT ![t] = l]

\* snort() has started: pkgListener.start has installed the packages of the device.
Init == /\ saveReset = Nobody /\ controlMutations = Nobody /\ readers = {} /\ writer = Nobody
        /\ epoch = 0 /\ generation = 1 /\ cleared = 1
        /\ installed \in SUBSET Uids /\ names = installed
        /\ apps = [u \in Uids |-> IF u \in installed
                                    THEN [gen |-> 1, named |-> TRUE, iface |-> FALSE] ELSE NoApp]
        /\ hosts = [a \in Addresses |-> NoHost]
        /\ domain = 0 /\ ipmap = [a \in Addresses |-> 0] /\ stats = 1 /\ policy = 1
        /\ disk = [state |-> 1, apps |-> [u \in Uids |-> 0]]
        /\ event = FALSE /\ changes = 0
        /\ pc = [t \in Threads |-> "idle"] /\ op = [c \in Controls |-> "none"]
        /\ hot = [t \in Hot |-> NoLocals]
        /\ upd = [t \in Controls \cup {"packages"} |-> NoUpdate]
        /\ snapshot = [u \in Uids |-> 0]

--------------------------------------------------------------------------------
(* Packet and DNS threads: prepare outside mutexListeners, publish inside it.           *)

\* A packet arrives, or a DNS session has read its request.
Arrive(t) ==
    /\ pc[t] = "idle"
    /\ \E u \in Uids, a \in Addresses :
          hot' = [hot EXCEPT ![t] = [NoLocals EXCEPT !.uid = u, !.addr = a]]
    /\ Goto(t, "epoch")
    /\ UNCHANGED <<locks, tables, packages, epoch, ghosts, policy, disk, op, snapshot>>

\* for (;;): read the epoch; an odd one means a reset is running.
ReadEpoch(t) ==
    /\ pc[t] = "epoch"
    /\ hot' = [hot EXCEPT ![t].epoch = epoch]
    /\ Goto(t, IF Stable(epoch) THEN "find" ELSE "wait")
    /\ UNCHANGED <<locks, tables, packages, epoch, ghosts, policy, disk, op, snapshot>>

\* Wait for the reset by passing once through the shared lock.
WaitReset(t) ==
    /\ pc[t] = "wait" /\ CanRead
    /\ Goto(t, "epoch")
    /\ UNCHANGED <<locks, tables, packages, epoch, ghosts, policy, disk, op, hot, snapshot>>

\* AppManager::find, then AppManager::prepare when there is no app.
FindApp(t) ==
    /\ pc[t] = "find"
    /\ LET u == hot[t].uid
           isFound == apps[u].gen # 0
       IN hot' = [hot EXCEPT ![t].found = isFound,
                             ![t].app = IF isFound THEN apps[u]
                                        ELSE [NoApp EXCEPT !.gen = generation]]
    /\ Goto(t, IF t \in Packets THEN "findHost" ELSE "lock")
    /\ UNCHANGED <<locks, tables, packages, epoch, ghosts, policy, disk, op, snapshot>>

\* Mutant: a host that is not in the table is not prepared.
FindHostNoPrepare(t) ==
    /\ pc[t] = "findHost"
    /\ hot' = [hot EXCEPT ![t].host = IF hot[t].app.iface THEN NoHost ELSE hosts[hot[t].addr]]
    /\ Goto(t, "lock")
    /\ UNCHANGED <<locks, tables, packages, epoch, ghosts, policy, disk, op, snapshot>>

\* HostManager::find, then HostManager::prepare (which looks the address up in the
\* domain map); skipped for an app whose interface is blocked.
FindHost(t) ==
    /\ pc[t] = "findHost"
    /\ LET a == hot[t].addr
           host == IF hot[t].app.iface THEN NoHost
                   ELSE IF hosts[a].gen # 0 THEN hosts[a]
                   ELSE [gen |-> generation, dom |-> ipmap[a]]
       IN hot' = [hot EXCEPT ![t].host = host]
    /\ Goto(t, "lock")
    /\ UNCHANGED <<locks, tables, packages, epoch, ghosts, policy, disk, op, snapshot>>

LockShared(t) ==
    /\ pc[t] = "lock" /\ CanRead
    /\ readers' = readers \cup {t}
    /\ Goto(t, "publish")
    /\ UNCHANGED <<saveReset, controlMutations, writer, tables, packages, epoch, ghosts,
                   policy, disk, op, hot, snapshot>>

\* continue: leave the shared lock and start over.
Retry(t) ==
    /\ readers' = readers \ {t}
    /\ hot' = [hot EXCEPT ![t] = [NoLocals EXCEPT !.uid = hot[t].uid, !.addr = hot[t].addr]]
    /\ Goto(t, "epoch")
    /\ UNCHANGED <<saveReset, controlMutations, writer, tables, packages, epoch, ghosts,
                   policy, disk, op, snapshot>>

\* snortResetEpochStillCurrent failed, or the app found before is gone.
PublishFails(t) ==
    /\ pc[t] = "publish"
    /\ \/ epoch # hot[t].epoch
       \/ hot[t].found /\ apps[hot[t].uid].gen = 0
    /\ Retry(t)

\* Mutant: publish without looking at the epoch again.
PublishAppUnchecked(t) ==
    /\ pc[t] = "publish"
    /\ LET u == hot[t].uid IN
       /\ apps[u].gen # 0 \/ ~hot[t].found
       /\ apps' = [apps EXCEPT ![u] = IF @.gen # 0 THEN @ ELSE hot[t].app]
       /\ hot' = [hot EXCEPT ![t].app = apps'[u], ![t].found = FALSE]
    /\ Goto(t, IF t \in Packets THEN "host" ELSE "domain")
    /\ UNCHANGED <<locks, hosts, domain, ipmap, stats, packages, epoch, ghosts, policy, disk,
                   op, snapshot>>

\* AppManager::publishPrepared: the app of the table, else the prepared one.
PublishApp(t) ==
    /\ pc[t] = "publish" /\ epoch = hot[t].epoch
    /\ LET u == hot[t].uid IN
       /\ apps[u].gen # 0 \/ ~hot[t].found
       /\ apps' = [apps EXCEPT ![u] = IF @.gen # 0 THEN @ ELSE hot[t].app]
       /\ hot' = [hot EXCEPT ![t].app = apps'[u], ![t].found = FALSE]
    /\ Goto(t, IF t \in Packets THEN "host" ELSE "domain")
    /\ UNCHANGED <<locks, hosts, domain, ipmap, stats, packages, epoch, ghosts, policy, disk, op, snapshot>>

\* The block of the interface was lifted since no host was prepared.
HostMissing(t) ==
    /\ pc[t] = "host" /\ ~hot[t].app.iface /\ hot[t].host.gen = 0
    /\ Retry(t)

\* The host found, HostManager::publishPrepared, or the anonymous host (NoHost).
PublishHost(t) ==
    /\ pc[t] = "host"
    /\ LET a == hot[t].addr
           blocked == hot[t].app.iface
       IN /\ blocked \/ hot[t].host.gen # 0
          /\ hosts' = IF blocked THEN hosts
                      ELSE [hosts EXCEPT ![a] = IF @.gen # 0 THEN @ ELSE hot[t].host]
          /\ hot' = [hot EXCEPT ![t].host = IF blocked THEN NoHost ELSE hosts'[a]]
    /\ Goto(t, "make")
    /\ UNCHANGED <<locks, apps, domain, ipmap, stats, packages, epoch, ghosts, policy, disk, op, snapshot>>

\* PacketManager::make counts the packet and gives the verdict; the lock is left.
make(t) ==
    /\ pc[t] = "make" /\ t \in Packets
    /\ stats' = Older(stats, hot[t].app.gen)
    /\ readers' = readers \ {t}
    /\ hot' = [hot EXCEPT ![t] = NoLocals]
    /\ Goto(t, "idle")
    /\ UNCHANGED <<saveReset, controlMutations, writer, apps, hosts, domain, ipmap, packages,
                   epoch, ghosts, policy, disk, op, snapshot>>

\* DNS: DomainManager::make, the policy decision, its counters; the lock is left.
makeDomain(t) ==
    /\ pc[t] = "domain"
    /\ domain' = IF domain # 0 THEN domain ELSE generation
    /\ hot' = [hot EXCEPT ![t].dom = domain']
    /\ stats' = Older(stats, hot[t].app.gen)
    /\ readers' = readers \ {t}
    /\ Goto(t, "reply")
    /\ UNCHANGED <<saveReset, controlMutations, writer, apps, hosts, ipmap, packages, epoch,
                   ghosts, policy, disk, op, snapshot>>

\* Verdict written; getips says whether the resolver will send addresses.
Reply(t) ==
    /\ pc[t] = "reply"
    /\ \/ Goto(t, "removeIPs")
       \/ Goto(t, "stats")
    /\ UNCHANGED <<locks, tables, packages, epoch, ghosts, policy, disk, op, hot, snapshot>>

\* A socket error unwinds the session wherever it reads or writes.
SessionFails(t) ==
    /\ pc[t] \in {"reply", "addIPs"}
    /\ hot' = [hot EXCEPT ![t] = NoLocals]
    /\ Goto(t, "idle")
    /\ UNCHANGED <<locks, tables, packages, epoch, ghosts, policy, disk, op, snapshot>>

\* Mutant: the later windows of a DNS session trust the first check.
StillCurrentOnce(t) == hot[t].epoch <= epoch

\* snortResetEpochStillCurrent in a later window of the same session.
StillCurrent(t) == epoch = hot[t].epoch

\* DomainManager::removeIPs in its own shared window.
removeIPs(t) ==
    /\ pc[t] = "removeIPs" /\ CanRead
    /\ ipmap' = IF StillCurrent(t)
                THEN [a \in Addresses |-> IF ipmap[a] = hot[t].dom THEN 0 ELSE ipmap[a]]
                ELSE ipmap
    /\ Goto(t, "addIPs")
    /\ UNCHANGED <<locks, apps, hosts, domain, stats, packages, epoch, ghosts, policy, disk, op, hot, snapshot>>

\* DomainManager::addIPBoth (try_emplace) for an address the resolver sent.
addIPBoth(t) ==
    /\ pc[t] = "addIPs" /\ CanRead
    /\ \E a \in Addresses :
          ipmap' = IF StillCurrent(t) /\ ipmap[a] = 0 THEN [ipmap EXCEPT ![a] = hot[t].dom]
                   ELSE ipmap
    /\ UNCHANGED <<locks, apps, hosts, domain, stats, packages, epoch, ghosts, policy, disk, op, hot, pc, snapshot>>

\* family = -1: no more addresses.
EndOfAddresses(t) ==
    /\ pc[t] = "addIPs"
    /\ Goto(t, "stats")
    /\ UNCHANGED <<locks, tables, packages, epoch, ghosts, policy, disk, op, hot, snapshot>>

\* AppManager::updateStats and the stream event, in the last window.
updateStats(t) ==
    /\ pc[t] = "stats" /\ CanRead
    /\ stats' = IF StillCurrent(t) THEN Older(stats, hot[t].app.gen) ELSE stats
    /\ hot' = [hot EXCEPT ![t] = NoLocals]
    /\ Goto(t, "idle")
    /\ UNCHANGED <<locks, apps, hosts, domain, ipmap, packages, epoch, ghosts, policy, disk, op, snapshot>>

--------------------------------------------------------------------------------
(* Control sessions: the command, its locks, its effect.                                *)

Commands == {"RESETALL", "CHECKPOINT.RESTORE", "CONFIG.SET", "METRICS.RESET", "LEGACY",
             "LEGACY.METRICS"}
Resetting == {"RESETALL", "CHECKPOINT.RESTORE"}

\* How many resetting commands have been accepted (MaxResets bounds it).
Resets == epoch \div 2 + Cardinality({c \in Controls : op[c] \in Resetting})

\* Mutant: RESETALL is not serialised with the periodic save.
RequestUnserialised(c) ==
    /\ pc[c] = "idle"
    /\ \E o \in Commands :
          /\ o \in Resetting => Resets < MaxResets
          /\ op' = [op EXCEPT ![c] = o]
          /\ Goto(c, CASE o \in {"CONFIG.SET", "METRICS.RESET", "RESETALL"} -> "lockControl"
                       [] o = "LEGACY" -> "lockShared"
                       [] o = "LEGACY.METRICS" -> "lockListeners"
                       [] OTHER -> "lockSave")
    /\ UNCHANGED <<locks, tables, packages, epoch, ghosts, policy, disk, hot, snapshot>>

\* A session has parsed a request. RESETALL and CHECKPOINT.* take their own locks; vNext
\* mutations run under mutexControlMutations, legacy commands under mutexListeners alone:
\* the resets of counters hold it exclusively, all others share it.
Request(c) ==
    /\ pc[c] = "idle"
    /\ \E o \in Commands :
          /\ o \in Resetting => Resets < MaxResets
          /\ op' = [op EXCEPT ![c] = o]
          /\ Goto(c, CASE o \in {"CONFIG.SET", "METRICS.RESET"} -> "lockControl"
                       [] o = "LEGACY" -> "lockShared"
                       [] o = "LEGACY.METRICS" -> "lockListeners"
                       [] OTHER -> "lockSave")
    /\ UNCHANGED <<locks, tables, packages, epoch, ghosts, policy, disk, hot, snapshot>>

\* std::lock_guard on g_snortSaveResetMutex: resets, checkpoints, and main's saves.
LockSave(t) ==
    /\ pc[t] \in {"lockSave", "saving"} /\ saveReset = Nobody
    /\ saveReset' = t
    /\ Goto(t, IF pc[t] = "saving" THEN "saveState" ELSE "lockControl")
    /\ UNCHANGED <<controlMutations, readers, writer, tables, packages, epoch, ghosts,
                   policy, disk, op, hot, snapshot>>

\* Mutant: the final save does not stop the datapath.
LockControlOnly(t) ==
    /\ pc[t] = "lockControl" /\ controlMutations = Nobody
    /\ controlMutations' = t
    /\ Goto(t, IF t \in Mains THEN "saveState"
               ELSE IF op[t] \in {"RESETALL", "METRICS.RESET"} THEN "lockListeners"
               ELSE "apply")
    /\ UNCHANGED <<saveReset, readers, writer, tables, packages, epoch, ghosts, policy, disk,
                   op, hot, snapshot>>

\* std::lock_guard on mutexControlMutations; RESETALL and the final save go on to the
\* exclusive lock, and so does a METRICS.RESET of the rule counters.
LockControl(t) ==
    /\ pc[t] = "lockControl" /\ controlMutations = Nobody
    /\ controlMutations' = t
    /\ Goto(t, IF t \in Mains \/ op[t] \in {"RESETALL", "METRICS.RESET"} THEN "lockListeners"
               ELSE "apply")
    /\ UNCHANGED <<saveReset, readers, writer, tables, packages, epoch, ghosts, policy, disk, op, hot, snapshot>>

\* std::shared_mutex::lock on mutexListeners, its two phases.
EnterListeners(t) ==
    /\ pc[t] = "lockListeners" /\ writer = Nobody
    /\ writer' = t
    /\ Goto(t, "drain")
    /\ UNCHANGED <<saveReset, controlMutations, readers, tables, packages, epoch, ghosts,
                   policy, disk, op, hot, snapshot>>

DrainListeners(t) ==
    /\ pc[t] = "drain" /\ readers = {}
    /\ Goto(t, IF t \in Mains THEN "saveState"
               ELSE IF op[t] \in Resetting THEN "begin"
               ELSE "metrics")
    /\ UNCHANGED <<locks, tables, packages, epoch, ghosts, policy, disk, op, hot, snapshot>>

\* The lock guards of a command go out of scope.
ReleaseAll(t) ==
    /\ saveReset' = IF saveReset = t THEN Nobody ELSE saveReset
    /\ controlMutations' = IF controlMutations = t THEN Nobody ELSE controlMutations
    /\ writer' = IF writer = t THEN Nobody ELSE writer
    /\ readers' = readers \ {t}

Done(c) == /\ ReleaseAll(c)
           /\ op' = [op EXCEPT ![c] = "none"]
           /\ Goto(c, "idle")

\* CONFIG.SET and the other mutations under mutexControlMutations: device-wide policy.
ConfigSetDevice(c) ==
    /\ pc[c] = "apply" /\ op[c] = "CONFIG.SET"
    /\ policy' = Older(policy, generation)
    /\ Done(c)
    /\ UNCHANGED <<tables, packages, epoch, ghosts, disk, hot, snapshot>>

\* CONFIG.SET block.ifaceKindMask of one app, which App::save then writes to its file.
ConfigSetApp(c) ==
    /\ pc[c] = "apply" /\ op[c] = "CONFIG.SET"
    /\ \E u \in Uids : /\ apps[u].gen # 0
                       /\ apps' = [apps EXCEPT ![u].iface = ~@]
                       /\ disk' = [disk EXCEPT !.apps[u] = apps[u].gen]
    /\ Done(c)
    /\ UNCHANGED <<hosts, domain, ipmap, stats, packages, epoch, ghosts, policy, hot, snapshot>>

\* A CONFIG.SET with a key or a value that is not valid is refused as a whole, before
\* anything is set.
ConfigSetRefused(c) ==
    /\ pc[c] = "apply" /\ op[c] = "CONFIG.SET"
    /\ Done(c)
    /\ UNCHANGED <<tables, packages, epoch, ghosts, policy, disk, hot, snapshot>>

\* Counters start anew: under the exclusive lock for domainRuleStats and the legacy
\* commands, with the datapath running for the other names of METRICS.RESET.
MetricsReset(c) ==
    /\ \/ pc[c] = "metrics"
       \/ pc[c] = "lockListeners" /\ op[c] = "METRICS.RESET"
    /\ stats' = generation
    /\ Done(c)
    /\ UNCHANGED <<apps, hosts, domain, ipmap, packages, epoch, ghosts, policy, disk,
                   hot, snapshot>>

\* A legacy command: the shared lock around a read or a policy change.
LegacyLock(c) ==
    /\ pc[c] = "lockShared" /\ CanRead
    /\ readers' = readers \cup {c}
    /\ Goto(c, "legacy")
    /\ UNCHANGED <<saveReset, controlMutations, writer, tables, packages, epoch, ghosts,
                   policy, disk, op, hot, snapshot>>

LegacyApply(c) ==
    /\ pc[c] = "legacy"
    /\ \/ policy' = Older(policy, generation)
       \/ policy' = policy
    /\ Done(c)
    /\ UNCHANGED <<tables, packages, epoch, ghosts, disk, hot, snapshot>>

\* readSlot and stageBundleForRestore, before the datapath is stopped.
StageRestore(c) ==
    /\ pc[c] = "apply" /\ op[c] = "CHECKPOINT.RESTORE"
    /\ Goto(c, "lockListeners")
    /\ UNCHANGED <<locks, tables, packages, epoch, ghosts, policy, disk, op, hot, snapshot>>

\* Mutant: an early return that forgets to unlock.
StageRestoreFailsLocked(c) ==
    /\ pc[c] = "apply" /\ op[c] = "CHECKPOINT.RESTORE"
    /\ op' = [op EXCEPT ![c] = "none"]
    /\ Goto(c, "idle")
    /\ UNCHANGED <<locks, tables, packages, epoch, ghosts, policy, disk, hot, snapshot>>

\* The slot is empty, or the bundle does not decode, validate or stage. CHECKPOINT.SAVE and
\* CLEAR take the same two locks and change nothing but a slot file either.
StageRestoreFails(c) ==
    /\ pc[c] = "apply" /\ op[c] = "CHECKPOINT.RESTORE"
    /\ Done(c)
    /\ UNCHANGED <<tables, packages, epoch, ghosts, policy, disk, hot, snapshot>>

\* snortBeginResetEpoch. RESETALL cannot fail from here on: the new generation begins.
BeginResetEpoch(c) ==
    /\ pc[c] = "begin"
    /\ epoch' = epoch + 1
    /\ IF op[c] = "RESETALL" THEN generation' = generation + 1 /\ cleared' = generation'
                              ELSE UNCHANGED ghosts
    /\ Goto(c, IF op[c] = "RESETALL" THEN "resetApps" ELSE "restore")
    /\ UNCHANGED <<locks, tables, packages, policy, disk, op, hot, snapshot>>

\* RESETALL: settings.reset, clearSaveTreeForResetAll, appManager.reset.
ResetApps(c) ==
    /\ pc[c] = "resetApps"
    /\ apps' = [u \in Uids |-> NoApp]
    /\ stats' = generation
    /\ disk' = [state |-> generation, apps |-> [u \in Uids |-> 0]]
    /\ Goto(c, "resetDomains")
    /\ UNCHANGED <<locks, hosts, domain, ipmap, packages, epoch, ghosts, policy, op,
                   hot, snapshot>>

\* domManager.reset, blockingListManager.reset, rulesManager.reset, pktManager.reset.
ResetDomains(c) ==
    /\ pc[c] = "resetDomains"
    /\ domain' = 0
    /\ ipmap' = [a \in Addresses |-> 0]
    /\ policy' = generation
    /\ Goto(c, "resetHosts")
    /\ UNCHANGED <<locks, apps, hosts, stats, packages, epoch, ghosts, disk, op, hot,
                   snapshot>>

\* hostManager.reset (RESETALL and CHECKPOINT.RESTORE).
ResetHosts(c) ==
    /\ pc[c] = "resetHosts"
    /\ hosts' = [a \in Addresses |-> NoHost]
    /\ Goto(c, IF op[c] = "RESETALL" THEN "resetNames" ELSE "saveState")
    /\ UNCHANGED <<locks, apps, domain, ipmap, stats, packages, epoch, ghosts, policy, disk, op, hot, snapshot>>

\* restoreBundleToLivePolicy succeeds: every app gets its own restored policy or the
\* device's and starts its counters anew, the bundle's apps and domains are made, address
\* associations cleared.
RestoreLive(c) ==
    /\ pc[c] = "restore"
    /\ generation' = generation + 1
    /\ \E bundle \in SUBSET Uids, iface \in [Uids -> BOOLEAN] :
          apps' = [u \in Uids |->
                     IF apps[u].gen = 0 /\ u \notin bundle THEN NoApp
                     ELSE [apps[u] EXCEPT !.gen = generation', !.iface = iface[u]]]
    /\ domain' \in {0, generation'}
    /\ stats' = generation' /\ policy' = generation' /\ ipmap' = [a \in Addresses |-> 0]
    /\ Goto(c, "resetHosts")
    /\ UNCHANGED <<locks, hosts, packages, epoch, cleared, disk, op, hot, snapshot>>

\* restoreBundleToLivePolicy fails: the guard ends the epoch, nothing else happened.
RestoreFails(c) ==
    /\ pc[c] = "restore"
    /\ epoch' = epoch + 1
    /\ Done(c)
    /\ UNCHANGED <<tables, packages, ghosts, policy, disk, hot, snapshot>>

\* snortEndResetEpoch, then the locks.
EndResetEpoch(c) ==
    /\ pc[c] = "end"
    /\ epoch' = epoch + 1
    /\ Done(c)
    /\ UNCHANGED <<tables, packages, ghosts, policy, disk, hot, snapshot>>

--------------------------------------------------------------------------------
(* snortSaveLocked, run by main (periodic and final) and at the end of a reset.         *)

\* What the managers other than AppManager would write now.
LiveState == Older(Older(policy, stats), IF domain = 0 THEN generation ELSE domain)

\* settings, lists, rules, domains: what the managers' files hold is what is live.
SaveState(t) ==
    /\ pc[t] = "saveState"
    /\ disk' = [disk EXCEPT !.state = LiveState]
    /\ Goto(t, "saveApps")
    /\ UNCHANGED <<locks, tables, packages, epoch, ghosts, policy, op, hot, snapshot>>

\* AppManager::save copies the app pointers under _mutexByUid ...
SnapshotApps(t) ==
    /\ pc[t] = "saveApps"
    /\ snapshot' = [u \in Uids |-> apps[u].gen]
    /\ Goto(t, "writeApps")
    /\ UNCHANGED <<locks, tables, packages, epoch, ghosts, policy, disk, op, hot>>

\* ... and App::save writes each file; an app removed meanwhile is written all the same.
WriteApps(t) ==
    /\ pc[t] = "writeApps"
    /\ disk' = [disk EXCEPT !.apps = [u \in Uids |-> IF snapshot[u] # 0 THEN snapshot[u] ELSE @[u]]]
    /\ snapshot' = [u \in Uids |-> 0]
    /\ Goto(t, IF t \in Controls THEN "end" ELSE IF controlMutations = t THEN "finalSaved"
               ELSE "saved")
    /\ UNCHANGED <<locks, tables, packages, epoch, ghosts, policy, op, hot>>

\* main's loop: snortSave.
PeriodicSave(t) ==
    /\ pc[t] = "idle"
    /\ Goto(t, "saving")
    /\ UNCHANGED <<locks, tables, packages, epoch, ghosts, policy, disk, op, hot, snapshot>>

PeriodicSaved(t) ==
    /\ pc[t] = "saved"
    /\ saveReset' = Nobody
    /\ Goto(t, "idle")
    /\ UNCHANGED <<controlMutations, readers, writer, tables, packages, epoch, ghosts,
                   policy, disk, op, hot, snapshot>>

\* A shutdown was requested: snortFinalSave takes the three locks in order.
FinalSave(t) ==
    /\ pc[t] = "idle"
    /\ Goto(t, "lockSave")
    /\ UNCHANGED <<locks, tables, packages, epoch, ghosts, policy, disk, op, hot, snapshot>>

\* snortFinalSave returned; the other threads run until std::_Exit ends them all.
Exit(t) ==
    /\ pc[t] = "finalSaved"
    /\ ReleaseAll(t)
    /\ Goto(t, "exited")
    /\ UNCHANGED <<tables, packages, epoch, ghosts, policy, disk, op, hot, snapshot>>

--------------------------------------------------------------------------------
(* PackageListener: updatePackagesImpl on the listener thread and inside RESETALL.      *)

\* The package manager rewrites its files; inotify queues an event (external).
PackagesChange ==
    /\ changes < MaxChanges
    /\ \E u \in Uids : installed' = IF u \in installed THEN installed \ {u}
                                    ELSE installed \cup {u}
    /\ event' = TRUE
    /\ changes' = changes + 1
    /\ UNCHANGED <<locks, tables, epoch, ghosts, policy, disk, names, pc, op, hot, upd,
                   snapshot>>

\* The debounce is over: the listener takes the event and starts an update.
StartUpdate ==
    /\ pc["packages"] = "idle" /\ event
    /\ event' = FALSE
    /\ Goto("packages", "parse")
    /\ UNCHANGED <<locks, tables, epoch, ghosts, policy, disk, names, installed,
                   changes, op, hot, upd, snapshot>>

\* PackageListener::reset: forget the names, then update without the lock.
ResetNames(c) ==
    /\ pc[c] = "resetNames"
    /\ names' = {}
    /\ Goto(c, "parse")
    /\ UNCHANGED <<locks, tables, epoch, ghosts, policy, disk, installed, event,
                   changes, op, hot, upd, snapshot>>

\* Parse packages.list, the users and their package restrictions.
ParsePackages(t) ==
    /\ pc[t] = "parse"
    /\ upd' = [upd EXCEPT ![t].new = installed]
    /\ Goto(t, "diff")
    /\ UNCHANGED <<locks, tables, epoch, ghosts, policy, disk, names, installed, event,
                   changes, op, hot, snapshot>>

AfterUpdate(t) == IF t = "packages" THEN "idle" ELSE "saveState"

\* The files do not parse for five seconds.
GiveUp(t) ==
    /\ pc[t] = "parse"
    /\ Goto(t, AfterUpdate(t))
    /\ UNCHANGED <<locks, tables, packages, epoch, ghosts, policy, disk, op, hot, snapshot>>

\* Under _mutexNames: swap the names, compute who came and who left.
DiffNames(t) ==
    /\ pc[t] = "diff"
    /\ upd' = [upd EXCEPT ![t] = [new |-> {}, installs |-> upd[t].new \ names,
                                  removes |-> names \ upd[t].new]]
    /\ names' = upd[t].new
    /\ Goto(t, "install")
    /\ UNCHANGED <<locks, tables, epoch, ghosts, policy, disk, installed, event,
                   changes, op, hot, snapshot>>

\* AppManager::install and remove (with the app's file), under the shared lock unless
\* the caller holds it exclusively.
ApplyPackages(t) ==
    /\ pc[t] = "install"
    /\ t = "packages" => CanRead
    /\ apps' = [u \in Uids |->
                  IF u \in upd[t].removes THEN NoApp
                  ELSE IF u \in upd[t].installs
                    THEN [IF apps[u].gen # 0 THEN apps[u] ELSE [NoApp EXCEPT !.gen = generation]
                          EXCEPT !.named = TRUE]
                  ELSE apps[u]]
    /\ disk' = [disk EXCEPT !.apps = [u \in Uids |->
                  IF u \in upd[t].removes /\ apps[u].gen # 0 THEN 0 ELSE @[u]]]
    /\ upd' = [upd EXCEPT ![t] = NoUpdate]
    /\ Goto(t, AfterUpdate(t))
    /\ UNCHANGED <<locks, hosts, domain, ipmap, stats, epoch, ghosts, policy, names,
                   installed, event, changes, op, hot, snapshot>>

--------------------------------------------------------------------------------
HotStep(t) == \/ Arrive(t) \/ ReadEpoch(t) \/ WaitReset(t) \/ FindApp(t) \/ FindHost(t)
              \/ LockShared(t) \/ PublishFails(t) \/ PublishApp(t) \/ HostMissing(t)
              \/ PublishHost(t) \/ make(t) \/ makeDomain(t) \/ Reply(t) \/ SessionFails(t)
              \/ removeIPs(t) \/ addIPBoth(t) \/ EndOfAddresses(t) \/ updateStats(t)
LockStep(t) == LockSave(t) \/ LockControl(t) \/ EnterListeners(t)
SaveStep(t) == DrainListeners(t) \/ SaveState(t) \/ SnapshotApps(t) \/ WriteApps(t)
UpdateStep(t) == ParsePackages(t) \/ GiveUp(t) \/ DiffNames(t) \/ ApplyPackages(t)
CommandStep(c) == \/ ConfigSetDevice(c) \/ ConfigSetApp(c) \/ ConfigSetRefused(c)
                  \/ MetricsReset(c) \/ LegacyLock(c) \/ LegacyApply(c) \/ StageRestore(c)
                  \/ StageRestoreFails(c) \/ BeginResetEpoch(c) \/ ResetApps(c)
                  \/ ResetDomains(c) \/ ResetHosts(c) \/ RestoreLive(c) \/ RestoreFails(c)
                  \/ EndResetEpoch(c) \/ ResetNames(c)

Next == \/ \E t \in Hot : HotStep(t)
        \/ \E c \in Controls : Request(c) \/ CommandStep(c)
        \/ \E t \in Controls \cup Mains : LockStep(t) \/ SaveStep(t)
        \/ \E t \in Controls \cup {"packages"} : UpdateStep(t)
        \/ \E t \in Mains : PeriodicSave(t) \/ PeriodicSaved(t) \/ FinalSave(t) \/ Exit(t)
        \/ PackagesChange \/ StartUpdate

Spec == Init /\ [][Next]_vars

\* A thread that has work goes on with it, and one that waits for a lock that is free
\* again and again gets it in the end (strong fairness; every other step, once enabled,
\* stays enabled). Requests, traffic, package changes and saves are not forced.
Busy(t) == pc[t] # "idle"
ThreadStep(t) == \/ t \in Hot /\ HotStep(t)
                 \/ t \in Controls /\ CommandStep(t)
                 \/ t \in Controls \cup Mains /\ (LockStep(t) \/ SaveStep(t))
                 \/ t \in Mains /\ (PeriodicSaved(t) \/ Exit(t))
                 \/ t \in Controls \cup {"packages"} /\ UpdateStep(t)
FairSpec == Spec /\ \A t \in Threads : SF_vars(Busy(t) /\ ThreadStep(t))

--------------------------------------------------------------------------------
HotPCs == {"idle", "epoch", "wait", "find", "findHost", "lock", "publish", "host", "make",
           "domain", "reply", "removeIPs", "addIPs", "stats"}
ResetPCs == {"restore", "resetApps", "resetDomains", "resetHosts", "resetNames", "parse", "diff",
             "install", "saveState", "saveApps", "writeApps", "end"}
ControlPCs == ResetPCs \cup {"idle", "lockSave", "lockControl", "apply", "lockShared", "legacy",
                            "lockListeners", "drain", "metrics", "begin"}
MainPCs == {"idle", "saving", "lockSave", "lockControl", "lockListeners", "drain", "saveState",
            "saveApps", "writeApps", "saved", "finalSaved", "exited"}
ListenerPCs == {"idle", "parse", "diff", "install"}

AppRecords == [gen : Nat, named : BOOLEAN, iface : BOOLEAN]
HostRecords == [gen : Nat, dom : Nat]
Locals == [epoch : Nat, uid : Uids \cup {0}, addr : Addresses \cup {0}, found : BOOLEAN,
           app : AppRecords, host : HostRecords, dom : Nat]
Updates == [new : SUBSET Uids, installs : SUBSET Uids, removes : SUBSET Uids]

\* Every variable keeps its type, and every thread to the steps of its role.
TypeOK ==
    /\ saveReset \in Controls \cup Mains \cup {Nobody}
    /\ controlMutations \in Controls \cup Mains \cup {Nobody}
    /\ writer \in Controls \cup Mains \cup {Nobody} /\ readers \subseteq Hot \cup Controls
    /\ epoch \in Nat /\ generation \in Nat \ {0} /\ cleared \in 1 .. generation
    /\ apps \in [Uids -> AppRecords] /\ hosts \in [Addresses -> HostRecords]
    /\ domain \in Nat /\ ipmap \in [Addresses -> Nat] /\ stats \in Nat /\ policy \in Nat
    /\ disk \in [state : Nat, apps : [Uids -> Nat]] /\ snapshot \in [Uids -> Nat]
    /\ names \subseteq Uids /\ installed \subseteq Uids /\ event \in BOOLEAN
    /\ changes \in 0 .. MaxChanges
    /\ upd \in [Controls \cup {"packages"} -> Updates] /\ hot \in [Hot -> Locals]
    /\ op \in [Controls -> Commands \cup {"none"}]
    /\ pc \in [Threads -> HotPCs \cup ControlPCs \cup MainPCs \cup ListenerPCs]
    /\ \A t \in Hot : pc[t] \in HotPCs
    /\ \A c \in Controls : pc[c] \in ControlPCs
    /\ \A m \in Mains : pc[m] \in MainPCs
    /\ pc["packages"] \in ListenerPCs

\* RESETALL_RUNTIME_CONCURRENCY.md: once a reset is over, no table, counter or policy
\* holds anything made from the state before it, whatever was in flight.
CleanBaseline ==
    Stable(epoch) =>
        /\ \A u \in Uids : apps[u].gen \in {0, generation}
        /\ \A a \in Addresses : /\ hosts[a].gen \in {0, generation}
                                /\ hosts[a].dom \in {0, generation}
                                /\ ipmap[a] \in {0, generation}
        /\ domain \in {0, generation}
        /\ stats = generation /\ policy = generation

\* A packet is judged with the app and the host of one generation, the current one.
VerdictsUseOneEpoch ==
    \A t \in Packets : pc[t] = "make" =>
        /\ hot[t].app.gen = generation
        /\ hot[t].host.gen \in {0, generation} /\ hot[t].host.dom \in {0, generation}

\* The save tree after a reset: no manager file holds older state, and no app file state
\* from before the last RESETALL (a periodic save cannot write its snapshot back).
SaveTreeClean ==
    Stable(epoch) /\ saveReset = Nobody =>
        /\ disk.state = generation
        /\ \A u \in Uids : disk.apps[u] \in {0} \cup cleared..generation

\* The last save before exit holds the live state: every app has its file.
FinalSaveComplete ==
    \A t \in Mains : pc[t] = "finalSaved" =>
        \A u \in Uids : apps[u].gen # 0 => disk.apps[u] # 0

\* Every command gets its locks and ends: the lock order of the handlers, and the packet
\* and DNS threads that wait for a reset, never leave it waiting for ever.
CommandsEnd == \A c \in Controls : []<>(op[c] = "none")

\* A packet gets its verdict once the policy is no longer changed under it: the retries
\* of the NFQUEUE callback end (resets and package changes are bounded).
PacketAnswered ==
    <>[](\A c \in Controls : op[c] # "CONFIG.SET")
        => \A t \in Packets : []<>(pc[t] = "idle")

\* PackageListener.cpp:208: "package updates cannot publish apps across a concurrent
\* RESETALL boundary": between updates, an app named by a package is one the listener
\* knows (otherwise its removal is never noticed).
NoPackageAppAcrossReset ==
    pc["packages"] = "idle" /\ Stable(epoch) => \A u \in Uids : apps[u].named => u \in names
=============================================================================
