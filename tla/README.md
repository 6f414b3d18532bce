# sucre-snort in TLA+

sucre-snort is the root daemon of an Android firewall. NFQUEUE worker threads judge every
packet, DNS sessions judge every lookup, control sessions (a legacy protocol and "vNext")
change the policy and read statistics, and a main thread saves the state. All of them share a
few tables. This directory models the parts in which these threads meet, checks them with
TLC on small instances and proves the central results with TLAPS for every instance.

Line numbers are of the files in the repository's `src/`. `PROJECT.json` gives, for every
definition that models code, the lines it stands for, and lists runs, hazards, findings and
theorems.

## 1. Inventory

| component | state | operations | talks to |
|---|---|---|---|
| Runtime (`sucre-snort.cpp`, `SnortRuntime.cpp`) | reset epoch, `g_snortSaveResetMutex`, `mutexControlMutations`, `mutexListeners`, shutdown flag, session budget | start, periodic and final save, RESETALL, CHECKPOINT.SAVE/RESTORE/CLEAR | every manager, under the locks |
| PacketListener | NFQUEUE sockets | callback: prepare outside the lock, publish and judge inside it | AppManager, HostManager, PacketManager, streams |
| DnsListener | socket sessions | request, verdict, addresses, statistics: four windows under the lock | AppManager, DomainManager |
| AppManager, HostManager, DomainManager | maps by uid, name, address | find, prepare, publishPrepared, install, remove, reset, save | packet, DNS, package and control threads |
| PackageListener, PackageState | names last seen, inotify | parse, difference, install and remove apps | AppManager; RESETALL calls it |
| PacketManager | interface masks, reason counters | `make`: interface block, IP rules, domain policy | Conntrack, IpRulesEngine, FlowTelemetry |
| Conntrack | sharded hash table, epochs, retired lists, per-entry telemetry | inspectForPolicy, commitAccepted, observeFlowTelemetry, sweep, evict, reclaim | many packet threads at once, without a lock for reading |
| FlowTelemetry, FlowTelemetryRing | session, owner, shared-memory ring, counters | open, close, resetAll, exportRecordHot, tryWrite | packet and DNS threads; a consumer in another process |
| IpRulesEngine | rule sets and compiled snapshots | apply, preflight, lookup, save, restore | PacketManager, control |
| Domain policy (RulesManager, CustomRules, CustomList, BlockingListManager, DomainList, App, Domain) | rules, lists, masks | add, remove, decide | DNS and packet threads, control |
| PolicyCheckpoint | slot files, staged list files | save, stage, publish, roll back, restore | every manager |
| ControlVNext, session, codec, streams | frames, subscriptions, event rings and queues | dispatch, stream start and stop, observe, pop | every manager |
| Legacy Control, CmdLine, SocketIO, Streamable | – | one command per line | every manager |
| Settings, Saver, statistics, PerfMetrics | flags, files, counters | save, restore, reset | – |

What is hard here: lock-free readers against deferred deletion; a lock-free multi-producer
ring whose mapping a control session may take away; a table entry whose telemetry several
threads update field by field; objects prepared outside a lock and used inside it after a
reset has passed; three locks of which each command takes its own subset; a package update
computed in one critical section and applied in another; compiled rule snapshots behind
per-thread caches; commands that are a series of calls with legacy commands between them;
list files, metadata, memory and a published aggregate that must tell one story, through
failing renames and restarts; clients that read too slowly or hang up. What makes each
component correct:

* **Conntrack, memory**: no walker stands on freed memory; an entry has one owner; a closed
  reclaim gate opens again.
* **Conntrack, records**: the records of a flow form one numbered sequence with one BEGIN,
  counters and times that do not go back, and no counted packet lost.
* **Telemetry**: a captured session outlives its use; a slot has one writer; the consumer
  sees whole records only; a producer never waits; every attempt is counted once.
* **Runtime**: after a reset nothing from before it is in a table, a counter, a verdict or
  the save tree; commands and packets end.
* **Packet decision, IP rules**: a verdict comes from one snapshot whatever the caches hold;
  the compiled form decides like the ordered rules; counters belong to the definition they
  were counted under; ESTABLISHED means a packet of the flow was accepted; the two tables
  together keep the entry budget.
* **Domain rules**: a rule is known to every scope that uses it and compiled there as it now
  reads; ids are not reused; the four decision functions agree; an apply installs its payload.
* **Domain lists, checkpoint**: a list is enforced as its file and metadata say; a restore
  takes effect wholly or not at all, files included; a restart changes nothing.
* **Sessions, streams**: a client reads events in order, between its START and STOP, and is
  told of each loss; sessions end and give their place back.

## 2. Modules

| module | models | state and actions |
|---|---|---|
| `TelemetryBoard` | what the export channel promises its consumer (abstract) | tickets issued, one whole record or none per place |
| `FlowTelemetry` | FlowTelemetry, FlowTelemetryRing, TELEMETRY.OPEN/CLOSE, RESETALL's part | one action per atomic step of `tryWrite` (`Reserve`, `CasEmpty`, `CasCommitted`, `WriteHeader`, `WritePayload`, `Commit`, `CountOutcome`), one per handler |
| `ConntrackEpoch` | `Epoch` and everything that links, unlinks, retires, walks and frees entries | one action per atomic load, store or CAS of `enter` and `beginAdvanceForReclaim`; sweep and eviction entry by entry |
| `FlowRecords` | telemetry of one entry: session change, counting, thresholds, export, END | one action per store another thread can come between; a record is what the ring took |
| `ResetBoundary` | reset epoch, the three locks, packet and DNS threads, control sessions, saves, package updates | one action per step between two places where another thread can run |
| `IpRules` | IpRulesEngine and the IPRULES commands | rule map, next id, published snapshot, save file; one action per command; `lookupBest`, `best`, `bucket`, `order` are the compiled lookup, `explain` the explanation |
| `ConntrackState` | connection state, lookup and entry budget of Conntrack | entries of each flow, shared count; operators for the TCP, UDP, ICMP and other updates |
| `PacketDecision` | `PacketManager::make` with both caches; composes `IpRules` and `ConntrackState` | one action per step of a packet thread between two places where a command or another packet can come in |
| `DomainRules` | RulesManager, CustomRules, CustomList, App's decisions, DOMAINRULES.APPLY, DOMAINPOLICY.APPLY, legacy rule commands | registry, rule objects, references, compiled snapshots; one action per call under one lock |
| `DomainLists` | BlockingListManager, DomainList, DomainManager's lists, DOMAINLISTS commands, legacy list commands, saves, checkpoint slot, restart | metadata, memory, aggregate, files, backup directory, saved metadata, slot, and per thread the command in progress; one action per critical section or file operation of every command, legacy ones and saves included |
| `ControlStreams` | accept loops, session loop, frame writer, ControlVNextStreamManager | subscriptions, rings, queues, budget; one action per handler, per send, per atomic step of the budget |
| `MC*` | instances: fairness, constants, symmetry | |
| `FlowTelemetryProofs`, `ConntrackEpochProofs`, `FlowRecordsProofs`, `ResetBoundaryProofs`, `PacketDecisionProofs`, `DomainRulesProofs`, `DomainListsProofs`, `ControlStreamsProofs` | theorems, with the inductive invariants (section 4) | |

Names of definitions are the source's where the action is a function of the source.
Definitions whose comment begins with "Mutant" are plausible errors used to show that the
properties can fail; no specification uses them.

Abstractions worth knowing:

* *FlowTelemetry.* A record is the ticket its producer took; header and payload carry the
  ticket of whoever wrote them, so a torn record is visible. The consumer is the refinement
  mapping (`Shown`): it may look at any moment.
* *ConntrackEpoch.* One shard with one bucket: shards share only the epoch and retired lists
  are per shard. The IPv4 and IPv6 tables are two copies of the same code. Which entry expires
  or is chosen for eviction is nondeterministic. `seen` is a history variable: what a guarded
  thread can still reach.
* *FlowRecords.* One entry, packets of either direction, decisions with and without a rule.
  Packets stand for bytes as well: both counters are handled by the same code side by side.
  Threads hold `mutexListeners` shared while they handle a packet, so sessions change only
  when all are idle.
* *ResetBoundary.* Objects carry the generation (the life between two resets that took
  effect) they were made in; 0 is "no object". Libc++'s `std::shared_mutex` is modelled in its
  two phases. Packets that bypass the boundary (blocking disabled, control traffic,
  `PacketListener.cpp:443`) are left out. TELEMETRY.OPEN and CLOSE take the locks of a
  METRICS.RESET of rule counters. Reads of vNext and legacy sessions share one action.
  CONFIG.SET of an app finds the app, changes it and saves its file in one step.
* *IpRules.* Fields compared for equality are one function (`EqFields`), an address is a few
  bytes of a few bits so that `maskV4` (a shift) and `maskIpV6` (byte by byte) differ as they
  do in the code. A stats object is named by the rule and the change that made it. Rule
  contents, not text, come in; `parseField`, `parseCidrV4/V6` and the `Apply*` checks are what
  parsing does to them.
* *ConntrackState.* Time is the flag `expired`. A flow hashes to a shard; buckets do not matter
  to what the policy sees. Telemetry's own use of entries is in because it creates them; the
  L3 entries it keeps for fragments are not.
* *PacketDecision.* Whether telemetry is active, the interface blocked and IP rules on are
  inputs of a packet. RESETALL runs with no packet inside (`ResetBoundary` shows that it may).
* *DomainRules.* A `Rule` object is distinct from its id, as a scope may hold an object the
  registry has dropped. Which pattern matches which name is a constant relation.
  `DecisionsAgree` is stated while no scope holds a dropped rule: `RulesManager::removeRule`
  leaves a rule in the device scope in one order of calls (section 5). The stores of a scope's
  regex snapshot and of its attribution snapshot, which follow each other, are one step.
* *DomainLists.* A legacy session (`leg`) takes a request (`Begin`, with the read of the metadata
  the command starts with), then makes its calls one by one: ENABLE is `Enable`, `setEnabled`,
  `SaveLists`, `SaveFile`; UPDATE is `UpdateMask`, `getColor`, `SwitchGet`, `SwitchPut`,
  `SwitchDrop`, `UpdateMeta` and a save; REMOVE and CLEAR are `Remove`, `Unlink`, `Forget` per list
  and a save. They hold `mutexListeners` shared only (`Control.cpp:531`), so steps of several
  sessions, of the vNext command and of the periodic save interleave, and a crash may come between
  any two. What fails: every rename of a list file (also with the file present), unlink,
  `ensureFileExists`, the read in `enable`, opening and writing in `DomainList::write`, the
  files of IMPORT, of a slot and of a save, and each fallible step of a restore. What does not:
  reads at start-up, and the rename by which a failed restore rolls back. `ill` is history: the
  lists that something has gone wrong with, which is one of four things. A command began on a list
  that another was working on; a legacy command's arguments disagree with the metadata; a file
  failure that the code ignores, or after which it leaves the list half way, hit the list; a crash
  came while a command worked on it or before its metadata were saved. The code orders or repairs none
  of these and promises nothing about such a list, so the properties are about the others, and
  about the list itself again after RESETALL or a restore. Section 5 says what becomes of it.
* *ControlStreams.* An event is its number. The dns and pkt streams run the same code, so the
  run has pkt and activity. Polling is left to the scheduler; a deadline may pass whenever it
  runs.
* *Memory order.* Each atomic operation is a step, and steps are sequentially consistent. The
  one release target is arm64-v8a, where a release store is ordered before a later acquire
  load of the same thread; on a weaker machine the store of a slot's epoch and the load of the
  gate (`Conntrack.cpp:368-369`) would need a fence.

## 3. Runs

| run | instance | checks |
|---|---|---|
| `MCFlowTelemetry` | 2 producers, 2 slots, 5 tickets, 2 sessions, 2 connections (1.2 M states) | `SessionPinned`, `SlotOwnership`, `CommittedIntact`, `CountersAccount`, `ExportCompletes`, `ImplementsBoard`, `PreemptedCloseHarmless` |
| `MCConntrackEpoch` | 2 threads, 3 entries, 2 slots; scenes: two writers with two cells, a writer and a reader with three (0.68 M states) | `NoUseAfterFree`, `GateExcludesReaders`, `OneHome`, `RetiredUnreachable`, `GateReopens` |
| `MCFlowRecords` | an INPUT and an OUTPUT worker, 2 packets per session, 2 sessions, times 0..2 (1.4 M states) | `RecordSequence`, `RecordsNeverRollBack`, `CountedPacketsKept` |
| `MCResetBoundary` | casts: packet, DNS and control; packet, control and main; packet and control with CONFIG.SET; two controls and the package listener; one reset, one package change (0.11 M states) | `CleanBaseline`, `VerdictsUseOneEpoch`, `SaveTreeClean`, `FinalSaveComplete`, `CommandsEnd`, `PacketAnswered` |
| `MCPacketDecision` | 2 packet threads, a TCP flow over IPv4 and a UDP flow over IPv6, 2 packets, 1 command, budget of 1 entry, 108 rule files of up to 3 rules (0.24 M states) | `DecisionOfOneSnapshot`, `StatsBelongToDefinition`, `EstablishedWasAccepted`, `CapacityKept`, `LookupCorrect` |
| `MCDomainRules` | 1 app and the device, 2 rule ids, 3 patterns, one vNext and one legacy command, from 5 rule files and every saved scope (0.21 M states) | `AppReferencesRegistered`, `AppSnapshotsFresh`, `NextIdUnused`, `DecisionsAgree`, `ApplyInstalls` |
| `MCDomainLists` | 2 lists, 2 legacy sessions and the periodic save; scenes: two vNext commands, one vNext and one legacy command, two legacy commands, with a failing file operation, a crash or both (2.2 M states) | `ListsAgree`, `DecisionsFollowLists`, `FailedRestoreHarmless`, `RestoredAsSaved`, `RestartReproduces` |
| `MCControlStreams` | 2 sessions, 2 accept loops, 3 events, ring and queue of 2, writer of 1, in 4 scenes (0.53 M states) | `WireOrder`, `LossAccounted`, `BudgetKept`, `SessionsEnd` |
| `FlowRecordsRuleId` | as `MCFlowRecords` | `IfaceBlockHasNoRuleId`, violated |
| `ResetPackages` | a control session, the package listener, two package changes | `NoPackageAppAcrossReset`, violated |
| `TelemetryVerdict` | as `MCPacketDecision`, a SYN sent twice, one rule | `TelemetryNeutral`, violated |
| `CheckpointContents` | as `MCDomainLists` | `CheckpointHasContents`, violated |

A *cast* or *scene* is a choice made in the initial state: the threads that take part, or how
much of each bound a behaviour may use. One run covers them all, each at the size at which
its cases happen, instead of the product of all bounds.

Why the bounds suffice for the interesting cases: five tickets on two slots let a producer be
lapped twice; two sessions let an owner be preempted and its address be reused. Three entries
make a chain with a first, a middle and a last one, so a walker can stand on an unlinked entry
whose successor is unlinked too; epochs are modulo 3 and wrap. Two slots for two threads never
run out, so the unprotected reader past the last slot is reached by the proof only. Two packets
on two threads are enough for every pair of stores to interleave, and two sessions for an entry
to be started over with packets in flight. One reset is enough for state from before it to
be carried across; the epoch is only ever compared for equality and parity.
Three rules meet in one bucket, in two subtables and in three, with equal and different
priorities, exact, range and open ports, prefixes, conntrack state and would-block, at and
over the preflight limits of the instance; a command takes one critical section, so one
command between any two steps of a packet is what an older snapshot or a stale cache needs.
A budget of one entry makes the two tables compete. Two lists and two commands let a second
command meet what the first left behind, or come between any two of its steps, on the same list
or on the other; the fault may be at any file step and the crash between any two steps. Three events
on a ring and a queue of two overflow both; three clients ask for two places.

Deadlock is not checked where traffic or commands may simply end: the runs of `FlowRecords`,
`PacketDecision`, `DomainRules` and `ControlStreams`.

Fairness:

* `MCFlowTelemetry`: weak fairness of the export steps of one producer only. The other may
  stop anywhere, also inside a slot: `ExportCompletes` says the ring needs nobody's help.
* `MCConntrackEpoch`: weak fairness of a thread that is inside a function; no packet has to
  arrive. The reclaimer waits for the shard mutex only, which its holder leaves.
* `MCResetBoundary`: strong fairness of a thread that has work. It says that a lock
  that is free again and again is obtained in the end, as the blocking primitives of bionic
  and libc++ give. Nothing forces requests, traffic, saves or package changes.
  `PacketAnswered` assumes that CONFIG.SET commands end at some point: a user who toggles an
  interface block between the two lookups for ever makes the callback retry for ever.
* `MCControlStreams`: weak fairness of the steps a session takes by itself (`Work`: its loop,
  its way out, the deadlines that end a wait for the client). Clients, accept loops and packet
  threads owe nothing: `SessionsEnd` holds also when the client never reads again. What a client
  sends is bounded (a scene's `commands`): the read loop goes on until EAGAIN
  (`ControlVNextSession.cpp:765-787`), so a client that floods for ever is not covered.

### Findings

Four statements of the repository do not hold of the code; the runs give the behaviours.

1. **IFACE_BLOCK with a rule** (`FlowRecordsRuleId`). A record's reason is the packet's own,
   its rule id is the one stored in the entry (`Conntrack.cpp:3322`, `3281-3284`, `3352`).
   Another thread's rule decision in between gives a record that the telemetry specification
   (`archive/openspec/specs/flow-telemetry-records/spec.md:278`) excludes.
2. **A package update across RESETALL** (`ResetPackages`). The difference of names is computed
   before the shared lock is taken and no epoch is compared (`PackageListener.cpp:381-415`),
   against the comment at line 208. The app stays named although the listener does not know it.
3. **Telemetry changes a verdict** (`TelemetryVerdict`). With a consumer, a dropped SYN leaves
   a conntrack entry (`Conntrack.cpp:3033`); the retransmission is ESTABLISHED and a block rule
   on `ct.state=new` no longer matches it. `docs/INTERFACE_SPECIFICATION.md:209` and
   `docs/decisions/FLOW_TELEMETRY_WORKING_DECISIONS.md:199` say that telemetry's observation does
   not change the verdict.
4. **A checkpoint without the domains of disabled lists** (`CheckpointContents`). The contents
   are taken from memory (`PolicyCheckpoint.cpp:1370`), where a disabled list has none, and a
   restore then replaces its file by an empty one, against
   `archive/openspec/specs/policy-bundle-checkpoints/spec.md:36-39`.

## 4. Proofs

Every theorem holds for every value of the constants that satisfies the module's named
assumption, in particular for any number of threads, sessions, lists, rules, packets, commands,
failures and restarts. A module's bounds (`MaxResets`, `MaxCommands`, ...) are constants too:
nothing in a proof depends on their being small. The argument is the same everywhere: an
inductive invariant holds initially, every action keeps it, and it implies the properties. TLC agrees with
every one of them on the module's instance (`EpochInv` excepted: that the chain has no cycle is
said with a rank function into the natural numbers, which TLC cannot enumerate).

| module | assumptions | inductive invariant | theorems about runs' properties |
|---|---|---|---|
| `FlowTelemetryProofs` | `FlowTelemetryAssumption`: at least one slot, finitely many producers, null values are not real ones | `RingInv`, and `CountersAccount` with it | `SessionNeverFreedUnderWriter`, `OneWriterPerSlot`, `CommittedRecordsIntact`, `CountersLoseNothing`, `PreemptedConnectionsCannotClose`, `RingImplementsBoard` |
| `ConntrackEpochProofs` | `ConntrackEpochAssumption`: null values | `EpochInv` | `WalkersNeverSeeFreedEntries`, `ReclaimWindowHasNoReaders`, `EntriesHaveOneHome`, `WalksMeetLiveEntries` |
| `FlowRecordsProofs` | `FlowRecordsAssumption`: finitely many threads, some decision, thresholds and bounds are numbers | `RecordsInv` | `RecordsNumbered`, `RecordsDoNotRollBack`, `CountedPacketsAreKept` |
| `ResetBoundaryProofs` | `ResetBoundaryAssumption`: the roles are different threads | `BoundaryInv` | `ResetLeavesCleanBaseline`, `VerdictsOfOneEpoch`, `SavesKeepTheBoundary`, `FinalSaveMissesNothing` |
| `PacketDecisionProofs` | those of `IpRules`, `ConntrackState` and `PacketDecision`: finitely many threads, flows have an app and a full key of one of the two families, rules are as the parsers leave them, telemetry's share is within the budget | `PacketInv`; with it `RuleInv` | `DecisionsOfOneSnapshot`, `EstablishedFlowsWereAccepted`, `CapacityIsKept`, `StatsBelong`, `LookupsAreCorrect` (from the general `AnswersRight`) |
| `DomainRulesProofs` | `DomainRulesAssumption`: more objects than ids, the device is no app, files hold rules | `RulesInv`; with it `ApplyInv` | `AppsReferToRegisteredRules`, `AppSnapshotsAreFresh`, `NextIdIsUnused`, `OneDecision`, `AppliesInstallPayload` |
| `DomainListsProofs` | `ListsAssumption`: requests, legacy arguments, names and save files have their types; an earlier run left no file but its lists' | `ListsInv` and `MemOf(mem)` | `ListsAgreeAlways`, `DecisionsFollowListsAlways`, `FailedRestoreIsHarmless`, `RestoreInstallsSlot`, `RestartReproducesLists` |
| `ControlStreamsProofs` | `ControlStreamsAssumption`: finitely many sessions and accept loops, limits are numbers | `StreamsInv`; with it `WireInv` | `BudgetIsKept`, `LossesAccounted`, `WireInOrder` |

Why the invariants need more than the properties:

* **Ring.** `RingInv` = types, `SessionPinned`, `SlotOwnership`, `CommittedIntact` and
  `WriterProgress`. The last is what makes it inductive: a producer's ticket was issued, and the
  bytes it has stored are still there when it commits, because nobody else owns the slot.
  A handler with the exclusive lock finds no producer inside (`SessionPinned`), so it may
  replace the ring. `RingImplementsBoard`: every step of the ring is a step or a stutter of
  `TelemetryBoard`. `CountersAccount` counts producers between their attempt and its counter
  by the cardinality of a set, to which each step adds or from which it takes one thread.
* **Reclamation.** `EpochInv` has, besides types: `SlotInv` (slots are not shared and a guarded
  thread's slot is published), `GateInv` (one reclaimer; a protected reader is one its scan has
  yet to meet, so a scan that ends has met none), `MutexInv`, `HomeInv` (where each entry is),
  `ListInv` (the chain under construction: no two entries share a successor, no cycle by a
  rank function, what a sweep has kept so far), and `ReachInv` (what a guarded thread can reach
  contains the table, is closed under `next` and is allocated). `NoUseAfterFree` alone says
  nothing about the successor of the entry a walker stands on, and what it can reach changes
  with every unlink: `ReachInv` is the strengthening. The proof uses the gate only, never that
  an entry waits two epochs: since the scan declines for *any* published slot, readers are
  excluded altogether while entries are freed.
* **Flow records.** Most fields of an entry are loaded and stored without the export flag.
  `RecordsInv` says what each thread may rely on at its place (`Holds`): the flag's holder is
  one; the counters an exporter has loaded are at most the entry's and at least those of every
  record before (`ExportInv`); while one thread starts the entry over nobody counts in it
  (`SessionInv`, `CountInv`). The totals are the sum of the directions and of the threads
  between the two additions.
* **Reset boundary.** `VerdictsUseOneEpoch` compares two generations at the end of a packet.
  `BoundaryInv` adds which command is at which step (`CommandInv`), who holds which lock
  (`LockInv`), that an odd epoch is a reset in progress (`EpochInv`), what a reset has cleared so
  far (`TableInv`, `SaveInv`), and the heart of it, `HotInv`: what a thread prepared outside the
  lock is of the current generation *as long as the epoch it read is the current one*. That is
  why comparing the epoch inside the lock is enough.
* **Packet decision.** `DecisionOfOneSnapshot` is about a packet that ends; `PacketInv` says that
  an epoch names one snapshot (`SnapInv`), that each cache keeps under an epoch what the snapshot
  of that epoch says (`SlotInv`, `CapsInv`), and what a packet's key has to hold (`DecInv`). For
  the budget: the shared count is the entries linked plus the threads between counting and
  linking (`CapInv`), and such a thread holds a shard in which its flow has no live entry
  (`HoldInv`). Accepting stands before linking (`AcceptInv`, `ChainInv`).
* **Rule lookup.** `AnswersRight` is about any finite map of parsed rules and any key, with no
  state machine: a rule that matches a packet lies in the bucket its masked key names; a bucket's
  exact and range lists give the best match in it; the order of subtables is by falling maximum,
  so what the loop leaves out holds nothing better than what it found. Sorting is "the place is
  the number of those that come before", which avoids recursion: the proofs use that a nonempty
  set of naturals has a least and a finite set of integers a greatest member, and that counting
  is strictly monotone in finite sets. `LookupsAreCorrect` follows as `RuleInv` says that
  every command publishes such a map.
* **Rule counters.** `StatsBelongToDefinition` speaks of the rules in force, but packets still
  count for older snapshots. `RuleInv` therefore says it of every snapshot a packet or cache still
  holds and of every hit: one stats object, one definition. A stats object is named by
  the change that made it, so a new one is in no snapshot and has no hit yet.
* **Domain rules.** The registry is injective (`RegistryInv`), `_customs` is the inverse of what
  the apps hold (`CustomsInv`) and a snapshot names only what the scope holds (`SnapshotInv`).
  `NextIdIsUnused` has the hypothesis that the 32-bit counter does not wrap
  (`MaxRuleId + 1 < RuleIdModulus`): the code relies on it and the run's instance satisfies it.
  `ApplyInstalls` speaks of the moment of the answer; `ApplyInv` says of every call before it
  what is done and what is left. For rules: the ids given out in this command name the fresh
  patterns taken off the payload, one each, and the rules of explicit id done so far have their
  pattern. For a policy: what the passes that ended were to install is there; in the
  pass under way, what is still to add is its part of the payload without what the scope holds,
  and what is still to remove is what the scope holds beyond it. A legacy
  command in between clears the flag `clean`, and nothing is promised then. `AppliesInstallPayload`
  has the same hypothesis, as a wrapped counter could hand out an id of the payload.
* **Domain lists.** `ListsAgree` is silent about a list a command is working on; `ListsInv` says,
  for every place of APPLY and IMPORT (`ApplyHolds`, `ImportHolds`) and of every legacy command
  (`LegHolds`), how far metadata, file and memory of that list have come and that what the command
  read at its start is still so, and where the policy is while a restore has moved the
  directory away (`RestoreInv`). A list is in the hands of one command or of none, or it is
  `ill`: a command that begins on a list in work makes it so (`LegacyInv`). So commands are
  independent list by list, and a step of one disturbs no conjunct about another's list. A thread
  keeps a list in its hands (`WorksOn`) until the step after which it agrees again, when only
  the save is left; the vNext command relies on no list in `Loose`, the ill ones and those. That the aggregate is that of
  memory (`AggInv`) holds while `ill` is empty only: `DomainList::write` leaves it stale when it
  cannot open the file. `DecisionsFollowLists` further needs that memory holds nothing but lists
  (`MemOf`). `RestartReproduces` is an action property: at every step of every command, with the
  save file whatever overlapping saves have made of it.
* **Streams.** `StreamsInv` adds the queue limit, what a session has at each place (`PlaceInv`)
  and that a stream's subscriber is a session that runs and knows it (`OwnerInv`). The budget is
  the number of accept loops between their CAS and the thread they start, and of sessions that
  have not given their place back. `WireOrder` speaks of what a client read; `WireInv` speaks of
  that together with the frames its writer still holds (`Sent`), so that a flush of any length
  changes nothing. Events are in order in the ring and in the queue (`EventsInv`). What a
  session was sent is older than the queue of the stream it subscribes to and, for every other
  stream, older than the whole ring (`LinkOf`): so a replay after a STOP repeats nothing, as
  STOP empties the ring. A session that goes away leaves its ring, but will read no replay of it.

What the proofs changed in the models: `RecordSequence` had a conjunct nested one level too deep,
which hid it behind an implication; it now states it of every record, and the run was repeated.
`Agree` of `DomainLists` now also excludes a file in either form for a list without metadata.
Overlapping `CASE`s of `ResetBoundary` became `IF`s, `Replay` of `ControlStreams` is the closed
form of the fold over `pushPending` (`MCControlStreams` assumes that they are equal and TLC
evaluates it on all short queues), and `DomainLists` builds its functions with `Put` and `Over`.
`scan` of `IpRules` is the closed form of the loop over subtables. The proof of `AnswersRight`
first needed that priorities are above the smallest 32-bit number, which the parsers do not
ensure: that assumption is gone, `Correct` excepts such rules (`Ranked`), and section 5 says so.

Only model-checked:

* Liveness: `ExportCompletes`, `GateReopens`, `CommandsEnd`, `PacketAnswered`, `SessionsEnd`.
  TLAPS does not reason about fairness and `ENABLED`.
* The four violated properties, of course.

Every safety invariant and action property of the passing runs is a theorem.

## 5. What else the model shows, and what is not modelled

What the model shows and no document forbids, so that no property is stated:

* The sweep retires an entry without END when the export guard is busy (`Conntrack.cpp:973`); an
  UPDATE can follow an END (`3265`); the END of an entry that a packet starts over in between
  carries the previous instance's id (`941`); a packet is not counted while another thread
  starts the entry over (`900`). Reclamation never succeeds from `inspectForPolicy` and
  `observeFlowTelemetry`, whose own slot is published (`1116`).
* A producer delayed for a lap overwrites a newer record with an older one
  (`FlowTelemetryRing.cpp:76`).
* `App::save` may write the file of an app that was just removed (`AppManager.cpp:197`). A host
  keeps the domain its address had (`HostManager.hpp:111`).
* The registry remembers one colour of a device-wide rule (`RulesManager.cpp:209`, `228`): a
  rule held as allow and as block rule stays enforced under the other colour when it is removed.
* DOMAINLISTS.APPLY does not save the metadata: a crash before the next save leaves files and
  metadata that disagree, as does one between the two renames of a restore, or between `enableList`
  and the end of the save of a legacy ENABLE (`Control.cpp:2080-2082`).
* Two legacy sessions can leave a list disabled in the metadata and enforced: DISABLE renames the
  file and erases the list (`Control.cpp:2097`), ENABLE of the other session renames it back, loads
  it, stores `enabled` and saves, then DISABLE stores `disabled` and saves. A restart then drops the
  list. The lock comment at `DomainList.cpp:250` is about the file and memory, which do agree.
* Two saves of the block lists at once write through the one stream of the manager's Saver
  (`Saver.cpp:42-46`, no lock): what is left may be a part of the metadata or the old file.
* A new list whose last rename fails stays enabled in the metadata and unenforced, its file in
  disabled form (`ControlVNextSessionCommandsDomain.cpp:1285-1298`).
* `DomainList::write` returns without rebuilding the aggregate when it cannot open the file, after
  it may have erased the list (`DomainList.cpp:106-119`): names keep the old answer until the next
  change of any list of that colour.
* `takeDroppedEvents` and `takeSuppressedTraffic` ask no owner (`ControlVNextStreamManager.cpp:335`):
  a session that has lost its stream may take the next owner's counts. `LossAccounted` says so.
* `kNoPriority` is INT32_MIN (`IpRulesEngine.cpp:28`) and ends the loop over subtables (`1073`),
  yet `parsePriority` (`281`) and IPRULES.APPLY (`ControlVNextSessionCommandsIpRules.cpp:716`)
  accept it as a priority: a subtable whose rules all have it is never looked up.
* A legacy command changes policy under the shared lock only (`Control.cpp:531`), so a
  CHECKPOINT.SAVE may capture half of it.

Not modelled: the frame decoder and JSON of the control protocols, the IPv6 extension header
walk and the package files (pure functions of bytes; a bounded model would transliterate them),
byte layouts (`FlowTelemetryRecords`, `FlowTelemetryAbi`), printing, logging, performance
counters, set-up of netlink and of sockets: they keep no shared state and decide nothing the
properties are about. Reasons and metrics of a packet are left out for the same reason.
