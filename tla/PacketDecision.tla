---------------------------- MODULE PacketDecision ----------------------------
(***************************************************************************)
(* The verdict of a packet (PacketManager::make): packet threads of the    *)
(* IPv4 and IPv6 queues take a snapshot of the IP rules, look their flow   *)
(* up in conntrack when a rule or telemetry needs it, evaluate through a   *)
(* per-thread decision cache, fall back to the domain policy, and add an   *)
(* accepted flow to conntrack; control sessions change the rules meanwhile.*)
(*                                                                         *)
(* RESETALL and CHECKPOINT.RESTORE exclude packets (mutexListeners), every *)
(* other command does not.  Whether the interface is blocked, IP rules are *)
(* on, telemetry is active, and what the domain policy says, are inputs of *)
(* a packet.  Explain snapshots, metrics and streams change no decision.   *)
(***************************************************************************)
EXTENDS IpRules, ConntrackState

CONSTANTS
  Threads,
  FlowKey,     \* flow -> the packet key of its original direction, without ct fields
  TeleCap,     \* maxFlowEntries of the telemetry session, clamped by MaxEntries
  Arrivals,    \* [pkt, tele, iface, on]: a packet, and whether telemetry is active, its
               \* interface blocked, IP rules on
  BusyFiles,   \* bound: the save files packets are explored with
  MaxPackets, MaxCommands   \* bounds: packets and commands of a behaviour

ASSUME PacketDecisionAssumption ==
  /\ {MaxPackets, MaxCommands, TeleCap} \subseteq Nat /\ TeleCap <= MaxEntries /\ IsFiniteSet(Threads)
  /\ Arrivals \subseteq [pkt : Packets, tele : BOOLEAN, iface : BOOLEAN, on : BOOLEAN]
  /\ \A f \in Flows : /\ FlowKey[f].uid \in Uids /\ FlowKey[f].family = FamilyOf[f]
                       /\ DOMAIN FlowKey[f].eq = EqSet

VARIABLES
  th,        \* each packet thread: its place and locals
  cache,     \* HotSnapshot::evaluate's thread_local slot of each thread and family
  caps,      \* IpRulesCapsCache of each app
  hits,      \* history: <<stats object, definition>> of every hit counted
  accepted,  \* history: flows with an accepted packet since conntrack was reset
  work       \* packets and commands left

vars == <<ruleVars, ctVars, th, cache, caps, hits, accepted, work>>
others(t) == Threads \ {t}

Families == {"ipv4", "ipv6"}
IdleThread == [pc |-> "idle"]
NoView == [state |-> "none"]
NoSlot == [epoch |-> 0]

Init ==
  /\ \E file \in Files :
       /\ RulesInit(file)
       /\ work = [packets |-> IF file \in BusyFiles THEN MaxPackets ELSE 0, commands |-> MaxCommands]
  /\ CtInit
  /\ th = [t \in Threads |-> IdleThread]
  /\ cache = [t \in Threads |-> [fam \in Families |-> NoSlot]]
  /\ caps = [u \in Uids |-> [epoch |-> 0, mask |-> {}]]
  /\ hits = {}
  /\ accepted = {}

Go(t, pc) == th' = [th EXCEPT ![t].pc = pc]
Fam(t) == FamilyOf[th[t].pkt.flow]
Uid(t) == FlowKey[th[t].pkt.flow].uid

\* The shard mutex is held between reserving an entry and inserting it.
ShardFree(t) ==
  \A o \in others(t) : th[o].pc \in {"insert", "reserve", "observed"} =>
                         th[o].pkt.flow \notin InShard(th[t].pkt.flow)

-----------------------------------------------------------------------------
\* A packet arrives.  An interface block drops it before any rule.
Arrive(t, p, tele, iface, on) ==
  /\ th[t].pc = "idle"
  /\ work.packets > 0
  /\ work' = [work EXCEPT !.packets = @ - 1]
  /\ th' = [th EXCEPT ![t] =
       [pc |-> IF iface THEN IF tele /\ p.l4 THEN "fast" ELSE "finish"
               ELSE IF on THEN "snapshot" ELSE "domain",
        stage |-> IF iface THEN "iface" ELSE "rules",
        pkt |-> p, tele |-> tele, snap |-> [epoch |-> 0, rules |-> << >>], ct |-> FALSE,
        view |-> NoView, by |-> "none", key |-> << >>, dec |-> NoMatch,
        verdict |-> FALSE, full |-> FALSE]]
  /\ UNCHANGED <<ruleVars, ctVars, cache, caps, hits, accepted>>

TakeSnapshot(t) ==
  /\ th[t].pc = "snapshot"
  /\ th' = [th EXCEPT ![t].pc = "caps", ![t].snap = hot]
  /\ UNCHANGED <<ruleVars, ctVars, cache, caps, hits, accepted, work>>

\* usesCtMaskIfFresh, or the mask of the packet's own snapshot.
usesCtMask(u, snap) ==
  IF caps[u].epoch = snap.epoch THEN caps[u].mask
  ELSE {fam \in Families : uidUsesCt(snap.rules, u, fam)}

\* The app's mask of families with ct rules is cached with the epoch it is of.
LoadCaps(t) ==
  /\ th[t].pc = "caps"
  /\ LET mask == usesCtMask(Uid(t), th[t].snap)
         ct == Fam(t) \in mask \/ th[t].tele
     IN /\ th' = [th EXCEPT ![t].pc = IF ct /\ th[t].pkt.l4 THEN "fast" ELSE "evaluate", ![t].ct = ct]
        /\ caps' = [caps EXCEPT ![Uid(t)] = [epoch |-> th[t].snap.epoch, mask |-> mask]]
  /\ UNCHANGED <<ruleVars, ctVars, cache, hits, accepted, work>>

-----------------------------------------------------------------------------
(* inspectForPolicy.                                                       *)

AfterCommit(t) == IF th[t].tele /\ Keyed(th[t].pkt) THEN "observe" ELSE "finish"

AfterInspect(t) ==
  CASE th[t].stage = "iface" -> AfterCommit(t)
    [] th[t].stage = "rules" -> "evaluate"
    [] th[t].stage = "domain" -> "commit"

\* An entry answers, and moves with the packet.
InspectHit(t) ==
  LET f == th[t].pkt.flow
      p == Oriented(th[t].pkt)
  IN /\ Found(f)
     /\ th' = [th EXCEPT ![t].pc = AfterInspect(t), ![t].view = viewOf(chain[f][1], p),
                         ![t].by = chain[f][1].by]
     /\ chain' = [chain EXCEPT ![f][1] = updateExisting(@, p)]
     /\ UNCHANGED total

\* The lockless walk; maybeHotSweep may sweep the shard first if its mutex is
\* free, which retires nothing the walk would have found.
InspectFast(t) ==
  /\ th[t].pc = "fast"
  /\ IF ~Keyed(th[t].pkt)
     THEN /\ th' = [th EXCEPT ![t].pc = AfterInspect(t), ![t].view = InvalidView]
          /\ UNCHANGED ctVars
     ELSE \/ Found(th[t].pkt.flow) /\ InspectHit(t)
          \/ ~Found(th[t].pkt.flow) /\ Go(t, "create") /\ UNCHANGED ctVars
          \/ /\ ShardFree(t)
             /\ Swept(chain, InShard(th[t].pkt.flow)) # chain
             /\ chain' = Swept(chain, InShard(th[t].pkt.flow))
             /\ total' = total - (Entries(chain) - Entries(chain'))
             /\ UNCHANGED th
  /\ UNCHANGED <<ruleVars, cache, caps, hits, accepted, work>>

\* Under the shard mutex: look again, sweep, and preview a new flow.
InspectCreate(t) ==
  /\ th[t].pc = "create"
  /\ ShardFree(t)
  /\ LET f == th[t].pkt.flow
     IN IF Found(f) THEN InspectHit(t)
        ELSE \E S \in {{}, InShard(f)} :
               LET c == Swept(chain, S)
                   n == total - (Entries(chain) - Entries(c))
               IN /\ chain' = c
                  /\ total' = n
                  /\ th' = [th EXCEPT ![t].pc = AfterInspect(t),
                              ![t].view = IF n >= MaxEntries \/ ~ValidNew(th[t].pkt) THEN InvalidView
                                          ELSE [state |-> "NEW", dir |-> "ORIG", create |-> TRUE]]
  /\ UNCHANGED <<ruleVars, cache, caps, hits, accepted, work>>

\* The IPv6 table runs a copy of the IPv4 code.
inspectForPolicyV4(t) == th[t].pc \in {"fast", "create"} /\ Fam(t) = "ipv4" /\ (InspectFast(t) \/ InspectCreate(t))
inspectForPolicyV6(t) == th[t].pc \in {"fast", "create"} /\ Fam(t) = "ipv6" /\ (InspectFast(t) \/ InspectCreate(t))

-----------------------------------------------------------------------------
(* The decision.                                                           *)

\* The packet key; ct fields are ANY when nothing looked at conntrack.
KeyOf(p, ct, view) ==
  LET k == FlowKey[p.flow]
      turn(s) == IF p.rev THEN CHOOSE o \in Sides : o # s ELSE s
      eq == [k.eq EXCEPT !["dir"] = IF p.rev THEN "IN" ELSE "OUT",
                         !["ctState"] = IF ~ct THEN "ANY" ELSE IF view = NoView THEN "INVALID" ELSE view.state,
                         !["ctDir"] = IF ~ct \/ view = NoView THEN "ANY" ELSE view.dir]
  IN [uid |-> k.uid, family |-> k.family, portsAvailable |-> k.portsAvailable /\ p.l4,
      eq |-> eq, ip |-> [s \in Sides |-> k.ip[turn(s)]],
      port |-> [s \in Sides |-> IF p.l4 THEN k.port[turn(s)] ELSE 0]]

\* Mutant of cacheFresh: the epoch of the cached decision is not compared.
cacheFreshKeyOnly(slot, snap, k) == slot # NoSlot /\ slot.key = k

cacheFresh(slot, snap, k) == slot # NoSlot /\ slot.epoch = snap.epoch /\ slot.key = k

\* HotSnapshot::evaluate; an enforced rule gives the verdict.
Evaluate(t) ==
  /\ th[t].pc = "evaluate"
  /\ LET k == KeyOf(th[t].pkt, th[t].ct, th[t].view)
         slot == cache[t][Fam(t)]
         d == IF cacheFresh(slot, th[t].snap, k) THEN slot.dec ELSE evaluate(th[t].snap.rules, k)
         enforced == d.kind \in {"ALLOW", "BLOCK"}
     IN /\ th' = [th EXCEPT ![t].pc = IF enforced THEN "commit" ELSE "domain", ![t].key = k,
                            ![t].dec = d, ![t].verdict = (d.kind = "ALLOW")]
        /\ cache' = [cache EXCEPT ![t][Fam(t)] = [epoch |-> th[t].snap.epoch, key |-> k, dec |-> d]]
        /\ accepted' = IF d.kind = "ALLOW" THEN accepted \cup {th[t].pkt.flow} ELSE accepted
  /\ UNCHANGED <<ruleVars, ctVars, caps, hits, work>>

\* The domain policy decides (leak: App::blocked, blockIPLeaks, a valid address).
Domain(t, leak) ==
  /\ th[t].pc = "domain"
  /\ th' = [th EXCEPT ![t].pc = IF th[t].tele /\ th[t].view = NoView /\ th[t].pkt.l4 THEN "fast" ELSE "commit",
                      ![t].stage = "domain", ![t].verdict = ~leak]
  /\ accepted' = IF leak THEN accepted ELSE accepted \cup {th[t].pkt.flow}
  /\ UNCHANGED <<ruleVars, ctVars, cache, caps, hits, work>>

-----------------------------------------------------------------------------
(* commitAccepted, and the entry observeFlowTelemetry makes.               *)

\* Mutant of mustCommit: the verdict is not asked.
mustCommitAny(t) == th[t].view # NoView /\ th[t].view.create

mustCommit(t) == th[t].verdict /\ th[t].view # NoView /\ th[t].view.create

\* Under the shard mutex: look again, sweep, then take an entry of the budget.
CommitReserve(t) ==
  /\ th[t].pc = "commit"
  /\ IF ~mustCommit(t)
     THEN Go(t, AfterCommit(t)) /\ UNCHANGED ctVars
     ELSE LET f == th[t].pkt.flow
          IN /\ ShardFree(t)
             /\ IF Found(f)
                THEN Go(t, AfterCommit(t)) /\ UNCHANGED ctVars
                ELSE \E S \in {{}, InShard(f)} :
                       LET c == Swept(chain, S)
                           n == total - (Entries(chain) - Entries(c))
                       IN /\ chain' = c
                          /\ total' = n + 1
                          /\ th' = [th EXCEPT ![t].pc = "insert", ![t].full = n >= MaxEntries]
  /\ UNCHANGED <<ruleVars, cache, caps, hits, accepted, work>>

\* Mutant of InsertOrUndo: a full table keeps the entry it counted.
InsertOrUndoNoUndo(t, by) ==
  IF th[t].full THEN UNCHANGED <<chain, total>>
  ELSE /\ chain' = [chain EXCEPT ![th[t].pkt.flow] = <<NewEntry(th[t].pkt, by)>> \o @]
       /\ UNCHANGED total

\* A full table gives the entry back, otherwise it is linked.
InsertOrUndo(t, by) ==
  IF th[t].full THEN total' = total - 1 /\ UNCHANGED chain
  ELSE /\ chain' = [chain EXCEPT ![th[t].pkt.flow] = <<NewEntry(th[t].pkt, by)>> \o @]
       /\ UNCHANGED total

CommitInsert(t) ==
  /\ th[t].pc = "insert"
  /\ InsertOrUndo(t, "packet")
  /\ Go(t, AfterCommit(t))
  /\ UNCHANGED <<ruleVars, cache, caps, hits, accepted, work>>

commitAcceptedV4(t) == th[t].pc \in {"commit", "insert"} /\ Fam(t) = "ipv4" /\ (CommitReserve(t) \/ CommitInsert(t))
commitAcceptedV6(t) == th[t].pc \in {"commit", "insert"} /\ Fam(t) = "ipv6" /\ (CommitReserve(t) \/ CommitInsert(t))

\* Telemetry exports the flow's entry, or makes one, whatever the verdict; at
\* the cap it evicts an exported entry of the shard or gives up.
Evicted(c, f) ==
  UNION {{[c EXCEPT ![g] = RemoveAt(@, i)] : i \in {j \in DOMAIN c[g] : c[g][j].seen}} : g \in InShard(f)}

\* Look for the flow's entry, or sweep, and evict one at the cap.
ObserveReserve(t) ==
  /\ th[t].pc = "observe"
  /\ LET f == th[t].pkt.flow
         goOn == Go(t, IF ValidNew(th[t].pkt) THEN "reserve" ELSE "finish")
     IN IF Found(f)
        THEN chain' = [chain EXCEPT ![f][1].seen = TRUE] /\ UNCHANGED total /\ Go(t, "finish")
        ELSE /\ ShardFree(t)
             /\ \E S \in {{}, InShard(f)} :
                  LET c == Swept(chain, S)
                      n == total - (Entries(chain) - Entries(c))
                  IN \/ n < TeleCap /\ chain' = c /\ total' = n /\ goOn
                     \/ n >= TeleCap /\ chain' = c /\ total' = n /\ Go(t, "finish")
                     \/ /\ n >= TeleCap
                        /\ chain' \in Evicted(c, f)
                        /\ total' = n - 1
                        /\ goOn
  /\ UNCHANGED <<ruleVars, cache, caps, hits, accepted, work>>

\* The entry is counted; the other table, or another shard, may have filled up.
ObserveCount(t) ==
  /\ th[t].pc = "reserve"
  /\ total' = total + 1
  /\ th' = [th EXCEPT ![t].pc = "observed", ![t].full = total >= TeleCap]
  /\ UNCHANGED <<ruleVars, chain, cache, caps, hits, accepted, work>>

ObserveInsert(t) ==
  /\ th[t].pc = "observed"
  /\ InsertOrUndo(t, "telemetry")
  /\ Go(t, "finish")
  /\ UNCHANGED <<ruleVars, cache, caps, hits, accepted, work>>

observeFlowTelemetryV4(t) ==
  th[t].pc \in {"observe", "reserve", "observed"} /\ Fam(t) = "ipv4" /\
    (ObserveReserve(t) \/ ObserveCount(t) \/ ObserveInsert(t))
observeFlowTelemetryV6(t) ==
  th[t].pc \in {"observe", "reserve", "observed"} /\ Fam(t) = "ipv6" /\
    (ObserveReserve(t) \/ ObserveCount(t) \/ ObserveInsert(t))

\* observeEnforceHit, or observeWouldHitIfAccepted; the verdict goes out.  (An
\* enforced hit is counted before the observation, which it does not touch.)
Finish(t) ==
  /\ th[t].pc = "finish"
  /\ LET d == th[t].dec
     IN hits' = IF d.kind \in {"ALLOW", "BLOCK"} \/ (d.kind = "WOULD_BLOCK" /\ th[t].verdict)
                THEN hits \cup {<<d.stats, th[t].snap.rules[d.ruleId].def>>} ELSE hits
  /\ th' = [th EXCEPT ![t] = IdleThread]
  /\ UNCHANGED <<ruleVars, ctVars, cache, caps, accepted, work>>

\* Time passes an entry's expirationNs.
Expire(f) ==
  /\ Found(f)
  /\ chain' = [chain EXCEPT ![f][1].expired = TRUE]
  /\ UNCHANGED <<ruleVars, total, th, cache, caps, hits, accepted, work>>

-----------------------------------------------------------------------------
(* The commands.                                                           *)

Command ==
  /\ work.commands > 0
  /\ work' = [work EXCEPT !.commands = @ - 1]
  /\ UNCHANGED <<th, cache, caps, hits>>

Quiet == \A t \in Threads : th[t].pc = "idle"

RuleCommand ==
  /\ \/ \E u \in Uids, r \in Templates : addFromKv(u, r)
     \/ \E i \in DOMAIN rules :
          \/ \E r \in Templates : updateFromKv(i, r)
          \/ removeRule(i)
          \/ \E on \in BOOLEAN : enableRule(i, on)
     \/ \E u \in Uids, payload \in Payloads : IpRulesApply(u, payload)
     \/ policySnapshot
  /\ Command
  /\ UNCHANGED <<ctVars, accepted>>

\* RESETALL and CHECKPOINT.RESTORE also reset conntrack.
BoundaryCommand ==
  /\ Quiet
  /\ \/ resetAll /\ UNCHANGED saved
     \/ restorePolicySnapshot
  /\ chain' = [f \in Flows |-> << >>]
  /\ total' = 0
  /\ accepted' = {}
  /\ Command

PacketStep(t) ==
  \/ \E a \in Arrivals : Arrive(t, a.pkt, a.tele, a.iface, a.on)
  \/ TakeSnapshot(t) \/ LoadCaps(t)
  \/ inspectForPolicyV4(t) \/ inspectForPolicyV6(t)
  \/ Evaluate(t) \/ \E leak \in BOOLEAN : Domain(t, leak)
  \/ commitAcceptedV4(t) \/ commitAcceptedV6(t)
  \/ observeFlowTelemetryV4(t) \/ observeFlowTelemetryV6(t) \/ Finish(t)

Next ==
  \/ \E t \in Threads : PacketStep(t)
  \/ \E f \in Flows : Expire(f)
  \/ RuleCommand \/ BoundaryCommand

Spec == Init /\ [][Next]_vars

-----------------------------------------------------------------------------
Answers(snap) == \A k \in Keys : Correct(snap.rules, k)

\* Every snapshot the engine publishes, at start-up and by a command, answers
\* every packet key as the rules it holds say: hashing into subtables and
\* buckets and stopping early lose no rule of higher priority.  (A command
\* does not depend on the packets in flight, so it is looked at without any.)
LookupCorrect == Answers(hot) /\ [][Quiet /\ hot' # hot => Answers(hot')]_vars

\* The verdict of a packet that met the rules is fixed.
Decided(t) == th[t].pc = "commit" /\ th[t].key # << >>

\* The decision a packet takes is the one of the snapshot it holds, whatever
\* commands ran since and whatever the caches hold: with the conntrack state
\* of its flow whenever a rule of that snapshot looks at it.
DecisionOfOneSnapshot ==
  \A t \in Threads : Decided(t) =>
    /\ th[t].dec = evaluate(th[t].snap.rules, th[t].key)
    /\ uidUsesCt(th[t].snap.rules, Uid(t), Fam(t)) =>
         th[t].key.eq["ctState"] \in {"NEW", "ESTABLISHED", "INVALID"}

\* The counters of a rule hold hits of its present definition only, though
\* packets that hold an older snapshot still count.
StatsBelongToDefinition ==
  \A i \in DOMAIN rules, h \in hits :
    h[1] = rules[i].stats => h[2] = [rules[i].def EXCEPT !.enabled = TRUE]

\* ESTABLISHED comes from a packet that was accepted: a flow all of whose
\* packets were dropped is tracked by telemetry at most.
EstablishedWasAccepted ==
  \A t \in Threads :
    th[t].pc # "idle" /\ th[t].by = "packet" => th[t].pkt.flow \in accepted

\* The two tables together stay within the budget, and the shared count is
\* exact when no thread is between counting an entry and linking it.
CapacityKept ==
  /\ Entries(chain) <= MaxEntries
  /\ total = Entries(chain) + Cardinality({t \in Threads : th[t].pc \in {"insert", "observed"}})

\* Telemetry observation does not change a verdict: no rule decision rests on
\* an entry that only telemetry made.
TelemetryNeutral ==
  \A t \in Threads :
    Decided(t) /\ th[t].by = "telemetry" =>
      th[t].dec.kind = evaluate(th[t].snap.rules,
        KeyOf(th[t].pkt, th[t].ct, IF ValidNew(th[t].pkt) THEN View("NEW", FALSE) ELSE InvalidView)).kind

=============================================================================
