------------------------------- MODULE IpRules -------------------------------
(***************************************************************************)
(* The IP rules engine: the rule map and its commands (IpRulesEngine), the *)
(* compiled classifier each change publishes as one immutable snapshot,    *)
(* and the lookup packet threads run in it.                                *)
(*                                                                         *)
(* A rule is a record: uid, client (clientRuleId), family, action,         *)
(* priority, enabled, enforce, log; eq, the six fields compared for        *)
(* equality; cidr and port, one condition for each of src and dst.  A      *)
(* snapshot is the map it was compiled from and its epoch; subtables,      *)
(* buckets and orders are functions of the map.                            *)
(***************************************************************************)
EXTENDS Integers, Sequences, FiniteSets, Functions, FiniteSetsExt, SequencesExt

CONSTANTS
  Uids,             \* app uids
  Templates,        \* the contents a rule may have
  Payloads,         \* IPRULES.APPLY payloads: sequences of <<client, template>>
  Open,             \* an eq field, address or port left open
  Keys,             \* packet keys
  MinPriority,      \* kNoPriority, INT32_MIN
  AddrBytes, ByteBits,               \* an IPv6 address is AddrBytes bytes
  HardMaxRulesTotal, HardMaxSubtablesPerUid, HardMaxRangeRulesPerBucket,
  Files             \* save files: sequences of <<uid, template>>, under ids 0, 1, ...

VARIABLES
  rules,       \* _rules: ruleId -> [def, stats]
  nextRuleId,  \* _nextRuleId
  epoch,       \* _rulesEpoch
  hot,         \* _snapshot: the published [epoch, rules]
  saved        \* a checkpoint's policySnapshot: [rules, next]

ruleVars == <<rules, nextRuleId, epoch, hot, saved>>

EqFields == <<"dir", "iface", "ifindex", "proto", "ctState", "ctDir">>
EqSet == Range(EqFields)
Sides == {"src", "dst"}
AddrBits == AddrBytes * ByteBits
AnyPrefix == 255
None == -1
NoMatch == [kind |-> "NOMATCH", ruleId |-> None, stats |-> << >>]

\* What the parsers let through of a rule's text: a priority of 32 bits, a
\* prefix no longer than an address, one of the three port conditions.
Parsed(t) ==
  /\ {"family", "priority", "enabled", "cidr", "port"} \subseteq DOMAIN t
  /\ t.enabled \in BOOLEAN
  /\ t.priority \in Int /\ t.priority >= MinPriority
  /\ \A s \in Sides : t.cidr[s] # Open => t.cidr[s].prefix \in 0..AddrBits
  /\ \A s \in Sides : t.port[s].kind \in {"ANY", "EXACT", "RANGE"}

ASSUME IpRulesAssumption ==
  /\ MinPriority \in Int
  /\ {AddrBytes, HardMaxRulesTotal, HardMaxSubtablesPerUid, HardMaxRangeRulesPerBucket} \subseteq Nat
  /\ ByteBits \in Nat \ {0} /\ AddrBits < AnyPrefix /\ Open \notin Nat
  /\ \A t \in Templates : Parsed(t)
  /\ \A file \in Files : file \in Seq(Range(file)) /\ \A n \in DOMAIN file : Parsed(file[n][2])
  /\ \A payload \in Payloads :
       /\ payload \in Seq(Range(payload))
       /\ \A n \in DOMAIN payload, s \in Sides : payload[n][2].port[s].kind \in {"ANY", "EXACT", "RANGE"}
  /\ \A k \in Keys : k.family \in {"ipv4", "ipv6"}

-----------------------------------------------------------------------------
(* Rules and keys.                                                         *)

\* maskFromPrefix: an IPv4 address keeps its first bits.
maskV4(a, prefix) == a - (a % 2^(AddrBits - prefix))

\* maskIpV6: whole bytes, then the bits of the byte the prefix ends in.
byte(a, i) == (a \div 2^(ByteBits * (AddrBytes - 1 - i))) % 2^ByteBits

headBits(b, n) == b - (b % 2^(ByteBits - n))

maskIpV6(a, prefix) ==
  [i \in 0..(AddrBytes - 1) |->
     LET rem == prefix % ByteBits
         full == prefix \div ByteBits
     IN IF i < full THEN byte(a, i)
        ELSE IF i = full /\ rem # 0 THEN headBits(byte(a, i), rem)
        ELSE 0]

matchesCidrV4(c, ip) == c = Open \/ maskV4(ip, c.prefix) = maskV4(c.addr, c.prefix)

matchesCidrV6(c, ip) ==
  \/ c = Open
  \/ LET full == c.prefix \div ByteBits
         rem == c.prefix % ByteBits
     IN /\ \A i \in 0..(full - 1) : byte(c.addr, i) = byte(ip, i)
        /\ \/ rem = 0 \/ full >= AddrBytes
           \/ headBits(byte(c.addr, full), rem) = headBits(byte(ip, full), rem)

matchesPort(p, port) ==
  CASE p.kind = "ANY" -> TRUE
    [] p.kind = "EXACT" -> port = p.lo
    [] p.kind = "RANGE" -> port >= p.lo /\ port <= p.hi

isAny(p) == p.kind = "ANY"
hasRangePorts(r) == \E s \in Sides : r.port[s].kind = "RANGE"
usesCt(r) == r.eq["ctState"] # Open \/ r.eq["ctDir"] # Open

\* RuleRef::matches; a port condition needs ports that could be read.
matchesRest(r, k) ==
  /\ r.uid = k.uid
  /\ k.portsAvailable \/ \A s \in Sides : isAny(r.port[s])
  /\ \A f \in EqSet : r.eq[f] = Open \/ r.eq[f] = k.eq[f]
  /\ \A s \in Sides : matchesPort(r.port[s], k.port[s])

matchesV4(r, k) == matchesRest(r, k) /\ \A s \in Sides : matchesCidrV4(r.cidr[s], k.ip[s])

matchesV6(r, k) == matchesRest(r, k) /\ \A s \in Sides : matchesCidrV6(r.cidr[s], k.ip[s])

matches(r, k) == IF r.family = "ipv4" THEN matchesV4(r, k) ELSE matchesV6(r, k)

\* What the text of a rule means: "any", and interface index 0, leave a field
\* open; an address is kept in network form; a range has its ends in order.
parseField(f, v) == IF f = "ifindex" /\ v = 0 THEN Open ELSE v

parseCidrV4(c) == IF c = Open THEN Open ELSE [addr |-> maskV4(c.addr, c.prefix), prefix |-> c.prefix]

parseCidrV6(c) ==
  IF c = Open THEN Open
  ELSE LET bytes == maskIpV6(c.addr, c.prefix)
       IN [addr   |-> MapThenSumSet(LAMBDA i : bytes[i] * 2^(ByteBits * (AddrBytes - 1 - i)), 0..(AddrBytes - 1)),
           prefix |-> c.prefix]

parsePortPredicate(p) == p.kind = "RANGE" => p.lo <= p.hi

\* The match part of a rule, as text: rules with one matchKey match the same.
matchKeyMk2(r) == <<r.family, r.eq, r.cidr, r.port>>

validateRuleDef(r) ==
  /\ \A s \in Sides : parsePortPredicate(r.port[s])
  /\ r.eq["ctState"] = "INVALID" => r.eq["ctDir"] = Open
  /\ r.enforce \/ (r.action = "BLOCK" /\ r.log)
  /\ r.eq["proto"] \in {"ICMP", "OTHER"} => \A s \in Sides : isAny(r.port[s])

-----------------------------------------------------------------------------
(* The compiled classifier of a rule map rs.                               *)

\* std::sort: the elements of S, each at the place given by the number of
\* elements before it in the order R, a set of pairs.
sort(S, R) ==
  [n \in 1..Cardinality(S) |-> CHOOSE x \in S : Cardinality({y \in S : <<y, x>> \in R}) = n - 1]

maskSigForRule(r) ==
  [eq     |-> [f \in EqSet |-> r.eq[f] # Open],
   prefix |-> [s \in Sides |-> IF r.cidr[s] = Open THEN AnyPrefix ELSE r.cidr[s].prefix],
   exact  |-> [s \in Sides |-> r.port[s].kind = "EXACT"]]

\* MaskSigLess: the fields in their order, FALSE before TRUE.
SigFields(sig) ==
  [i \in 1..6 |-> IF sig.eq[EqFields[i]] THEN 1 ELSE 0]
    \o << sig.prefix["src"], sig.prefix["dst"],
          IF sig.exact["src"] THEN 1 ELSE 0, IF sig.exact["dst"] THEN 1 ELSE 0 >>

MaskSigLess(a, b) ==
  LET x == SigFields(a)
      y == SigFields(b)
  IN \E i \in DOMAIN x : x[i] < y[i] /\ \A j \in 1..(i - 1) : x[j] = y[j]

\* A masked key keeps what the signature looks at.
maskedKeyV4(sig, eq, ip, port) ==
  [eq   |-> [f \in EqSet |-> IF sig.eq[f] THEN eq[f] ELSE 0],
   ip   |-> [s \in Sides |-> IF sig.prefix[s] = AnyPrefix THEN 0 ELSE maskV4(ip[s], sig.prefix[s])],
   port |-> [s \in Sides |-> IF sig.exact[s] THEN port[s] ELSE 0]]

maskedKeyV6(sig, eq, ip, port) ==
  [eq   |-> [f \in EqSet |-> IF sig.eq[f] THEN eq[f] ELSE 0],
   ip   |-> [s \in Sides |-> IF sig.prefix[s] = AnyPrefix THEN 0 ELSE maskIpV6(ip[s], sig.prefix[s])],
   port |-> [s \in Sides |-> IF sig.exact[s] THEN port[s] ELSE 0]]

maskedKey(family, sig, eq, ip, port) ==
  IF family = "ipv4" THEN maskedKeyV4(sig, eq, ip, port) ELSE maskedKeyV6(sig, eq, ip, port)

maskedKeyFromPacket(sig, k) == maskedKey(k.family, sig, k.eq, k.ip, k.port)

maskedKeyFromRule(sig, r) ==
  maskedKey(r.family, sig, r.eq,
            [s \in Sides |-> IF r.cidr[s] = Open THEN 0 ELSE r.cidr[s].addr],
            [s \in Sides |-> r.port[s].lo])

\* The enabled rules of one uid and family that one lookup considers: the
\* enforced ones, or the would-block ones.
viewRules(rs, uid, family, enforce) ==
  {i \in DOMAIN rs : LET r == rs[i].def
                     IN r.enabled /\ r.uid = uid /\ r.family = family /\ r.enforce = enforce}

\* The maps from uid to subtables, one for each family.
subtablesV4(rs, uid) ==
  {maskSigForRule(rs[i].def) : i \in {j \in DOMAIN rs : rs[j].def.enabled /\ rs[j].def.uid = uid
                                                         /\ rs[j].def.family = "ipv4"}}

subtablesV6(rs, uid) ==
  {maskSigForRule(rs[i].def) : i \in {j \in DOMAIN rs : rs[j].def.enabled /\ rs[j].def.uid = uid
                                                         /\ rs[j].def.family = "ipv6"}}

subtables(rs, uid, family) == IF family = "ipv4" THEN subtablesV4(rs, uid) ELSE subtablesV6(rs, uid)

\* maxEnforcePriority, maxWouldPriority of a subtable.
maxPriority(rs, view, sig) ==
  Max({MinPriority} \cup {rs[i].def.priority : i \in {j \in view : maskSigForRule(rs[j].def) = sig}})

\* enforceOrder, wouldOrder.
order(rs, uid, family, view) ==
  LET sigs == subtables(rs, uid, family)
      top(sig) == maxPriority(rs, view, sig)
  IN sort(sigs, {p \in sigs \X sigs : \/ top(p[1]) > top(p[2])
                                      \/ top(p[1]) = top(p[2]) /\ MaskSigLess(p[1], p[2])})

\* ruleLess, and a bucket's vector of exact or of range rules.
ruleLess(rs, S) ==
  {p \in S \X S : \/ rs[p[1]].def.priority > rs[p[2]].def.priority
                  \/ rs[p[1]].def.priority = rs[p[2]].def.priority /\ p[1] < p[2]}

bucket(rs, view, sig, mk, range) ==
  LET members == {i \in view : /\ maskSigForRule(rs[i].def) = sig
                               /\ maskedKeyFromRule(sig, rs[i].def) = mk
                               /\ hasRangePorts(rs[i].def) = range}
  IN sort(members, ruleLess(rs, members))

\* bestEnforce, bestWould: the first exact rule stands for all of them; a
\* range rule beats it with a strictly higher priority only.
best(rs, exacts, ranges, k) ==
  LET exact == IF exacts # << >> /\ matches(rs[exacts[1]].def, k) THEN exacts[1] ELSE None
      above(i) == exact = None \/ rs[ranges[i]].def.priority > rs[exact].def.priority
      wins == {i \in DOMAIN ranges : matches(rs[ranges[i]].def, k) /\ \A j \in 1..i : above(j)}
  IN IF wins # {} THEN ranges[Min(wins)] ELSE exact

\* Mutant of pruned: the first rule found ends the lookup.
prunedAtOnce(top, found) == TRUE

\* No rule of a subtable of priority at most top beats the one found.
pruned(top, found) == top < found

\* What the bucket of a packet holds for it in one subtable.
candidate(rs, view, sig, k) ==
  LET mk == maskedKeyFromPacket(sig, k)
  IN best(rs, bucket(rs, view, sig, mk, FALSE), bucket(rs, view, sig, mk, TRUE), k)

\* The loop over the subtables, given the maximum and the candidate of each: it
\* goes on until one holds no rule, or none that beats the best rule found; of
\* equals, the first found.
scan(rs, top, cand) ==
  LET priority(i) == rs[cand[i]].def.priority
      ends(i) == top[i] = MinPriority \/ \E j \in 1..(i - 1) : cand[j] # None /\ pruned(top[i], priority(j))
      seen == {i \in DOMAIN cand : cand[i] # None /\ \A j \in 1..i : ~ends(j)}
  IN IF seen = {} THEN None
     ELSE cand[CHOOSE i \in seen : \A j \in seen \ {i} : \/ priority(j) < priority(i)
                                                         \/ priority(j) = priority(i) /\ i < j]

\* lookupBestEnforce, lookupBestWould.
lookupBest(rs, k, enforce) ==
  LET view == viewRules(rs, k.uid, k.family, enforce)
      sigs == order(rs, k.uid, k.family, view)
  IN scan(rs, [i \in DOMAIN sigs |-> maxPriority(rs, view, sigs[i])],
              [i \in DOMAIN sigs |-> candidate(rs, view, sigs[i], k)])

lookupBestEnforce(rs, k) == lookupBest(rs, k, TRUE)
lookupBestWould(rs, k) == lookupBest(rs, k, FALSE)
lookupBestEnforceV6(rs, k) == lookupBest(rs, k, TRUE)
lookupBestWouldV6(rs, k) == lookupBest(rs, k, FALSE)

\* Snapshot::evaluate: an enforced rule decides before any would-block rule.
Decide(rs, enforced, would) ==
  IF enforced # None
  THEN [kind |-> rs[enforced].def.action, ruleId |-> enforced, stats |-> rs[enforced].stats]
  ELSE IF would # None
  THEN [kind |-> "WOULD_BLOCK", ruleId |-> would, stats |-> rs[would].stats]
  ELSE NoMatch

evaluateV4(rs, k) == Decide(rs, lookupBestEnforce(rs, k), lookupBestWould(rs, k))
evaluateV6(rs, k) == Decide(rs, lookupBestEnforceV6(rs, k), lookupBestWouldV6(rs, k))

evaluate(rs, k) == IF k.family = "ipv4" THEN evaluateV4(rs, k) ELSE evaluateV6(rs, k)

\* explainEnforce, explainWould: every matching rule of the buckets visited.
explain(rs, k, enforce) ==
  LET view == viewRules(rs, k.uid, k.family, enforce)
  IN UNION {LET mk == maskedKeyFromPacket(sig, k)
                members == Range(bucket(rs, view, sig, mk, FALSE)) \cup Range(bucket(rs, view, sig, mk, TRUE))
            IN {i \in members : matches(rs[i].def, k)}
            : sig \in {s \in subtables(rs, k.uid, k.family) : maxPriority(rs, view, s) # MinPriority}}

\* uidUsesCt of a snapshot.
uidUsesCt(rs, uid, family) ==
  \E i \in DOMAIN rs : LET r == rs[i].def
                       IN r.enabled /\ r.uid = uid /\ r.family = family /\ usesCt(r)

\* The preflight report of a compiled map has no violation.
preflightOk(rs) ==
  LET enabled == {i \in DOMAIN rs : rs[i].def.enabled}
      shares(i, j) == /\ rs[i].def.uid = rs[j].def.uid /\ rs[i].def.family = rs[j].def.family
                      /\ maskSigForRule(rs[i].def) = maskSigForRule(rs[j].def)
                      /\ maskedKeyFromRule(maskSigForRule(rs[i].def), rs[i].def)
                           = maskedKeyFromRule(maskSigForRule(rs[j].def), rs[j].def)
  IN /\ Cardinality(enabled) <= HardMaxRulesTotal
     /\ \A u \in Uids, fam \in {"ipv4", "ipv6"} :
          Cardinality(subtables(rs, u, fam)) <= HardMaxSubtablesPerUid
     /\ \A i \in enabled :
          Cardinality({j \in enabled : hasRangePorts(rs[j].def) /\ shares(i, j)})
            <= HardMaxRangeRulesPerBucket

-----------------------------------------------------------------------------
(* The operations, each one critical section of _mutex.                    *)

\* A stats object is named by the rule and the change that made it.
NewStats(i) == <<i, epoch + 1>>

RuleDef(uid, client, t) ==
  [uid |-> uid, client |-> client, family |-> t.family, action |-> t.action,
   priority |-> t.priority, enabled |-> t.enabled, enforce |-> t.enforce, log |-> t.log,
   eq |-> [f \in EqSet |-> parseField(f, t.eq[f])],
   cidr |-> [s \in Sides |-> IF t.family = "ipv4" THEN parseCidrV4(t.cidr[s]) ELSE parseCidrV6(t.cidr[s])],
   port |-> t.port]

legacyClientRuleId(uid, i) == <<"legacy", uid, i>>

\* Compile, and on success replace the map and publish the snapshot; a
\* preflight violation changes nothing.
applyNewRules(new, next) ==
  IF preflightOk(new)
  THEN /\ rules' = new
       /\ nextRuleId' = next
       /\ epoch' = epoch + 1
       /\ hot' = [epoch |-> epoch + 1, rules |-> new]
  ELSE UNCHANGED <<rules, nextRuleId, epoch, hot>>

\* IPRULES.ADD: an IPv4 rule under the next id, enabled unless it says not.
addFromKv(uid, t) ==
  LET def == RuleDef(uid, legacyClientRuleId(uid, nextRuleId), [t EXCEPT !.family = "ipv4"])
  IN /\ validateRuleDef(def)
     /\ applyNewRules([i \in DOMAIN rules \cup {nextRuleId} |->
                         IF i = nextRuleId THEN [def |-> def, stats |-> NewStats(i)] ELSE rules[i]],
                      nextRuleId + 1)
     /\ UNCHANGED saved

\* Mutant of updateFromKv: the rule keeps its stats object.
updateFromKvKeepStats(id, t) ==
  LET old == rules[id].def
      def == RuleDef(old.uid, old.client, [t EXCEPT !.family = old.family])
  IN /\ id \in DOMAIN rules
     /\ validateRuleDef(def)
     /\ old.family = "ipv6" => def.cidr = old.cidr
     /\ applyNewRules([rules EXCEPT ![id].def = def], nextRuleId)
     /\ UNCHANGED saved

\* IPRULES.UPDATE: the id, uid, client and family stay, the counters start
\* over.  Only IPv4 addresses can be given, and an IPv6 rule refuses them.
updateFromKv(id, t) ==
  LET old == rules[id].def
      def == RuleDef(old.uid, old.client, [t EXCEPT !.family = old.family])
  IN /\ id \in DOMAIN rules
     /\ validateRuleDef(def)
     /\ old.family = "ipv6" => def.cidr = old.cidr
     /\ applyNewRules([rules EXCEPT ![id] = [def |-> def, stats |-> NewStats(id)]], nextRuleId)
     /\ UNCHANGED saved

\* IPRULES.REMOVE.
removeRule(id) ==
  /\ id \in DOMAIN rules
  /\ applyNewRules(Restrict(rules, DOMAIN rules \ {id}), nextRuleId)
  /\ UNCHANGED saved

\* IPRULES.ENABLE: no new epoch without a change; 0 -> 1 starts the counters over.
enableRule(id, on) ==
  /\ id \in DOMAIN rules
  /\ rules[id].def.enabled # on
  /\ applyNewRules([rules EXCEPT ![id].def.enabled = on,
                                 ![id].stats = IF on THEN NewStats(id) ELSE @], nextRuleId)
  /\ UNCHANGED saved

\* IPRULES.APPLY, what the command accepts: client ids that differ, ...
DistinctClients(payload) == \A n, m \in DOMAIN payload : payload[n][1] = payload[m][1] => n = m

\* ... the fields outside the match, ...
ApplyHead(t) ==
  /\ t.action \in {"ALLOW", "BLOCK"} /\ t.priority \in Int /\ t.priority >= MinPriority
  /\ t.family \in {"ipv4", "ipv6"}
  /\ {t.enabled, t.enforce, t.log} \subseteq BOOLEAN

\* ... the words of each compared field (index 0 leaves the interface open), ...
EqWords ==
  [dir |-> {Open, "IN", "OUT"}, iface |-> {Open, "WIFI", "DATA", "VPN", "UNMANAGED"}, ifindex |-> Nat,
   proto |-> {Open, "TCP", "UDP", "ICMP", "OTHER"}]

CtWords == [ctState |-> {Open, "NEW", "ESTABLISHED", "INVALID"}, ctDir |-> {Open, "ORIG", "REPLY"}]

ApplyEq(t) == \A f \in DOMAIN EqWords : t.eq[f] \in EqWords[f]
ApplyCt(t) == \A f \in DOMAIN CtWords : t.eq[f] \in CtWords[f]

\* ... prefixes no longer than an address, and ports of a protocol that has them.
ApplyCidr(t) == \A s \in Sides : t.cidr[s] # Open => t.cidr[s].prefix \in 0..AddrBits

ApplyPorts(t) ==
  /\ \A s \in Sides : parsePortPredicate(t.port[s])
  /\ t.eq["proto"] \in {"ICMP", "OTHER"} => \A s \in Sides : isAny(t.port[s])

ApplyRule(client, t) ==
  [client |-> client, family |-> t.family, action |-> t.action, priority |-> t.priority,
   enabled |-> t.enabled, enforce |-> t.enforce, log |-> t.log,
   eq |-> [f \in EqSet |-> parseField(f, t.eq[f])],
   cidr |-> [s \in Sides |-> IF t.family = "ipv4" THEN parseCidrV4(t.cidr[s]) ELSE parseCidrV6(t.cidr[s])],
   port |-> t.port]

\* No two rules of a payload may match the same.
duplicatedMatchKeys(new) ==
  {matchKeyMk2(new[n]) : n \in {m \in DOMAIN new :
                                  \E k \in DOMAIN new \ {m} : matchKeyMk2(new[k]) = matchKeyMk2(new[m])}}

\* A client id the uid already has keeps its rule id, and its counters when the
\* rule is the same; the other clients get new ids in order.
prevByClientId(uid, c) == {i \in DOMAIN rules : rules[i].def.uid = uid /\ rules[i].def.client = c}

assignedRuleId(uid, new, n) ==
  LET c == new[n].client
  IN IF prevByClientId(uid, c) # {} THEN Min(prevByClientId(uid, c))
     ELSE nextRuleId + Cardinality({m \in 1..(n - 1) : prevByClientId(uid, new[m].client) = {}})

replaceRulesForUid(uid, new) ==
  LET others == {i \in DOMAIN rules : rules[i].def.uid # uid}
      id(n) == assignedRuleId(uid, new, n)
      def(n) == [f \in {"uid"} \cup DOMAIN new[n] |-> IF f = "uid" THEN uid ELSE new[n][f]]
      same(n) == id(n) \in DOMAIN rules /\ rules[id(n)].def = def(n)
      fresh == {n \in DOMAIN new : prevByClientId(uid, new[n].client) = {}}
  IN /\ \A n \in DOMAIN new : validateRuleDef(def(n))
     /\ \A n, m \in DOMAIN new : new[n].client = new[m].client => n = m
     /\ applyNewRules([i \in others \cup {id(n) : n \in DOMAIN new} |->
                         IF i \in others THEN rules[i]
                         ELSE LET n == CHOOSE m \in DOMAIN new : id(m) = i
                              IN [def |-> def(n), stats |-> IF same(n) THEN rules[i].stats ELSE NewStats(i)]],
                      nextRuleId + Cardinality(fresh))
     /\ UNCHANGED saved

IpRulesApply(uid, payload) ==
  LET new == [n \in DOMAIN payload |-> ApplyRule(payload[n][1], payload[n][2])]
  IN /\ DistinctClients(payload)
     /\ \A n \in DOMAIN payload :
          LET t == payload[n][2] IN ApplyHead(t) /\ ApplyEq(t) /\ ApplyCt(t) /\ ApplyCidr(t) /\ ApplyPorts(t)
     /\ duplicatedMatchKeys(new) = {}
     /\ replaceRulesForUid(uid, new)

\* RESETALL; the ids start over at 0.
resetAll ==
  /\ rules' = << >>
  /\ nextRuleId' = 0
  /\ epoch' = epoch + 1
  /\ hot' = [epoch |-> epoch + 1, rules |-> << >>]

\* A checkpoint takes the definitions, and restores them with new counters.
policySnapshot ==
  /\ saved' = [rules |-> [i \in DOMAIN rules |-> rules[i].def], next |-> nextRuleId]
  /\ UNCHANGED <<rules, nextRuleId, epoch, hot>>

restorePolicySnapshot ==
  /\ \A i \in DOMAIN saved.rules : validateRuleDef(saved.rules[i]) /\ i < saved.next
  /\ applyNewRules([i \in DOMAIN saved.rules |-> [def |-> saved.rules[i], stats |-> NewStats(i)]],
                   saved.next)
  /\ UNCHANGED saved

\* restore at start-up: a file that does not validate leaves the engine empty.
restore(file, next) ==
  LET ok == (\A i \in DOMAIN file : validateRuleDef(file[i]))
            /\ preflightOk([i \in DOMAIN file |-> [def |-> file[i], stats |-> <<i, 2>>]])
  IN /\ rules = IF ok THEN [i \in DOMAIN file |-> [def |-> file[i], stats |-> <<i, 2>>]] ELSE << >>
     /\ nextRuleId = IF ok THEN Max({next} \cup {i + 1 : i \in DOMAIN file}) ELSE 0
     /\ epoch = 2
     /\ hot = [epoch |-> epoch, rules |-> rules]

RulesInit(s) ==
  /\ restore([i \in 0..(Len(s) - 1) |->
                RuleDef(s[i + 1][1], legacyClientRuleId(s[i + 1][1], i), s[i + 1][2])], Len(s))
  /\ saved = [rules |-> << >>, next |-> 0]

-----------------------------------------------------------------------------
\* The rules of a map that apply to a key, by their definition alone.
Applicable(rs, k, enforce) ==
  {i \in viewRules(rs, k.uid, k.family, enforce) : matches(rs[i].def, k)}

\* What a lookup must answer: an applicable enforced rule that no other
\* exceeds; a would-block rule, or nothing, only without one; and explain lists
\* the applicable rules.  A rule of the lowest priority (INT32_MIN, which the
\* commands accept) may go unseen: kNoPriority says there is no rule.
Ranked(rs, S) == {i \in S : rs[i].def.priority > MinPriority}

Correct(rs, k) ==
  LET d == evaluate(rs, k)
      top(S) == d.ruleId \in S /\ \A i \in S : rs[i].def.priority <= rs[d.ruleId].def.priority
      E == Applicable(rs, k, TRUE)
      W == Applicable(rs, k, FALSE)
  IN /\ \/ top(E) /\ d.kind = rs[d.ruleId].def.action
        \/ Ranked(rs, E) = {} /\ top(W) /\ d.kind = "WOULD_BLOCK"
        \/ Ranked(rs, E \cup W) = {} /\ d = NoMatch
     /\ \A enforce \in BOOLEAN :
          LET A == Applicable(rs, k, enforce)
          IN Ranked(rs, A) \subseteq explain(rs, k, enforce) /\ explain(rs, k, enforce) \subseteq A

=============================================================================
