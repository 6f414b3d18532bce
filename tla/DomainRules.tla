----------------------------- MODULE DomainRules -----------------------------
(***************************************************************************)
(* The domain policy: the registry of domain rules (RulesManager), the     *)
(* custom rules and custom domains that every app and the device refer to  *)
(* (CustomRules, CustomList), the compiled snapshots DNS threads read, the *)
(* decision functions of App, and the commands that change all of it.      *)
(*                                                                         *)
(* A vNext mutation (DOMAINRULES.APPLY, DOMAINPOLICY.APPLY) runs alone     *)
(* among vNext mutations (mutexControlMutations) but is a series of calls, *)
(* each under the lock of the structure it changes; legacy commands hold   *)
(* mutexListeners shared only, so their calls fall between those steps.    *)
(* A step of this module is one such call.                                 *)
(*                                                                         *)
(* A rule OBJECT (Rule::Ptr) is distinct from its id: a scope that still   *)
(* holds the object of a removed rule keeps enforcing it.  A (type,        *)
(* pattern) pair is one model value; which names it matches is the         *)
(* constant Matches, and a pattern outside ValidPatterns does not compile. *)
(* Apps are the installed ones; masks, the settings and useCustomList are  *)
(* arguments of the decision functions, checked for all their values.      *)
(***************************************************************************)
EXTENDS Naturals, FiniteSets, Functions, FiniteSetsExt

CONSTANTS
  Apps,           \* App objects
  Device,         \* the device-wide scope (domManager)
  Domains,        \* domain names
  Patterns,       \* (type, pattern) pairs of rules
  ValidPatterns,  \* the ones std::regex compiles
  Matches,        \* pairs <<pattern, domain>> that match
  MaxRuleId,      \* bound: largest rule id commands name or reach
  RuleIdModulus,  \* 2^32 in the code
  MaxObjects,     \* bound: Rule objects alive at once
  RulesFiles,     \* what the file of saved rules may hold: id -> pattern
  MaxSaved,       \* bound: rule ids and domains saved in the scopes' files
  MaxVNext,       \* bound: vNext mutations started
  MaxLegacy,      \* bound: legacy commands started
  RulesPayloads,  \* DOMAINRULES.APPLY payloads [ids |-> id -> pattern, fresh |-> patterns]
  PolicyPayloads, \* DOMAINPOLICY.APPLY payloads <<allow, block domains, allow, block rule ids>>
  NoId            \* std::nullopt rule id

\* Rules by id, as a file or a payload lists them.
RuleMaps == UNION {[D -> Patterns] : D \in SUBSET (0..MaxRuleId)}

ASSUME DomainRulesAssumption ==
  /\ Device \notin Apps
  /\ MaxRuleId \in Nat /\ MaxVNext \in Nat /\ MaxLegacy \in Nat /\ MaxSaved \in Nat
  /\ MaxObjects \in Nat /\ MaxObjects > MaxRuleId
  /\ RuleIdModulus \in Nat \ {0}
  /\ NoId \notin Nat
  /\ ValidPatterns \subseteq Patterns
  /\ Matches \subseteq Patterns \X Domains
  /\ RulesFiles \subseteq RuleMaps
  /\ \A r \in RulesPayloads : r.ids \in RuleMaps /\ r.fresh \subseteq Patterns
  /\ \A w \in PolicyPayloads :
        w \in (SUBSET Domains) \X (SUBSET Domains) \X (SUBSET (0..MaxRuleId)) \X (SUBSET (0..MaxRuleId))

VARIABLES
  rules,    \* RulesManager::_rules: id -> object
  obj,      \* the live objects: [id, pattern]
  idCount,  \* RulesManager::_idCount
  customs,  \* RulesManager::_customs: object -> [color, BLACK, WHITE]
  held,     \* CustomRules::_rules of each scope and color
  snap,     \* CustomRules::_attribSnap, _regexSnap of each scope and color
  names,    \* CustomList of each scope and color
  vcmd,     \* the vNext mutation under way
  lcmd,     \* the legacy command between its two calls
  started   \* commands started, for the bounds

vars == <<rules, obj, idCount, customs, held, snap, names, vcmd, lcmd, started>>
policyVars == <<rules, obj, idCount, customs, held, snap, names>>

Colors == {"BLACK", "WHITE"}
Scopes == Apps \cup {Device}
Ids == 0..MaxRuleId
Objects == 1..MaxObjects
NoObject == 0             \* null Rule::Ptr
Other(c) == IF c = "BLACK" THEN "WHITE" ELSE "BLACK"
Idle == [op |-> "idle"]
NoCustom == [color |-> "ALLC", BLACK |-> {}, WHITE |-> {}]

Registered == {i \in Ids : rules[i] # NoObject}
\* Rule::Ptr keeps an object alive while the registry or a scope holds it.
LiveIn(rs, h) == {o \in Objects : \/ \E i \in Ids : rs[i] = o
                                  \/ \E s \in Scopes, c \in Colors : o \in h[s][c]}
Free == Objects \ LiveIn(rules, held)

\* rebuildRegexSnapshotLocked: a scope compiles every valid rule it holds.
rebuild(os, ob) == {ob[o] : o \in {x \in os : ob[x].pattern \in ValidPatterns}}

\* RulesManager::restore: the saved rules and the saved next id.
restoreRules(file, next) ==
  /\ rules = [i \in Ids |-> IF i \in DOMAIN file THEN i + 1 ELSE NoObject]
  /\ obj = [o \in {i + 1 : i \in DOMAIN file} |-> [id |-> o - 1, pattern |-> file[o - 1]]]
  /\ idCount = next

\* restoreCustomRules of every scope, BLACK then WHITE: an id the rules file
\* does not have is skipped (the files of a save are written one by one).
restoreCustomRules(ids) ==
  /\ held = [s \in Scopes |-> [c \in Colors |-> {rules[i] : i \in ids[s][c] \cap Registered}]]
  /\ snap = [s \in Scopes |-> [c \in Colors |-> rebuild(held[s][c], obj)]]
  /\ customs = [o \in Objects |->
       [color |-> IF o \in held[Device]["WHITE"] THEN "WHITE"
                  ELSE IF o \in held[Device]["BLACK"] THEN "BLACK" ELSE "ALLC",
        BLACK |-> {a \in Apps : o \in held[a]["BLACK"]},
        WHITE |-> {a \in Apps : o \in held[a]["WHITE"]}]]

\* The daemon starts from what an earlier one saved.
Init ==
  /\ \E file \in RulesFiles, next \in 0..(MaxRuleId + 1) :
       (\A i \in DOMAIN file : i < next) /\ restoreRules(file, next)
  /\ \E saved \in [Scopes -> [Colors -> SUBSET (Ids \cup Domains)]] :
       /\ MapThenSumSet(LAMBDA s : Cardinality(saved[s]["BLACK"]) + Cardinality(saved[s]["WHITE"]),
                        Scopes) <= MaxSaved
       /\ restoreCustomRules([s \in Scopes |-> [c \in Colors |-> saved[s][c] \cap Ids]])
       /\ names = [s \in Scopes |-> [c \in Colors |-> saved[s][c] \cap Domains]]
  /\ vcmd = Idle
  /\ lcmd = Idle
  /\ started = [vnext |-> 0, legacy |-> 0]

-----------------------------------------------------------------------------
(* CustomRules: what a rebuild compiles, and what its snapshots answer.    *)

hits(s, c, d) == {e \in snap[s][c] : <<e.pattern, d>> \in Matches}

match(s, c, d) == hits(s, c, d) # {}

\* Attribution is sorted by id: the smallest matching id, or nullopt.
matchFirstRuleId(s, c, d) ==
  IF match(s, c, d) THEN Min({e.id : e \in hits(s, c, d)}) ELSE NoId

\* matchingExplainSnapshots looks every matching id up in the registry again.
explainRules(s, c, d) == {e.id : e \in hits(s, c, d)} \cap Registered

snapshotRuleIds(s, c) == {obj[o].id : o \in held[s][c]}

-----------------------------------------------------------------------------
(* The calls of RulesManager, one critical section each.                   *)

\* Mutant of addRule: the id is not spent.
addRuleKeepId(p) ==
  /\ idCount \in Ids
  /\ IF rules[idCount] # NoObject
     THEN UNCHANGED <<rules, obj>>
     ELSE \E o \in Free :
            /\ o = Min(Free)
            /\ rules' = [rules EXCEPT ![idCount] = o]
            /\ obj' = [x \in DOMAIN obj \cup {o} |->
                         IF x = o THEN [id |-> idCount, pattern |-> p] ELSE obj[x]]
  /\ UNCHANGED <<idCount, customs, held, snap>>

\* addRule: try_emplace keeps an existing rule; the id is spent either way.
addRule(p) ==
  /\ idCount \in Ids
  /\ IF rules[idCount] # NoObject
     THEN UNCHANGED <<rules, obj>>
     ELSE \E o \in Free :
            /\ o = Min(Free)
            /\ rules' = [rules EXCEPT ![idCount] = o]
            /\ obj' = [x \in DOMAIN obj \cup {o} |->
                         IF x = o THEN [id |-> idCount, pattern |-> p] ELSE obj[x]]
  /\ idCount' = (idCount + 1) % RuleIdModulus
  /\ UNCHANGED <<customs, held, snap>>

\* Mutant of updateObject: only the device's snapshot is rebuilt.
updateObjectDevice(o, p) ==
  LET ob == [obj EXCEPT ![o].pattern = p]
  IN /\ obj' = ob
     /\ snap' = [s \in Scopes |-> [c \in Colors |->
                   IF s = Device /\ customs[o].color = c THEN rebuild(held[s][c], ob) ELSE snap[s][c]]]
     /\ UNCHANGED <<rules, idCount, customs, held>>

\* Rule::update, then buildCustomRules in the scopes _customs records.
updateObject(o, p) ==
  LET ob == [obj EXCEPT ![o].pattern = p]
      recorded(s, c) == IF s = Device THEN customs[o].color = c ELSE s \in customs[o][c]
  IN /\ obj' = ob
     /\ snap' = [s \in Scopes |-> [c \in Colors |->
                   IF recorded(s, c) THEN rebuild(held[s][c], ob) ELSE snap[s][c]]]
     /\ UNCHANGED <<rules, idCount, customs, held>>

updateRule(i, p) ==
  IF i \in Registered THEN updateObject(rules[i], p)
                      ELSE UNCHANGED <<rules, obj, idCount, customs, held, snap>>

upsertRuleWithId(i, p) ==
  IF i \in Registered
  THEN updateObject(rules[i], p)
  ELSE \E o \in Free :
         /\ o = Min(Free)
         /\ rules' = [rules EXCEPT ![i] = o]
         /\ obj' = [x \in DOMAIN obj \cup {o} |->
                      IF x = o THEN [id |-> i, pattern |-> p] ELSE obj[x]]
         /\ idCount' = IF idCount <= i THEN (i + 1) % RuleIdModulus ELSE idCount
         /\ UNCHANGED <<customs, held, snap>>

ensureNextRuleIdAtLeast(n) ==
  /\ idCount' = IF idCount < n THEN n ELSE idCount
  /\ UNCHANGED <<rules, obj, customs, held, snap>>

\* The ids whose removal _customs says would break a reference.
conflictsForRemoval(ids) ==
  {i \in ids \cap Registered : customs[rules[i]] # NoCustom}

\* Mutant of removeRule: apps that allow the rule are forgotten.
removeRuleBlackOnly(i) ==
  IF i \notin Registered THEN UNCHANGED <<rules, obj, idCount, customs, held, snap>>
  ELSE LET o == rules[i]
           recorded(s, c) == IF s = Device THEN customs[o].color = c
                                           ELSE c = "BLACK" /\ s \in customs[o][c]
           rs == [rules EXCEPT ![i] = NoObject]
           h == [s \in Scopes |-> [c \in Colors |->
                   IF recorded(s, c) THEN held[s][c] \ {o} ELSE held[s][c]]]
       IN /\ rules' = rs
          /\ held' = h
          /\ snap' = [s \in Scopes |-> [c \in Colors |->
                        IF recorded(s, c) THEN rebuild(h[s][c], obj) ELSE snap[s][c]]]
          /\ customs' = [customs EXCEPT ![o] = NoCustom]
          /\ obj' = Restrict(obj, LiveIn(rs, h))
          /\ UNCHANGED idCount

\* removeRule takes the object out of the scopes _customs records, then out
\* of the registry.
removeRule(i) ==
  IF i \notin Registered THEN UNCHANGED <<rules, obj, idCount, customs, held, snap>>
  ELSE LET o == rules[i]
           recorded(s, c) == IF s = Device THEN customs[o].color = c ELSE s \in customs[o][c]
           rs == [rules EXCEPT ![i] = NoObject]
           h == [s \in Scopes |-> [c \in Colors |->
                   IF recorded(s, c) THEN held[s][c] \ {o} ELSE held[s][c]]]
       IN /\ rules' = rs
          /\ held' = h
          /\ snap' = [s \in Scopes |-> [c \in Colors |->
                        IF recorded(s, c) THEN rebuild(h[s][c], obj) ELSE snap[s][c]]]
          /\ customs' = [customs EXCEPT ![o] = NoCustom]
          /\ obj' = Restrict(obj, LiveIn(rs, h))
          /\ UNCHANGED idCount

\* addCustom: the device has ONE recorded color per rule, an app two sets.
addCustom(s, i, c) ==
  IF i \notin Registered THEN UNCHANGED <<rules, obj, idCount, customs, held, snap>>
  ELSE LET o == rules[i]
           h == [held EXCEPT ![s][c] = @ \cup {o}]
       IN /\ customs' = IF s = Device THEN [customs EXCEPT ![o].color = c]
                                      ELSE [customs EXCEPT ![o][c] = @ \cup {s}]
          /\ held' = h
          /\ snap' = [snap EXCEPT ![s][c] = rebuild(h[s][c], obj)]
          /\ UNCHANGED <<rules, obj, idCount>>

\* removeCustom clears the device's recorded color whatever color it removes.
removeCustom(s, i, c) ==
  IF i \notin Registered THEN UNCHANGED <<rules, obj, idCount, customs, held, snap>>
  ELSE LET o == rules[i]
           h == [held EXCEPT ![s][c] = @ \ {o}]
       IN /\ customs' = IF s = Device THEN [customs EXCEPT ![o].color = "ALLC"]
                                      ELSE [customs EXCEPT ![o][c] = @ \ {s}]
          /\ held' = h
          /\ snap' = [snap EXCEPT ![s][c] = rebuild(h[s][c], obj)]
          /\ UNCHANGED <<rules, obj, idCount>>

(* CustomList: one critical section per name.                              *)
addCustomDomain(s, d, c) == names' = [names EXCEPT ![s][c] = @ \cup {d}]

removeCustomDomain(s, d, c) == names' = [names EXCEPT ![s][c] = @ \ {d}]

-----------------------------------------------------------------------------
(* The decision functions of App.  use = useCustomList, on = blockEnabled, *)
(* mask = (_blockMask & domain->blockMask()) # 0.                          *)

authorized(d) == d \in names[Device]["WHITE"] \/ match(Device, "WHITE", d)

blockedByDevice(d) ==
  \/ d \in names[Device]["BLACK"]
  \/ match(Device, "BLACK", d) /\ ~match(Device, "WHITE", d)

\* The first source that decides, in the order of the code, of a sequence of
\* candidates <<it matches, its answer>>.
First(cands) == cands[Min({k \in DOMAIN cands : cands[k][1]})][2]

\* Mutant of blocked: the app's block list is asked before its allow list.
blockedBlackFirst(a, d, use, on, mask) ==
  First(<< <<~on, FALSE>>,
           <<use /\ d \in names[a]["BLACK"], TRUE>>, <<use /\ d \in names[a]["WHITE"], FALSE>>,
           <<use /\ match(a, "WHITE", d), FALSE>>, <<use /\ match(a, "BLACK", d), TRUE>>,
           <<use /\ authorized(d), FALSE>>, <<use /\ blockedByDevice(d), TRUE>>,
           <<TRUE, mask>> >>)

\* App::blocked, the packet path.
blocked(a, d, use, on, mask) ==
  First(<< <<~on, FALSE>>,
           <<use /\ d \in names[a]["WHITE"], FALSE>>, <<use /\ d \in names[a]["BLACK"], TRUE>>,
           <<use /\ match(a, "WHITE", d), FALSE>>, <<use /\ match(a, "BLACK", d), TRUE>>,
           <<use /\ authorized(d), FALSE>>, <<use /\ blockedByDevice(d), TRUE>>,
           <<TRUE, mask>> >>)

authorizedRuleId(d) ==
  IF d \in names[Device]["WHITE"] THEN NoId ELSE matchFirstRuleId(Device, "WHITE", d)

blockedRuleId(d) ==
  IF d \in names[Device]["BLACK"] \/ ~match(Device, "BLACK", d) \/ match(Device, "WHITE", d)
  THEN NoId ELSE matchFirstRuleId(Device, "BLACK", d)

Answer(b, source, id) == [blocked |-> b, source |-> source, ruleId |-> id]

\* App::blockedWithSourceAndRuleId, the DNS path.
blockedWithSourceAndRuleId(a, d, use, on, mask) ==
  First(<< <<~on, Answer(FALSE, "MASK_FALLBACK", NoId)>>,
     <<use /\ d \in names[a]["WHITE"], Answer(FALSE, "CUSTOM_WHITELIST", NoId)>>,
     <<use /\ d \in names[a]["BLACK"], Answer(TRUE, "CUSTOM_BLACKLIST", NoId)>>,
     <<use /\ match(a, "WHITE", d),
       Answer(FALSE, "CUSTOM_RULE_WHITE", matchFirstRuleId(a, "WHITE", d))>>,
     <<use /\ match(a, "BLACK", d),
       Answer(TRUE, "CUSTOM_RULE_BLACK", matchFirstRuleId(a, "BLACK", d))>>,
     <<use /\ authorized(d), Answer(FALSE, "DEVICE_AUTHORIZED", authorizedRuleId(d))>>,
     <<use /\ blockedByDevice(d), Answer(TRUE, "DEVICE_BLOCKED", blockedRuleId(d))>>,
     <<TRUE, Answer(mask, "MASK_FALLBACK", NoId)>> >>)

\* App::blockedWithSource: the same stages without the attribution.
blockedWithSource(a, d, use, on, mask) ==
  LET ans(b, source) == [blocked |-> b, source |-> source]
  IN First(<< <<~on, ans(FALSE, "MASK_FALLBACK")>>,
       <<use /\ d \in names[a]["WHITE"], ans(FALSE, "CUSTOM_WHITELIST")>>,
       <<use /\ d \in names[a]["BLACK"], ans(TRUE, "CUSTOM_BLACKLIST")>>,
       <<use /\ match(a, "WHITE", d), ans(FALSE, "CUSTOM_RULE_WHITE")>>,
       <<use /\ match(a, "BLACK", d), ans(TRUE, "CUSTOM_RULE_BLACK")>>,
       <<use /\ authorized(d), ans(FALSE, "DEVICE_AUTHORIZED")>>,
       <<use /\ blockedByDevice(d), ans(TRUE, "DEVICE_BLOCKED")>>,
       <<TRUE, ans(mask, "MASK_FALLBACK")>> >>)

\* App::evaluateDomainPolicyDebug: a rule stage wins only with rules that are
\* still registered; device block does not look at device allow rules again.
firstRuleId(ids) == IF ids = {} THEN NoId ELSE Min(ids)

evaluateDomainPolicyDebug(a, d, use, on, mask) ==
  First(<< <<~on, Answer(FALSE, "MASK_FALLBACK", NoId)>>,
     <<use /\ d \in names[a]["WHITE"], Answer(FALSE, "CUSTOM_WHITELIST", NoId)>>,
     <<use /\ d \in names[a]["BLACK"], Answer(TRUE, "CUSTOM_BLACKLIST", NoId)>>,
     <<use /\ explainRules(a, "WHITE", d) # {},
       Answer(FALSE, "CUSTOM_RULE_WHITE", firstRuleId(explainRules(a, "WHITE", d)))>>,
     <<use /\ explainRules(a, "BLACK", d) # {},
       Answer(TRUE, "CUSTOM_RULE_BLACK", firstRuleId(explainRules(a, "BLACK", d)))>>,
     <<use /\ (d \in names[Device]["WHITE"] \/ explainRules(Device, "WHITE", d) # {}),
       Answer(FALSE, "DEVICE_AUTHORIZED",
              IF d \in names[Device]["WHITE"] THEN NoId
              ELSE firstRuleId(explainRules(Device, "WHITE", d)))>>,
     <<use /\ (d \in names[Device]["BLACK"] \/ explainRules(Device, "BLACK", d) # {}),
       Answer(TRUE, "DEVICE_BLOCKED",
              IF d \in names[Device]["BLACK"] THEN NoId
              ELSE firstRuleId(explainRules(Device, "BLACK", d)))>>,
     <<TRUE, Answer(mask, "MASK_FALLBACK", NoId)>> >>)

-----------------------------------------------------------------------------
\* A vNext mutation starts alone (mutexControlMutations).
StartVNext ==
  /\ vcmd = Idle
  /\ started.vnext < MaxVNext
  /\ started' = [started EXCEPT !.vnext = @ + 1]

(* DOMAINRULES.APPLY: ids is the payload's rules with a ruleId, fresh its  *)
(* patterns without one.  A payload that fails validation answers an error *)
(* and changes nothing.                                                    *)

\* Every rule of a payload: distinct ids, distinct valid patterns, and no
\* pattern of the baseline without its id.
ValidRulesPayload(ids, fresh) ==
  /\ Cardinality(Range(ids) \cup fresh) = Cardinality(DOMAIN ids) + Cardinality(fresh)
  /\ Range(ids) \cup fresh \subseteq ValidPatterns
  /\ \A i \in Registered : obj[rules[i]].pattern \notin fresh

RulesApply(ids, fresh) ==
  /\ StartVNext
  /\ ValidRulesPayload(ids, fresh)
  /\ vcmd' = [op |-> "conflicts", ids |-> ids, fresh |-> fresh,
              removed |-> Registered \ DOMAIN ids, clean |-> TRUE]
  /\ UNCHANGED <<policyVars, lcmd>>

RulesConflicts ==
  /\ vcmd.op = "conflicts"
  /\ vcmd' = IF conflictsForRemoval(vcmd.removed) # {} THEN Idle
             ELSE [op |-> "upsert", ids |-> vcmd.ids, fresh |-> vcmd.fresh,
                   all |-> [ids |-> vcmd.ids, fresh |-> vcmd.fresh],
                   removed |-> vcmd.removed, clean |-> vcmd.clean]
  /\ IF vcmd'.op = "upsert" /\ DOMAIN vcmd.ids # {}
     THEN ensureNextRuleIdAtLeast(Max(DOMAIN vcmd.ids) + 1)
     ELSE UNCHANGED <<rules, obj, idCount, customs, held, snap>>
  /\ UNCHANGED <<names, lcmd, started>>

RulesUpsert ==
  /\ vcmd.op = "upsert"
  /\ \/ \E i \in DOMAIN vcmd.ids :
          /\ upsertRuleWithId(i, vcmd.ids[i])
          /\ vcmd' = [vcmd EXCEPT !.ids = Restrict(@, DOMAIN @ \ {i})]
     \/ \E p \in vcmd.fresh :
          /\ addRule(p)
          /\ vcmd' = [vcmd EXCEPT !.fresh = @ \ {p}]
  /\ UNCHANGED <<names, lcmd, started>>

\* The removals come after every upsert.
RulesRemove ==
  /\ vcmd.op = "upsert" /\ DOMAIN vcmd.ids = {} /\ vcmd.fresh = {}
  /\ \E i \in vcmd.removed :
       /\ removeRule(i)
       /\ vcmd' = [vcmd EXCEPT !.removed = @ \ {i}]
  /\ UNCHANGED <<names, lcmd, started>>

RulesDone == vcmd.op = "upsert" /\ DOMAIN vcmd.ids = {} /\ vcmd.fresh = {} /\ vcmd.removed = {}

RulesAnswer == RulesDone /\ vcmd' = Idle /\ UNCHANGED <<policyVars, lcmd, started>>

-----------------------------------------------------------------------------
(* DOMAINPOLICY.APPLY: four passes over one scope, domains then rules, the *)
(* WHITE side of each before the BLACK one.                                *)

Passes == << <<"domain", "WHITE">>, <<"domain", "BLACK">>,
             <<"rule", "WHITE">>, <<"rule", "BLACK">> >>

Current(s, pass) == IF pass[1] = "domain" THEN names[s][pass[2]] ELSE snapshotRuleIds(s, pass[2])

\* parseSide refuses an unknown ruleId.  want[k] is the wanted set of pass k.
PolicyApply(s, want) ==
  /\ StartVNext
  /\ want[3] \cup want[4] \subseteq Registered
  /\ vcmd' = [op |-> "snapshot", scope |-> s, want |-> want, pass |-> 1, clean |-> TRUE]
  /\ UNCHANGED <<policyVars, lcmd>>

\* Mutant of PolicySnapshot: what the payload drops stays.
PolicySnapshotKeep ==
  /\ vcmd.op = "snapshot" /\ vcmd.pass \in 1..4
  /\ LET cur == Current(vcmd.scope, Passes[vcmd.pass])
     IN vcmd' = [op |-> "pass", scope |-> vcmd.scope, want |-> vcmd.want, pass |-> vcmd.pass,
                 rem |-> {}, add |-> vcmd.want[vcmd.pass] \ cur, clean |-> vcmd.clean]
  /\ UNCHANGED <<policyVars, lcmd, started>>

\* applyDomains, applyRules: the pass reads the current set first ...
PolicySnapshot ==
  /\ vcmd.op = "snapshot" /\ vcmd.pass \in 1..4
  /\ LET cur == Current(vcmd.scope, Passes[vcmd.pass])
     IN vcmd' = [op |-> "pass", scope |-> vcmd.scope, want |-> vcmd.want, pass |-> vcmd.pass,
                 rem |-> cur \ vcmd.want[vcmd.pass], add |-> vcmd.want[vcmd.pass] \ cur,
                 clean |-> vcmd.clean]
  /\ UNCHANGED <<policyVars, lcmd, started>>

\* ... then removes what is not wanted and adds what is missing, call by call.
PolicyStep ==
  /\ vcmd.op = "pass"
  /\ LET kind == Passes[vcmd.pass][1]
         c == Passes[vcmd.pass][2]
     IN \/ \E x \in vcmd.rem :
             /\ IF kind = "domain"
                THEN removeCustomDomain(vcmd.scope, x, c) /\ UNCHANGED <<rules, obj, idCount, customs, held, snap>>
                ELSE removeCustom(vcmd.scope, x, c) /\ UNCHANGED names
             /\ vcmd' = [vcmd EXCEPT !.rem = @ \ {x}]
        \/ \E x \in vcmd.add :
             /\ vcmd.rem = {}
             /\ IF kind = "domain"
                THEN addCustomDomain(vcmd.scope, x, c) /\ UNCHANGED <<rules, obj, idCount, customs, held, snap>>
                ELSE addCustom(vcmd.scope, x, c) /\ UNCHANGED names
             /\ vcmd' = [vcmd EXCEPT !.add = @ \ {x}]
        \/ /\ vcmd.rem = {} /\ vcmd.add = {}
           /\ vcmd' = [op |-> "snapshot", scope |-> vcmd.scope, want |-> vcmd.want,
                       pass |-> vcmd.pass + 1, clean |-> vcmd.clean]
           /\ UNCHANGED policyVars
  /\ UNCHANGED <<lcmd, started>>

PolicyDone == vcmd.op = "snapshot" /\ vcmd.pass = 5

PolicyAnswer == PolicyDone /\ vcmd' = Idle /\ UNCHANGED <<policyVars, lcmd, started>>

-----------------------------------------------------------------------------
(* Legacy commands.  clean records that none ran during the vNext command. *)

StartLegacy ==
  /\ lcmd = Idle
  /\ started.legacy < MaxLegacy
  /\ started' = [started EXCEPT !.legacy = @ + 1]

Touched == vcmd' = IF vcmd = Idle THEN Idle ELSE [vcmd EXCEPT !.clean = FALSE]

\* RULES.ADD accepts any pattern, valid or not.
cmdAddRule(p) == StartLegacy /\ addRule(p) /\ Touched /\ UNCHANGED <<names, lcmd>>

cmdRemoveRule(i) == StartLegacy /\ removeRule(i) /\ Touched /\ UNCHANGED <<names, lcmd>>

cmdUpdateRule(i, p) == StartLegacy /\ updateRule(i, p) /\ Touched /\ UNCHANGED <<names, lcmd>>

\* BLACKRULES.ADD, WHITERULES.ADD: out of the other color, then into this one.
cmdAddCustomRule(s, i, c) ==
  /\ StartLegacy
  /\ removeCustom(s, i, Other(c))
  /\ lcmd' = [op |-> "addRule", scope |-> s, x |-> i, color |-> c]
  /\ Touched /\ UNCHANGED names

cmdRemoveCustomRule(s, i, c) ==
  StartLegacy /\ removeCustom(s, i, c) /\ Touched /\ UNCHANGED <<names, lcmd>>

cmdAddCustomDomain(s, d, c) ==
  /\ StartLegacy
  /\ removeCustomDomain(s, d, Other(c))
  /\ lcmd' = [op |-> "addDomain", scope |-> s, x |-> d, color |-> c]
  /\ Touched /\ UNCHANGED <<rules, obj, idCount, customs, held, snap>>

cmdRemoveCustomDomain(s, d, c) ==
  /\ StartLegacy
  /\ removeCustomDomain(s, d, c)
  /\ Touched /\ UNCHANGED <<rules, obj, idCount, customs, held, snap, lcmd>>

\* The second call of the two ADD commands.
LegacySecondCall ==
  /\ \/ /\ lcmd.op = "addRule" /\ addCustom(lcmd.scope, lcmd.x, lcmd.color)
        /\ UNCHANGED names
     \/ /\ lcmd.op = "addDomain" /\ addCustomDomain(lcmd.scope, lcmd.x, lcmd.color)
        /\ UNCHANGED <<rules, obj, idCount, customs, held, snap>>
  /\ lcmd' = Idle
  /\ Touched /\ UNCHANGED started

-----------------------------------------------------------------------------
VNextStep ==
  \/ \E r \in RulesPayloads : RulesApply(r.ids, r.fresh)
  \/ RulesConflicts \/ RulesUpsert \/ RulesRemove \/ RulesAnswer
  \/ \E s \in Scopes, want \in PolicyPayloads : PolicyApply(s, want)
  \/ PolicySnapshot \/ PolicyStep \/ PolicyAnswer

LegacyStep ==
  \/ \E p \in Patterns : cmdAddRule(p)
  \/ \E i \in Ids : cmdRemoveRule(i) \/ \E p \in Patterns : cmdUpdateRule(i, p)
  \/ \E s \in Scopes, c \in Colors :
       \/ \E i \in Ids : cmdAddCustomRule(s, i, c) \/ cmdRemoveCustomRule(s, i, c)
       \/ \E d \in Domains : cmdAddCustomDomain(s, d, c) \/ cmdRemoveCustomDomain(s, d, c)
  \/ LegacySecondCall

Next == VNextStep \/ LegacyStep

Spec == Init /\ [][Next]_vars

-----------------------------------------------------------------------------
Policies(X) == [Scopes -> [Colors -> SUBSET X]]
RuleRecords == [id : Ids, pattern : Patterns]
Customs == [color : Colors \cup {"ALLC"}, BLACK : SUBSET Apps, WHITE : SUBSET Apps]
Wants == (SUBSET Domains) \X (SUBSET Domains) \X (SUBSET Ids) \X (SUBSET Ids)

\* The vNext mutations, by how far they are.
ConflictsCmds == [op : {"conflicts"}, ids : RuleMaps, fresh : SUBSET Patterns,
                  removed : SUBSET Ids, clean : BOOLEAN]
UpsertCmds == [op : {"upsert"}, ids : RuleMaps, fresh : SUBSET Patterns,
               all : [ids : RuleMaps, fresh : SUBSET Patterns],
               removed : SUBSET Ids, clean : BOOLEAN]
SnapshotCmds == [op : {"snapshot"}, scope : Scopes, want : Wants, pass : 1..5, clean : BOOLEAN]
PassCmds == [op : {"pass"}, scope : Scopes, want : Wants, pass : 1..4,
             rem : SUBSET (Ids \cup Domains), add : SUBSET (Ids \cup Domains), clean : BOOLEAN]
LegacyCmds == [op : {"addRule"}, scope : Scopes, x : Ids, color : Colors]
                \cup [op : {"addDomain"}, scope : Scopes, x : Domains, color : Colors]

\* The registry and the scopes; an object exists exactly while it is referred to.
PolicyTypes ==
  /\ rules \in [Ids -> Objects \cup {NoObject}]
  /\ DOMAIN obj = LiveIn(rules, held) /\ \A o \in DOMAIN obj : obj[o] \in RuleRecords
  /\ idCount \in 0..(MaxRuleId + 1)
  /\ customs \in [Objects -> Customs]
  /\ held \in Policies(Objects) /\ snap \in Policies(RuleRecords)

\* The commands under way; a pass works on domains or on rule ids.
CommandTypes ==
  /\ vcmd \in {Idle} \cup ConflictsCmds \cup UpsertCmds \cup SnapshotCmds \cup PassCmds
  /\ vcmd \in PassCmds =>
       vcmd.rem \cup vcmd.add \subseteq (IF Passes[vcmd.pass][1] = "domain" THEN Domains ELSE Ids)
  /\ lcmd \in {Idle} \cup LegacyCmds
  /\ started \in [vnext : 0..MaxVNext, legacy : 0..MaxLegacy]

\* Every variable keeps its type.
TypeOK == PolicyTypes /\ CommandTypes /\ names \in Policies(Domains)

\* Referential integrity of app scopes: the rules an app holds are exactly the
\* registered ones whose _customs entry lists the app under that color, so
\* removing a rule reaches every app that refers to it.
AppReferencesRegistered ==
  \A a \in Apps, c \in Colors :
    held[a][c] = {rules[i] : i \in {j \in Registered : a \in customs[rules[j]][c]}}

\* The snapshot DNS threads read for an app is what its rules compile to,
\* after every add, update and removal of a rule.
AppSnapshotsFresh ==
  \A a \in Apps, c \in Colors : snap[a][c] = rebuild(held[a][c], obj)

\* The next id is above every registered one: addRule never returns the id
\* of another rule without adding its pattern.
NextIdUnused == \A i \in Registered : i < idCount

\* While no scope enforces a removed rule, the four decision functions, written
\* out separately, give one answer, and a rule they name is a registered one
\* that matches the domain.
Orphans == {o \in LiveIn(rules, held) : \A i \in Ids : rules[i] # o}

DecisionsAgree ==
  Orphans = {} =>
    \A a \in Apps, d \in Domains, use, on, mask \in BOOLEAN :
      LET dns == blockedWithSourceAndRuleId(a, d, use, on, mask)
          dbg == evaluateDomainPolicyDebug(a, d, use, on, mask)
      IN /\ blocked(a, d, use, on, mask) = dns.blocked
         /\ blockedWithSource(a, d, use, on, mask) = [blocked |-> dbg.blocked, source |-> dbg.source]
         /\ dns = dbg
         /\ dns.source \in {"CUSTOM_RULE_WHITE", "CUSTOM_RULE_BLACK"} => dns.ruleId \in Registered

\* The app's scope is the payload of its DOMAINPOLICY.APPLY.
AppPolicyInstalled ==
  PolicyDone /\ vcmd.clean /\ vcmd.scope \in Apps =>
    \A k \in 1..4 : Current(vcmd.scope, Passes[k]) = vcmd.want[k]

\* The registry holds the rules of the DOMAINRULES.APPLY payload and no other.
RulesInstalled ==
  RulesDone /\ vcmd.clean =>
    /\ \A i \in DOMAIN vcmd.all.ids :
         i \in Registered /\ obj[rules[i]].pattern = vcmd.all.ids[i]
    /\ {obj[rules[i]].pattern : i \in Registered \ DOMAIN vcmd.all.ids} = vcmd.all.fresh
    /\ Cardinality(Registered) = Cardinality(DOMAIN vcmd.all.ids) + Cardinality(vcmd.all.fresh)

\* When DOMAINPOLICY.APPLY or DOMAINRULES.APPLY answers, and no legacy command
\* ran meanwhile, its many separate registry and scope steps add up to the payload.
ApplyInstalls == AppPolicyInstalled /\ RulesInstalled
=============================================================================
