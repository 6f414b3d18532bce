--------------------------- MODULE DomainRulesProofs ---------------------------
(***************************************************************************)
(* The domain rule registry and the scopes that refer to it, for any       *)
(* number of apps, rules and domains: referential integrity, fresh         *)
(* snapshots, unused next id, and one answer of the decision functions.    *)
(* PolicyInv is kept by every call of RulesManager; the commands of the    *)
(* two protocols are interleavings of such calls.                          *)
(***************************************************************************)
EXTENDS DomainRules, TLAPS, FiniteSetTheorems, WellFoundedInduction

\* A rule object has one id, the one it is registered under.
RegistryInv ==
  /\ \A i, j \in Registered : rules[i] = rules[j] => i = j
  /\ \A i \in Registered : obj[rules[i]].id = i

\* _customs is the inverse of what the apps hold, and knows only registered rules.
CustomsInv ==
  /\ \A o \in Objects : (\A i \in Ids : rules[i] # o) => customs[o] = NoCustom
  /\ \A a \in Apps, c \in Colors, o \in Objects : o \in held[a][c] <=> a \in customs[o][c]

\* What a snapshot names, the scope still holds (the device's may be out of date).
SnapshotInv ==
  \A s \in Scopes, c \in Colors : \A e \in snap[s][c] : \E o \in held[s][c] : obj[o].id = e.id

\* What every call of RulesManager keeps.
PolicyInv == PolicyTypes /\ RegistryInv /\ CustomsInv /\ SnapshotInv /\ AppSnapshotsFresh

\* The inductive invariant of the domain policy.
RulesInv == TypeOK /\ PolicyInv

-----------------------------------------------------------------------------
(* The operators. *)

\* The least number principle, from the well-foundedness of strict inclusion on finite sets.
LEMMA LeastNatural ==
    ASSUME NEW S \in SUBSET Nat, S # {}
    PROVE  Min(S) \in S /\ \A k \in S : Min(S) <= k
<1> DEFINE Below(m) == {k \in S : k < m}
           T == {Below(m) : m \in S}
<1>0. \A k \in S : k \in Nat
  OBVIOUS
<1>1. \A m \in S : Below(m) \in FiniteSubsetsOf(Nat)
  <2> TAKE m \in S
  <2> HIDE DEF T
  <2>1. Below(m) \in SUBSET Nat
    BY <1>0
  <2>3. \A s \in Below(m) : s <= m
    BY <1>0
  <2>2. IsFiniteSet(Below(m))
    BY <1>0, <2>1, <2>3, FS_BoundedSetOfNaturals
  <2> QED BY <2>1, <2>2 DEF FiniteSubsetsOf
<1>2. T \subseteq FiniteSubsetsOf(Nat) /\ T # {}
  BY <1>1
<1>3. IsWellFoundedOn(StrictSubsetOrdering(Nat), FiniteSubsetsOf(Nat))
  BY FS_StrictSubsetOrderingWellFounded
<1>4. PICK B \in T : \A C \in T : ~(<<C, B>> \in StrictSubsetOrdering(Nat))
  <2> HIDE DEF T
  <2> QED BY <1>2, <1>3, WFMin
<1>5. PICK m \in S : B = Below(m)
  BY <1>4
<1>6. ASSUME NEW k \in S, k < m PROVE FALSE
  <2>0. k \in Nat /\ m \in Nat
    BY <1>0
  <2>1. k \in Below(m) /\ k \notin Below(k)
    BY <1>6, <2>0
  <2>4. ASSUME NEW j \in Below(k) PROVE j \in Below(m)
    BY <1>0, <1>6, <2>0
  <2>2. Below(k) \in SUBSET Nat /\ Below(m) \in SUBSET Nat
    OBVIOUS
  <2>3. <<Below(k), Below(m)>> \in StrictSubsetOrdering(Nat)
    BY <2>1, <2>4, <2>2 DEF StrictSubsetOrdering
  <2> QED BY <1>4, <1>5, <2>3
<1>7. \A k \in S : m <= k
  BY <1>0, <1>6
<1> QED BY <1>7 DEF Min

\* A bounded set of numbers has a largest one.
LEMMA GreatestBelow ==
    ASSUME NEW n \in Nat, NEW S \in SUBSET (0..n), S # {}
    PROVE  Max(S) \in S /\ \A k \in S : k <= Max(S)
<1> DEFINE T == {n - k : k \in S}
<1>1. T \in SUBSET Nat /\ T # {} /\ \A k \in S : k \in 0..n
  OBVIOUS
<1>2. Min(T) \in T /\ \A j \in T : Min(T) <= j
  BY <1>1, LeastNatural
<1>3. PICK m \in S : Min(T) = n - m
  BY <1>2
<1>4. \A k \in S : m >= k
  <2> TAKE k \in S
  <2>1. n - k \in T
    OBVIOUS
  <2>2. n - m <= n - k
    BY <1>2, <1>3, <2>1
  <2> QED BY <1>1, <2>2
<1>5. Max(S) \in S /\ \A k \in S : Max(S) >= k
  BY <1>4 DEF Max
<1> QED BY <1>1, <1>5

\* A snapshot depends on the objects of its own scope only.
LEMMA RebuildSame ==
    ASSUME NEW os, NEW ob, NEW ob2, \A o \in os : ob[o] = ob2[o]
    PROVE  rebuild(os, ob) = rebuild(os, ob2)
  BY DEF rebuild

\* A snapshot holds what its objects are.
LEMMA RebuildTypes ==
    ASSUME NEW os, NEW ob, \A o \in os : ob[o] \in RuleRecords
    PROVE  /\ rebuild(os, ob) \subseteq RuleRecords
           /\ \A e \in rebuild(os, ob) : \E o \in os : ob[o].id = e.id
  BY DEF rebuild

\* Every object that a scope holds or the registry names is alive.
LEMMA HeldAlive ==
    ASSUME PolicyTypes
    PROVE  /\ \A s \in Scopes, c \in Colors : held[s][c] \subseteq DOMAIN obj
           /\ \A i \in Registered : rules[i] \in DOMAIN obj /\ rules[i] \in Objects
           /\ \A s \in Scopes, c \in Colors : \A o \in held[s][c] : obj[o] \in RuleRecords
  BY DEF PolicyTypes, LiveIn, Registered, Policies, NoObject

-----------------------------------------------------------------------------
(* The calls of RulesManager. *)

\* A call that changes nothing, or nothing but the next id.
LEMMA FrameKeeps ==
    ASSUME PolicyInv, UNCHANGED <<rules, obj, customs, held, snap>>,
           idCount' \in 0..(MaxRuleId + 1) \/ idCount' = idCount
    PROVE  PolicyInv'
  BY DEF PolicyInv, PolicyTypes, RegistryInv, CustomsInv, SnapshotInv, AppSnapshotsFresh,
         Registered, LiveIn

\* A new object under a free id disturbs nobody: no scope holds it yet.
LEMMA InsertKeeps ==
    ASSUME PolicyInv, NEW i \in Ids, NEW p \in Patterns, NEW o \in Free,
           rules[i] = NoObject,
           rules' = [rules EXCEPT ![i] = o],
           obj' = [x \in DOMAIN obj \cup {o} |->
                     IF x = o THEN [id |-> i, pattern |-> p] ELSE obj[x]],
           idCount' \in 0..(MaxRuleId + 1),
           UNCHANGED <<customs, held, snap>>
    PROVE  PolicyInv'
<1>0. /\ o \in Objects /\ o # NoObject /\ o \notin DOMAIN obj
      /\ \A j \in Ids : rules[j] # o
      /\ \A s \in Scopes, c \in Colors : o \notin held[s][c]
  BY DEF PolicyInv, PolicyTypes, Free, LiveIn, Objects, NoObject
<1>1. obj'[o] = [id |-> i, pattern |-> p] /\ \A x \in DOMAIN obj : obj'[x] = obj[x]
  BY <1>0
<1>2. PolicyTypes'
  <2>1. rules' \in [Ids -> Objects \cup {NoObject}]
    BY <1>0 DEF PolicyInv, PolicyTypes
  <2>2. DOMAIN obj' = LiveIn(rules', held')
    <3>1. LiveIn(rules', held') = LiveIn(rules, held) \cup {o}
      BY <1>0 DEF LiveIn, PolicyInv, PolicyTypes, Objects, NoObject
    <3> QED BY <3>1 DEF PolicyInv, PolicyTypes
  <2>3. \A x \in DOMAIN obj' : obj'[x] \in RuleRecords
    BY <1>1 DEF PolicyInv, PolicyTypes, RuleRecords
  <2> QED BY <2>1, <2>2, <2>3 DEF PolicyInv, PolicyTypes
<1>3. RegistryInv'
  <2>1. Registered' = Registered \cup {i}
    BY <1>0 DEF Registered, PolicyInv, PolicyTypes
  <2>2. \A j \in Registered : j # i /\ rules'[j] = rules[j] /\ rules[j] \in DOMAIN obj
    BY HeldAlive DEF Registered, PolicyInv, PolicyTypes
  <2>3. rules'[i] = o
    BY DEF PolicyInv, PolicyTypes
  <2> QED BY <1>0, <1>1, <2>1, <2>2, <2>3 DEF PolicyInv, RegistryInv, Registered
<1>4. CustomsInv'
  <2>1. ASSUME NEW x \in Objects, \A j \in Ids : rules'[j] # x
        PROVE  \A j \in Ids : rules[j] # x
    BY <2>1 DEF PolicyInv, PolicyTypes, Objects, NoObject
  <2> QED BY <2>1 DEF PolicyInv, CustomsInv
<1>5. SnapshotInv' /\ AppSnapshotsFresh'
  <2>1. \A s \in Scopes, c \in Colors : \A x \in held[s][c] : obj'[x] = obj[x]
    BY <1>1, HeldAlive DEF PolicyInv
  <2>2. \A s \in Scopes, c \in Colors : rebuild(held[s][c], obj') = rebuild(held[s][c], obj)
    BY <2>1, RebuildSame
  <2>3. SnapshotInv'
    <3> SUFFICES ASSUME NEW s \in Scopes, NEW c \in Colors, NEW e \in snap[s][c]
                 PROVE  \E x \in held[s][c] : obj'[x].id = e.id
      BY ZenonT(30) DEF SnapshotInv
    <3>1. PICK x \in held[s][c] : obj[x].id = e.id
      BY DEF PolicyInv, SnapshotInv
    <3> QED BY <2>1, <3>1
  <2>4. AppSnapshotsFresh'
    BY <2>2 DEF PolicyInv, AppSnapshotsFresh, Scopes
  <2> QED BY <2>3, <2>4
<1> QED BY <1>2, <1>3, <1>4, <1>5 DEF PolicyInv

\* Rule::update rebuilds every scope that holds the rule.
LEMMA UpdateKeeps ==
    ASSUME PolicyInv, NEW i \in Registered, NEW p \in Patterns, updateObject(rules[i], p)
    PROVE  PolicyInv'
<1> DEFINE o == rules[i]
           recorded(s, c) == IF s = Device THEN customs[o].color = c ELSE s \in customs[o][c]
<1>0. o \in Objects /\ o \in DOMAIN obj /\ obj[o] \in RuleRecords
  BY HeldAlive DEF PolicyInv, PolicyTypes
<1>1. /\ obj' = [obj EXCEPT ![o].pattern = p]
      /\ UNCHANGED <<rules, idCount, customs, held>>
      /\ snap' = [s \in Scopes |-> [c \in Colors |->
                    IF recorded(s, c) THEN rebuild(held[s][c], obj') ELSE snap[s][c]]]
  BY DEF updateObject
<1>2. /\ DOMAIN obj' = DOMAIN obj
      /\ \A x \in DOMAIN obj : x # o => obj'[x] = obj[x]
      /\ \A x \in DOMAIN obj : obj'[x].id = obj[x].id /\ obj'[x] \in RuleRecords
  BY <1>0, <1>1 DEF PolicyInv, PolicyTypes, RuleRecords
<1>3. \A s \in Scopes, c \in Colors : held[s][c] \subseteq DOMAIN obj
  BY HeldAlive DEF PolicyInv
<1>4. \A s \in Scopes, c \in Colors :
         /\ rebuild(held[s][c], obj') \subseteq RuleRecords
         /\ \A e \in rebuild(held[s][c], obj') : \E x \in held[s][c] : obj'[x].id = e.id
  BY <1>2, <1>3, RebuildTypes
<1>5. \A s \in Scopes, c \in Colors :
         snap'[s][c] = IF recorded(s, c) THEN rebuild(held[s][c], obj') ELSE snap[s][c]
  BY <1>1
<1>6. PolicyTypes'
  <2>1. snap' \in Policies(RuleRecords)
    <3>1. \A s \in Scopes, c \in Colors : snap'[s][c] \subseteq RuleRecords
      BY <1>4, <1>5 DEF PolicyInv, PolicyTypes, Policies
    <3> HIDE DEF recorded
    <3> QED BY <1>1, <3>1 DEF Policies
  <2> QED BY <1>1, <1>2, <2>1 DEF PolicyInv, PolicyTypes
<1>7. RegistryInv' /\ CustomsInv'
  <2>1. Registered' = Registered
    BY <1>1 DEF Registered
  <2>2. \A j \in Registered : rules[j] \in DOMAIN obj
    BY HeldAlive DEF PolicyInv
  <2>3. RegistryInv'
    BY <1>1, <1>2, <2>1, <2>2 DEF PolicyInv, RegistryInv
  <2>4. CustomsInv'
    BY <1>1 DEF PolicyInv, CustomsInv
  <2> QED BY <2>3, <2>4
<1>8. SnapshotInv'
  <2> SUFFICES ASSUME NEW s \in Scopes, NEW c \in Colors, NEW e \in snap'[s][c]
               PROVE  \E x \in held[s][c] : obj'[x].id = e.id
    BY <1>1 DEF SnapshotInv
  <2>1. CASE recorded(s, c)
    <3>1. e \in rebuild(held[s][c], obj')
      BY <1>5, <2>1
    <3> QED BY <1>4, <3>1
  <2>2. CASE ~recorded(s, c)
    <3>1. e \in snap[s][c]
      BY <1>5, <2>2
    <3>2. PICK x \in held[s][c] : obj[x].id = e.id
      BY <3>1 DEF PolicyInv, SnapshotInv
    <3> QED BY <1>2, <1>3, <3>2
  <2> QED BY <2>1, <2>2
<1>9. AppSnapshotsFresh'
  <2> SUFFICES ASSUME NEW a \in Apps, NEW c \in Colors
               PROVE  snap'[a][c] = rebuild(held[a][c], obj')
    BY <1>1 DEF AppSnapshotsFresh
  <2>1. a \in Scopes /\ a # Device
    BY DomainRulesAssumption DEF Scopes
  <2>2. CASE a \in customs[o][c]
    BY <1>5, <2>1, <2>2
  <2>3. CASE a \notin customs[o][c]
    <3>1. o \notin held[a][c]
      BY <1>0, <2>3 DEF PolicyInv, CustomsInv
    <3>2. \A x \in held[a][c] : obj'[x] = obj[x]
      BY <1>2, <1>3, <2>1, <3>1
    <3>3. rebuild(held[a][c], obj') = rebuild(held[a][c], obj)
      BY <3>2, RebuildSame
    <3> QED BY <1>5, <2>1, <2>3, <3>3 DEF PolicyInv, AppSnapshotsFresh
  <2> QED BY <2>2, <2>3
<1> QED BY <1>6, <1>7, <1>8, <1>9 DEF PolicyInv

\* removeRule takes the object out of every app that holds it and forgets its record.
LEMMA RemoveKeeps ==
    ASSUME PolicyInv, NEW i \in Ids, removeRule(i)
    PROVE  PolicyInv'
<1>1. CASE i \notin Registered
  BY <1>1, FrameKeeps DEF removeRule
<1>2. CASE i \in Registered
  <2> DEFINE o == rules[i]
             recorded(s, c) == IF s = Device THEN customs[o].color = c ELSE s \in customs[o][c]
             h == [s \in Scopes |-> [c \in Colors |->
                     IF recorded(s, c) THEN held[s][c] \ {o} ELSE held[s][c]]]
  <2>0. o \in Objects /\ o \in DOMAIN obj /\ o # NoObject
    BY <1>2, HeldAlive DEF PolicyInv, Registered
  <2>1. /\ rules' = [rules EXCEPT ![i] = NoObject]
        /\ held' = h
        /\ snap' = [s \in Scopes |-> [c \in Colors |->
                      IF recorded(s, c) THEN rebuild(held'[s][c], obj) ELSE snap[s][c]]]
        /\ customs' = [customs EXCEPT ![o] = NoCustom]
        /\ obj' = Restrict(obj, LiveIn(rules', held'))
        /\ idCount' = idCount
    <3>1. /\ rules' = [rules EXCEPT ![i] = NoObject]
          /\ held' = h
          /\ snap' = [s \in Scopes |-> [c \in Colors |->
                        IF recorded(s, c) THEN rebuild(h[s][c], obj) ELSE snap[s][c]]]
          /\ customs' = [customs EXCEPT ![o] = NoCustom]
          /\ obj' = Restrict(obj, LiveIn([rules EXCEPT ![i] = NoObject], h))
          /\ idCount' = idCount
      BY <1>2 DEF removeRule
    <3> QED BY <3>1
  <2>2. \A s \in Scopes, c \in Colors :
           /\ held'[s][c] = IF recorded(s, c) THEN held[s][c] \ {o} ELSE held[s][c]
           /\ snap'[s][c] = IF recorded(s, c) THEN rebuild(held'[s][c], obj) ELSE snap[s][c]
    BY <2>1
  <2>3. \A a \in Apps, c \in Colors : /\ recorded(a, c) <=> o \in held[a][c]
                                      /\ held'[a][c] = held[a][c] \ {o}
    <3> TAKE a \in Apps, c \in Colors
    <3>1. a \in Scopes /\ a # Device
      BY DomainRulesAssumption DEF Scopes
    <3>2. recorded(a, c) <=> o \in held[a][c]
      BY <2>0, <3>1 DEF PolicyInv, CustomsInv
    <3> HIDE DEF recorded
    <3> QED BY <2>2, <3>1, <3>2
  <2> HIDE DEF recorded
  <2>4. \A s \in Scopes, c \in Colors : held'[s][c] \subseteq held[s][c]
    BY <2>2
  <2>5. /\ DOMAIN obj' = LiveIn(rules', held')
        /\ LiveIn(rules', held') \subseteq DOMAIN obj
        /\ \A x \in DOMAIN obj' : obj'[x] = obj[x] /\ obj[x] \in RuleRecords
    <3>1. LiveIn(rules', held') \subseteq LiveIn(rules, held)
      BY <2>1, <2>4 DEF LiveIn, PolicyInv, PolicyTypes, Objects, NoObject
    <3> QED BY <2>1, <3>1 DEF PolicyInv, PolicyTypes, Restrict
  <2>6. \A s \in Scopes, c \in Colors : \A x \in held'[s][c] : x \in DOMAIN obj' /\ x \in DOMAIN obj
    <3>1. \A s \in Scopes, c \in Colors : held[s][c] \subseteq Objects
      BY DEF PolicyInv, PolicyTypes, Policies
    <3> QED BY <2>4, <2>5, <3>1 DEF LiveIn
  <2>7. \A s \in Scopes, c \in Colors :
           /\ rebuild(held'[s][c], obj') = rebuild(held'[s][c], obj)
           /\ rebuild(held'[s][c], obj) \subseteq RuleRecords
           /\ \A e \in rebuild(held'[s][c], obj) : \E x \in held'[s][c] : obj'[x].id = e.id
    <3> TAKE s \in Scopes, c \in Colors
    <3>1. \A x \in held'[s][c] : obj'[x] = obj[x] /\ obj[x] \in RuleRecords
      BY <2>5, <2>6
    <3> QED BY <3>1, RebuildSame, RebuildTypes
  <2>8. PolicyTypes'
    <3>1. rules' \in [Ids -> Objects \cup {NoObject}]
      BY <2>1 DEF PolicyInv, PolicyTypes
    <3>2. customs' \in [Objects -> Customs]
      BY <2>1 DEF PolicyInv, PolicyTypes, Customs, NoCustom, Colors
    <3>3. held' \in Policies(Objects)
      <4>1. \A s \in Scopes, c \in Colors : held'[s][c] \subseteq Objects
        BY <2>4 DEF PolicyInv, PolicyTypes, Policies
      <4> QED BY <2>1, <4>1 DEF Policies
    <3>4. snap' \in Policies(RuleRecords)
      <4>1. \A s \in Scopes, c \in Colors : snap'[s][c] \subseteq RuleRecords
        BY ZenonT(30), <2>2, <2>7 DEF PolicyInv, PolicyTypes, Policies
      <4> QED BY <2>1, <4>1 DEF Policies
    <3> QED BY <2>1, <2>5, <3>1, <3>2, <3>3, <3>4 DEF PolicyInv, PolicyTypes
  <2>9. RegistryInv'
    <3>1. Registered' = Registered \ {i} /\ \A j \in Registered' : rules'[j] = rules[j]
      BY <2>1 DEF Registered, PolicyInv, PolicyTypes
    <3>2. \A j \in Registered' : rules[j] \in DOMAIN obj'
      BY <2>5, <3>1, HeldAlive DEF LiveIn, Registered, PolicyInv
    <3> QED BY <2>5, <3>1, <3>2 DEF PolicyInv, RegistryInv
  <2>10. CustomsInv'
    <3>1. ASSUME NEW x \in Objects, \A j \in Ids : rules'[j] # x PROVE customs'[x] = NoCustom
      BY <2>0, <2>1, <3>1 DEF PolicyInv, PolicyTypes, CustomsInv
    <3>2. ASSUME NEW a \in Apps, NEW c \in Colors, NEW x \in Objects
          PROVE  x \in held'[a][c] <=> a \in customs'[x][c]
      <4>1. CASE x = o
        <5>1. customs'[x] = NoCustom
          BY <2>0, <2>1, <4>1 DEF PolicyInv, PolicyTypes
        <5>2. NoCustom[c] = {}
          BY DEF NoCustom, Colors
        <5> QED BY <2>3, <4>1, <5>1, <5>2
      <4>2. CASE x # o
        BY <2>1, <2>3, <4>2 DEF PolicyInv, PolicyTypes, CustomsInv
      <4> QED BY <4>1, <4>2
    <3> QED BY <3>1, <3>2 DEF CustomsInv
  <2>11. AppSnapshotsFresh'
    <3> SUFFICES ASSUME NEW a \in Apps, NEW c \in Colors
                 PROVE  snap'[a][c] = rebuild(held'[a][c], obj')
      BY DEF AppSnapshotsFresh
    <3>1. CASE recorded(a, c)
      BY <2>2, <2>7, <3>1 DEF Scopes
    <3>2. CASE ~recorded(a, c)
      <4>1. held'[a][c] = held[a][c] /\ snap'[a][c] = snap[a][c]
        BY <2>2, <3>2 DEF Scopes
      <4> QED BY <2>7, <4>1 DEF PolicyInv, AppSnapshotsFresh, Scopes
    <3> QED BY <3>1, <3>2
  <2>12. SnapshotInv'
    <3> SUFFICES ASSUME NEW s \in Scopes, NEW c \in Colors, NEW e \in snap'[s][c]
                 PROVE  \E x \in held'[s][c] : obj'[x].id = e.id
      BY DEF SnapshotInv
    <3>1. CASE recorded(s, c)
      <4>1. e \in rebuild(held'[s][c], obj)
        BY <2>2, <3>1
      <4> QED BY <2>7, <4>1
    <3>2. CASE ~recorded(s, c)
      <4>1. held'[s][c] = held[s][c] /\ snap'[s][c] = snap[s][c]
        BY <2>2, <3>2
      <4>2. PICK x \in held[s][c] : obj[x].id = e.id
        BY <4>1 DEF PolicyInv, SnapshotInv
      <4> QED BY <2>5, <2>6, <4>1, <4>2
    <3> QED BY <3>1, <3>2
  <2> QED BY <2>8, <2>9, <2>10, <2>11, <2>12 DEF PolicyInv
<1> QED BY <1>1, <1>2

\* One color of one scope gains or loses rule i; its snapshot and, for an app, the record
\* of it follow.
ScopeChange(i, s, c) ==
  /\ UNCHANGED <<rules, obj, idCount>>
  /\ held' = [held EXCEPT ![s][c] = held'[s][c]]
  /\ held'[s][c] \subseteq held[s][c] \cup {rules[i]}
  /\ held[s][c] \ {rules[i]} \subseteq held'[s][c]
  /\ snap' = [snap EXCEPT ![s][c] = rebuild(held'[s][c], obj)]
  /\ customs' \in [Objects -> Customs]
  /\ \A x \in Objects : x # rules[i] => customs'[x] = customs[x]
  /\ s \in Apps => (s \in customs'[rules[i]][c] <=> rules[i] \in held'[s][c])
  /\ \A a \in Apps, d \in Colors : ~(a = s /\ d = c) =>
        (a \in customs'[rules[i]][d] <=> a \in customs[rules[i]][d])

\* Such a change keeps the references of all scopes.
LEMMA ScopeKeeps ==
    ASSUME PolicyInv, NEW i \in Registered, NEW s \in Scopes, NEW c \in Colors,
           ScopeChange(i, s, c)
    PROVE  PolicyInv'
<1> USE DEF ScopeChange
<1> DEFINE o == rules[i]
           hs == held'[s][c]
<1>0. o \in Objects /\ o \in DOMAIN obj /\ i \in Ids
  BY HeldAlive DEF PolicyInv, Registered
<1>1. /\ held'[s][c] = hs /\ snap'[s][c] = rebuild(hs, obj)
      /\ \A t \in Scopes, d \in Colors : ~(t = s /\ d = c) =>
            held'[t][d] = held[t][d] /\ snap'[t][d] = snap[t][d]
  BY DEF PolicyInv, PolicyTypes, Policies
<1>2. hs \subseteq DOMAIN obj /\ hs \subseteq Objects /\ \A x \in hs : obj[x] \in RuleRecords
  BY <1>0, HeldAlive DEF PolicyInv, PolicyTypes, Policies
<1>3. /\ rebuild(hs, obj) \subseteq RuleRecords
      /\ \A e \in rebuild(hs, obj) : \E x \in hs : obj[x].id = e.id
  BY <1>2, RebuildTypes
<1>4. PolicyTypes'
  <2>1. held' \in Policies(Objects)
    <3>1. held' = [held EXCEPT ![s][c] = hs]
      OBVIOUS
    <3> HIDE DEF hs
    <3> QED BY <1>2, <3>1 DEF PolicyInv, PolicyTypes, Policies
  <2>2. snap' \in Policies(RuleRecords)
    BY <1>3 DEF PolicyInv, PolicyTypes, Policies
  <2>3. LiveIn(rules', held') = LiveIn(rules, held)
    <3>1. \A x \in Objects : x # o => \A t \in Scopes, d \in Colors :
             x \in held'[t][d] <=> x \in held[t][d]
      BY <1>1
    <3>2. o \in LiveIn(rules, held) /\ o \in LiveIn(rules', held')
      BY <1>0 DEF LiveIn
    <3> QED BY <3>1, <3>2 DEF LiveIn
  <2> QED BY <2>1, <2>2, <2>3 DEF PolicyInv, PolicyTypes
<1>5. RegistryInv'
  BY DEF PolicyInv, RegistryInv, Registered
<1>6. CustomsInv'
  <2>1. ASSUME NEW x \in Objects, \A j \in Ids : rules'[j] # x PROVE customs'[x] = NoCustom
    BY <1>0, <2>1 DEF PolicyInv, CustomsInv
  <2>2. ASSUME NEW a \in Apps, NEW d \in Colors, NEW x \in Objects
        PROVE  x \in held'[a][d] <=> a \in customs'[x][d]
    <3>1. a \in Scopes
      BY DEF Scopes
    <3>2. CASE a = s /\ d = c
      BY <1>1, <3>2 DEF PolicyInv, CustomsInv
    <3>3. CASE ~(a = s /\ d = c)
      <4>1. x \in held'[a][d] <=> a \in customs[x][d]
        BY <1>1, <3>1, <3>3 DEF PolicyInv, CustomsInv
      <4> QED BY <3>3, <4>1
    <3> QED BY <3>2, <3>3
  <2> QED BY <2>1, <2>2 DEF CustomsInv
<1>7. SnapshotInv'
  <2> SUFFICES ASSUME NEW t \in Scopes, NEW d \in Colors, NEW e \in snap'[t][d]
               PROVE  \E x \in held'[t][d] : obj[x].id = e.id
    BY DEF SnapshotInv
  <2>1. CASE t = s /\ d = c
    BY <1>1, <1>3, <2>1
  <2>2. CASE ~(t = s /\ d = c)
    BY <1>1, <2>2 DEF PolicyInv, SnapshotInv
  <2> QED BY <2>1, <2>2
<1>8. AppSnapshotsFresh'
  <2> SUFFICES ASSUME NEW a \in Apps, NEW d \in Colors
               PROVE  snap'[a][d] = rebuild(held'[a][d], obj)
    BY DEF AppSnapshotsFresh
  <2>1. CASE a = s /\ d = c
    BY <1>1, <2>1
  <2>2. CASE ~(a = s /\ d = c)
    BY <1>1, <2>2 DEF PolicyInv, AppSnapshotsFresh, Scopes
  <2> QED BY <2>1, <2>2
<1> QED BY <1>4, <1>5, <1>6, <1>7, <1>8 DEF PolicyInv

LEMMA AddCustomKeeps ==
    ASSUME PolicyInv, NEW s \in Scopes, NEW i \in Ids, NEW c \in Colors, addCustom(s, i, c)
    PROVE  PolicyInv'
<1>1. CASE i \notin Registered
  BY <1>1, FrameKeeps DEF addCustom
<1>2. CASE i \in Registered
  <2> DEFINE o == rules[i]
             hs == held[s][c] \cup {o}
  <2>0. o \in Objects /\ customs[o] \in Customs
    BY <1>2, HeldAlive DEF PolicyInv, PolicyTypes
  <2>1. /\ UNCHANGED <<rules, obj, idCount>>
        /\ held' = [held EXCEPT ![s][c] = hs]
        /\ snap' = [snap EXCEPT ![s][c] = rebuild(held'[s][c], obj)]
        /\ customs' = IF s = Device THEN [customs EXCEPT ![o].color = c]
                                    ELSE [customs EXCEPT ![o][c] = @ \cup {s}]
    BY <1>2 DEF addCustom
  <2>2. held'[s][c] = hs
    BY <2>1 DEF PolicyInv, PolicyTypes, Policies
  <2>3. /\ held' = [held EXCEPT ![s][c] = held'[s][c]]
        /\ held'[s][c] \subseteq held[s][c] \cup {rules[i]}
        /\ held[s][c] \ {rules[i]} \subseteq held'[s][c]
    BY <2>1, <2>2
  <2>4. CASE s = Device
    <3>1. /\ customs' \in [Objects -> Customs]
          /\ \A x \in Objects : x # o => customs'[x] = customs[x]
          /\ \A d \in Colors : customs'[o][d] = customs[o][d]
      BY <2>0, <2>1, <2>4 DEF PolicyInv, PolicyTypes, Customs, Colors
    <3>2. \A a \in Apps : a # s
      BY <2>4, DomainRulesAssumption
    <3>3. /\ s \in Apps => (s \in customs'[rules[i]][c] <=> rules[i] \in held'[s][c])
          /\ \A a \in Apps, d \in Colors : ~(a = s /\ d = c) =>
                (a \in customs'[rules[i]][d] <=> a \in customs[rules[i]][d])
      BY <3>1, <3>2
    <3>4. ScopeChange(i, s, c)
      BY <2>1, <2>3, <3>1, <3>3 DEF ScopeChange
    <3> QED BY <1>2, <3>4, ScopeKeeps
  <2>5. CASE s # Device
    <3>1. /\ customs' \in [Objects -> Customs]
          /\ \A x \in Objects : x # o => customs'[x] = customs[x]
          /\ \A d \in Colors : customs'[o][d] = IF d = c THEN customs[o][c] \cup {s}
                                                ELSE customs[o][d]
      BY <2>0, <2>1, <2>5 DEF PolicyInv, PolicyTypes, Customs, Colors, Scopes
    <3>2. /\ s \in Apps => (s \in customs'[rules[i]][c] <=> rules[i] \in held'[s][c])
          /\ \A a \in Apps, d \in Colors : ~(a = s /\ d = c) =>
                (a \in customs'[rules[i]][d] <=> a \in customs[rules[i]][d])
      BY <2>2, <3>1
    <3>3. /\ UNCHANGED <<rules, obj, idCount>>
          /\ snap' = [snap EXCEPT ![s][c] = rebuild(held'[s][c], obj)]
          /\ customs' \in [Objects -> Customs]
          /\ \A x \in Objects : x # rules[i] => customs'[x] = customs[x]
      BY <2>1, <3>1
    <3>4. ScopeChange(i, s, c)
      BY <2>3, <3>2, <3>3 DEF ScopeChange
    <3> QED BY <1>2, <3>4, ScopeKeeps
  <2> QED BY <2>4, <2>5
<1> QED BY <1>1, <1>2

LEMMA RemoveCustomKeeps ==
    ASSUME PolicyInv, NEW s \in Scopes, NEW i \in Ids, NEW c \in Colors, removeCustom(s, i, c)
    PROVE  PolicyInv'
<1>1. CASE i \notin Registered
  BY <1>1, FrameKeeps DEF removeCustom
<1>2. CASE i \in Registered
  <2> DEFINE o == rules[i]
             hs == held[s][c] \ {o}
  <2>0. o \in Objects /\ customs[o] \in Customs
    BY <1>2, HeldAlive DEF PolicyInv, PolicyTypes
  <2>1. /\ UNCHANGED <<rules, obj, idCount>>
        /\ held' = [held EXCEPT ![s][c] = hs]
        /\ snap' = [snap EXCEPT ![s][c] = rebuild(held'[s][c], obj)]
        /\ customs' = IF s = Device THEN [customs EXCEPT ![o].color = "ALLC"]
                                    ELSE [customs EXCEPT ![o][c] = @ \ {s}]
    BY <1>2 DEF removeCustom
  <2>2. held'[s][c] = hs
    BY <2>1 DEF PolicyInv, PolicyTypes, Policies
  <2>3. /\ held' = [held EXCEPT ![s][c] = held'[s][c]]
        /\ held'[s][c] \subseteq held[s][c] \cup {rules[i]}
        /\ held[s][c] \ {rules[i]} \subseteq held'[s][c]
    BY <2>1, <2>2
  <2>4. CASE s = Device
    <3>1. /\ customs' \in [Objects -> Customs]
          /\ \A x \in Objects : x # o => customs'[x] = customs[x]
          /\ \A d \in Colors : customs'[o][d] = customs[o][d]
      BY <2>0, <2>1, <2>4 DEF PolicyInv, PolicyTypes, Customs, Colors
    <3>2. \A a \in Apps : a # s
      BY <2>4, DomainRulesAssumption
    <3>3. /\ s \in Apps => (s \in customs'[rules[i]][c] <=> rules[i] \in held'[s][c])
          /\ \A a \in Apps, d \in Colors : ~(a = s /\ d = c) =>
                (a \in customs'[rules[i]][d] <=> a \in customs[rules[i]][d])
      BY <3>1, <3>2
    <3>4. ScopeChange(i, s, c)
      BY <2>1, <2>3, <3>1, <3>3 DEF ScopeChange
    <3> QED BY <1>2, <3>4, ScopeKeeps
  <2>5. CASE s # Device
    <3>1. /\ customs' \in [Objects -> Customs]
          /\ \A x \in Objects : x # o => customs'[x] = customs[x]
          /\ \A d \in Colors : customs'[o][d] = IF d = c THEN customs[o][c] \ {s}
                                                ELSE customs[o][d]
      BY <2>0, <2>1, <2>5 DEF PolicyInv, PolicyTypes, Customs, Colors, Scopes
    <3>2. /\ s \in Apps => (s \in customs'[rules[i]][c] <=> rules[i] \in held'[s][c])
          /\ \A a \in Apps, d \in Colors : ~(a = s /\ d = c) =>
                (a \in customs'[rules[i]][d] <=> a \in customs[rules[i]][d])
      BY <2>2, <3>1
    <3>3. /\ UNCHANGED <<rules, obj, idCount>>
          /\ snap' = [snap EXCEPT ![s][c] = rebuild(held'[s][c], obj)]
          /\ customs' \in [Objects -> Customs]
          /\ \A x \in Objects : x # rules[i] => customs'[x] = customs[x]
      BY <2>1, <3>1
    <3>4. ScopeChange(i, s, c)
      BY <2>3, <3>2, <3>3 DEF ScopeChange
    <3> QED BY <1>2, <3>4, ScopeKeeps
  <2> QED BY <2>4, <2>5
<1> QED BY <1>1, <1>2

LEMMA AddRuleKeeps ==
    ASSUME PolicyInv, NEW p \in Patterns, addRule(p)
    PROVE  PolicyInv'
<1>1. idCount' \in 0..(MaxRuleId + 1)
  BY DomainRulesAssumption DEF addRule, Ids
<1>2. CASE rules[idCount] # NoObject
  BY <1>1, <1>2, FrameKeeps DEF addRule
<1>3. CASE rules[idCount] = NoObject
  BY <1>1, <1>3, InsertKeeps DEF addRule
<1> QED BY <1>2, <1>3

LEMMA UpsertKeeps ==
    ASSUME PolicyInv, NEW i \in Ids, NEW p \in Patterns, upsertRuleWithId(i, p)
    PROVE  PolicyInv'
<1>1. CASE i \in Registered
  BY <1>1, UpdateKeeps DEF upsertRuleWithId
<1>2. CASE i \notin Registered
  <2>1. idCount' \in 0..(MaxRuleId + 1)
    <3>1. idCount' = IF idCount <= i THEN (i + 1) % RuleIdModulus ELSE idCount
      BY <1>2 DEF upsertRuleWithId
    <3> QED BY <3>1, DomainRulesAssumption DEF Ids, PolicyInv, PolicyTypes
  <2> QED BY <1>2, <2>1, InsertKeeps DEF upsertRuleWithId, Registered
<1> QED BY <1>1, <1>2

-----------------------------------------------------------------------------
(* The commands. *)

\* The record of a mutation has the fields of its stage.
LEMMA CommandFields ==
    ASSUME CommandTypes
    PROVE  /\ vcmd.op = "conflicts" => vcmd \in ConflictsCmds
           /\ vcmd.op = "upsert" => vcmd \in UpsertCmds
           /\ vcmd.op = "snapshot" => vcmd \in SnapshotCmds
           /\ vcmd.op = "pass" => vcmd \in PassCmds
           /\ lcmd.op = "addRule" => lcmd.scope \in Scopes /\ lcmd.x \in Ids /\ lcmd.color \in Colors
           /\ lcmd.op = "addDomain" =>
                lcmd.scope \in Scopes /\ lcmd.x \in Domains /\ lcmd.color \in Colors
  BY DEF CommandTypes, Idle, ConflictsCmds, UpsertCmds, SnapshotCmds, PassCmds, LegacyCmds

\* The ids of a payload are ids, its patterns patterns.
LEMMA RuleMapFacts ==
    ASSUME NEW f \in RuleMaps
    PROVE  /\ DOMAIN f \subseteq Ids /\ \A i \in DOMAIN f : f[i] \in Patterns
           /\ \A D \in SUBSET DOMAIN f : Restrict(f, D) \in RuleMaps
<1>1. PICK D \in SUBSET (0..MaxRuleId) : f \in [D -> Patterns]
  BY DEF RuleMaps
<1>2. ASSUME NEW E \in SUBSET DOMAIN f PROVE Restrict(f, E) \in RuleMaps
  <2>1. Restrict(f, E) \in [E -> Patterns] /\ E \in SUBSET (0..MaxRuleId)
    BY <1>1 DEF Restrict
  <2> QED BY <2>1 DEF RuleMaps
<1> QED BY <1>1, <1>2 DEF Ids

\* Each pass is over one color, of domains or of rules.
LEMMA PassFacts ==
    ASSUME NEW k \in 1..4
    PROVE  /\ Passes[k][2] \in Colors
           /\ Passes[k][1] = "domain" <=> k \in {1, 2}
           /\ Passes[k][1] = "rule" <=> k \in {3, 4}
  BY DEF Passes, Colors

\* Every step of a vNext mutation is calls of RulesManager or leaves the rules alone.
LEMMA VNextKeeps == RulesInv /\ VNextStep => PolicyInv'
<1> SUFFICES ASSUME RulesInv, VNextStep PROVE PolicyInv'
  OBVIOUS
<1>0. PolicyInv /\ CommandTypes
  BY DEF RulesInv, TypeOK
<1>f. UNCHANGED policyVars => PolicyInv'
  BY <1>0, FrameKeeps DEF policyVars
<1>1. ASSUME NEW r \in RulesPayloads, RulesApply(r.ids, r.fresh) PROVE PolicyInv'
  BY <1>1, <1>f DEF RulesApply
<1>2. CASE RulesConflicts
  <2>1. CASE vcmd'.op = "upsert" /\ DOMAIN vcmd.ids # {}
    <3>1. vcmd.ids \in RuleMaps
      BY <1>0, <1>2, CommandFields DEF RulesConflicts, ConflictsCmds
    <3>2. DOMAIN vcmd.ids \in SUBSET (0..MaxRuleId)
      BY <3>1, RuleMapFacts DEF Ids
    <3>3. Max(DOMAIN vcmd.ids) \in 0..MaxRuleId
      BY <2>1, <3>2, GreatestBelow, DomainRulesAssumption
    <3>4. idCount' \in 0..(MaxRuleId + 1)
      BY <1>0, <1>2, <2>1, <3>3, DomainRulesAssumption
      DEF RulesConflicts, ensureNextRuleIdAtLeast, PolicyInv, PolicyTypes
    <3> QED BY <1>0, <1>2, <2>1, <3>4, FrameKeeps DEF RulesConflicts, ensureNextRuleIdAtLeast
  <2>2. CASE ~(vcmd'.op = "upsert" /\ DOMAIN vcmd.ids # {})
    BY <1>0, <1>2, <2>2, FrameKeeps DEF RulesConflicts
  <2> QED BY <2>1, <2>2
<1>3. CASE RulesUpsert
  <2>1. vcmd.ids \in RuleMaps /\ vcmd.fresh \subseteq Patterns
    BY <1>0, <1>3, CommandFields DEF RulesUpsert, UpsertCmds
  <2>2. ASSUME NEW i \in DOMAIN vcmd.ids, upsertRuleWithId(i, vcmd.ids[i]) PROVE PolicyInv'
    <3>1. i \in Ids /\ vcmd.ids[i] \in Patterns
      BY <2>1, RuleMapFacts
    <3> QED BY <1>0, <2>2, <3>1, UpsertKeeps
  <2>3. ASSUME NEW p \in vcmd.fresh, addRule(p) PROVE PolicyInv'
    BY <1>0, <2>1, <2>3, AddRuleKeeps
  <2> QED BY <1>3, <2>2, <2>3 DEF RulesUpsert
<1>4. CASE RulesRemove
  <2>1. vcmd.removed \subseteq Ids
    BY <1>0, <1>4, CommandFields DEF RulesRemove, UpsertCmds
  <2> QED BY <1>0, <1>4, <2>1, RemoveKeeps DEF RulesRemove
<1>5. CASE RulesAnswer \/ PolicySnapshot \/ PolicyAnswer
  BY <1>5, <1>f DEF RulesAnswer, PolicySnapshot, PolicyAnswer
<1>6. ASSUME NEW s \in Scopes, NEW want \in PolicyPayloads, PolicyApply(s, want) PROVE PolicyInv'
  BY <1>6, <1>f DEF PolicyApply
<1>7. CASE PolicyStep
  <2> DEFINE kind == Passes[vcmd.pass][1]
             c == Passes[vcmd.pass][2]
  <2>1. /\ vcmd \in PassCmds /\ vcmd.scope \in Scopes /\ vcmd.pass \in 1..4
        /\ c \in Colors
    BY <1>0, <1>7, CommandFields, PassFacts DEF PolicyStep, PassCmds
  <2>2. kind # "domain" => vcmd.rem \subseteq Ids /\ vcmd.add \subseteq Ids
    BY <1>0, <2>1 DEF CommandTypes
  <2>3. CASE UNCHANGED <<rules, obj, idCount, customs, held, snap>>
    BY <1>0, <2>3, FrameKeeps
  <2>4. ASSUME NEW x \in vcmd.rem, kind # "domain", removeCustom(vcmd.scope, x, c)
        PROVE  PolicyInv'
    BY <1>0, <2>1, <2>2, <2>4, RemoveCustomKeeps
  <2>5. ASSUME NEW x \in vcmd.add, kind # "domain", addCustom(vcmd.scope, x, c)
        PROVE  PolicyInv'
    BY <1>0, <2>1, <2>2, <2>5, AddCustomKeeps
  <2> QED BY <1>7, <2>3, <2>4, <2>5 DEF PolicyStep, policyVars
<1> QED BY <1>1, <1>2, <1>3, <1>4, <1>5, <1>6, <1>7 DEF VNextStep

\* Every legacy command is one or two calls of RulesManager.
LEMMA LegacyKeeps == RulesInv /\ LegacyStep => PolicyInv'
<1> SUFFICES ASSUME RulesInv, LegacyStep PROVE PolicyInv'
  OBVIOUS
<1>0. PolicyInv /\ CommandTypes
  BY DEF RulesInv, TypeOK
<1>1. ASSUME NEW p \in Patterns, cmdAddRule(p) PROVE PolicyInv'
  BY <1>0, <1>1, AddRuleKeeps DEF cmdAddRule
<1>2. ASSUME NEW i \in Ids, cmdRemoveRule(i) PROVE PolicyInv'
  BY <1>0, <1>2, RemoveKeeps DEF cmdRemoveRule
<1>3. ASSUME NEW i \in Ids, NEW p \in Patterns, cmdUpdateRule(i, p) PROVE PolicyInv'
  BY <1>0, <1>3, UpdateKeeps, FrameKeeps DEF cmdUpdateRule, updateRule
<1>4. ASSUME NEW s \in Scopes, NEW c \in Colors, NEW i \in Ids,
             cmdAddCustomRule(s, i, c) \/ cmdRemoveCustomRule(s, i, c)
      PROVE  PolicyInv'
  <2>1. Other(c) \in Colors
    BY DEF Other, Colors
  <2> QED BY <1>0, <1>4, <2>1, RemoveCustomKeeps DEF cmdAddCustomRule, cmdRemoveCustomRule
<1>5. ASSUME NEW s \in Scopes, NEW c \in Colors, NEW d \in Domains,
             cmdAddCustomDomain(s, d, c) \/ cmdRemoveCustomDomain(s, d, c)
      PROVE  PolicyInv'
  BY <1>0, <1>5, FrameKeeps DEF cmdAddCustomDomain, cmdRemoveCustomDomain
<1>6. CASE LegacySecondCall
  BY <1>0, <1>6, CommandFields, AddCustomKeeps, FrameKeeps DEF LegacySecondCall
<1> QED BY <1>1, <1>2, <1>3, <1>4, <1>5, <1>6 DEF LegacyStep

\* A legacy call marks the vNext mutation under way and changes nothing else of it.
LEMMA TouchedTypes ==
    ASSUME CommandTypes, Touched
    PROVE  /\ vcmd' \in {Idle} \cup ConflictsCmds \cup UpsertCmds \cup SnapshotCmds \cup PassCmds
           /\ vcmd' \in PassCmds => vcmd'.rem \cup vcmd'.add \subseteq
                 (IF Passes[vcmd'.pass][1] = "domain" THEN Domains ELSE Ids)
<1>1. CASE vcmd = Idle
  BY <1>1 DEF Touched, Idle, PassCmds
<1>2. CASE vcmd # Idle /\ vcmd \in ConflictsCmds
  BY <1>2 DEF Touched, ConflictsCmds, PassCmds
<1>3. CASE vcmd # Idle /\ vcmd \in UpsertCmds
  BY <1>3 DEF Touched, UpsertCmds, PassCmds
<1>4. CASE vcmd # Idle /\ vcmd \in SnapshotCmds
  BY <1>4 DEF Touched, SnapshotCmds, PassCmds
<1>5. CASE vcmd # Idle /\ vcmd \in PassCmds
  <2>1. /\ vcmd' = [vcmd EXCEPT !.clean = FALSE]
        /\ vcmd' \in PassCmds /\ vcmd'.rem = vcmd.rem /\ vcmd'.add = vcmd.add
        /\ vcmd'.pass = vcmd.pass
    BY <1>5 DEF Touched, PassCmds
  <2> QED BY <1>5, <2>1 DEF CommandTypes
<1> QED BY <1>1, <1>2, <1>3, <1>4, <1>5 DEF CommandTypes

\* A stage other than a pass.
LEMMA NotPass ==
    ASSUME NEW v \in {Idle} \cup ConflictsCmds \cup UpsertCmds \cup SnapshotCmds
    PROVE  v \notin PassCmds
  BY DEF Idle, ConflictsCmds, UpsertCmds, SnapshotCmds, PassCmds

\* The wanted sets of a payload are of domains in the first two passes and of ids after.
LEMMA WantFacts ==
    ASSUME NEW w \in Wants, NEW k \in 1..4
    PROVE  w[k] \subseteq (IF Passes[k][1] = "domain" THEN Domains ELSE Ids)
<1>1. w[1] \subseteq Domains /\ w[2] \subseteq Domains /\ w[3] \subseteq Ids /\ w[4] \subseteq Ids
  BY DEF Wants
<1>2. k = 1 \/ k = 2 \/ k = 3 \/ k = 4
  OBVIOUS
<1> QED BY <1>1, <1>2, PassFacts

\* What a pass finds in its scope is of its kind.
LEMMA CurrentFacts ==
    ASSUME PolicyTypes, names \in Policies(Domains), NEW s \in Scopes, NEW k \in 1..4
    PROVE  Current(s, Passes[k]) \subseteq (IF Passes[k][1] = "domain" THEN Domains ELSE Ids)
<1>1. Passes[k][2] \in Colors
  BY PassFacts
<1>2. names[s][Passes[k][2]] \subseteq Domains
  BY <1>1 DEF Policies
<1>3. snapshotRuleIds(s, Passes[k][2]) \subseteq Ids
  BY <1>1, HeldAlive DEF snapshotRuleIds, RuleRecords
<1> QED BY <1>2, <1>3 DEF Current

\* Every step keeps the commands and the custom domains typed.
LEMMA CommandsKept == RulesInv /\ Next => CommandTypes' /\ names' \in Policies(Domains)
<1> SUFFICES ASSUME RulesInv, Next PROVE CommandTypes' /\ names' \in Policies(Domains)
  OBVIOUS
<1>0. PolicyTypes /\ CommandTypes /\ names \in Policies(Domains)
  BY DEF RulesInv, TypeOK
<1>t. started \in [vnext : 0..MaxVNext, legacy : 0..MaxLegacy] /\ lcmd \in {Idle} \cup LegacyCmds
  BY <1>0 DEF CommandTypes
<1>v. StartVNext => started' \in [vnext : 0..MaxVNext, legacy : 0..MaxLegacy]
  BY <1>t, DomainRulesAssumption DEF StartVNext
<1>l. StartLegacy => started' \in [vnext : 0..MaxVNext, legacy : 0..MaxLegacy]
  BY <1>t, DomainRulesAssumption DEF StartLegacy
<1>d. ASSUME NEW s \in Scopes, NEW c \in Colors, NEW d \in Domains,
             addCustomDomain(s, d, c) \/ removeCustomDomain(s, d, c)
      PROVE  names' \in Policies(Domains)
  BY <1>0, <1>d DEF addCustomDomain, removeCustomDomain, Policies
<1> DEFINE Types == CommandTypes' /\ names' \in Policies(Domains)
<1>s. ASSUME vcmd' \in {Idle} \cup ConflictsCmds \cup UpsertCmds \cup SnapshotCmds,
             lcmd' = lcmd, names' = names,
             started' \in [vnext : 0..MaxVNext, legacy : 0..MaxLegacy]
      PROVE  Types
  BY <1>0, <1>t, <1>s, NotPass DEF CommandTypes
<1> SUFFICES Types
  OBVIOUS
<1> HIDE DEF Types
<1>1. ASSUME NEW r \in RulesPayloads, RulesApply(r.ids, r.fresh) PROVE Types
  <2>1. vcmd' \in ConflictsCmds
    BY <1>1, DomainRulesAssumption DEF RulesApply, ConflictsCmds, Registered
  <2> QED BY <1>1, <1>s, <1>v, <2>1 DEF RulesApply, policyVars
<1>2. CASE RulesConflicts
  <2>1. vcmd' \in {Idle} \cup UpsertCmds
    <3>1. vcmd \in ConflictsCmds
      BY <1>0, <1>2, CommandFields DEF RulesConflicts
    <3> QED BY <1>2, <3>1 DEF RulesConflicts, ConflictsCmds, UpsertCmds
  <2>9. lcmd' = lcmd /\ names' = names /\ started' = started
    BY <1>2 DEF RulesConflicts
  <2> QED BY <1>s, <1>t, <2>1, <2>9
<1>3. CASE RulesUpsert
  <2>1. vcmd \in UpsertCmds
    BY <1>0, <1>3, CommandFields DEF RulesUpsert
  <2>2. vcmd' \in UpsertCmds
    <3>1. ASSUME NEW i \in DOMAIN vcmd.ids,
                 vcmd' = [vcmd EXCEPT !.ids = Restrict(@, DOMAIN @ \ {i})]
          PROVE  vcmd' \in UpsertCmds
      <4>1. vcmd.ids \in RuleMaps
        BY <2>1 DEF UpsertCmds
      <4>2. Restrict(vcmd.ids, DOMAIN vcmd.ids \ {i}) \in RuleMaps
        BY <4>1, RuleMapFacts
      <4> QED BY <2>1, <3>1, <4>2 DEF UpsertCmds
    <3>2. ASSUME NEW p, vcmd' = [vcmd EXCEPT !.fresh = @ \ {p}] PROVE vcmd' \in UpsertCmds
      BY <2>1, <3>2 DEF UpsertCmds
    <3> QED BY <1>3, <3>1, <3>2 DEF RulesUpsert
  <2>9. lcmd' = lcmd /\ names' = names /\ started' = started
    BY <1>3 DEF RulesUpsert
  <2> QED BY <1>s, <1>t, <2>2, <2>9
<1>4. CASE RulesRemove
  <2>1. vcmd \in UpsertCmds
    BY <1>0, <1>4, CommandFields DEF RulesRemove
  <2>2. vcmd' \in UpsertCmds
    BY <1>4, <2>1 DEF RulesRemove, UpsertCmds
  <2>9. lcmd' = lcmd /\ names' = names /\ started' = started
    BY <1>4 DEF RulesRemove
  <2> QED BY <1>s, <1>t, <2>2, <2>9
<1>5. CASE RulesAnswer \/ PolicyAnswer
  <2>1. vcmd' = Idle /\ lcmd' = lcmd /\ names' = names /\ started' = started
    BY <1>5 DEF RulesAnswer, PolicyAnswer, policyVars
  <2> QED BY <1>s, <1>t, <2>1
<1>6. ASSUME NEW s \in Scopes, NEW want \in PolicyPayloads, PolicyApply(s, want) PROVE Types
  <2>1. vcmd' \in SnapshotCmds
    BY <1>6, DomainRulesAssumption DEF PolicyApply, SnapshotCmds, Wants, Ids
  <2> QED BY <1>6, <1>s, <1>v, <2>1 DEF PolicyApply, policyVars
<1>7. CASE PolicySnapshot
  <2> DEFINE cur == Current(vcmd.scope, Passes[vcmd.pass])
             K == IF Passes[vcmd.pass][1] = "domain" THEN Domains ELSE Ids
  <2>1. /\ vcmd \in SnapshotCmds /\ vcmd.scope \in Scopes /\ vcmd.want \in Wants
        /\ vcmd.pass \in 1..4
    BY <1>0, <1>7, CommandFields DEF PolicySnapshot, SnapshotCmds
  <2>2. cur \subseteq K /\ vcmd.want[vcmd.pass] \subseteq K
    BY <1>0, <2>1, CurrentFacts, WantFacts
  <2>3. /\ vcmd' = [op |-> "pass", scope |-> vcmd.scope, want |-> vcmd.want, pass |-> vcmd.pass,
                    rem |-> cur \ vcmd.want[vcmd.pass], add |-> vcmd.want[vcmd.pass] \ cur,
                    clean |-> vcmd.clean]
        /\ vcmd.clean \in BOOLEAN
    BY <1>7, <2>1 DEF PolicySnapshot, SnapshotCmds
  <2> HIDE DEF cur
  <2>4. vcmd' \in PassCmds /\ vcmd'.rem \cup vcmd'.add \subseteq K /\ vcmd'.pass = vcmd.pass
    BY <2>1, <2>2, <2>3 DEF PassCmds
  <2> QED BY <1>0, <1>7, <2>4 DEF CommandTypes, Types, PolicySnapshot, policyVars
<1>8. CASE PolicyStep
  <2> DEFINE K == IF Passes[vcmd.pass][1] = "domain" THEN Domains ELSE Ids
             c == Passes[vcmd.pass][2]
  <2>1. /\ vcmd \in PassCmds /\ vcmd.scope \in Scopes /\ vcmd.pass \in 1..4
        /\ c \in Colors /\ vcmd.rem \cup vcmd.add \subseteq K
    BY <1>0, <1>8, CommandFields, PassFacts DEF PolicyStep, PassCmds, CommandTypes
  <2>2. ASSUME NEW x, \/ vcmd' = [vcmd EXCEPT !.rem = @ \ {x}]
                      \/ vcmd' = [vcmd EXCEPT !.add = @ \ {x}]
        PROVE  vcmd' \in PassCmds /\ vcmd'.rem \cup vcmd'.add \subseteq K /\ vcmd'.pass = vcmd.pass
    BY <2>1, <2>2 DEF PassCmds
  <2>3. ASSUME vcmd' = [op |-> "snapshot", scope |-> vcmd.scope, want |-> vcmd.want,
                        pass |-> vcmd.pass + 1, clean |-> vcmd.clean]
        PROVE  vcmd' \in SnapshotCmds
    BY <2>1, <2>3 DEF PassCmds, SnapshotCmds
  <2>4. names' \in Policies(Domains)
    <3>1. ASSUME NEW x \in vcmd.rem \cup vcmd.add, K = Domains,
                 \/ removeCustomDomain(vcmd.scope, x, c)
                 \/ addCustomDomain(vcmd.scope, x, c)
          PROVE  names' \in Policies(Domains)
      BY <1>d, <2>1, <3>1
    <3>2. ASSUME names' = names PROVE names' \in Policies(Domains)
      BY <1>0, <3>2
    <3> QED BY <1>8, <3>1, <3>2 DEF PolicyStep, policyVars
  <2>5. CASE vcmd' \in PassCmds /\ vcmd'.rem \cup vcmd'.add \subseteq K /\ vcmd'.pass = vcmd.pass
    BY <1>t, <1>8, <2>4, <2>5 DEF CommandTypes, Types, PolicyStep
  <2>6. CASE vcmd' \in SnapshotCmds
    BY <1>t, <1>8, <2>4, <2>6, NotPass DEF CommandTypes, Types, PolicyStep
  <2> QED BY <1>8, <2>2, <2>3, <2>5, <2>6 DEF PolicyStep
<1>9. ASSUME Touched, names' \in Policies(Domains), lcmd' \in {Idle} \cup LegacyCmds,
             started' \in [vnext : 0..MaxVNext, legacy : 0..MaxLegacy]
      PROVE  Types
  BY <1>0, <1>9, TouchedTypes DEF CommandTypes, Types
<1>10. CASE LegacyStep
  <2>1. ASSUME NEW p \in Patterns, cmdAddRule(p) PROVE Types
    BY <1>0, <1>t, <1>l, <1>9, <2>1 DEF cmdAddRule
  <2>2. ASSUME NEW i \in Ids, cmdRemoveRule(i) \/ \E p \in Patterns : cmdUpdateRule(i, p)
        PROVE  Types
    BY <1>0, <1>t, <1>l, <1>9, <2>2 DEF cmdRemoveRule, cmdUpdateRule
  <2>3. ASSUME NEW s \in Scopes, NEW c \in Colors, NEW i \in Ids, cmdAddCustomRule(s, i, c)
        PROVE  Types
    BY <1>0, <1>l, <1>9, <2>3 DEF cmdAddCustomRule, LegacyCmds
  <2>4. ASSUME NEW s \in Scopes, NEW c \in Colors, NEW i \in Ids, cmdRemoveCustomRule(s, i, c)
        PROVE  Types
    BY <1>0, <1>t, <1>l, <1>9, <2>4 DEF cmdRemoveCustomRule
  <2>5. ASSUME NEW s \in Scopes, NEW c \in Colors, NEW d \in Domains, cmdAddCustomDomain(s, d, c)
        PROVE  Types
    <3>1. Other(c) \in Colors
      BY DEF Other, Colors
    <3> QED BY <1>d, <1>l, <1>9, <2>5, <3>1 DEF cmdAddCustomDomain, LegacyCmds
  <2>6. ASSUME NEW s \in Scopes, NEW c \in Colors, NEW d \in Domains, cmdRemoveCustomDomain(s, d, c)
        PROVE  Types
    BY <1>d, <1>t, <1>l, <1>9, <2>6 DEF cmdRemoveCustomDomain
  <2>7. CASE LegacySecondCall
    <3>1. Touched /\ lcmd' = Idle /\ started' = started
      BY <2>7 DEF LegacySecondCall
    <3>2. ASSUME names' \in Policies(Domains) PROVE Types
      BY <1>t, <1>9, <3>1, <3>2
    <3>3. CASE names' = names
      BY <1>0, <3>2, <3>3
    <3>4. CASE lcmd.op = "addDomain" /\ addCustomDomain(lcmd.scope, lcmd.x, lcmd.color)
      <4>1. lcmd.scope \in Scopes /\ lcmd.x \in Domains /\ lcmd.color \in Colors
        BY <1>0, <3>4, CommandFields
      <4> QED BY <1>d, <3>2, <3>4, <4>1
    <3> QED BY <2>7, <3>3, <3>4 DEF LegacySecondCall
  <2>8. ASSUME NEW s \in Scopes, NEW c \in Colors,
               \/ \E i \in Ids : cmdAddCustomRule(s, i, c) \/ cmdRemoveCustomRule(s, i, c)
               \/ \E d \in Domains : cmdAddCustomDomain(s, d, c) \/ cmdRemoveCustomDomain(s, d, c)
        PROVE  Types
    BY <2>3, <2>4, <2>5, <2>6, <2>8
  <2> QED BY <1>10, <2>1, <2>2, <2>7, <2>8 DEF LegacyStep
<1> QED BY <1>1, <1>2, <1>3, <1>4, <1>5, <1>6, <1>7, <1>8, <1>10 DEF Next, VNextStep

-----------------------------------------------------------------------------
(* Start and theorems. *)

\* What the files of an earlier run restore is a consistent policy, whatever ids they name.
LEMMA RestoredPolicy ==
    ASSUME NEW file \in RuleMaps, NEW next \in 0..(MaxRuleId + 1), restoreRules(file, next),
           NEW ids \in Policies(Ids), restoreCustomRules(ids)
    PROVE  PolicyInv
<1> USE DomainRulesAssumption
<1>1. DOMAIN file \subseteq Ids /\ \A i \in DOMAIN file : file[i] \in Patterns
  BY RuleMapFacts
<1>2. rules \in [Ids -> Objects \cup {NoObject}]
  BY <1>1 DEF restoreRules, Ids, Objects, NoObject
<1>3. Registered = DOMAIN file /\ \A i \in Registered : rules[i] = i + 1 /\ rules[i] \in Objects
  <2>1. \A i \in Ids : rules[i] = IF i \in DOMAIN file THEN i + 1 ELSE NoObject
    BY DEF restoreRules
  <2>2. \A i \in Ids : i \in Nat /\ i + 1 \in Objects /\ i + 1 # NoObject
    BY DEF Ids, Objects, NoObject
  <2> QED BY <1>1, <2>1, <2>2 DEF Registered
<1>4. /\ DOMAIN obj = {i + 1 : i \in Registered}
      /\ \A i \in Registered : obj[i + 1] = [id |-> i, pattern |-> file[i]]
  BY <1>1, <1>3 DEF restoreRules, Ids
<1>5. \A o \in DOMAIN obj : \E i \in Registered : o = i + 1
  BY <1>4
<1>6. \A o \in DOMAIN obj : obj[o] \in RuleRecords
  <2>1. ASSUME NEW i \in Registered PROVE obj[i + 1] \in RuleRecords
    <3>1. i \in Ids /\ file[i] \in Patterns
      BY <1>1, <1>3
    <3>2. [id |-> i, pattern |-> file[i]] \in RuleRecords
      BY <3>1 DEF RuleRecords
    <3> QED BY <1>4, <3>2
  <2> QED BY <1>5, <2>1
<1>7. \A s \in Scopes, c \in Colors : held[s][c] = {rules[i] : i \in ids[s][c] \cap Registered}
  BY DEF restoreCustomRules
<1>8. \A s \in Scopes, c \in Colors : held[s][c] \subseteq DOMAIN obj /\ held[s][c] \subseteq Objects
  BY <1>3, <1>4, <1>7
<1>9. held \in Policies(Objects)
  BY <1>8 DEF restoreCustomRules, Policies
<1>10. \A i \in Ids : i \notin Registered => rules[i] = NoObject
  BY DEF Registered
<1>11. DOMAIN obj = LiveIn(rules, held)
  <2>1. \A o \in DOMAIN obj : o \in LiveIn(rules, held)
    BY <1>3, <1>5 DEF LiveIn, Registered
  <2>2. \A o \in LiveIn(rules, held) : o \in DOMAIN obj
    <3>1. \A o \in Objects, i \in Ids : rules[i] = o => o \in DOMAIN obj
      BY <1>3, <1>4, <1>10 DEF Objects, NoObject
    <3> QED BY <3>1, <1>8 DEF LiveIn
  <2> QED BY <2>1, <2>2
<1>12. \A s \in Scopes, c \in Colors : snap[s][c] = rebuild(held[s][c], obj)
  BY DEF restoreCustomRules
<1>13. snap \in Policies(RuleRecords)
  <2>1. \A s \in Scopes, c \in Colors : rebuild(held[s][c], obj) \subseteq RuleRecords
    BY <1>6, <1>8 DEF rebuild
  <2>2. snap = [s \in Scopes |-> [c \in Colors |-> rebuild(held[s][c], obj)]]
    BY DEF restoreCustomRules
  <2> QED BY <2>1, <2>2 DEF Policies
<1>14. customs = [o \in Objects |->
          [color |-> IF o \in held[Device]["WHITE"] THEN "WHITE"
                     ELSE IF o \in held[Device]["BLACK"] THEN "BLACK" ELSE "ALLC",
           BLACK |-> {a \in Apps : o \in held[a]["BLACK"]},
           WHITE |-> {a \in Apps : o \in held[a]["WHITE"]}]]
  BY DEF restoreCustomRules
<1>15. customs \in [Objects -> Customs]
  BY <1>14 DEF Customs, Colors
<1>16. idCount \in 0..(MaxRuleId + 1)
  BY DEF restoreRules
<1>17. RegistryInv
  <2>1. \A i \in Registered : i \in Nat
    BY DEF Registered, Ids
  <2>2. ASSUME NEW i \in Registered PROVE obj[rules[i]].id = i
    <3>1. obj[rules[i]] = [id |-> i, pattern |-> file[i]]
      BY <1>3, <1>4
    <3> QED BY <3>1
  <2> QED BY <1>3, <2>1, <2>2 DEF RegistryInv
<1>18. CustomsInv
  <2>1. ASSUME NEW o \in Objects, \A i \in Ids : rules[i] # o PROVE customs[o] = NoCustom
    <3>1. \A s \in Scopes, c \in Colors : o \notin held[s][c]
      BY <1>7, <2>1 DEF Registered
    <3>2. /\ o \notin held[Device]["WHITE"] /\ o \notin held[Device]["BLACK"]
          /\ {a \in Apps : o \in held[a]["BLACK"]} = {} /\ {a \in Apps : o \in held[a]["WHITE"]} = {}
      BY <3>1 DEF Scopes, Colors
    <3> QED BY <1>14, <3>2 DEF NoCustom
  <2>2. \A a \in Apps, c \in Colors, o \in Objects : o \in held[a][c] <=> a \in customs[o][c]
    BY <1>14 DEF Colors
  <2> QED BY <2>1, <2>2 DEF CustomsInv
<1>19. SnapshotInv
  BY <1>12 DEF SnapshotInv, rebuild
<1>20. AppSnapshotsFresh
  BY <1>12 DEF AppSnapshotsFresh, Scopes
<1> QED BY <1>2, <1>6, <1>9, <1>11, <1>13, <1>15, <1>16, <1>17, <1>18, <1>19, <1>20
        DEF PolicyInv, PolicyTypes

LEMMA InitInv == Init => RulesInv
<1> SUFFICES ASSUME Init PROVE RulesInv
  OBVIOUS
<1> USE DomainRulesAssumption
<1>1. PICK file \in RulesFiles, next \in 0..(MaxRuleId + 1) : restoreRules(file, next)
  BY DEF Init
<1>2. \E saved \in [Scopes -> [Colors -> SUBSET (Ids \cup Domains)]] :
        /\ restoreCustomRules([s \in Scopes |-> [c \in Colors |-> saved[s][c] \cap Ids]])
        /\ names = [s \in Scopes |-> [c \in Colors |-> saved[s][c] \cap Domains]]
  BY Zenon DEF Init
<1>3. PICK saved \in [Scopes -> [Colors -> SUBSET (Ids \cup Domains)]] :
        /\ restoreCustomRules([s \in Scopes |-> [c \in Colors |-> saved[s][c] \cap Ids]])
        /\ names = [s \in Scopes |-> [c \in Colors |-> saved[s][c] \cap Domains]]
  BY <1>2
<1>4. [s \in Scopes |-> [c \in Colors |-> saved[s][c] \cap Ids]] \in Policies(Ids)
  BY DEF Policies
<1>5. PolicyInv
  BY <1>1, <1>3, <1>4, RestoredPolicy
<1>6. names \in Policies(Domains)
  BY <1>3 DEF Policies
<1>7. vcmd = Idle /\ lcmd = Idle /\ started = [vnext |-> 0, legacy |-> 0]
  BY DEF Init
<1>8. CommandTypes
  BY <1>7, NotPass DEF CommandTypes
<1> QED BY <1>5, <1>6, <1>8 DEF RulesInv, TypeOK, PolicyInv

\* The inductive invariant holds in every reachable state.
THEOREM RulesInvariant == Spec => []RulesInv
<1>1. RulesInv /\ [Next]_vars => RulesInv'
  <2>1. CASE Next
    BY <2>1, VNextKeeps, LegacyKeeps, CommandsKept DEF RulesInv, TypeOK, PolicyInv, Next
  <2>2. CASE UNCHANGED vars
    BY <2>2 DEF vars, RulesInv, TypeOK, PolicyInv, PolicyTypes, CommandTypes, RegistryInv,
                CustomsInv, SnapshotInv, AppSnapshotsFresh, Registered
  <2> QED BY <2>1, <2>2
<1> QED BY <1>1, InitInv, PTL DEF Spec

\* Every variable of the domain policy keeps its type; an object lives while it is referred to.
THEOREM RulesTypes == Spec => []TypeOK
  BY RulesInvariant, PTL DEF RulesInv

\* What the apps hold is what _customs records, and only registered rules.
LEMMA HeldRegistered == RulesInv => AppReferencesRegistered
<1> SUFFICES ASSUME RulesInv, NEW a \in Apps, NEW c \in Colors
             PROVE  held[a][c] = {rules[i] : i \in {j \in Registered : a \in customs[rules[j]][c]}}
  BY DEF AppReferencesRegistered
<1>1. held[a][c] \subseteq Objects /\ \A i \in Registered : rules[i] \in Objects
  BY DEF RulesInv, TypeOK, PolicyTypes, Policies, Scopes, Registered
<1>2. \A o \in Objects : o \in held[a][c] <=> a \in customs[o][c]
  BY DEF RulesInv, PolicyInv, CustomsInv
<1>3. \A o \in held[a][c] : \E i \in Registered : rules[i] = o
  <2> SUFFICES ASSUME NEW o \in held[a][c] PROVE \E i \in Registered : rules[i] = o
    OBVIOUS
  <2>1. customs[o] # NoCustom
    BY <1>1, <1>2 DEF NoCustom, Colors
  <2>2. \E i \in Ids : rules[i] = o
    BY <1>1, <2>1 DEF RulesInv, PolicyInv, CustomsInv
  <2> QED BY <1>1, <2>2 DEF Registered, Objects, NoObject
<1> QED BY <1>1, <1>2, <1>3

\* Removing a rule reaches every app that refers to it: what the apps hold is
\* what _customs records, and only registered rules.
THEOREM AppsReferToRegisteredRules == Spec => []AppReferencesRegistered
  BY HeldRegistered, RulesInvariant, PTL

\* The snapshot the DNS threads read for an app is what its rules compile to.
THEOREM AppSnapshotsAreFresh == Spec => []AppSnapshotsFresh
  BY RulesInvariant, PTL DEF RulesInv, PolicyInv

-----------------------------------------------------------------------------
(* The next id. *)

\* Ids below 2^32 - 1 do not wrap: a call then spends the next id or moves it
\* above the one it registers.
LEMMA NextIdCalls ==
    ASSUME MaxRuleId + 1 < RuleIdModulus, PolicyTypes, NextIdUnused
    PROVE  /\ \A p \in Patterns : addRule(p) => NextIdUnused'
           /\ \A i \in Ids, p \in Patterns : upsertRuleWithId(i, p) => NextIdUnused'
           /\ \A i \in Ids : removeRule(i) => NextIdUnused'
           /\ \A i \in Ids, p \in Patterns : updateRule(i, p) => NextIdUnused'
           /\ \A s, i, c : addCustom(s, i, c) \/ removeCustom(s, i, c) => NextIdUnused'
<1> USE DomainRulesAssumption
<1>1. idCount \in Nat /\ (\A i \in Ids : i \in Nat /\ i + 1 < RuleIdModulus) /\ rules \in [Ids -> Objects \cup {NoObject}]
  BY DEF PolicyTypes, Ids
<1>2. ASSUME rules' = rules, idCount' = idCount PROVE NextIdUnused'
  BY <1>2 DEF NextIdUnused, Registered
<1>3. ASSUME NEW i \in Ids, NEW o, rules' = [rules EXCEPT ![i] = o], idCount' \in Nat,
             i < idCount', idCount <= idCount'
      PROVE  NextIdUnused'
  <2>1. \A j \in Ids : j # i => rules'[j] = rules[j]
    BY <1>1, <1>3
  <2>2. ASSUME NEW j \in Ids, rules'[j] # NoObject PROVE j < idCount'
    <3>1. j = i \/ j \in Registered
      BY <2>1, <2>2 DEF Registered
    <3> QED BY <1>1, <1>3, <3>1 DEF NextIdUnused
  <2> QED BY <2>2 DEF NextIdUnused, Registered
<1>4. ASSUME NEW p \in Patterns, addRule(p) PROVE NextIdUnused'
  <2>1. idCount \in Ids /\ idCount' = idCount + 1
    BY <1>1, <1>4 DEF addRule
  <2>4. idCount' \in Nat /\ idCount < idCount' /\ idCount <= idCount'
    BY <1>1, <2>1
  <2>2. CASE rules' = rules
    <3>1. \A i \in Registered : i \in Nat /\ i < idCount
      BY <1>1 DEF NextIdUnused, Registered
    <3>2. \A i \in Registered : i < idCount'
      BY <1>1, <2>4, <3>1
    <3> QED BY <2>2, <3>2 DEF NextIdUnused, Registered
  <2>3. CASE \E o \in Free : rules' = [rules EXCEPT ![idCount] = o]
    BY <1>3, <2>1, <2>3, <2>4
  <2> QED BY <1>4, <2>2, <2>3 DEF addRule
<1>5. ASSUME NEW i \in Ids, NEW p \in Patterns, upsertRuleWithId(i, p) PROVE NextIdUnused'
  <2>1. CASE i \in Registered
    BY <1>2, <1>5, <2>1 DEF upsertRuleWithId, updateObject
  <2>2. CASE i \notin Registered
    <3>1. PICK o \in Free : /\ rules' = [rules EXCEPT ![i] = o]
                            /\ idCount' = IF idCount <= i THEN (i + 1) % RuleIdModulus ELSE idCount
      BY <1>5, <2>2 DEF upsertRuleWithId
    <3>2. i < idCount' /\ idCount <= idCount' /\ idCount' \in Nat
      BY <1>1, <3>1
    <3> QED BY <1>3, <3>1, <3>2
  <2> QED BY <2>1, <2>2
<1>6. ASSUME NEW i \in Ids, removeRule(i) PROVE NextIdUnused'
  <2>1. CASE i \notin Registered
    BY <1>2, <1>6, <2>1 DEF removeRule
  <2>2. CASE i \in Registered
    <3>1. rules' = [rules EXCEPT ![i] = NoObject] /\ idCount' = idCount
      BY <1>6, <2>2 DEF removeRule
    <3>2. i < idCount'
      BY <2>2, <3>1 DEF NextIdUnused
    <3>3. idCount' \in Nat /\ idCount <= idCount'
      BY <1>1, <3>1
    <3> QED BY <1>3, <3>1, <3>2, <3>3
  <2> QED BY <2>1, <2>2
<1>7. ASSUME NEW i \in Ids, NEW p \in Patterns, updateRule(i, p) PROVE NextIdUnused'
  BY <1>2, <1>7 DEF updateRule, updateObject
<1>8. ASSUME NEW s, NEW i, NEW c, addCustom(s, i, c) \/ removeCustom(s, i, c) PROVE NextIdUnused'
  BY <1>2, <1>8 DEF addCustom, removeCustom
<1> QED BY <1>4, <1>5, <1>6, <1>7, <1>8

LEMMA NextIdKept ==
    ASSUME MaxRuleId + 1 < RuleIdModulus, RulesInv, NextIdUnused, Next
    PROVE  NextIdUnused'
<1>0. PolicyTypes /\ CommandTypes
  BY DEF RulesInv, TypeOK
<1>f. ASSUME rules' = rules, idCount' = idCount PROVE NextIdUnused'
  BY <1>f DEF NextIdUnused, Registered
<1>1. CASE RulesConflicts
  <2>1. CASE vcmd'.op = "upsert" /\ DOMAIN vcmd.ids # {}
    <3>1. vcmd.ids \in RuleMaps
      BY <1>0, <1>1, CommandFields DEF RulesConflicts, ConflictsCmds
    <3>2. DOMAIN vcmd.ids \in SUBSET (0..MaxRuleId)
      BY <3>1, RuleMapFacts DEF Ids
    <3>3. Max(DOMAIN vcmd.ids) \in 0..MaxRuleId
      BY <2>1, <3>2, GreatestBelow, DomainRulesAssumption
    <3>4. rules' = rules /\ idCount \in Nat /\ idCount' \in Nat /\ idCount <= idCount'
      BY <1>0, <1>1, <2>1, <3>3, DomainRulesAssumption
      DEF RulesConflicts, ensureNextRuleIdAtLeast, PolicyTypes
    <3> QED BY <3>4 DEF NextIdUnused, Registered, Ids
  <2>2. CASE ~(vcmd'.op = "upsert" /\ DOMAIN vcmd.ids # {})
    BY <1>1, <1>f, <2>2 DEF RulesConflicts
  <2> QED BY <2>1, <2>2
<1>2. CASE RulesUpsert
  <2>1. vcmd.ids \in RuleMaps /\ vcmd.fresh \subseteq Patterns
    BY <1>0, <1>2, CommandFields DEF RulesUpsert, UpsertCmds
  <2>2. \A i \in DOMAIN vcmd.ids : i \in Ids /\ vcmd.ids[i] \in Patterns
    BY <2>1, RuleMapFacts
  <2> QED BY <1>0, <1>2, <2>1, <2>2, NextIdCalls DEF RulesUpsert
<1>3. CASE RulesRemove
  <2>1. vcmd.removed \subseteq Ids
    BY <1>0, <1>3, CommandFields DEF RulesRemove, UpsertCmds
  <2> QED BY <1>0, <1>3, <2>1, NextIdCalls DEF RulesRemove
<1>4. CASE PolicyStep
  BY <1>0, <1>4, <1>f, NextIdCalls DEF PolicyStep, policyVars
<1>5. CASE LegacyStep
  <2>1. ASSUME NEW s \in Scopes, NEW c \in Colors,
               \/ \E i \in Ids : cmdAddCustomRule(s, i, c) \/ cmdRemoveCustomRule(s, i, c)
               \/ \E d \in Domains : cmdAddCustomDomain(s, d, c) \/ cmdRemoveCustomDomain(s, d, c)
        PROVE  NextIdUnused'
    BY <1>0, <1>f, <2>1, NextIdCalls
    DEF cmdAddCustomRule, cmdRemoveCustomRule, cmdAddCustomDomain, cmdRemoveCustomDomain
  <2>2. CASE LegacySecondCall
    BY <1>0, <1>f, <2>2, NextIdCalls DEF LegacySecondCall
  <2>3. CASE \E p \in Patterns : cmdAddRule(p)
    BY <1>0, <2>3, NextIdCalls DEF cmdAddRule
  <2>4. CASE \E i \in Ids : cmdRemoveRule(i) \/ \E p \in Patterns : cmdUpdateRule(i, p)
    BY <1>0, <2>4, NextIdCalls DEF cmdRemoveRule, cmdUpdateRule
  <2> QED BY <1>5, <2>1, <2>2, <2>3, <2>4 DEF LegacyStep
<1>6. CASE \/ \E r \in RulesPayloads : RulesApply(r.ids, r.fresh)
           \/ \E s \in Scopes, want \in PolicyPayloads : PolicyApply(s, want)
           \/ RulesAnswer \/ PolicySnapshot \/ PolicyAnswer
  BY <1>6, <1>f DEF RulesApply, PolicyApply, RulesAnswer, PolicySnapshot, PolicyAnswer, policyVars
<1> QED BY <1>1, <1>2, <1>3, <1>4, <1>5, <1>6 DEF Next, VNextStep

\* While ids do not reach 2^32 - 1, where the counter wraps, addRule never
\* answers with the id of another rule.
THEOREM NextIdIsUnused ==
    ASSUME MaxRuleId + 1 < RuleIdModulus
    PROVE  Spec => []NextIdUnused
<1>1. Init => NextIdUnused
  <2> SUFFICES ASSUME Init PROVE NextIdUnused
    OBVIOUS
  <2>1. PICK file \in RulesFiles, next \in 0..(MaxRuleId + 1) :
          (\A i \in DOMAIN file : i < next) /\ restoreRules(file, next)
    BY DEF Init
  <2>2. Registered \subseteq DOMAIN file
    BY <2>1 DEF restoreRules, Registered
  <2> QED BY <2>1, <2>2 DEF restoreRules, NextIdUnused
<1>2. RulesInv /\ NextIdUnused /\ [Next]_vars => NextIdUnused'
  BY NextIdKept DEF vars, NextIdUnused, Registered
<1> QED BY <1>1, <1>2, RulesInvariant, PTL DEF Spec

-----------------------------------------------------------------------------
(* What an apply has installed so far. *)

PatternOf(i) == obj[rules[i]].pattern

\* The rules that DOMAINRULES.APPLY added for patterns without an id.
NewIds == Registered \ (DOMAIN vcmd.all.ids \cup vcmd.removed)

\* DOMAINRULES.APPLY: what was taken off the payload is in the registry, what is
\* left to remove is registered and not of the payload, and the next id is new.
RulesProgress ==
  /\ DOMAIN vcmd.ids \subseteq DOMAIN vcmd.all.ids
  /\ \A i \in DOMAIN vcmd.ids : vcmd.ids[i] = vcmd.all.ids[i]
  /\ \A i \in DOMAIN vcmd.all.ids : i < idCount
  /\ \A i \in DOMAIN vcmd.all.ids \ DOMAIN vcmd.ids : i \in Registered /\ PatternOf(i) = vcmd.all.ids[i]
  /\ vcmd.removed \subseteq Registered \ DOMAIN vcmd.all.ids
  /\ vcmd.fresh \subseteq vcmd.all.fresh
  /\ {PatternOf(i) : i \in NewIds} = vcmd.all.fresh \ vcmd.fresh
  /\ \A i, j \in NewIds : PatternOf(i) = PatternOf(j) => i = j

\* DOMAINPOLICY.APPLY: the passes that ended hold, and the two lists of the pass
\* under way are the difference between what the scope has and what is wanted.
PolicyProgress ==
  /\ vcmd.want[3] \cup vcmd.want[4] \subseteq Registered
  /\ \A k \in 1..4 : k < vcmd.pass => Current(vcmd.scope, Passes[k]) = vcmd.want[k]
  /\ vcmd.op = "pass" =>
       /\ vcmd.rem = Current(vcmd.scope, Passes[vcmd.pass]) \ vcmd.want[vcmd.pass]
       /\ vcmd.add = vcmd.want[vcmd.pass] \ Current(vcmd.scope, Passes[vcmd.pass])

\* All of it while no legacy command has run since the apply began.
ApplyInv ==
  /\ vcmd.op = "conflicts" /\ vcmd.clean => vcmd.removed = Registered \ DOMAIN vcmd.ids
  /\ vcmd.op = "upsert" /\ vcmd.clean => RulesProgress
  /\ vcmd.op \in {"snapshot", "pass"} /\ vcmd.clean /\ vcmd.scope \in Apps => PolicyProgress

\* The ids of an app's rules are those of registered rules it holds.
LEMMA AppIds ==
    ASSUME RulesInv, NEW a \in Apps, NEW c \in Colors
    PROVE  /\ snapshotRuleIds(a, c) \subseteq Registered
           /\ \A o \in held[a][c] : obj[o].id \in Registered /\ rules[obj[o].id] = o
<1>1. \A o \in held[a][c] : \E i \in Registered : rules[i] = o
  BY HeldRegistered DEF AppReferencesRegistered
<1>2. \A i \in Registered : obj[rules[i]].id = i
  BY DEF RulesInv, PolicyInv, RegistryInv
<1>3. \A o \in held[a][c] : obj[o].id \in Registered /\ rules[obj[o].id] = o
  BY <1>1, <1>2
<1> QED BY <1>3 DEF snapshotRuleIds

\* A call for one rule, app and color puts the rule's id in or takes it out, there only.
LEMMA AppCalls ==
    ASSUME RulesInv, NEW a \in Apps, NEW i \in Registered, NEW c \in Colors
    PROVE  /\ removeCustom(a, i, c) =>
                /\ Registered' = Registered
                /\ \A d \in Colors : snapshotRuleIds(a, d)' =
                     IF d = c THEN snapshotRuleIds(a, d) \ {i} ELSE snapshotRuleIds(a, d)
           /\ addCustom(a, i, c) =>
                /\ Registered' = Registered
                /\ \A d \in Colors : snapshotRuleIds(a, d)' =
                     IF d = c THEN snapshotRuleIds(a, d) \cup {i} ELSE snapshotRuleIds(a, d)
<1>0. /\ obj[rules[i]].id = i
      /\ \A d \in Colors : \A o \in held[a][d] : rules[obj[o].id] = o
      /\ held \in Policies(Objects) /\ a \in Scopes
  BY AppIds DEF RulesInv, PolicyInv, PolicyTypes, RegistryInv, Scopes
<1>1. ASSUME NEW hs, held' = [held EXCEPT ![a][c] = hs]
      PROVE  \A d \in Colors : held'[a][d] = IF d = c THEN hs ELSE held[a][d]
  BY <1>0, <1>1 DEF Policies
<1>2. ASSUME removeCustom(a, i, c), NEW d \in Colors
      PROVE  /\ Registered' = Registered
             /\ snapshotRuleIds(a, d)' =
                  IF d = c THEN snapshotRuleIds(a, d) \ {i} ELSE snapshotRuleIds(a, d)
  <2>1. rules' = rules /\ obj' = obj /\ held' = [held EXCEPT ![a][c] = held[a][c] \ {rules[i]}]
    BY <1>2 DEF removeCustom
  <2>2. held'[a][d] = IF d = c THEN held[a][d] \ {rules[i]} ELSE held[a][d]
    BY <1>1, <2>1
  <2>3. \A o \in held[a][d] : obj[o].id = i <=> o = rules[i]
    BY <1>0
  <2>4. snapshotRuleIds(a, d)' =
          IF d = c THEN snapshotRuleIds(a, d) \ {i} ELSE snapshotRuleIds(a, d)
    BY <2>1, <2>2, <2>3 DEF snapshotRuleIds
  <2> QED BY <2>1, <2>4 DEF Registered
<1>3. ASSUME addCustom(a, i, c), NEW d \in Colors
      PROVE  /\ Registered' = Registered
             /\ snapshotRuleIds(a, d)' =
                  IF d = c THEN snapshotRuleIds(a, d) \cup {i} ELSE snapshotRuleIds(a, d)
  <2>1. rules' = rules /\ obj' = obj /\ held' = [held EXCEPT ![a][c] = held[a][c] \cup {rules[i]}]
    BY <1>3 DEF addCustom
  <2>2. held'[a][d] = IF d = c THEN held[a][d] \cup {rules[i]} ELSE held[a][d]
    BY <1>1, <2>1
  <2>4. snapshotRuleIds(a, d)' =
          IF d = c THEN snapshotRuleIds(a, d) \cup {i} ELSE snapshotRuleIds(a, d)
    BY <1>0, <2>1, <2>2 DEF snapshotRuleIds
  <2> QED BY <2>1, <2>4 DEF Registered
<1>4. \E d \in Colors : TRUE
  BY DEF Colors
<1> QED BY <1>2, <1>3, <1>4

\* A call of RulesManager with one id leaves the other rules as they are.
LEMMA RegistryCalls ==
    ASSUME PolicyInv, NEW i \in Ids, NEW p \in Patterns
    PROVE  /\ upsertRuleWithId(i, p) /\ i < idCount =>
                /\ Registered' = Registered \cup {i}
                /\ obj'[rules'[i]].pattern = p
                /\ \A j \in Registered \ {i} : obj'[rules'[j]] = obj[rules[j]]
                /\ idCount' = idCount
           /\ removeRule(i) =>
                /\ Registered' = Registered \ {i}
                /\ \A j \in Registered \ {i} : obj'[rules'[j]] = obj[rules[j]]
                /\ idCount' = idCount
<1>0. /\ rules \in [Ids -> Objects \cup {NoObject}]
      /\ \A j \in Registered : rules[j] \in DOMAIN obj /\ obj[rules[j]] \in RuleRecords
      /\ \A j \in Registered : rules[j] \in Objects /\ j \in Ids
      /\ \A j, k \in Registered : rules[j] = rules[k] => j = k
      /\ idCount \in Nat /\ i \in Nat
  BY HeldAlive, DomainRulesAssumption DEF PolicyInv, PolicyTypes, RegistryInv, Ids, Registered
<1>1. ASSUME upsertRuleWithId(i, p), i < idCount
      PROVE  /\ Registered' = Registered \cup {i}
             /\ obj'[rules'[i]].pattern = p
             /\ \A j \in Registered \ {i} : obj'[rules'[j]] = obj[rules[j]]
             /\ idCount' = idCount
  <2>1. CASE i \in Registered
    <3>1. rules' = rules /\ idCount' = idCount /\ obj' = [obj EXCEPT ![rules[i]].pattern = p]
      BY <1>1, <2>1 DEF upsertRuleWithId, updateObject
    <3>2. obj'[rules'[i]].pattern = p
      BY <1>0, <2>1, <3>1 DEF RuleRecords
    <3>3. \A j \in Registered \ {i} : obj'[rules'[j]] = obj[rules[j]]
      BY <1>0, <2>1, <3>1
    <3>4. Registered' = Registered
      BY <3>1 DEF Registered
    <3> QED BY <2>1, <3>1, <3>2, <3>3, <3>4
  <2>2. CASE i \notin Registered
    <3>1. PICK o \in Free :
            /\ rules' = [rules EXCEPT ![i] = o]
            /\ obj' = [x \in DOMAIN obj \cup {o} |->
                         IF x = o THEN [id |-> i, pattern |-> p] ELSE obj[x]]
            /\ idCount' = IF idCount <= i THEN (i + 1) % RuleIdModulus ELSE idCount
      BY <1>1, <2>2 DEF upsertRuleWithId
    <3>2. o # NoObject /\ o \notin DOMAIN obj
      BY DEF PolicyInv, PolicyTypes, Free, Objects, NoObject
    <3>3. Registered' = Registered \cup {i}
      BY <1>0, <3>1, <3>2 DEF Registered
    <3>4. rules'[i] = o /\ obj'[o] = [id |-> i, pattern |-> p]
      BY <1>0, <3>1
    <3>5. \A j \in Registered \ {i} : rules'[j] = rules[j] /\ obj'[rules[j]] = obj[rules[j]]
      BY <1>0, <3>1, <3>2
    <3>6. idCount' = idCount
      BY <1>0, <1>1, <3>1
    <3> QED BY <3>3, <3>4, <3>5, <3>6
  <2> QED BY <2>1, <2>2
<1>2. ASSUME removeRule(i)
      PROVE  /\ Registered' = Registered \ {i}
             /\ \A j \in Registered \ {i} : obj'[rules'[j]] = obj[rules[j]]
             /\ idCount' = idCount
  <2>1. CASE i \notin Registered
    BY <1>2, <2>1 DEF removeRule, Registered
  <2>2. CASE i \in Registered
    <3>1. /\ rules' = [rules EXCEPT ![i] = NoObject]
          /\ \E h : obj' = Restrict(obj, LiveIn(rules', h))
          /\ idCount' = idCount
      BY <1>2, <2>2 DEF removeRule
    <3>2. \A j \in Registered \ {i} : rules'[j] = rules[j]
      BY <1>0, <3>1
    <3>3. \A j \in Registered \ {i} : \A h : rules[j] \in LiveIn(rules', h)
      BY <1>0, <3>2 DEF LiveIn
    <3>4. \A j \in Registered \ {i} : obj'[rules[j]] = obj[rules[j]]
      BY <3>1, <3>3 DEF Restrict
    <3>5. Registered' = Registered \ {i}
      BY <1>0, <3>1 DEF Registered
    <3> QED BY <3>1, <3>2, <3>4, <3>5
  <2> QED BY <2>1, <2>2
<1> QED BY <1>1, <1>2

\* Below the last id, a new rule gets an id nobody has.
LEMMA AddRuleCall ==
    ASSUME MaxRuleId + 1 < RuleIdModulus, PolicyInv, NextIdUnused, NEW p \in Patterns, addRule(p)
    PROVE  /\ idCount \in Ids \ Registered
           /\ Registered' = Registered \cup {idCount}
           /\ obj'[rules'[idCount]].pattern = p
           /\ \A j \in Registered : obj'[rules'[j]] = obj[rules[j]]
           /\ idCount' = idCount + 1
<1>0. /\ rules \in [Ids -> Objects \cup {NoObject}]
      /\ \A j \in Registered : rules[j] \in DOMAIN obj /\ j \in Ids
      /\ idCount \in Nat
  <2>1. \A j \in Registered : rules[j] \in DOMAIN obj
    BY HeldAlive DEF PolicyInv
  <2>2. \A j \in Registered : j \in Ids
    BY DEF Registered
  <2>3. idCount \in Nat /\ rules \in [Ids -> Objects \cup {NoObject}]
    BY DomainRulesAssumption DEF PolicyInv, PolicyTypes, Ids
  <2> QED BY <2>1, <2>2, <2>3
<1>1. idCount \in Ids \ Registered
  BY <1>0 DEF NextIdUnused, addRule
<1>2. PICK o \in Free : /\ rules' = [rules EXCEPT ![idCount] = o]
                        /\ obj' = [x \in DOMAIN obj \cup {o} |->
                                     IF x = o THEN [id |-> idCount, pattern |-> p] ELSE obj[x]]
  BY <1>1 DEF addRule, Registered
<1>3. o # NoObject /\ o \notin DOMAIN obj
  BY DEF PolicyInv, PolicyTypes, Free, Objects, NoObject
<1>4. Registered' = Registered \cup {idCount}
  BY <1>0, <1>1, <1>2, <1>3 DEF Registered
<1>5. rules'[idCount] = o /\ obj'[o] = [id |-> idCount, pattern |-> p]
  BY <1>0, <1>1, <1>2
<1>6. \A j \in Registered : rules'[j] = rules[j] /\ obj'[rules[j]] = obj[rules[j]]
  BY <1>0, <1>1, <1>2, <1>3
<1>7. idCount' = idCount + 1
  BY <1>0, <1>1, DomainRulesAssumption DEF addRule, Ids
<1> QED BY <1>1, <1>4, <1>5, <1>6, <1>7

\* The same of what a pass reads: a call changes the set of its own pass only.
LEMMA DomainCalls ==
    ASSUME RulesInv, NEW s \in Scopes, NEW k \in 1..4, Passes[k][1] = "domain", NEW x,
           UNCHANGED <<rules, obj, idCount, customs, held, snap>>
    PROVE  /\ removeCustomDomain(s, x, Passes[k][2]) =>
                /\ Registered' = Registered
                /\ \A j \in 1..4 : Current(s, Passes[j])' =
                     IF j = k THEN Current(s, Passes[k]) \ {x} ELSE Current(s, Passes[j])
           /\ addCustomDomain(s, x, Passes[k][2]) =>
                /\ Registered' = Registered
                /\ \A j \in 1..4 : Current(s, Passes[j])' =
                     IF j = k THEN Current(s, Passes[k]) \cup {x} ELSE Current(s, Passes[j])
<1> DEFINE c == Passes[k][2]
<1>1. c \in Colors /\ names \in Policies(Domains)
  BY PassFacts DEF RulesInv, TypeOK
<1>2. Registered' = Registered /\ \A d \in Colors : snapshotRuleIds(s, d)' = snapshotRuleIds(s, d)
  BY DEF Registered, snapshotRuleIds
<1>3. ASSUME NEW ns, names' = [names EXCEPT ![s][c] = ns], NEW j \in 1..4
      PROVE  Current(s, Passes[j])' = IF j = k THEN ns ELSE Current(s, Passes[j])
  <2>1. Passes[j][2] \in Colors
    BY PassFacts
  <2>2. \A d \in Colors : names'[s][d] = IF d = c THEN ns ELSE names[s][d]
    BY <1>1, <1>3 DEF Policies
  <2>3. Passes[j][1] = "domain" /\ Passes[j][2] = c => j = k
    BY DEF Passes
  <2> QED BY <1>2, <2>1, <2>2, <2>3 DEF Current
<1>4. Current(s, Passes[k]) = names[s][c]
  BY DEF Current
<1> QED BY <1>2, <1>3, <1>4 DEF removeCustomDomain, addCustomDomain

LEMMA RuleCalls ==
    ASSUME RulesInv, NEW a \in Apps, NEW k \in 1..4, Passes[k][1] # "domain",
           NEW i \in Registered, UNCHANGED names
    PROVE  /\ removeCustom(a, i, Passes[k][2]) =>
                /\ Registered' = Registered
                /\ \A j \in 1..4 : Current(a, Passes[j])' =
                     IF j = k THEN Current(a, Passes[k]) \ {i} ELSE Current(a, Passes[j])
           /\ addCustom(a, i, Passes[k][2]) =>
                /\ Registered' = Registered
                /\ \A j \in 1..4 : Current(a, Passes[j])' =
                     IF j = k THEN Current(a, Passes[k]) \cup {i} ELSE Current(a, Passes[j])
<1> DEFINE c == Passes[k][2]
<1>1. c \in Colors /\ \A j \in 1..4 : Passes[j][2] \in Colors
  BY PassFacts
<1>2. \A j \in 1..4 : Passes[j][1] # "domain" /\ Passes[j][2] = c => j = k
  BY DEF Passes
<1>3. \A j \in 1..4 : /\ Passes[j][1] = "domain" => j # k /\ Current(a, Passes[j])' = Current(a, Passes[j])
                      /\ Passes[j][1] # "domain" =>
                           /\ Current(a, Passes[j]) = snapshotRuleIds(a, Passes[j][2])
                           /\ Current(a, Passes[j])' = snapshotRuleIds(a, Passes[j][2])'
  BY DEF Current
<1>4. ASSUME removeCustom(a, i, c)
      PROVE  /\ Registered' = Registered
             /\ \A j \in 1..4 : Current(a, Passes[j])' =
                  IF j = k THEN Current(a, Passes[k]) \ {i} ELSE Current(a, Passes[j])
  <2>1. /\ Registered' = Registered
        /\ \A d \in Colors : snapshotRuleIds(a, d)' =
             IF d = c THEN snapshotRuleIds(a, d) \ {i} ELSE snapshotRuleIds(a, d)
    BY <1>1, <1>4, AppCalls
  <2> QED BY <1>1, <1>2, <1>3, <2>1
<1>5. ASSUME addCustom(a, i, c)
      PROVE  /\ Registered' = Registered
             /\ \A j \in 1..4 : Current(a, Passes[j])' =
                  IF j = k THEN Current(a, Passes[k]) \cup {i} ELSE Current(a, Passes[j])
  <2>1. /\ Registered' = Registered
        /\ \A d \in Colors : snapshotRuleIds(a, d)' =
             IF d = c THEN snapshotRuleIds(a, d) \cup {i} ELSE snapshotRuleIds(a, d)
    BY <1>1, <1>5, AppCalls
  <2> QED BY <1>1, <1>2, <1>3, <2>1
<1> QED BY <1>4, <1>5

\* A step of DOMAINPOLICY.APPLY changes the wanted set of its pass only.
LEMMA PolicyStepProgress ==
    ASSUME RulesInv, ApplyInv, PolicyStep, vcmd'.clean, vcmd'.scope \in Apps
    PROVE  PolicyProgress'
<1>a. vcmd \in PassCmds /\ vcmd.pass \in 1..4 /\ vcmd.op = "pass"
  BY CommandFields DEF PolicyStep, PassCmds, RulesInv, TypeOK
<1>b. vcmd'.scope = vcmd.scope /\ vcmd.clean /\ vcmd'.want = vcmd.want
  BY <1>a DEF PolicyStep, PassCmds
<1>c. PICK k \in 1..4 : k = vcmd.pass
  BY <1>a
<1>d. PICK s \in Apps : s = vcmd.scope /\ s = vcmd'.scope
  BY <1>b
<1> DEFINE c == Passes[k][2]
<1>0. vcmd \in PassCmds /\ k \in 1..4 /\ c \in Colors /\ vcmd.op = "pass" /\ k = vcmd.pass
  BY <1>a, <1>c, PassFacts
<1>1. /\ s = vcmd.scope /\ s = vcmd'.scope /\ vcmd.clean /\ vcmd'.want = vcmd.want
      /\ s \in Apps /\ s \in Scopes
  BY <1>b, <1>d DEF Scopes
<1>s. k \in 1..4 /\ s \in Apps /\ s \in Scopes
  BY <1>1
<1>2. PolicyProgress
  BY <1>0, <1>1 DEF ApplyInv
<1>3. /\ vcmd.want[3] \cup vcmd.want[4] \subseteq Registered
      /\ \A j \in 1..4 : j < k => Current(s, Passes[j]) = vcmd.want[j]
      /\ vcmd.rem = Current(s, Passes[k]) \ vcmd.want[k]
      /\ vcmd.add = vcmd.want[k] \ Current(s, Passes[k])
  BY <1>0, <1>1, <1>2 DEF PolicyProgress
<1>4. \A j \in 1..4 : j # k => Passes[j] # Passes[k]
  BY <1>0 DEF Passes
<1>5. ASSUME UNCHANGED policyVars, vcmd.rem = {}, vcmd.add = {},
             vcmd'.op = "snapshot", vcmd'.pass = k + 1
      PROVE  PolicyProgress'
  <2>1. Registered' = Registered /\ \A j \in 1..4 : Current(s, Passes[j])' = Current(s, Passes[j])
    BY <1>5 DEF policyVars, Registered, Current, snapshotRuleIds
  <2>2. Current(s, Passes[k]) = vcmd.want[k]
    BY <1>3, <1>5
  <2>3. \A j \in 1..4 : j < k + 1 => Current(s, Passes[j]) = vcmd.want[j]
    BY <1>0, <1>3, <2>2
  <2> QED BY <1>1, <1>3, <1>5, <2>1, <2>3 DEF PolicyProgress
\* One element goes from the scope and the list of removals, or from the list of additions into it.
<1>6. ASSUME NEW rem, NEW add, NEW cur, Registered' = Registered,
             \A j \in 1..4 : Current(s, Passes[j])' = IF j = k THEN cur ELSE Current(s, Passes[j]),
             rem = cur \ vcmd.want[k], add = vcmd.want[k] \ cur,
             vcmd'.rem = rem, vcmd'.add = add, vcmd'.pass = k
      PROVE  PolicyProgress'
  <2>1. \A j \in 1..4 : j < k => Current(s, Passes[j])' = vcmd.want[j]
    BY <1>0, <1>3, <1>6
  <2>2. Current(s, Passes[k])' = cur
    BY <1>0, <1>6
  <2> QED BY <1>1, <1>3, <1>6, <2>1, <2>2 DEF PolicyProgress
<1>7. ASSUME NEW x \in vcmd.rem, vcmd' = [vcmd EXCEPT !.rem = @ \ {x}],
             \/ Passes[k][1] = "domain" /\ removeCustomDomain(s, x, c)
                   /\ UNCHANGED <<rules, obj, idCount, customs, held, snap>>
             \/ Passes[k][1] # "domain" /\ removeCustom(s, x, c) /\ UNCHANGED names
      PROVE  PolicyProgress'
  <2>1. vcmd'.rem = vcmd.rem \ {x} /\ vcmd'.add = vcmd.add /\ vcmd'.pass = k
    BY <1>0, <1>7 DEF PassCmds
  <2>2. /\ Registered' = Registered
        /\ \A j \in 1..4 : Current(s, Passes[j])' =
             IF j = k THEN Current(s, Passes[k]) \ {x} ELSE Current(s, Passes[j])
    <3>1. CASE Passes[k][1] = "domain"
      <4>1. removeCustomDomain(s, x, c) /\ UNCHANGED <<rules, obj, idCount, customs, held, snap>>
        BY <1>7, <3>1
      <4> QED BY ONLY RulesInv, <1>s, <3>1, <4>1, DomainCalls, ZenonT(90)
    <3>2. CASE Passes[k][1] # "domain"
      <4>1. x \in snapshotRuleIds(s, c)
        BY <1>3, <1>7, <3>2 DEF Current
      <4>2. x \in Registered
        BY <1>0, <1>1, <4>1, AppIds
      <4>3. removeCustom(s, x, c) /\ UNCHANGED names
        BY <1>7, <3>2
      <4> QED BY ONLY RulesInv, <1>s, <3>2, <4>2, <4>3, RuleCalls
    <3> QED BY <3>1, <3>2
  <2>3. x \notin vcmd.want[k]
    BY <1>3
  <2>4. /\ vcmd.rem \ {x} = (Current(s, Passes[k]) \ {x}) \ vcmd.want[k]
        /\ vcmd.add = vcmd.want[k] \ (Current(s, Passes[k]) \ {x})
    BY <1>3, <2>3
  <2> HIDE DEF c
  <2> QED BY <1>6, <2>1, <2>2, <2>4
<1>8. ASSUME NEW x \in vcmd.add, vcmd' = [vcmd EXCEPT !.add = @ \ {x}],
             \/ Passes[k][1] = "domain" /\ addCustomDomain(s, x, c)
                   /\ UNCHANGED <<rules, obj, idCount, customs, held, snap>>
             \/ Passes[k][1] # "domain" /\ addCustom(s, x, c) /\ UNCHANGED names
      PROVE  PolicyProgress'
  <2>1. vcmd'.add = vcmd.add \ {x} /\ vcmd'.rem = vcmd.rem /\ vcmd'.pass = k
    BY <1>0, <1>8 DEF PassCmds
  <2>2. /\ Registered' = Registered
        /\ \A j \in 1..4 : Current(s, Passes[j])' =
             IF j = k THEN Current(s, Passes[k]) \cup {x} ELSE Current(s, Passes[j])
    <3>1. CASE Passes[k][1] = "domain"
      <4>1. addCustomDomain(s, x, c) /\ UNCHANGED <<rules, obj, idCount, customs, held, snap>>
        BY <1>8, <3>1
      <4> QED BY ONLY RulesInv, <1>s, <3>1, <4>1, DomainCalls, ZenonT(90)
    <3>2. CASE Passes[k][1] # "domain"
      <4>1. x \in vcmd.want[k]
        BY <1>3, <1>8
      <4>2. k = 3 \/ k = 4
        BY <1>0, <3>2, PassFacts
      <4>3. x \in Registered
        BY <1>3, <4>1, <4>2
      <4>4. addCustom(s, x, c) /\ UNCHANGED names
        BY <1>8, <3>2
      <4> QED BY ONLY RulesInv, <1>s, <3>2, <4>3, <4>4, RuleCalls
    <3> QED BY <3>1, <3>2
  <2>3. x \in vcmd.want[k]
    BY <1>3
  <2>4. /\ vcmd.rem = (Current(s, Passes[k]) \cup {x}) \ vcmd.want[k]
        /\ vcmd.add \ {x} = vcmd.want[k] \ (Current(s, Passes[k]) \cup {x})
    BY <1>3, <2>3
  <2> HIDE DEF c
  <2> QED BY <1>6, <2>1, <2>2, <2>4
<1> QED
  <2>1. \/ \E x \in vcmd.rem :
             /\ IF Passes[k][1] = "domain"
                THEN removeCustomDomain(s, x, c) /\ UNCHANGED <<rules, obj, idCount, customs, held, snap>>
                ELSE removeCustom(s, x, c) /\ UNCHANGED names
             /\ vcmd' = [vcmd EXCEPT !.rem = @ \ {x}]
        \/ \E x \in vcmd.add :
             /\ IF Passes[k][1] = "domain"
                THEN addCustomDomain(s, x, c) /\ UNCHANGED <<rules, obj, idCount, customs, held, snap>>
                ELSE addCustom(s, x, c) /\ UNCHANGED names
             /\ vcmd' = [vcmd EXCEPT !.add = @ \ {x}]
        \/ /\ vcmd.rem = {} /\ vcmd.add = {}
           /\ vcmd'.op = "snapshot" /\ vcmd'.pass = k + 1
           /\ UNCHANGED policyVars
    BY <1>0, <1>1 DEF PolicyStep
  <2> HIDE DEF c
  <2> QED BY <1>5, <1>7, <1>8, <2>1

\* An upsert of DOMAINRULES.APPLY puts one rule of the payload into the registry.
LEMMA UpsertProgress ==
    ASSUME MaxRuleId + 1 < RuleIdModulus, RulesInv, NextIdUnused, ApplyInv, RulesUpsert, vcmd'.clean
    PROVE  RulesProgress'
<1>0. PolicyInv /\ vcmd \in UpsertCmds /\ vcmd.op = "upsert"
  BY CommandFields DEF RulesInv, TypeOK, RulesUpsert
<1>1. vcmd.clean
  BY <1>0 DEF RulesUpsert, UpsertCmds
<1>2. RulesProgress
  BY <1>0, <1>1 DEF ApplyInv
<1>3. /\ vcmd.ids \in RuleMaps /\ vcmd.all.ids \in RuleMaps /\ vcmd.fresh \subseteq Patterns
      /\ DOMAIN vcmd.all.ids \subseteq Ids
      /\ \A i \in DOMAIN vcmd.ids : i \in Ids /\ vcmd.ids[i] \in Patterns
      /\ idCount \in Nat /\ Ids \subseteq Nat
  <2>1. vcmd.ids \in RuleMaps /\ vcmd.all.ids \in RuleMaps /\ vcmd.fresh \subseteq Patterns
    BY <1>0 DEF UpsertCmds
  <2>2. idCount \in Nat /\ Ids \subseteq Nat
    BY <1>0, DomainRulesAssumption DEF PolicyInv, PolicyTypes, Ids
  <2> QED BY <2>1, <2>2, RuleMapFacts
<1>4. ASSUME NEW i \in DOMAIN vcmd.ids, upsertRuleWithId(i, vcmd.ids[i]),
             vcmd' = [vcmd EXCEPT !.ids = Restrict(@, DOMAIN @ \ {i})]
      PROVE  RulesProgress'
  <2>1. /\ vcmd'.all = vcmd.all /\ vcmd'.removed = vcmd.removed /\ vcmd'.fresh = vcmd.fresh
        /\ vcmd'.ids = Restrict(vcmd.ids, DOMAIN vcmd.ids \ {i})
    BY <1>0, <1>4 DEF UpsertCmds
  <2>2. /\ DOMAIN vcmd'.ids = DOMAIN vcmd.ids \ {i}
        /\ \A j \in DOMAIN vcmd'.ids : vcmd'.ids[j] = vcmd.ids[j]
    BY <2>1 DEF Restrict
  <2>3. i \in DOMAIN vcmd.all.ids /\ i < idCount /\ vcmd.ids[i] = vcmd.all.ids[i]
    BY <1>2 DEF RulesProgress
  <2>4. /\ Registered' = Registered \cup {i}
        /\ obj'[rules'[i]].pattern = vcmd.ids[i]
        /\ \A j \in Registered \ {i} : obj'[rules'[j]] = obj[rules[j]]
        /\ idCount' = idCount
    BY <1>0, <1>3, <1>4, <2>3, RegistryCalls
  <2>5. NewIds' = NewIds /\ \A j \in NewIds : PatternOf(j)' = PatternOf(j)
    BY <2>1, <2>3, <2>4 DEF NewIds, PatternOf
  <2>6. \A j \in DOMAIN vcmd.all.ids \ DOMAIN vcmd'.ids :
           j \in Registered' /\ PatternOf(j)' = vcmd.all.ids[j]
    <3> SUFFICES ASSUME NEW j \in DOMAIN vcmd.all.ids \ DOMAIN vcmd'.ids
                 PROVE  j \in Registered' /\ PatternOf(j)' = vcmd.all.ids[j]
      OBVIOUS
    <3>1. CASE j = i
      BY <2>3, <2>4, <3>1 DEF PatternOf
    <3>2. CASE j # i
      <4>1. j \in Registered /\ PatternOf(j) = vcmd.all.ids[j]
        BY <1>2, <2>2, <3>2 DEF RulesProgress
      <4> QED BY <2>4, <3>2, <4>1 DEF PatternOf
    <3> QED BY <3>1, <3>2
  <2>7. {PatternOf(j) : j \in NewIds}' = {PatternOf(j) : j \in NewIds}
    BY <2>5
  <2>8. \A j, k \in NewIds' : PatternOf(j)' = PatternOf(k)' => j = k
    BY <1>2, <2>5 DEF RulesProgress
  <2>9. /\ DOMAIN vcmd'.ids \subseteq DOMAIN vcmd'.all.ids
        /\ \A j \in DOMAIN vcmd'.ids : vcmd'.ids[j] = vcmd'.all.ids[j]
        /\ \A j \in DOMAIN vcmd'.all.ids : j < idCount'
        /\ vcmd'.removed \subseteq Registered' \ DOMAIN vcmd'.all.ids
        /\ vcmd'.fresh \subseteq vcmd'.all.fresh
    BY <1>2, <2>1, <2>2, <2>4 DEF RulesProgress
  <2> QED BY <1>2, <2>1, <2>6, <2>7, <2>8, <2>9 DEF RulesProgress
<1>5. ASSUME NEW p \in vcmd.fresh, addRule(p), vcmd' = [vcmd EXCEPT !.fresh = @ \ {p}]
      PROVE  RulesProgress'
  <2>1. /\ vcmd'.all = vcmd.all /\ vcmd'.removed = vcmd.removed /\ vcmd'.ids = vcmd.ids
        /\ vcmd'.fresh = vcmd.fresh \ {p}
    BY <1>0, <1>5 DEF UpsertCmds
  <2>2. PICK n \in Ids : n = idCount
    BY <1>5 DEF addRule
  <2>3. /\ n \notin Registered
        /\ Registered' = Registered \cup {n}
        /\ obj'[rules'[n]].pattern = p
        /\ \A j \in Registered : obj'[rules'[j]] = obj[rules[j]]
        /\ idCount' = idCount + 1
    <3>1. p \in Patterns
      BY <1>3
    <3>2. obj'[rules'[idCount]].pattern = p
      BY <1>0, <1>5, <3>1, AddRuleCall
    <3> QED BY <1>0, <1>5, <2>2, <3>1, <3>2, AddRuleCall
  <2>4. n \notin DOMAIN vcmd.all.ids /\ n \notin vcmd.removed
    BY <1>2, <1>3, <2>2, <2>3 DEF RulesProgress
  <2>5. /\ NewIds' = NewIds \cup {n} /\ n \notin NewIds
        /\ PatternOf(n)' = p
        /\ \A j \in NewIds : PatternOf(j)' = PatternOf(j)
    BY <2>1, <2>3, <2>4 DEF NewIds, PatternOf
  <2>6. \A j \in DOMAIN vcmd.all.ids \ DOMAIN vcmd.ids :
           j \in Registered' /\ PatternOf(j)' = vcmd.all.ids[j]
    BY <1>2, <2>3 DEF RulesProgress, PatternOf
  <2>7. /\ {PatternOf(j) : j \in NewIds} = vcmd.all.fresh \ vcmd.fresh
        /\ p \in vcmd.all.fresh
    BY <1>2 DEF RulesProgress
  <2>8. {PatternOf(j) : j \in NewIds}' = vcmd.all.fresh \ (vcmd.fresh \ {p})
    <3>1. {PatternOf(j) : j \in NewIds}' = {PatternOf(j) : j \in NewIds} \cup {p}
      BY <2>5
    <3> QED BY <2>7, <3>1
  <2>9. \A j, k \in NewIds' : PatternOf(j)' = PatternOf(k)' => j = k
    <3>1. \A j \in NewIds : PatternOf(j) # p
      BY <2>7
    <3>2. \A j, k \in NewIds : PatternOf(j) = PatternOf(k) => j = k
      BY <1>2 DEF RulesProgress
    <3> QED BY <2>5, <3>1, <3>2
  <2>10. \A j \in DOMAIN vcmd.all.ids : j < idCount + 1
    <3> SUFFICES ASSUME NEW j \in DOMAIN vcmd.all.ids PROVE j < idCount + 1
      OBVIOUS
    <3>1. j < idCount
      BY <1>2 DEF RulesProgress
    <3>2. j \in Nat /\ idCount \in Nat
      BY <1>3
    <3> QED BY <3>1, <3>2
  <2>11. /\ DOMAIN vcmd'.ids \subseteq DOMAIN vcmd'.all.ids
         /\ \A j \in DOMAIN vcmd'.ids : vcmd'.ids[j] = vcmd'.all.ids[j]
         /\ vcmd'.removed \subseteq Registered' \ DOMAIN vcmd'.all.ids
         /\ vcmd'.fresh \subseteq vcmd'.all.fresh
    BY <1>2, <2>1, <2>3 DEF RulesProgress
  <2> QED BY <2>1, <2>3, <2>6, <2>8, <2>9, <2>10, <2>11 DEF RulesProgress
<1> QED BY <1>4, <1>5 DEF RulesUpsert

\* A removal takes a rule that is not of the payload out of the registry.
LEMMA RemoveProgress ==
    ASSUME RulesInv, ApplyInv, RulesRemove, vcmd'.clean
    PROVE  RulesProgress'
<1>0. PolicyInv /\ vcmd \in UpsertCmds /\ vcmd.op = "upsert"
  BY CommandFields DEF RulesInv, TypeOK, RulesRemove
<1>1. PICK i \in vcmd.removed : removeRule(i) /\ vcmd' = [vcmd EXCEPT !.removed = @ \ {i}]
  BY DEF RulesRemove
<1>2. /\ vcmd'.all = vcmd.all /\ vcmd'.ids = vcmd.ids /\ vcmd'.fresh = vcmd.fresh
      /\ vcmd'.removed = vcmd.removed \ {i} /\ vcmd.clean /\ i \in Ids
  BY <1>0, <1>1 DEF UpsertCmds
<1>3. RulesProgress
  BY <1>0, <1>2 DEF ApplyInv
<1>4. i \in Registered /\ i \notin DOMAIN vcmd.all.ids
  BY <1>3 DEF RulesProgress
<1>5. /\ Registered' = Registered \ {i}
      /\ \A j \in Registered \ {i} : obj'[rules'[j]] = obj[rules[j]]
      /\ idCount' = idCount
  <2>1. obj[rules[i]].pattern \in Patterns
    BY <1>0, <1>4, HeldAlive DEF PolicyInv, PolicyTypes, RuleRecords
  <2> QED BY <1>0, <1>1, <1>2, <2>1, RegistryCalls
<1>6. NewIds' = NewIds /\ \A j \in NewIds : PatternOf(j)' = PatternOf(j)
  BY <1>2, <1>5 DEF NewIds, PatternOf
<1>7. \A j \in DOMAIN vcmd.all.ids \ DOMAIN vcmd.ids :
         j \in Registered' /\ PatternOf(j)' = vcmd.all.ids[j]
  BY <1>3, <1>4, <1>5 DEF RulesProgress, PatternOf
<1>8. {PatternOf(j) : j \in NewIds}' = {PatternOf(j) : j \in NewIds}
  BY <1>6
<1>9. \A j, k \in NewIds' : PatternOf(j)' = PatternOf(k)' => j = k
  BY <1>3, <1>6 DEF RulesProgress
<1>10. /\ DOMAIN vcmd'.ids \subseteq DOMAIN vcmd'.all.ids
       /\ \A j \in DOMAIN vcmd'.ids : vcmd'.ids[j] = vcmd'.all.ids[j]
       /\ \A j \in DOMAIN vcmd'.all.ids : j < idCount'
       /\ vcmd'.removed \subseteq Registered' \ DOMAIN vcmd'.all.ids
       /\ vcmd'.fresh \subseteq vcmd'.all.fresh
  BY <1>2, <1>3, <1>5 DEF RulesProgress
<1> QED BY <1>2, <1>3, <1>7, <1>8, <1>9, <1>10 DEF RulesProgress

\* The apply begins with every registered rule either of the payload or to be removed.
LEMMA ConflictsProgress ==
    ASSUME RulesInv, ApplyInv, RulesConflicts, vcmd'.op = "upsert", vcmd'.clean
    PROVE  RulesProgress'
<1>0. PolicyTypes /\ vcmd \in ConflictsCmds /\ vcmd.op = "conflicts"
  BY CommandFields DEF RulesInv, TypeOK, RulesConflicts
<1>1. /\ vcmd'.ids = vcmd.ids /\ vcmd'.fresh = vcmd.fresh /\ vcmd'.removed = vcmd.removed
      /\ vcmd'.all.ids = vcmd.ids /\ vcmd'.all.fresh = vcmd.fresh /\ vcmd'.clean = vcmd.clean
  BY <1>0 DEF RulesConflicts, Idle, ConflictsCmds
<1>2. vcmd.removed = Registered \ DOMAIN vcmd.ids
  BY <1>0, <1>1 DEF ApplyInv
<1>3. Registered' = Registered
  BY DEF RulesConflicts, ensureNextRuleIdAtLeast, Registered
<1>4. NewIds' = {}
  BY <1>1, <1>2, <1>3 DEF NewIds
<1>5. \A i \in DOMAIN vcmd.ids : i < idCount'
  <2>1. DOMAIN vcmd.ids \in SUBSET (0..MaxRuleId) /\ MaxRuleId \in Nat /\ idCount \in Nat
    BY <1>0, RuleMapFacts, DomainRulesAssumption DEF ConflictsCmds, Ids, PolicyTypes
  <2> SUFFICES ASSUME NEW i \in DOMAIN vcmd.ids PROVE i < idCount'
    OBVIOUS
  <2>2. Max(DOMAIN vcmd.ids) \in DOMAIN vcmd.ids /\ i <= Max(DOMAIN vcmd.ids)
    BY <2>1, GreatestBelow
  <2>3. ensureNextRuleIdAtLeast(Max(DOMAIN vcmd.ids) + 1)
    BY DEF RulesConflicts
  <2> QED BY <2>1, <2>2, <2>3 DEF ensureNextRuleIdAtLeast
<1> QED BY <1>1, <1>2, <1>3, <1>4, <1>5 DEF RulesProgress

\* A legacy call ends the claim about the mutation under way.
LEMMA TouchedApply ==
    ASSUME CommandTypes, Touched
    PROVE  ApplyInv'
<1>1. CASE vcmd = Idle
  <2>1. vcmd'.op = "idle"
    BY <1>1 DEF Touched, Idle
  <2> QED BY <2>1 DEF ApplyInv
<1>2. CASE vcmd # Idle
  <2>1. vcmd' = [vcmd EXCEPT !.clean = FALSE]
    BY <1>2 DEF Touched
  <2>2. vcmd \in ConflictsCmds \cup UpsertCmds \cup SnapshotCmds \cup PassCmds
    BY <1>2 DEF CommandTypes
  <2>3. vcmd'.clean = FALSE
    BY <2>1, <2>2 DEF ConflictsCmds, UpsertCmds, SnapshotCmds, PassCmds
  <2> QED BY <2>3 DEF ApplyInv
<1> QED BY <1>1, <1>2

\* Every step keeps what the mutation under way has installed.
LEMMA ApplyKept ==
    ASSUME MaxRuleId + 1 < RuleIdModulus, RulesInv, NextIdUnused, ApplyInv, Next
    PROVE  ApplyInv'
<1>0. CommandTypes
  BY DEF RulesInv, TypeOK
<1>i. vcmd' = Idle => ApplyInv'
  BY DEF Idle, ApplyInv
<1>1. CASE LegacyStep
  <2>1. Touched
    BY <1>1 DEF LegacyStep, cmdAddRule, cmdRemoveRule, cmdUpdateRule, cmdAddCustomRule,
                cmdRemoveCustomRule, cmdAddCustomDomain, cmdRemoveCustomDomain, LegacySecondCall
  <2> QED BY <1>0, <2>1, TouchedApply
<1>2. ASSUME NEW r \in RulesPayloads, RulesApply(r.ids, r.fresh) PROVE ApplyInv'
  <2>1. /\ vcmd'.op = "conflicts" /\ vcmd'.removed = Registered \ DOMAIN vcmd'.ids
        /\ Registered' = Registered
    BY <1>2 DEF RulesApply, policyVars, Registered
  <2> QED BY <2>1 DEF ApplyInv
<1>3. CASE RulesConflicts
  <2>1. CASE vcmd' = Idle
    BY <1>i, <2>1
  <2>2. CASE vcmd' # Idle
    <3>1. vcmd'.op = "upsert"
      BY <1>3, <2>2 DEF RulesConflicts
    <3>2. vcmd'.clean => RulesProgress'
      BY <1>3, <3>1, ConflictsProgress
    <3> QED BY <3>1, <3>2 DEF ApplyInv
  <2> QED BY <2>1, <2>2
<1>4. CASE RulesUpsert \/ RulesRemove
  <2>1. vcmd \in UpsertCmds /\ vcmd.op = "upsert"
    BY <1>0, <1>4, CommandFields DEF RulesUpsert, RulesRemove
  <2>2. vcmd'.op = "upsert"
    BY <1>4, <2>1 DEF RulesUpsert, RulesRemove, UpsertCmds
  <2>3. vcmd'.clean => RulesProgress'
    BY <1>4, UpsertProgress, RemoveProgress
  <2> QED BY <2>2, <2>3 DEF ApplyInv
<1>5. CASE RulesAnswer \/ PolicyAnswer
  BY <1>5, <1>i DEF RulesAnswer, PolicyAnswer
<1>6. ASSUME NEW s \in Scopes, NEW want \in PolicyPayloads, PolicyApply(s, want) PROVE ApplyInv'
  <2>1. /\ vcmd'.op = "snapshot" /\ vcmd'.pass = 1 /\ vcmd'.want = want
        /\ want[3] \cup want[4] \subseteq Registered /\ Registered' = Registered
    BY <1>6 DEF PolicyApply, policyVars, Registered
  <2>2. \A k \in 1..4 : ~(k < 1)
    OBVIOUS
  <2>3. PolicyProgress'
    BY <2>1, <2>2 DEF PolicyProgress
  <2> QED BY <2>1, <2>3 DEF ApplyInv
<1>7. CASE PolicySnapshot
  <2>1. vcmd \in SnapshotCmds /\ vcmd.op = "snapshot"
    BY <1>0, <1>7, CommandFields DEF PolicySnapshot
  <2>2. /\ vcmd'.op = "pass" /\ vcmd'.scope = vcmd.scope /\ vcmd'.want = vcmd.want
        /\ vcmd'.pass = vcmd.pass /\ vcmd'.clean = vcmd.clean
        /\ vcmd'.rem = Current(vcmd.scope, Passes[vcmd.pass]) \ vcmd.want[vcmd.pass]
        /\ vcmd'.add = vcmd.want[vcmd.pass] \ Current(vcmd.scope, Passes[vcmd.pass])
        /\ UNCHANGED policyVars
    BY <1>7 DEF PolicySnapshot
  <2>3. ASSUME vcmd'.clean, vcmd'.scope \in Apps PROVE PolicyProgress'
    <3>1. PolicyProgress
      BY <2>1, <2>2, <2>3 DEF ApplyInv
    <3>2. Registered' = Registered
      BY <2>2 DEF policyVars, Registered
    <3>3. \A pass : Current(vcmd.scope, pass)' = Current(vcmd.scope, pass)
      BY <2>2 DEF policyVars, Current, snapshotRuleIds
    <3>4. Passes[vcmd.pass]' = Passes[vcmd.pass] /\ vcmd'.want[vcmd'.pass] = vcmd.want[vcmd.pass]
      BY <2>2 DEF Passes
    <3> QED BY <2>2, <3>1, <3>2, <3>3, <3>4 DEF PolicyProgress
  <2> QED BY <2>2, <2>3 DEF ApplyInv
<1>8. CASE PolicyStep
  <2>1. vcmd \in PassCmds /\ vcmd.op = "pass"
    BY <1>0, <1>8, CommandFields DEF PolicyStep
  <2>2. vcmd'.op \in {"snapshot", "pass"}
    BY <1>8, <2>1 DEF PolicyStep, PassCmds
  <2>3. vcmd'.clean /\ vcmd'.scope \in Apps => PolicyProgress'
    BY <1>8, PolicyStepProgress
  <2> QED BY <2>2, <2>3 DEF ApplyInv
<1> QED BY <1>1, <1>2, <1>3, <1>4, <1>5, <1>6, <1>7, <1>8 DEF Next, VNextStep

\* What is installed when the apply answers is the payload.
LEMMA ProgressInstalls ==
    ASSUME RulesInv, ApplyInv
    PROVE  ApplyInstalls
<1>0. CommandTypes /\ Registered \subseteq Ids
  BY DEF RulesInv, TypeOK, Registered
<1>1. AppPolicyInstalled
  <2> SUFFICES ASSUME PolicyDone, vcmd.clean, vcmd.scope \in Apps, NEW k \in 1..4
               PROVE  Current(vcmd.scope, Passes[k]) = vcmd.want[k]
    BY DEF AppPolicyInstalled
  <2>1. PolicyProgress /\ vcmd.pass = 5
    BY DEF ApplyInv, PolicyDone
  <2> QED BY <2>1 DEF PolicyProgress
<1>2. RulesInstalled
  <2> SUFFICES ASSUME RulesDone, vcmd.clean
               PROVE  /\ \A i \in DOMAIN vcmd.all.ids :
                            i \in Registered /\ obj[rules[i]].pattern = vcmd.all.ids[i]
                      /\ {obj[rules[i]].pattern : i \in Registered \ DOMAIN vcmd.all.ids} = vcmd.all.fresh
                      /\ Cardinality(Registered) =
                           Cardinality(DOMAIN vcmd.all.ids) + Cardinality(vcmd.all.fresh)
    BY DEF RulesInstalled
  <2> DEFINE D == DOMAIN vcmd.all.ids
             N == Registered \ D
             F == vcmd.all.fresh
             f == [i \in N |-> PatternOf(i)]
  <2>1. RulesProgress /\ DOMAIN vcmd.ids = {} /\ vcmd.fresh = {} /\ vcmd.removed = {}
    BY DEF ApplyInv, RulesDone
  <2>2. \A i \in D : i \in Registered /\ PatternOf(i) = vcmd.all.ids[i]
    BY <2>1 DEF RulesProgress
  <2>3. NewIds = N
    BY <2>1 DEF NewIds
  <2>4. /\ {PatternOf(i) : i \in N} = F
        /\ \A i, j \in N : PatternOf(i) = PatternOf(j) => i = j
    BY <2>1, <2>3 DEF RulesProgress
  <2>5. IsFiniteSet(Registered)
    <3>1. IsFiniteSet(Ids)
      BY FS_Interval, DomainRulesAssumption DEF Ids
    <3> QED BY <1>0, <3>1, FS_Subset
  <2>6. IsFiniteSet(N) /\ Cardinality(N) = Cardinality(Registered) - Cardinality(D)
    <3>1. Registered \cap D = D
      BY <2>2
    <3> QED BY <2>5, <3>1, FS_Difference
  <2>7. Cardinality(F) = Cardinality(N)
    <3>1. f \in Bijection(N, F)
      <4>1. f \in [N -> F] /\ \A t \in F : \E i \in N : f[i] = t
        BY <2>4
      <4>2. IsInjective(f)
        BY <2>4 DEF IsInjective
      <4> QED BY <4>1, <4>2 DEF Bijection, Injection, Surjection
    <3> HIDE DEF f
    <3>2. ExistsBijection(N, F)
      BY <3>1 DEF ExistsBijection
    <3> QED BY <2>6, <3>2, FS_Bijection
  <2>8. Cardinality(Registered) \in Nat /\ Cardinality(D) \in Nat
    <3>1. D \in SUBSET Registered
      BY <2>2
    <3> QED BY <2>5, <3>1, FS_Subset, FS_CardinalityType
  <2>9. Cardinality(Registered) = Cardinality(D) + Cardinality(F)
    BY <2>6, <2>7, <2>8
  <2> QED BY <2>2, <2>4, <2>9 DEF PatternOf
<1> QED BY <1>1, <1>2 DEF ApplyInstalls

\* While ids do not wrap, DOMAINRULES.APPLY and DOMAINPOLICY.APPLY, each a series of
\* separate calls, have installed exactly their payload when they answer, unless a
\* legacy command came between two of the calls.
THEOREM AppliesInstallPayload ==
    ASSUME MaxRuleId + 1 < RuleIdModulus
    PROVE  Spec => []ApplyInstalls
<1>1. Init => ApplyInv
  <2> SUFFICES ASSUME Init PROVE ApplyInv
    OBVIOUS
  <2>1. vcmd = Idle
    BY Zenon DEF Init
  <2>2. vcmd.op = "idle"
    BY <2>1 DEF Idle
  <2> QED BY <2>2 DEF ApplyInv
<1>2. RulesInv /\ NextIdUnused /\ ApplyInv /\ [Next]_vars => ApplyInv'
  <2>1. CASE Next
    BY <2>1, ApplyKept
  <2>2. ASSUME UNCHANGED vars, ApplyInv PROVE ApplyInv'
    <3>1. UNCHANGED <<rules, obj, idCount, held, names, vcmd>>
      BY <2>2 DEF vars
    <3>2. Registered' = Registered /\ NewIds' = NewIds
      BY <3>1 DEF Registered, NewIds
    <3>3. RulesProgress' <=> RulesProgress
      BY <3>1, <3>2 DEF RulesProgress, PatternOf
    <3>4. PolicyProgress' <=> PolicyProgress
      BY <3>1, <3>2 DEF PolicyProgress, Current, snapshotRuleIds
    <3> QED BY <2>2, <3>1, <3>2, <3>3, <3>4 DEF ApplyInv
  <2> QED BY <2>1, <2>2
<1>3. RulesInv /\ ApplyInv => ApplyInstalls
  BY ProgressInstalls
<1>4. Spec => []NextIdUnused
  BY NextIdIsUnused
<1> QED BY <1>1, <1>2, <1>3, <1>4, RulesInvariant, PTL DEF Spec

-----------------------------------------------------------------------------
(* The decisions. *)

\* The first candidate that matches answers.
LEMMA FirstIs ==
    ASSUME NEW cands, DOMAIN cands = 1..8, NEW k \in 1..8, cands[k][1],
           \A j \in 1..8 : j < k => ~cands[j][1]
    PROVE  First(cands) = cands[k][2]
<1> DEFINE S == {j \in DOMAIN cands : cands[j][1]}
<1>1. S \in SUBSET Nat /\ k \in S /\ \A j \in S : j \in 1..8 /\ ~(j < k)
  OBVIOUS
<1>2. Min(S) \in S /\ Min(S) <= k
  BY <1>1, LeastNatural
<1>3. Min(S) = k
  BY <1>1, <1>2
<1> QED BY <1>3 DEF First

\* Some candidate is the first, when the last one always matches.
LEMMA FirstExists ==
    ASSUME NEW cands, cands[8][1]
    PROVE  \E k \in 1..8 : cands[k][1] /\ \A j \in 1..8 : j < k => ~cands[j][1]
<1> DEFINE S == {j \in 1..8 : cands[j][1]}
<1>1. S \in SUBSET Nat /\ 8 \in S
  OBVIOUS
<1>2. Min(S) \in S /\ \A j \in S : Min(S) <= j
  BY <1>1, LeastNatural
<1> QED BY <1>2

\* While no scope enforces a removed rule, what explain looks up again is what matched.
LEMMA ExplainIsMatch ==
    ASSUME RulesInv, Orphans = {}, NEW s \in Scopes, NEW c \in Colors, NEW d
    PROVE  /\ explainRules(s, c, d) # {} <=> match(s, c, d)
           /\ firstRuleId(explainRules(s, c, d)) = matchFirstRuleId(s, c, d)
           /\ match(s, c, d) => matchFirstRuleId(s, c, d) \in Registered
<1>1. \A e \in snap[s][c] : e.id \in Registered
  <2> SUFFICES ASSUME NEW e \in snap[s][c] PROVE e.id \in Registered
    OBVIOUS
  <2>1. PICK o \in held[s][c] : obj[o].id = e.id
    BY DEF RulesInv, PolicyInv, SnapshotInv
  <2>2. o \in LiveIn(rules, held) /\ o \in Objects
    BY DEF RulesInv, TypeOK, PolicyTypes, Policies, LiveIn
  <2>3. PICK i \in Ids : rules[i] = o
    BY <2>2 DEF Orphans
  <2>4. i \in Registered
    BY <2>2, <2>3 DEF Registered, Objects, NoObject
  <2> QED BY <2>1, <2>3, <2>4 DEF RulesInv, PolicyInv, RegistryInv
<1> DEFINE H == {e.id : e \in hits(s, c, d)}
<1>2. explainRules(s, c, d) = H /\ H \subseteq Registered
  BY <1>1 DEF explainRules, hits
<1>3. H # {} <=> match(s, c, d)
  BY DEF match
<1>4. match(s, c, d) => matchFirstRuleId(s, c, d) = Min(H)
  BY DEF matchFirstRuleId
<1>5. ~match(s, c, d) => matchFirstRuleId(s, c, d) = NoId
  BY DEF matchFirstRuleId
<1> HIDE DEF H
<1>6. H \in SUBSET Nat
  BY <1>2 DEF Registered, Ids
<1>7. H # {} => Min(H) \in H
  BY <1>6, LeastNatural
<1> QED BY <1>2, <1>3, <1>4, <1>5, <1>7 DEF firstRuleId

\* While no scope enforces a removed rule, the packet path, the DNS path and
\* the two debug paths decide alike, and the rule they name is registered.
THEOREM OneDecision == Spec => []DecisionsAgree
<1>1. RulesInv => DecisionsAgree
  <2> SUFFICES ASSUME RulesInv, Orphans = {}, NEW a \in Apps, NEW d \in Domains,
                      NEW use \in BOOLEAN, NEW on \in BOOLEAN, NEW mask \in BOOLEAN
               PROVE  LET dns == blockedWithSourceAndRuleId(a, d, use, on, mask)
                          dbg == evaluateDomainPolicyDebug(a, d, use, on, mask)
                      IN /\ blocked(a, d, use, on, mask) = dns.blocked
                         /\ blockedWithSource(a, d, use, on, mask)
                              = [blocked |-> dbg.blocked, source |-> dbg.source]
                         /\ dns = dbg
                         /\ dns.source \in {"CUSTOM_RULE_WHITE", "CUSTOM_RULE_BLACK"}
                              => dns.ruleId \in Registered
    BY DEF DecisionsAgree
  <2> DEFINE aw == explainRules(a, "WHITE", d)
             ab == explainRules(a, "BLACK", d)
             dw == explainRules(Device, "WHITE", d)
             db == explainRules(Device, "BLACK", d)
             nw == d \in names[Device]["WHITE"]
             nb == d \in names[Device]["BLACK"]
             P == << <<~on, FALSE>>,
                     <<use /\ d \in names[a]["WHITE"], FALSE>>,
                     <<use /\ d \in names[a]["BLACK"], TRUE>>,
                     <<use /\ match(a, "WHITE", d), FALSE>>,
                     <<use /\ match(a, "BLACK", d), TRUE>>,
                     <<use /\ authorized(d), FALSE>>,
                     <<use /\ blockedByDevice(d), TRUE>>,
                     <<TRUE, mask>> >>
             N == << <<~on, Answer(FALSE, "MASK_FALLBACK", NoId)>>,
                     <<use /\ d \in names[a]["WHITE"], Answer(FALSE, "CUSTOM_WHITELIST", NoId)>>,
                     <<use /\ d \in names[a]["BLACK"], Answer(TRUE, "CUSTOM_BLACKLIST", NoId)>>,
                     <<use /\ match(a, "WHITE", d),
                       Answer(FALSE, "CUSTOM_RULE_WHITE", matchFirstRuleId(a, "WHITE", d))>>,
                     <<use /\ match(a, "BLACK", d),
                       Answer(TRUE, "CUSTOM_RULE_BLACK", matchFirstRuleId(a, "BLACK", d))>>,
                     <<use /\ authorized(d), Answer(FALSE, "DEVICE_AUTHORIZED", authorizedRuleId(d))>>,
                     <<use /\ blockedByDevice(d), Answer(TRUE, "DEVICE_BLOCKED", blockedRuleId(d))>>,
                     <<TRUE, Answer(mask, "MASK_FALLBACK", NoId)>> >>
             ans(b, source) == [blocked |-> b, source |-> source]
             W == << <<~on, ans(FALSE, "MASK_FALLBACK")>>,
                     <<use /\ d \in names[a]["WHITE"], ans(FALSE, "CUSTOM_WHITELIST")>>,
                     <<use /\ d \in names[a]["BLACK"], ans(TRUE, "CUSTOM_BLACKLIST")>>,
                     <<use /\ match(a, "WHITE", d), ans(FALSE, "CUSTOM_RULE_WHITE")>>,
                     <<use /\ match(a, "BLACK", d), ans(TRUE, "CUSTOM_RULE_BLACK")>>,
                     <<use /\ authorized(d), ans(FALSE, "DEVICE_AUTHORIZED")>>,
                     <<use /\ blockedByDevice(d), ans(TRUE, "DEVICE_BLOCKED")>>,
                     <<TRUE, ans(mask, "MASK_FALLBACK")>> >>
             D == << <<~on, Answer(FALSE, "MASK_FALLBACK", NoId)>>,
                     <<use /\ d \in names[a]["WHITE"], Answer(FALSE, "CUSTOM_WHITELIST", NoId)>>,
                     <<use /\ d \in names[a]["BLACK"], Answer(TRUE, "CUSTOM_BLACKLIST", NoId)>>,
                     <<use /\ aw # {}, Answer(FALSE, "CUSTOM_RULE_WHITE", firstRuleId(aw))>>,
                     <<use /\ ab # {}, Answer(TRUE, "CUSTOM_RULE_BLACK", firstRuleId(ab))>>,
                     <<use /\ (nw \/ dw # {}),
                       Answer(FALSE, "DEVICE_AUTHORIZED", IF nw THEN NoId ELSE firstRuleId(dw))>>,
                     <<use /\ (nb \/ db # {}),
                       Answer(TRUE, "DEVICE_BLOCKED", IF nb THEN NoId ELSE firstRuleId(db))>>,
                     <<TRUE, Answer(mask, "MASK_FALLBACK", NoId)>> >>
  <2>1. /\ blocked(a, d, use, on, mask) = First(P)
        /\ blockedWithSourceAndRuleId(a, d, use, on, mask) = First(N)
        /\ blockedWithSource(a, d, use, on, mask) = First(W)
        /\ evaluateDomainPolicyDebug(a, d, use, on, mask) = First(D)
    BY DEF blocked, blockedWithSourceAndRuleId, blockedWithSource, evaluateDomainPolicyDebug
  <2>2. /\ aw # {} <=> match(a, "WHITE", d)
        /\ ab # {} <=> match(a, "BLACK", d)
        /\ firstRuleId(aw) = matchFirstRuleId(a, "WHITE", d)
        /\ firstRuleId(ab) = matchFirstRuleId(a, "BLACK", d)
        /\ match(a, "WHITE", d) => matchFirstRuleId(a, "WHITE", d) \in Registered
        /\ match(a, "BLACK", d) => matchFirstRuleId(a, "BLACK", d) \in Registered
    <3>1. a \in Scopes /\ "WHITE" \in Colors /\ "BLACK" \in Colors
      BY DEF Scopes, Colors
    <3> QED BY <3>1, ExplainIsMatch
  <2>3. /\ dw # {} <=> match(Device, "WHITE", d)
        /\ db # {} <=> match(Device, "BLACK", d)
        /\ firstRuleId(dw) = matchFirstRuleId(Device, "WHITE", d)
        /\ firstRuleId(db) = matchFirstRuleId(Device, "BLACK", d)
    <3>1. Device \in Scopes /\ "WHITE" \in Colors /\ "BLACK" \in Colors
      BY DEF Scopes, Colors
    <3> QED BY <3>1, ExplainIsMatch
  <2>4. /\ authorized(d) <=> (nw \/ dw # {})
        /\ authorizedRuleId(d) = IF nw THEN NoId ELSE firstRuleId(dw)
        /\ ~authorized(d) => (blockedByDevice(d) <=> (nb \/ db # {}))
        /\ ~authorized(d) /\ blockedByDevice(d) =>
             blockedRuleId(d) = IF nb THEN NoId ELSE firstRuleId(db)
    BY <2>3 DEF authorized, authorizedRuleId, blockedByDevice, blockedRuleId
  <2> HIDE DEF aw, ab, dw, db, nw, nb
  <2>5. DOMAIN P = 1..8 /\ DOMAIN N = 1..8 /\ DOMAIN W = 1..8 /\ DOMAIN D = 1..8
    OBVIOUS
  <2>6. PICK k \in 1..8 : N[k][1] /\ \A j \in 1..8 : j < k => ~N[j][1]
    <3>1. N[8][1]
      OBVIOUS
    <3> HIDE DEF N
    <3> QED BY <3>1, FirstExists
  <2>v1. \E b \in BOOLEAN :
        /\ P[1][2] = b /\ W[1][2] = ans(b, "MASK_FALLBACK")
        /\ N[1][2] = Answer(b, "MASK_FALLBACK", NoId)
        /\ D[1][2] = Answer(b, "MASK_FALLBACK", NoId)
    <3> WITNESS FALSE \in BOOLEAN
    <3> QED OBVIOUS
  <2>v2. \E b \in BOOLEAN :
        /\ P[2][2] = b /\ W[2][2] = ans(b, "CUSTOM_WHITELIST")
        /\ N[2][2] = Answer(b, "CUSTOM_WHITELIST", NoId)
        /\ D[2][2] = Answer(b, "CUSTOM_WHITELIST", NoId)
    <3> WITNESS FALSE \in BOOLEAN
    <3> QED OBVIOUS
  <2>v3. \E b \in BOOLEAN :
        /\ P[3][2] = b /\ W[3][2] = ans(b, "CUSTOM_BLACKLIST")
        /\ N[3][2] = Answer(b, "CUSTOM_BLACKLIST", NoId)
        /\ D[3][2] = Answer(b, "CUSTOM_BLACKLIST", NoId)
    <3> WITNESS TRUE \in BOOLEAN
    <3> QED OBVIOUS
  <2>v4. \E b \in BOOLEAN :
        /\ P[4][2] = b /\ W[4][2] = ans(b, "CUSTOM_RULE_WHITE")
        /\ N[4][2] = Answer(b, "CUSTOM_RULE_WHITE", matchFirstRuleId(a, "WHITE", d))
        /\ D[4][2] = Answer(b, "CUSTOM_RULE_WHITE", firstRuleId(aw))
    <3> WITNESS FALSE \in BOOLEAN
    <3> QED OBVIOUS
  <2>v5. \E b \in BOOLEAN :
        /\ P[5][2] = b /\ W[5][2] = ans(b, "CUSTOM_RULE_BLACK")
        /\ N[5][2] = Answer(b, "CUSTOM_RULE_BLACK", matchFirstRuleId(a, "BLACK", d))
        /\ D[5][2] = Answer(b, "CUSTOM_RULE_BLACK", firstRuleId(ab))
    <3> WITNESS TRUE \in BOOLEAN
    <3> QED OBVIOUS
  <2>v6. \E b \in BOOLEAN :
        /\ P[6][2] = b /\ W[6][2] = ans(b, "DEVICE_AUTHORIZED")
        /\ N[6][2] = Answer(b, "DEVICE_AUTHORIZED", authorizedRuleId(d))
        /\ D[6][2] = Answer(b, "DEVICE_AUTHORIZED", IF nw THEN NoId ELSE firstRuleId(dw))
    <3> WITNESS FALSE \in BOOLEAN
    <3> QED OBVIOUS
  <2>v7. \E b \in BOOLEAN :
        /\ P[7][2] = b /\ W[7][2] = ans(b, "DEVICE_BLOCKED")
        /\ N[7][2] = Answer(b, "DEVICE_BLOCKED", blockedRuleId(d))
        /\ D[7][2] = Answer(b, "DEVICE_BLOCKED", IF nb THEN NoId ELSE firstRuleId(db))
    <3> WITNESS TRUE \in BOOLEAN
    <3> QED OBVIOUS
  <2>v8. /\ P[8][2] = mask /\ W[8][2] = ans(mask, "MASK_FALLBACK")
        /\ N[8][2] = Answer(mask, "MASK_FALLBACK", NoId)
        /\ D[8][2] = Answer(mask, "MASK_FALLBACK", NoId)
    OBVIOUS
  <2>c. /\ (P[1][1] <=> N[1][1]) /\ (W[1][1] <=> N[1][1])
        /\ (P[2][1] <=> N[2][1]) /\ (W[2][1] <=> N[2][1])
        /\ (P[3][1] <=> N[3][1]) /\ (W[3][1] <=> N[3][1])
        /\ (P[4][1] <=> N[4][1]) /\ (W[4][1] <=> N[4][1])
        /\ (P[5][1] <=> N[5][1]) /\ (W[5][1] <=> N[5][1])
        /\ (P[6][1] <=> N[6][1]) /\ (W[6][1] <=> N[6][1])
        /\ (P[7][1] <=> N[7][1]) /\ (W[7][1] <=> N[7][1])
        /\ (P[8][1] <=> N[8][1]) /\ (W[8][1] <=> N[8][1])
    OBVIOUS
  <2>e. /\ D[1][1] <=> N[1][1]
        /\ D[2][1] <=> N[2][1]
        /\ D[3][1] <=> N[3][1]
        /\ D[4][1] <=> N[4][1]
        /\ D[5][1] <=> N[5][1]
        /\ D[6][1] <=> N[6][1]
        /\ D[8][1] <=> N[8][1]
    BY <2>2, <2>4
  <2>m. /\ N[4][1] => match(a, "WHITE", d)
        /\ N[5][1] => match(a, "BLACK", d)
        /\ N[7][1] => use /\ blockedByDevice(d)
        /\ use /\ ~N[6][1] => ~authorized(d)
    OBVIOUS
  <2>7. \A j \in 1..8 : (P[j][1] <=> N[j][1]) /\ (W[j][1] <=> N[j][1])
    <3>1. ASSUME NEW j \in 1..8 PROVE (P[j][1] <=> N[j][1]) /\ (W[j][1] <=> N[j][1])
      <4>1. j = 1 \/ j = 2 \/ j = 3 \/ j = 4 \/ j = 5 \/ j = 6 \/ j = 7 \/ j = 8
        OBVIOUS
      <4> HIDE DEF P, N, W
      <4> QED BY <2>c, <4>1
    <3> QED BY <3>1
  <2>8. \A j \in 1..8 : j # 7 => (D[j][1] <=> N[j][1])
    <3>1. ASSUME NEW j \in 1..8, j # 7 PROVE D[j][1] <=> N[j][1]
      <4>1. j = 1 \/ j = 2 \/ j = 3 \/ j = 4 \/ j = 5 \/ j = 6 \/ j = 8
        BY <3>1
      <4> HIDE DEF D, N
      <4> QED BY <2>e, <4>1
    <3> QED BY <3>1
  <2>9. ~N[6][1] => (D[7][1] <=> N[7][1])
    BY <2>4
  <2>10. D[k][1] /\ \A j \in 1..8 : j < k => ~D[j][1]
    <3> HIDE DEF D, N
    <3>1. k = 7 => ~N[6][1]
      BY <2>6
    <3>2. 7 < k => ~N[6][1]
      BY <2>6
    <3> QED BY <2>6, <2>8, <2>9, <3>1, <3>2
  <2>11. First(P) = P[k][2] /\ First(N) = N[k][2] /\ First(W) = W[k][2] /\ First(D) = D[k][2]
    <3> HIDE DEF P, N, W, D
    <3>1. First(P) = P[k][2]
      BY <2>5, <2>6, <2>7, FirstIs
    <3>2. First(N) = N[k][2]
      BY <2>5, <2>6, FirstIs
    <3>3. First(W) = W[k][2]
      BY <2>5, <2>6, <2>7, FirstIs
    <3>4. First(D) = D[k][2]
      BY <2>5, <2>10, FirstIs
    <3> QED BY <3>1, <3>2, <3>3, <3>4
  <2>12. /\ P[k][2] = N[k][2].blocked
         /\ W[k][2] = [blocked |-> N[k][2].blocked, source |-> N[k][2].source]
         /\ N[k][2] = D[k][2]
         /\ N[k][2].source \in {"CUSTOM_RULE_WHITE", "CUSTOM_RULE_BLACK"}
              => N[k][2].ruleId \in Registered
    <3>1. k = 1 \/ k = 2 \/ k = 3 \/ k = 4 \/ k = 5 \/ k = 6 \/ k = 7 \/ k = 8
      OBVIOUS
    <3> HIDE DEF P, N, W, D
    <3>2. CASE k = 1
      <4>1. PICK b \in BOOLEAN :
              /\ P[1][2] = b /\ W[1][2] = ans(b, "MASK_FALLBACK")
              /\ N[1][2] = Answer(b, "MASK_FALLBACK", NoId)
              /\ D[1][2] = Answer(b, "MASK_FALLBACK", NoId)
        BY <2>v1
      <4> QED BY <3>2, <4>1 DEF Answer
    <3>3. CASE k = 2
      <4>1. PICK b \in BOOLEAN :
              /\ P[2][2] = b /\ W[2][2] = ans(b, "CUSTOM_WHITELIST")
              /\ N[2][2] = Answer(b, "CUSTOM_WHITELIST", NoId)
              /\ D[2][2] = Answer(b, "CUSTOM_WHITELIST", NoId)
        BY <2>v2
      <4> QED BY <3>3, <4>1 DEF Answer
    <3>4. CASE k = 3
      <4>1. PICK b \in BOOLEAN :
              /\ P[3][2] = b /\ W[3][2] = ans(b, "CUSTOM_BLACKLIST")
              /\ N[3][2] = Answer(b, "CUSTOM_BLACKLIST", NoId)
              /\ D[3][2] = Answer(b, "CUSTOM_BLACKLIST", NoId)
        BY <2>v3
      <4> QED BY <3>4, <4>1 DEF Answer
    <3>5. CASE k = 4
      <4>1. PICK b \in BOOLEAN :
              /\ P[4][2] = b /\ W[4][2] = ans(b, "CUSTOM_RULE_WHITE")
              /\ N[4][2] = Answer(b, "CUSTOM_RULE_WHITE", matchFirstRuleId(a, "WHITE", d))
              /\ D[4][2] = Answer(b, "CUSTOM_RULE_WHITE", firstRuleId(aw))
        BY <2>v4
      <4>2. N[4][2] = D[4][2]
        BY <2>2, <4>1
      <4>3. N[4][1]
        BY <2>6, <3>5
      <4>4. matchFirstRuleId(a, "WHITE", d) \in Registered
        BY <2>2, <2>m, <4>3
      <4> QED BY <3>5, <4>1, <4>2, <4>4 DEF Answer
    <3>6. CASE k = 5
      <4>1. PICK b \in BOOLEAN :
              /\ P[5][2] = b /\ W[5][2] = ans(b, "CUSTOM_RULE_BLACK")
              /\ N[5][2] = Answer(b, "CUSTOM_RULE_BLACK", matchFirstRuleId(a, "BLACK", d))
              /\ D[5][2] = Answer(b, "CUSTOM_RULE_BLACK", firstRuleId(ab))
        BY <2>v5
      <4>2. N[5][2] = D[5][2]
        BY <2>2, <4>1
      <4>3. N[5][1]
        BY <2>6, <3>6
      <4>4. matchFirstRuleId(a, "BLACK", d) \in Registered
        BY <2>2, <2>m, <4>3
      <4> QED BY <3>6, <4>1, <4>2, <4>4 DEF Answer
    <3>7. CASE k = 6
      <4>1. PICK b \in BOOLEAN :
              /\ P[6][2] = b /\ W[6][2] = ans(b, "DEVICE_AUTHORIZED")
              /\ N[6][2] = Answer(b, "DEVICE_AUTHORIZED", authorizedRuleId(d))
              /\ D[6][2] = Answer(b, "DEVICE_AUTHORIZED", IF nw THEN NoId ELSE firstRuleId(dw))
        BY <2>v6
      <4>2. N[6][2] = D[6][2]
        BY <2>4, <4>1
      <4> QED BY <3>7, <4>1, <4>2 DEF Answer
    <3>8. CASE k = 7
      <4>1. PICK b \in BOOLEAN :
              /\ P[7][2] = b /\ W[7][2] = ans(b, "DEVICE_BLOCKED")
              /\ N[7][2] = Answer(b, "DEVICE_BLOCKED", blockedRuleId(d))
              /\ D[7][2] = Answer(b, "DEVICE_BLOCKED", IF nb THEN NoId ELSE firstRuleId(db))
        BY <2>v7
      <4>2. N[7][1] /\ ~N[6][1]
        BY <2>6, <3>8
      <4>3. ~authorized(d) /\ blockedByDevice(d)
        BY <2>m, <4>2
      <4>4. N[7][2] = D[7][2]
        BY <2>4, <4>1, <4>3
      <4> QED BY <3>8, <4>1, <4>4 DEF Answer
    <3>9. CASE k = 8
      BY <2>v8, <3>9 DEF Answer
    <3> QED BY <3>1, <3>2, <3>3, <3>4, <3>5, <3>6, <3>7, <3>8, <3>9
  <2> HIDE DEF P, N, W, D
  <2> QED BY <2>1, <2>11, <2>12
<1> QED BY <1>1, RulesInvariant, PTL

===============================================================================
