--------------------------- MODULE DomainListsProofs ---------------------------
(***************************************************************************)
(* The domain lists for any lists, imports, requests and sessions, any     *)
(* interleaving of the steps of their commands, and any number of crashes  *)
(* and failing file operations: files, metadata, memory and aggregate      *)
(* agree about every list that nothing has gone wrong with, names are      *)
(* judged as the enabled lists say, a failed restore changes nothing, a    *)
(* restore that succeeds installs the slot, and a restart changes nothing. *)
(***************************************************************************)
EXTENDS DomainLists, WellFoundedInduction, NaturalsInduction, SequenceTheorems, TLAPS

Removals == UNION {[S -> Colors] : S \in SUBSET Lists}
Plans == UNION {[S -> [new : Infos, old : Infos \cup {None}]] : S \in SUBSET Lists}
ApplyPlaces == {"next", "unlink", "forget", "add", "move", "set", "switched", "update", "enable"}
RestorePlaces == {"lock", "publish", "iprules", "live", "saving", "failed"}

\* The fields of the command in progress.
CmdTypes ==
    /\ cmd.op \in {"idle", "apply", "import", "save", "restore"}
    /\ cmd.op = "apply" =>
          /\ DOMAIN cmd = {"op", "at", "id", "removes", "plan", "held"} /\ cmd.at \in ApplyPlaces
          /\ cmd.removes \in Removals /\ cmd.plan \in Plans
          /\ DOMAIN cmd.removes \cap DOMAIN cmd.plan = {}
          /\ \A l \in DOMAIN cmd.plan : MayChange(cmd.plan[l])
          /\ cmd.at \in {"unlink", "forget"} => cmd.id \in DOMAIN cmd.removes
          /\ cmd.at \notin {"next", "unlink", "forget"} => cmd.id \in DOMAIN cmd.plan
          /\ cmd.at \in {"move", "set", "switched"} => cmd.plan[cmd.id].old # None
    /\ cmd.op = "import" =>
          /\ DOMAIN cmd = {"op", "at", "id", "info", "merged"} /\ cmd.at \in {"rename", "publish"}
          /\ cmd.id \in Lists /\ cmd.info \in Infos
    /\ cmd.op = "save" => IsMeta(cmd.lists)
    /\ cmd.op = "restore" =>
          /\ cmd.at \in RestorePlaces
          /\ cmd.at # "failed" =>
                /\ DOMAIN cmd = {"op", "at", "bundle", "stage"} \cup (IF cmd.at = "lock" THEN {} ELSE {"before"})
                /\ IsSlot(cmd.bundle) /\ cmd.stage = prepareDomainListFiles(cmd.bundle)

\* The fields of a session's command, place by place.
UpdatePlaces == {"mask", "color", "get", "set", "drop", "update"}
RemovePlaces == {"next", "unlink", "forget"}
LegType(r) ==
    /\ DOMAIN r = {"at", "id", "arg", "todo", "held", "lists", "clash"}
    /\ r.at \in {"rest", "save", "rename", "enable", "disable", "flag", "write"}
                  \cup UpdatePlaces \cup RemovePlaces
    /\ r.todo \in Removals /\ r.id \notin DOMAIN r.todo
    /\ r.at \notin RemovePlaces => r.todo = Empty
    /\ IF r.at \in {"rest", "save", "rename", "next"} THEN r.id = None ELSE r.id \in Lists
    /\ r.at \in UpdatePlaces => r.arg.info \in Infos
    /\ r.at \in {"enable", "disable", "write"} => r.arg.color \in Colors
    /\ r.at \in {"enable", "write"} => r.arg.mask \in Bits
    /\ r.at = "enable" => r.arg.enabled = TRUE
    /\ r.at = "write" => r.arg.clear \in BOOLEAN
    /\ r.at = "disable" => r.arg.enabled = FALSE
    /\ r.at = "flag" => r.arg.enabled \in BOOLEAN
    /\ r.at = "rename" => IsMeta(r.lists)
LegTypes ==
    /\ DOMAIN leg = Threads /\ \A t \in Threads : LegType(leg[t])
    /\ leg[Main].at \in {"rest", "rename"}

Types ==
    /\ DOMAIN mem = Colors
    /\ IsMeta(meta) /\ IsMeta(saved.meta) /\ DOMAIN saved = {"meta", "ip"}
    /\ slot # None => IsSlot(slot)
    /\ CmdTypes /\ LegTypes

\* Whoever changes a list publishes the aggregate before it unlocks; only
\* the failing write does not.
AggInv == ill = {} => agg = [c \in Colors |-> rebuildAgg(mem[c])]

\* A new list on its way: not in memory and without an enabled file.
Waiting(l) ==
    /\ \A c \in Colors : Contents(mem, c, l) = Empty
    /\ File(l, TRUE) \notin DOMAIN dir

\* A list that memory has forgotten, on its way out: its file may be left.
Leaving(l) ==
    /\ \A c \in Colors : Contents(mem, c, l) = Empty
    /\ \A on \in BOOLEAN : File(l, on) \in DOMAIN dir => l \in DOMAIN meta /\ meta[l].enabled = on

\* A list that changes its colour is in the new one, and its file is as before.
Moved(i, l) ==
    /\ Contents(mem, i.color, l) = IF i.enabled THEN readFile(dir, l, i.mask) ELSE Empty
    /\ \A on \in BOOLEAN : File(l, on) \in DOMAIN dir => i.enabled = on

\* What an APPLY may rely on for a list only it works on: the metadata are as
\* the command has read them, and files and memory are half-way to the
\* request's values exactly for the list it is at.
AtHolds(l) ==
    LET p == cmd.plan[l]
    IN  /\ cmd.at = "unlink" => Leaving(l)
        /\ cmd.at = "forget" => AgreesAs(mem, dir, None, l)
        /\ cmd.at = "add" => p.old = None /\ Waiting(l)
        /\ cmd.at \in {"update", "enable"} => l \in DOMAIN meta
        /\ cmd.at = "update" => IF p.old = None THEN Waiting(l) ELSE AgreesAs(mem, dir, p.new, l)
        /\ cmd.at = "enable" => p.old = None /\ meta[l] = p.new /\ Waiting(l)
        /\ cmd.at \in {"move", "set"} => p.old # None /\ Agree(l)
        /\ cmd.at \in {"set", "switched"} => p.old.enabled /\ p.new.enabled /\ p.old.color # p.new.color
        /\ cmd.at = "set" => cmd.held = Contents(mem, p.old.color, l)
        /\ cmd.at = "switched" => p.old # None /\ Moved(p.new, l)
ApplyHolds(l) ==
    /\ l \in DOMAIN cmd.removes => l \in DOMAIN meta /\ meta[l].color = cmd.removes[l]
    /\ l \in DOMAIN cmd.plan /\ ~(cmd.at \in {"update", "enable"} /\ l = cmd.id) =>
          cmd.plan[l].old = Get(meta, l, None)
    /\ cmd.at = "next" \/ l # cmd.id => Agree(l)
    /\ cmd.at # "next" /\ l = cmd.id => AtHolds(l)

\* What an IMPORT may rely on: the merged contents have the list's mask.
ImportHolds(l) ==
    IF l # cmd.id THEN Agree(l)
    ELSE /\ l \in DOMAIN meta /\ meta[l] = cmd.info
         /\ cmd.merged = [d \in DOMAIN cmd.merged |-> {cmd.info.mask}]
         /\ cmd.at = "rename" => Agree(l)
         /\ cmd.at = "publish" =>
               /\ File(l, cmd.info.enabled) \in DOMAIN dir
               /\ FileOf(dir, l, cmd.info.enabled) = DOMAIN cmd.merged
               /\ \A on \in BOOLEAN : File(l, on) \in DOMAIN dir => on = cmd.info.enabled
               /\ \A c \in Colors : (~cmd.info.enabled \/ c # cmd.info.color) => Contents(mem, c, l) = Empty

\* What is so of a list no session works on, given the vNext command in
\* progress.  While a restore has moved the directory away, the backup and
\* memory agree.
Holds(l) ==
    CASE cmd.op = "apply" -> ApplyHolds(l)
      [] cmd.op = "import" -> ImportHolds(l)
      [] cmd.op = "restore" /\ cmd.at \in {"publish", "iprules"} -> AgreesAs(mem, backup, Get(meta, l, None), l)
      [] cmd.op = "restore" /\ cmd.at = "live" -> TRUE
      [] OTHER -> Agree(l)

\* What a session's command may rely on for a list it works on.
LegHolds(s, l) ==
    LET r == leg[s]
        a == r.arg
        i == meta[l]
    IN  IF l \in DOMAIN r.todo THEN Agree(l) /\ (l \in DOMAIN meta => i.color = r.todo[l])
        ELSE
        /\ r.at = "unlink" => Leaving(l)
        /\ r.at = "forget" => AgreesAs(mem, dir, None, l)
        /\ r.at \in {"enable", "disable", "flag", "write"} \cup UpdatePlaces => l \in DOMAIN meta
        /\ r.at \in UpdatePlaces => a.timeOk /\ a.info.enabled = i.enabled
        /\ r.at \in {"mask", "enable", "disable", "write"} => Agree(l)
        /\ r.at = "mask" => a.info.color = i.color
        /\ r.at \in {"color", "get", "set"} => AgreesAs(mem, dir, [i EXCEPT !.mask = a.info.mask], l)
        /\ r.at \in {"get", "set"} => a.info.color # i.color
        /\ r.at = "set" => r.held = Contents(mem, i.color, l)
        /\ r.at = "drop" => Moved(a.info, l)
        /\ r.at = "update" => AgreesAs(mem, dir, a.info, l)
        /\ r.at \in {"enable", "disable"} => a.color = i.color
        /\ r.at = "enable" => a.mask = i.mask
        /\ r.at = "flag" => AgreesAs(mem, dir, [i EXCEPT !.enabled = a.enabled], l)
        /\ r.at = "write" => i = [color |-> a.color, mask |-> a.mask, enabled |-> TRUE]

\* A list that nothing is wrong with has one worker at most.
LegacyInv ==
    \A l \in LegacyLists \ ill :
        /\ l \notin CmdLists
        /\ \A s, t \in Sessions : l \in WorksOn(s) /\ l \in WorksOn(t) => s = t
        /\ \A s \in Sessions : l \in WorksOn(s) => LegHolds(s, l)

\* The lists the vNext command cannot rely on.
Loose == ill \cup LegacyLists

\* The phases of a restore.
RestoreInv ==
    cmd.op = "restore" =>
        /\ cmd.at # "lock" => Quiet(Sessions)
        /\ cmd.at \in {"publish", "iprules"} =>
              cmd.before = [meta |-> meta, mem |-> mem, agg |-> agg, dir |-> backup, ip |-> ip]
        /\ cmd.at \in {"iprules", "live"} => dir = cmd.stage
        /\ cmd.at = "live" => ip = cmd.bundle.ip

ListsInv ==
    /\ Types /\ AggInv /\ RestoreInv /\ LegacyInv
    /\ \A l \in Lists \ Loose : Holds(l)
    /\ FailedRestoreHarmless /\ RestoredAsSaved

-----------------------------------------------------------------------------
(* Functions with a varying domain, lists in memory, files. *)

LEMMA PutFacts ==
    ASSUME NEW f, NEW k, NEW v
    PROVE  /\ DOMAIN Put(f, k, v) = DOMAIN f \cup {k} /\ Put(f, k, v)[k] = v
           /\ \A x \in DOMAIN f : x # k => Put(f, k, v)[x] = f[x]
           /\ \A x, e : Get(Put(f, k, v), x, e) = IF x = k THEN v ELSE Get(f, x, e)
BY DEF Put, Get

LEMMA DropFacts ==
    ASSUME NEW f, NEW S
    PROVE  /\ DOMAIN Drop(f, S) = DOMAIN f \ S
           /\ \A x \in DOMAIN f \ S : Drop(f, S)[x] = f[x]
           /\ \A x, e : Get(Drop(f, S), x, e) = IF x \in S THEN e ELSE Get(f, x, e)
BY DEF Drop, Get, Restrict

LEMMA EmptyFacts == /\ DOMAIN Empty = {} /\ \A x, e : Get(Empty, x, e) = e
BY DEF Empty, Get

LEMMA FileFacts ==
    /\ \A l, k : \A a, b \in BOOLEAN : File(l, a) = File(k, b) <=> l = k /\ a = b
    /\ \A l : \A a \in BOOLEAN : File(l, a)[1] = l
<1>1. \A l, k : \A a, b \in BOOLEAN : File(l, a) = File(k, b) <=> l = k /\ a = b
  <2> SUFFICES ASSUME NEW l, NEW k, NEW a \in BOOLEAN, NEW b \in BOOLEAN
               PROVE  File(l, a) = File(k, b) <=> l = k /\ a = b
    OBVIOUS
  <2>1. CASE a = b
    BY <2>1 DEF File
  <2>2. CASE a # b
    <3>1. (a = TRUE /\ b = FALSE) \/ (a = FALSE /\ b = TRUE)
      BY <2>2
    <3> QED BY <2>2, <3>1 DEF File
  <2> QED BY <2>1, <2>2
<1> QED BY <1>1 DEF File

\* Memory with one list's contents set, or without the list.
setList(m, c, l, doms) == [m EXCEPT ![c] = Put(@, l, doms)]
eraseList(m, c, l) == [m EXCEPT ![c] = Drop(@, {l})]

LEMMA SetListFacts ==
    ASSUME NEW m, DOMAIN m = Colors, NEW c \in Colors, NEW l, NEW v
    PROVE  /\ DOMAIN setList(m, c, l, v) = Colors
           /\ \A b \in Colors : \A k : Contents(setList(m, c, l, v), b, k) =
                 IF b = c /\ k = l THEN v ELSE Contents(m, b, k)
<1>1. DOMAIN setList(m, c, l, v) = Colors
  BY DEF setList
<1>2. setList(m, c, l, v)[c] = Put(m[c], l, v) /\ \A b \in Colors : b # c => setList(m, c, l, v)[b] = m[b]
  BY DEF setList
<1>3. \A k : Get(Put(m[c], l, v), k, Empty) = IF k = l THEN v ELSE Get(m[c], k, Empty)
  BY DEF Put, Get
<1>4. \A b \in Colors : \A k : Contents(setList(m, c, l, v), b, k) = IF b = c /\ k = l THEN v ELSE Contents(m, b, k)
  BY <1>2, <1>3 DEF Contents
<1> QED BY <1>1, <1>4

LEMMA EraseListFacts ==
    ASSUME NEW m, DOMAIN m = Colors, NEW c \in Colors, NEW l
    PROVE  /\ DOMAIN eraseList(m, c, l) = Colors
           /\ \A b \in Colors : \A k : Contents(eraseList(m, c, l), b, k) =
                 IF b = c /\ k = l THEN Empty ELSE Contents(m, b, k)
<1>1. DOMAIN eraseList(m, c, l) = Colors
  BY DEF eraseList
<1>2. eraseList(m, c, l)[c] = Drop(m[c], {l}) /\ \A b \in Colors : b # c => eraseList(m, c, l)[b] = m[b]
  BY DEF eraseList
<1>3. \A k : Get(Drop(m[c], {l}), k, Empty) = IF k = l THEN Empty ELSE Get(m[c], k, Empty)
  BY DEF Drop, Restrict, Get
<1>4. \A b \in Colors : \A k : Contents(eraseList(m, c, l), b, k) = IF b = c /\ k = l THEN Empty ELSE Contents(m, b, k)
  BY <1>2, <1>3 DEF Contents
<1> QED BY <1>1, <1>4

\* The parts of the state that are about one list.
SameFiles(d, e, k) ==
    \A on \in BOOLEAN : /\ File(k, on) \in DOMAIN e <=> File(k, on) \in DOMAIN d
                        /\ FileOf(e, k, on) = FileOf(d, k, on)
SameContents(m, n, k) == \A c \in Colors : Contents(n, c, k) = Contents(m, c, k)
SameMeta(m, n, k) == (k \in DOMAIN n <=> k \in DOMAIN m) /\ (k \in DOMAIN m => n[k] = m[k])

LEMMA SameIsSame ==
    /\ \A d, k : SameFiles(d, d, k) /\ SameContents(d, d, k) /\ SameMeta(d, d, k)
    /\ \A m, n, k : SameMeta(m, n, k) => Get(n, k, None) = Get(m, k, None)
BY DEF SameFiles, SameContents, SameMeta, Get

LEMMA AgreesSame ==
    ASSUME NEW m, NEW n, NEW d, NEW e, NEW k, NEW i, SameFiles(d, e, k), SameContents(m, n, k)
    PROVE  AgreesAs(n, e, i, k) <=> AgreesAs(m, d, i, k)
<1>1. FileOf(e, k, TRUE) = FileOf(d, k, TRUE)
  BY DEF SameFiles
<1> QED BY <1>1 DEF AgreesAs, readFile, SameFiles, SameContents

\* A write to one list's file leaves the others'.
LEMMA PutFile ==
    ASSUME NEW d, NEW l, NEW on \in BOOLEAN, NEW v
    PROVE  /\ \A k : k # l => SameFiles(d, Put(d, File(l, on), v), k)
           /\ FileOf(Put(d, File(l, on), v), l, on) = v
           /\ \A b \in BOOLEAN : File(l, b) \in DOMAIN Put(d, File(l, on), v) <=> b = on \/ File(l, b) \in DOMAIN d
           /\ \A b \in BOOLEAN : b # on => FileOf(Put(d, File(l, on), v), l, b) = FileOf(d, l, b)
<1> DEFINE e == Put(d, File(l, on), v)
<1>1. /\ \A k : \A b \in BOOLEAN : File(k, b) = File(l, on) <=> k = l /\ b = on
  BY FileFacts
<1>2. /\ DOMAIN e = DOMAIN d \cup {File(l, on)}
      /\ \A x : Get(e, x, {}) = IF x = File(l, on) THEN v ELSE Get(d, x, {})
  BY DEF Put, Get
<1> HIDE DEF e
<1>3. \A k : \A b \in BOOLEAN : FileOf(e, k, b) = IF k = l /\ b = on THEN v ELSE FileOf(d, k, b)
  BY <1>1, <1>2 DEF FileOf
<1>4. \A k : \A b \in BOOLEAN : File(k, b) \in DOMAIN e <=> (k = l /\ b = on) \/ File(k, b) \in DOMAIN d
  BY <1>1, <1>2
<1>5. \A k : k # l => SameFiles(d, e, k)
  BY <1>3, <1>4 DEF SameFiles
<1> QED BY <1>3, <1>4, <1>5 DEF e

LEMMA DropFile ==
    ASSUME NEW d, NEW l, NEW on \in BOOLEAN
    PROVE  /\ \A k : k # l => SameFiles(d, Drop(d, {File(l, on)}), k)
           /\ \A b \in BOOLEAN : File(l, b) \in DOMAIN Drop(d, {File(l, on)}) <=> b # on /\ File(l, b) \in DOMAIN d
<1> DEFINE e == Drop(d, {File(l, on)})
<1>1. /\ \A k : \A b \in BOOLEAN : File(k, b) = File(l, on) <=> k = l /\ b = on
  BY FileFacts
<1>2. /\ DOMAIN e = DOMAIN d \ {File(l, on)}
      /\ \A x : Get(e, x, {}) = IF x \in {File(l, on)} THEN {} ELSE Get(d, x, {})
  BY DEF Drop, Restrict, Get
<1> HIDE DEF e
<1>3. \A k : \A b \in BOOLEAN : FileOf(e, k, b) = IF k = l /\ b = on THEN {} ELSE FileOf(d, k, b)
  BY <1>1, <1>2 DEF FileOf
<1>4. \A k : \A b \in BOOLEAN : File(k, b) \in DOMAIN e <=> ~(k = l /\ b = on) /\ File(k, b) \in DOMAIN d
  BY <1>1, <1>2
<1>5. \A k : k # l => SameFiles(d, e, k)
  BY <1>3, <1>4 DEF SameFiles
<1> QED BY <1>3, <1>4, <1>5 DEF e

LEMMA EnsureFacts ==
    ASSUME NEW l, NEW on \in BOOLEAN
    PROVE  /\ \A k : k # l => SameFiles(dir, ensured(l, on), k)
           /\ \A b \in BOOLEAN : /\ File(l, b) \in DOMAIN ensured(l, on) <=> b = on \/ File(l, b) \in DOMAIN dir
                                 /\ FileOf(ensured(l, on), l, b) = FileOf(dir, l, b)
<1>1. CASE File(l, on) \in DOMAIN dir
  BY <1>1, SameIsSame DEF ensured
<1>2. CASE File(l, on) \notin DOMAIN dir
  <2>1. ensured(l, on) = Put(dir, File(l, on), {}) /\ FileOf(dir, l, on) = {}
    BY <1>2 DEF ensured, FileOf, Get
  <2> DEFINE e == Put(dir, File(l, on), {})
  <2>2. /\ \A k : k # l => SameFiles(dir, e, k)
        /\ FileOf(e, l, on) = {}
        /\ \A b \in BOOLEAN : File(l, b) \in DOMAIN e <=> b = on \/ File(l, b) \in DOMAIN dir
        /\ \A b \in BOOLEAN : b # on => FileOf(e, l, b) = FileOf(dir, l, b)
    BY PutFile
  <2> HIDE DEF e
  <2>3. ensured(l, on) = e
    BY <2>1 DEF e
  <2>4. \A b \in BOOLEAN : FileOf(e, l, b) = FileOf(dir, l, b)
    BY <2>1, <2>2
  <2> QED BY <2>2, <2>3, <2>4
<1> QED BY <1>1, <1>2

LEMMA RenameFacts ==
    ASSUME NEW d, NEW l, NEW a \in BOOLEAN, NEW b \in BOOLEAN, a # b, File(l, a) \in DOMAIN d
    PROVE  LET e == renameFile(d, File(l, a), File(l, b))
           IN  /\ \A k : k # l => SameFiles(d, e, k)
               /\ File(l, b) \in DOMAIN e /\ File(l, a) \notin DOMAIN e
               /\ FileOf(e, l, b) = FileOf(d, l, a)
<1> DEFINE g == Drop(d, {File(l, a)})
<1>1. /\ \A k : k # l => SameFiles(d, g, k)
      /\ File(l, a) \notin DOMAIN g
  BY DropFile
<1>2. renameFile(d, File(l, a), File(l, b)) = Put(g, File(l, b), d[File(l, a)])
  BY DEF renameFile
<1> HIDE DEF g
<1>3. d[File(l, a)] = FileOf(d, l, a)
  BY DEF FileOf, Get
<1> QED BY <1>1, <1>2, <1>3, PutFile DEF SameFiles

-----------------------------------------------------------------------------
(* Steps in general. *)

LEMMA InvFacts ==
    ASSUME ListsInv
    PROVE  /\ Types /\ CmdTypes /\ LegTypes /\ AggInv /\ DOMAIN mem = Colors /\ IsMeta(meta) /\ IsMeta(saved.meta)
           /\ LegacyInv /\ \A l \in Lists \ Loose : Holds(l)
BY DEF ListsInv, Types

\* Outside the exclusive part of a restore only types, aggregate and lists matter.
LEMMA Shared ==
    ASSUME Types', AggInv', LegacyInv', cmd'.op = "restore" => cmd'.at = "lock",
           \A l \in Lists \ Loose' : Holds(l)'
    PROVE  ListsInv'
BY DEF ListsInv, RestoreInv, FailedRestoreHarmless, RestoredAsSaved

\* One colour is published: the other's aggregate is as it was.
LEMMA PublishFacts ==
    ASSUME AggInv, DOMAIN mem = Colors, NEW c \in Colors, NEW v, Publish(c, v), ill \subseteq ill'
    PROVE  mem' = [mem EXCEPT ![c] = v] /\ DOMAIN mem' = Colors /\ AggInv'
BY DEF Publish, AggInv

LEMMA PublishAllFacts ==
    ASSUME NEW m, DOMAIN m = Colors, PublishAll(m)
    PROVE  mem' = m /\ DOMAIN mem' = Colors /\ AggInv'
BY DEF PublishAll, AggInv

LEMMA SameMem ==
    ASSUME AggInv, DOMAIN mem = Colors, UNCHANGED <<mem, agg>>, ill \subseteq ill'
    PROVE  DOMAIN mem' = Colors /\ AggInv' /\ \A k : SameContents(mem, mem', k)
BY DEF AggInv, SameContents

LEMMA SetFacts ==
    ASSUME AggInv, DOMAIN mem = Colors, NEW c \in Colors, NEW l, NEW v, set(c, l, v), ill \subseteq ill'
    PROVE  /\ DOMAIN mem' = Colors /\ AggInv'
           /\ \A b \in Colors : \A k : Contents(mem', b, k) =
                 IF b = c /\ k = l THEN v ELSE Contents(mem, b, k)
           /\ \A k : k # l => SameContents(mem, mem', k)
<1>1. mem' = setList(mem, c, l, v) /\ DOMAIN mem' = Colors /\ AggInv'
  <2>1. mem' = [mem EXCEPT ![c] = Put(mem[c], l, v)] /\ DOMAIN mem' = Colors /\ AggInv'
    <3> DEFINE w == Put(mem[c], l, v)
    <3>1. Publish(c, w)
      BY DEF set
    <3> HIDE DEF w
    <3>2. mem' = [mem EXCEPT ![c] = w] /\ DOMAIN mem' = Colors /\ AggInv'
      BY <3>1, PublishFacts
    <3> QED BY <3>2 DEF w
  <2> QED BY <2>1 DEF setList
<1> QED BY <1>1, SetListFacts DEF SameContents

\* erase, or disable's: one colour forgets the list.
LEMMA DropListFacts ==
    ASSUME AggInv, DOMAIN mem = Colors, NEW c \in Colors, NEW l, Publish(c, Drop(mem[c], {l})), ill \subseteq ill'
    PROVE  /\ DOMAIN mem' = Colors /\ AggInv'
           /\ \A b \in Colors : \A k : Contents(mem', b, k) =
                 IF b = c /\ k = l THEN Empty ELSE Contents(mem, b, k)
           /\ \A k : k # l => SameContents(mem, mem', k)
<1>1. mem' = eraseList(mem, c, l) /\ DOMAIN mem' = Colors /\ AggInv'
  <2> DEFINE w == Drop(mem[c], {l})
  <2>1. Publish(c, w)
    OBVIOUS
  <2> HIDE DEF w
  <2>2. mem' = [mem EXCEPT ![c] = w] /\ DOMAIN mem' = Colors /\ AggInv'
    BY <2>1, PublishFacts
  <2> QED BY <2>2 DEF w, eraseList
<1> QED BY <1>1, EraseListFacts DEF SameContents

LEMMA EraseFacts ==
    ASSUME AggInv, DOMAIN mem = Colors, NEW c \in Colors, NEW l, erase(c, l), ill \subseteq ill'
    PROVE  /\ DOMAIN mem' = Colors /\ AggInv'
           /\ \A b \in Colors : \A k : Contents(mem', b, k) =
                 IF b = c /\ k = l THEN Empty ELSE Contents(mem, b, k)
           /\ \A k : k # l => SameContents(mem, mem', k)
<1>1. CASE l \in DOMAIN mem[c]
  BY <1>1, DropListFacts DEF erase
<1>2. CASE l \notin DOMAIN mem[c]
  <2>1. UNCHANGED <<mem, agg>> /\ Contents(mem, c, l) = Empty
    BY <1>2 DEF erase, Contents, Get
  <2> QED BY <2>1, SameMem
<1> QED BY <1>1, <1>2

\* Types of what is left alone.
LEMMA SameTypes ==
    ASSUME ListsInv, DOMAIN mem' = Colors, IsMeta(meta'), slot' = slot, CmdTypes', LegTypes', saved' = saved
    PROVE  Types'
<1>1. /\ DOMAIN saved = {"meta", "ip"} /\ IsMeta(saved.meta) /\ (slot # None => IsSlot(slot))
  BY DEF ListsInv, Types
<1> QED BY <1>1 DEF Types

LEMMA CmdSame == ASSUME CmdTypes, cmd' = cmd PROVE CmdTypes'
BY DEF CmdTypes

LEMMA LegSame == ASSUME LegTypes, leg' = leg PROVE LegTypes'
BY DEF LegTypes

\* The list a vNext command is half-way with is one it works on.
LEMMA CmdFacts ==
    ASSUME CmdTypes
    PROVE  /\ cmd.op = "apply" => CmdLists = DOMAIN cmd.removes \cup DOMAIN cmd.plan
           /\ cmd.op = "import" => CmdLists = {cmd.id}
           /\ cmd.op \notin {"apply", "import"} => CmdLists = {}
           /\ cmd.op = "apply" /\ cmd.at # "next" => cmd.id \in CmdLists
           /\ CmdLists \subseteq Lists
<1>1. /\ cmd.op = "apply" => CmdLists = DOMAIN cmd.removes \cup DOMAIN cmd.plan
      /\ cmd.op = "import" => CmdLists = {cmd.id}
      /\ cmd.op \notin {"apply", "import"} => CmdLists = {}
  BY DEF CmdLists
<1>2. cmd.op = "apply" => DOMAIN cmd.removes \subseteq Lists /\ DOMAIN cmd.plan \subseteq Lists
  BY DEF CmdTypes, Removals, Plans
<1> QED BY <1>1, <1>2 DEF CmdTypes, ApplyPlaces

\* A list nobody works on agrees.
LEMMA FreeAgrees ==
    ASSUME ListsInv, ~Exclusive, NEW l \in Lists \ (ill \cup Busy)
    PROVE  Agree(l)
<1>1. CmdTypes /\ Holds(l) /\ l \notin CmdLists
  BY InvFacts DEF Busy, Loose
<1>2. CASE cmd.op = "apply"
  <2>1. ApplyHolds(l)
    BY <1>1, <1>2 DEF Holds
  <2>2. cmd.at = "next" \/ l # cmd.id
    BY <1>1, <1>2, CmdFacts
  <2> QED BY <2>1, <2>2 DEF ApplyHolds
<1>3. CASE cmd.op = "import"
  <2>1. ImportHolds(l) /\ l # cmd.id
    BY <1>1, <1>3, CmdFacts DEF Holds
  <2> QED BY <2>1 DEF ImportHolds
<1>4. CASE cmd.op \notin {"apply", "import"}
  <2>1. ~(cmd.op = "restore" /\ cmd.at \in {"publish", "iprules", "live"})
    BY DEF Exclusive
  <2> QED BY <1>1, <1>4, <2>1 DEF Holds
<1> QED BY <1>2, <1>3, <1>4

LEMMA InfoFacts ==
    \A i \in Infos : i # None /\ i.enabled \in BOOLEAN /\ i.color \in Colors /\ i.mask \in Bits
BY ListsAssumption DEF Infos

LEMMA PlanFacts ==
    ASSUME CmdTypes, cmd.op = "apply"
    PROVE  \A l \in DOMAIN cmd.plan :
              /\ l \in Lists /\ l \notin DOMAIN cmd.removes /\ cmd.plan[l].new \in Infos /\ MayChange(cmd.plan[l])
              /\ cmd.plan[l].old # None => cmd.plan[l].old \in Infos
<1>1. \A l \in DOMAIN cmd.plan : l \in Lists /\ cmd.plan[l] \in [new : Infos, old : Infos \cup {None}]
  BY DEF CmdTypes, Plans
<1> QED BY <1>1 DEF CmdTypes

LEMMA AgreeSame ==
    ASSUME NEW l, Agree(l), SameMeta(meta, meta', l), SameFiles(dir, dir', l), SameContents(mem, mem', l)
    PROVE  Agree(l)'
BY SameIsSame, AgreesSame DEF Agree

\* A command that does not move keeps what it relies on for a list left alone.
LEMMA SameHolds ==
    ASSUME CmdTypes, NEW l, Holds(l), ~Exclusive, cmd' = cmd, SameMeta(meta, meta', l),
           SameFiles(dir, dir', l), SameContents(mem, mem', l)
    PROVE  Holds(l)'
<1>1. Get(meta', l, None) = Get(meta, l, None) /\ (l \in DOMAIN meta' <=> l \in DOMAIN meta)
      /\ (l \in DOMAIN meta => meta'[l] = meta[l])
  BY SameIsSame DEF SameMeta
<1>2. \A i : AgreesAs(mem', dir', i, l) <=> AgreesAs(mem, dir, i, l)
  BY AgreesSame
<1>3. Agree(l) => Agree(l)'
  BY <1>1, <1>2 DEF Agree
<1>4. CASE cmd.op = "apply"
  <2>1. ApplyHolds(l)
    BY <1>4 DEF Holds
  <2>2. Waiting(l)' <=> Waiting(l)
    BY DEF Waiting, SameContents, SameFiles
  <2>3. /\ \A c \in Colors : Contents(mem', c, l) = Contents(mem, c, l)
        /\ \A on \in BOOLEAN : File(l, on) \in DOMAIN dir' <=> File(l, on) \in DOMAIN dir
        /\ \A m : readFile(dir', l, m) = readFile(dir, l, m)
    BY DEF SameContents, SameFiles, readFile
  <2>4. Leaving(l) => Leaving(l)'
    BY <1>1, <2>3 DEF Leaving
  <2>5. ASSUME l = cmd.id, cmd.at # "next" PROVE AtHolds(l)'
    <3>0. PICK p : p = cmd.plan[l]
      OBVIOUS
    <3>1. /\ cmd.at = "unlink" => Leaving(l)
          /\ cmd.at = "forget" => AgreesAs(mem, dir, None, l)
          /\ cmd.at = "add" => p.old = None /\ Waiting(l)
          /\ cmd.at \in {"update", "enable"} => l \in DOMAIN meta
          /\ cmd.at = "update" => IF p.old = None THEN Waiting(l) ELSE AgreesAs(mem, dir, p.new, l)
          /\ cmd.at = "enable" => p.old = None /\ meta[l] = p.new /\ Waiting(l)
          /\ cmd.at \in {"move", "set"} => p.old # None /\ Agree(l)
          /\ cmd.at \in {"set", "switched"} => p.old.enabled /\ p.new.enabled /\ p.old.color # p.new.color
          /\ cmd.at = "set" => cmd.held = Contents(mem, p.old.color, l)
          /\ cmd.at = "switched" => p.old # None /\ Moved(p.new, l)
      BY <2>1, <2>5, <3>0 DEF ApplyHolds, AtHolds
    <3>2. cmd.at \in {"set", "switched"} => p.old.color \in Colors /\ p.new.color \in Colors
      BY <1>4, <2>5, <3>0, <3>1, PlanFacts, InfoFacts DEF CmdTypes
    <3>3. cmd.at = "set" => Contents(mem', p.old.color, l) = Contents(mem, p.old.color, l)
      BY <2>3, <3>2
    <3>4. cmd.at = "switched" => Moved(p.new, l)'
      BY <2>3, <3>1, <3>2 DEF Moved
    <3>5. /\ cmd'.at = "unlink" => Leaving(l)'
          /\ cmd'.at = "forget" => AgreesAs(mem', dir', None, l)
          /\ cmd'.at = "add" => p.old = None /\ Waiting(l)'
          /\ cmd'.at \in {"update", "enable"} => l \in DOMAIN meta'
          /\ cmd'.at = "update" => IF p.old = None THEN Waiting(l)' ELSE AgreesAs(mem', dir', p.new, l)
          /\ cmd'.at = "enable" => p.old = None /\ meta'[l] = p.new /\ Waiting(l)'
          /\ cmd'.at \in {"move", "set"} => p.old # None /\ Agree(l)'
      BY <1>1, <1>2, <1>3, <2>2, <2>4, <3>1
    <3>6. /\ cmd'.at \in {"set", "switched"} => p.old.enabled /\ p.new.enabled /\ p.old.color # p.new.color
          /\ cmd'.at = "set" => cmd'.held = Contents(mem', p.old.color, l)
          /\ cmd'.at = "switched" => p.old # None /\ Moved(p.new, l)'
      BY <3>1, <3>3, <3>4
    <3>7. cmd'.plan[l] = p
      BY <3>0
    <3> QED BY <3>5, <3>6, <3>7 DEF AtHolds
  <2>6. ApplyHolds(l)'
    BY <1>1, <1>3, <2>1, <2>5 DEF ApplyHolds
  <2> QED BY <1>4, <2>6 DEF Holds
<1>5. CASE cmd.op = "import"
  <2>1. ImportHolds(l)
    BY <1>5 DEF Holds
  <2>2. cmd.info.enabled \in BOOLEAN
    BY <1>5, InfoFacts DEF CmdTypes
  <2>3. /\ \A on \in BOOLEAN : /\ File(l, on) \in DOMAIN dir' <=> File(l, on) \in DOMAIN dir
                               /\ FileOf(dir', l, on) = FileOf(dir, l, on)
        /\ \A c \in Colors : Contents(mem', c, l) = Contents(mem, c, l)
    BY DEF SameFiles, SameContents
  <2>4. CASE l # cmd.id
    BY <1>3, <1>5, <2>1, <2>4 DEF ImportHolds, Holds
  <2>5. CASE l = cmd.id
    <3>1. /\ l \in DOMAIN meta /\ meta[l] = cmd.info
          /\ cmd.merged = [d \in DOMAIN cmd.merged |-> {cmd.info.mask}]
          /\ cmd.at = "rename" => Agree(l)
          /\ cmd.at = "publish" =>
               /\ File(l, cmd.info.enabled) \in DOMAIN dir
               /\ FileOf(dir, l, cmd.info.enabled) = DOMAIN cmd.merged
               /\ \A on \in BOOLEAN : File(l, on) \in DOMAIN dir => on = cmd.info.enabled
               /\ \A c \in Colors : (~cmd.info.enabled \/ c # cmd.info.color) => Contents(mem, c, l) = Empty
      BY <2>1, <2>5 DEF ImportHolds
    <3>2. cmd.at = "publish" =>
               /\ File(l, cmd.info.enabled) \in DOMAIN dir'
               /\ FileOf(dir', l, cmd.info.enabled) = DOMAIN cmd.merged
               /\ \A on \in BOOLEAN : File(l, on) \in DOMAIN dir' => on = cmd.info.enabled
               /\ \A c \in Colors : (~cmd.info.enabled \/ c # cmd.info.color) => Contents(mem', c, l) = Empty
      BY <2>2, <2>3, <3>1
    <3>3. ImportHolds(l)'
      BY <1>1, <1>3, <2>5, <3>1, <3>2 DEF ImportHolds
    <3> QED BY <1>5, <3>3 DEF Holds
  <2> QED BY <2>4, <2>5
<1>6. CASE cmd.op \notin {"apply", "import"}
  <2>1. ~(cmd.op = "restore" /\ cmd.at \in {"publish", "iprules", "live"})
    BY DEF Exclusive
  <2> QED BY <1>3, <1>6, <2>1 DEF Holds
<1> QED BY <1>4, <1>5, <1>6

-----------------------------------------------------------------------------
(* Contents of files and of memory. *)

LEMMA EmptyIs ==
    /\ \A mask : [x \in {} |-> {mask}] = Empty
    /\ \A d, l, mask : FileOf(d, l, TRUE) = {} => readFile(d, l, mask) = Empty
    /\ \A d, l, mask : DOMAIN readFile(d, l, mask) = FileOf(d, l, TRUE)
    /\ \A d, l : \A on \in BOOLEAN : File(l, on) \notin DOMAIN d => FileOf(d, l, on) = {}
<1>1. \A mask : [x \in {} |-> {mask}] = Empty
  BY DEF Empty
<1>2. \A d, l, mask : FileOf(d, l, TRUE) = {} => readFile(d, l, mask) = Empty
  BY <1>1 DEF readFile
<1> QED BY <1>1, <1>2 DEF readFile, FileOf, Get

\* What agreement says of a list that is known and of one that is not.
LEMMA AgreeFacts ==
    ASSUME NEW m, NEW d, NEW i, NEW l
    PROVE  /\ AgreesAs(m, d, None, l) <=>
                 /\ \A c \in Colors : Contents(m, c, l) = Empty
                 /\ \A on \in BOOLEAN : File(l, on) \notin DOMAIN d
           /\ i # None => (AgreesAs(m, d, i, l) <=>
                 /\ \A c \in Colors : Contents(m, c, l) = IF i.enabled /\ i.color = c THEN readFile(d, l, i.mask) ELSE Empty
                 /\ \A on \in BOOLEAN : File(l, on) \in DOMAIN d => i.enabled = on)
BY DEF AgreesAs

LEMMA MetaFacts ==
    ASSUME IsMeta(meta), NEW l \in Lists
    PROVE  /\ \A i \in Infos : /\ IsMeta(Put(meta, l, i)) /\ Get(Put(meta, l, i), l, None) = i
                               /\ \A k \in Lists \ {l} : SameMeta(meta, Put(meta, l, i), k)
           /\ l \in DOMAIN meta => \A i \in Infos : [meta EXCEPT ![l] = i] = Put(meta, l, i)
           /\ IsMeta(Drop(meta, {l})) /\ Get(Drop(meta, {l}), l, None) = None
           /\ \A k \in Lists \ {l} : SameMeta(meta, Drop(meta, {l}), k)
           /\ l \in DOMAIN meta => meta[l] \in Infos /\ Get(meta, l, None) = meta[l]
           /\ l \notin DOMAIN meta => Get(meta, l, None) = None
<1>1. ASSUME NEW i \in Infos
      PROVE  /\ IsMeta(Put(meta, l, i)) /\ Get(Put(meta, l, i), l, None) = i
             /\ \A k \in Lists \ {l} : SameMeta(meta, Put(meta, l, i), k)
             /\ l \in DOMAIN meta => [meta EXCEPT ![l] = i] = Put(meta, l, i)
  <2>1. DOMAIN Put(meta, l, i) = DOMAIN meta \cup {l} /\ Put(meta, l, i)[l] = i
        /\ \A x \in DOMAIN meta : x # l => Put(meta, l, i)[x] = meta[x]
    BY DEF Put
  <2>2. l \in DOMAIN meta => [meta EXCEPT ![l] = i] = Put(meta, l, i)
    BY DEF Put
  <2> QED BY <1>1, <2>1, <2>2 DEF IsMeta, Get, SameMeta
<1>2. /\ IsMeta(Drop(meta, {l})) /\ Get(Drop(meta, {l}), l, None) = None
      /\ \A k \in Lists \ {l} : SameMeta(meta, Drop(meta, {l}), k)
  <2> DEFINE less == Drop(meta, {l})
  <2>1. DOMAIN less = DOMAIN meta \ {l} /\ \A k \in DOMAIN meta \ {l} : less[k] = meta[k]
    BY DropFacts
  <2> HIDE DEF less
  <2>2. IsMeta(less) /\ Get(less, l, None) = None
    BY <2>1 DEF IsMeta, Get
  <2>3. \A k \in Lists \ {l} : SameMeta(meta, less, k)
    BY <2>1 DEF SameMeta
  <2> QED BY <2>2, <2>3 DEF less
<1> QED BY <1>1, <1>2 DEF IsMeta, Get

LEMMA Updated ==
    \A i \in Infos, on \in BOOLEAN : /\ [i EXCEPT !.enabled = on] \in Infos
                                     /\ [i EXCEPT !.enabled = on].enabled = on
                                     /\ [i EXCEPT !.enabled = on].color = i.color
                                     /\ [i EXCEPT !.enabled = on].mask = i.mask
BY DEF Infos

LEMMA Masked ==
    \A i \in Infos, m \in Bits : /\ [i EXCEPT !.mask = m] \in Infos
                                 /\ [i EXCEPT !.mask = m].enabled = i.enabled
                                 /\ [i EXCEPT !.mask = m].color = i.color
                                 /\ [i EXCEPT !.mask = m].mask = m
BY DEF Infos

LEMMA ColorFacts ==
    /\ \A c \in Colors : Other(c) \in Colors /\ Other(c) # c /\ \A b \in Colors : b = c \/ b = Other(c)
    /\ \A b, c \in Colors : b # c => Other(c) = b
<1>1. "black" # "white"
  OBVIOUS
<1>2. \A c \in Colors : \E d \in Colors : d # c
  BY <1>1 DEF Colors
<1>3. \A c \in Colors : Other(c) \in Colors /\ Other(c) # c
  BY <1>2 DEF Other
<1> QED BY <1>3 DEF Colors

-----------------------------------------------------------------------------
(* What is done to one list: its memory and its files. *)

Remask(f, mask) == [d \in DOMAIN f |-> {mask}]

LEMMA RemaskFacts ==
    /\ \A mask : Remask(Empty, mask) = Empty
    /\ \A d, l, old, mask : Remask(readFile(d, l, old), mask) = readFile(d, l, mask)
BY EmptyIs, EmptyFacts DEF readFile, Remask

LEMMA ChangeMaskFacts ==
    ASSUME AggInv, DOMAIN mem = Colors, NEW c \in Colors, NEW l, NEW mask, changeBlockMask(l, mask, c), ill \subseteq ill'
    PROVE  /\ DOMAIN mem' = Colors /\ AggInv'
           /\ \A b \in Colors : \A k : Contents(mem', b, k) =
                 IF b = c /\ k = l THEN Remask(Contents(mem, c, l), mask) ELSE Contents(mem, b, k)
           /\ \A k : k # l => SameContents(mem, mem', k)
<1>1. CASE l \in DOMAIN mem[c]
  <2>1. Contents(mem, c, l) = mem[c][l]
    BY <1>1 DEF Contents, Get
  <2>2. set(c, l, Remask(Contents(mem, c, l), mask))
    BY <1>1, <2>1 DEF changeBlockMask, masked, set, Remask
  <2> QED BY <2>2, SetFacts
<1>2. CASE l \notin DOMAIN mem[c]
  <2>1. UNCHANGED <<mem, agg>> /\ Contents(mem, c, l) = Empty
    BY <1>2 DEF changeBlockMask, Contents, Get
  <2> QED BY <2>1, SameMem, RemaskFacts
<1> QED BY <1>1, <1>2

\* A failing file operation may only add a list to those left half-way.
LEMMA FaultFacts ==
    /\ Keeps => ill' = ill
    /\ Harmless => ill' = ill
    /\ \A l : Breaks(l) => ill' = ill \cup {l}
BY DEF Keeps, Harmless, Breaks

LEMMA EnsureFileFacts ==
    ASSUME NEW l, NEW on \in BOOLEAN, ensureFileExists(l, on)
    PROVE  /\ ill' = ill
           /\ \A k : k # l => SameFiles(dir, dir', k)
           /\ \A b \in BOOLEAN : /\ File(l, b) \in DOMAIN dir' => b = on \/ File(l, b) \in DOMAIN dir
                                 /\ FileOf(dir', l, b) = FileOf(dir, l, b)
<1>1. CASE dir' = ensured(l, on) /\ Keeps
  BY <1>1, EnsureFacts, FaultFacts
<1>2. CASE UNCHANGED dir /\ Harmless
  BY <1>2, SameIsSame, FaultFacts
<1> QED BY <1>1, <1>2 DEF ensureFileExists

\* A rename to the enabled form, with the file read unless it cannot be.
LEMMA EnableFacts ==
    ASSUME AggInv, DOMAIN mem = Colors, NEW l, NEW c \in Colors, NEW mask, enable(l, mask, c)
    PROVE  /\ ill \subseteq ill' /\ ill' \subseteq ill \cup {l}
           /\ DOMAIN mem' = Colors /\ AggInv' /\ File(l, FALSE) \in DOMAIN dir
           /\ \A k : k # l => SameFiles(dir, dir', k) /\ SameContents(mem, mem', k)
           /\ l \notin ill' => /\ Contents(mem', c, l) = readFile(dir', l, mask)
                            /\ \A b \in Colors : b # c => Contents(mem', b, l) = Contents(mem, b, l)
           /\ File(l, TRUE) \in DOMAIN dir' /\ File(l, FALSE) \notin DOMAIN dir'
<1> DEFINE d == renameFile(dir, File(l, FALSE), File(l, TRUE))
<1>1. /\ dir' = d /\ File(l, FALSE) \in DOMAIN dir
      /\ \/ set(c, l, readFile(d, l, mask)) /\ Keeps
         \/ set(c, l, Empty) /\ Breaks(l)
  BY DEF enable
<1>2. /\ \A k : k # l => SameFiles(dir, d, k)
      /\ File(l, TRUE) \in DOMAIN d /\ File(l, FALSE) \notin DOMAIN d
  BY <1>1, RenameFacts
<1> HIDE DEF d
<1>3. CASE set(c, l, readFile(d, l, mask)) /\ Keeps
  <2> DEFINE v == readFile(d, l, mask)
  <2>1. set(c, l, v) /\ ill' = ill
    BY <1>3, FaultFacts
  <2> HIDE DEF v
  <2>2. /\ DOMAIN mem' = Colors /\ AggInv'
        /\ \A b \in Colors : \A k : Contents(mem', b, k) = IF b = c /\ k = l THEN v ELSE Contents(mem, b, k)
        /\ \A k : k # l => SameContents(mem, mem', k)
    BY <2>1, SetFacts
  <2> QED BY <1>1, <1>2, <2>1, <2>2 DEF v
<1>4. CASE set(c, l, Empty) /\ Breaks(l)
  <2>1. ill' = ill \cup {l}
    BY <1>4, FaultFacts
  <2>2. /\ DOMAIN mem' = Colors /\ AggInv'
        /\ \A k : k # l => SameContents(mem, mem', k)
    BY <1>4, <2>1, SetFacts
  <2> QED BY <1>1, <1>2, <2>1, <2>2
<1> QED BY <1>1, <1>3, <1>4

LEMMA DisableFacts ==
    ASSUME AggInv, DOMAIN mem = Colors, NEW l, NEW c \in Colors, disable(l, c)
    PROVE  /\ ill' = ill /\ DOMAIN mem' = Colors /\ AggInv'
           /\ \A k : k # l => SameFiles(dir, dir', k) /\ SameContents(mem, mem', k)
           /\ \A b \in Colors : Contents(mem', b, l) = IF b = c THEN Empty ELSE Contents(mem, b, l)
           /\ File(l, FALSE) \in DOMAIN dir' /\ File(l, TRUE) \notin DOMAIN dir'
<1> DEFINE d == renameFile(dir, File(l, TRUE), File(l, FALSE))
<1>1. dir' = d /\ Publish(c, Drop(mem[c], {l})) /\ File(l, TRUE) \in DOMAIN dir /\ ill' = ill
  BY FaultFacts DEF disable
<1>2. /\ \A k : k # l => SameFiles(dir, d, k)
      /\ File(l, FALSE) \in DOMAIN d /\ File(l, TRUE) \notin DOMAIN d
  BY <1>1, RenameFacts
<1> HIDE DEF d
<1>3. /\ DOMAIN mem' = Colors /\ AggInv'
      /\ \A b \in Colors : \A k : Contents(mem', b, k) = IF b = c /\ k = l THEN Empty ELSE Contents(mem, b, k)
      /\ \A k : k # l => SameContents(mem, mem', k)
  BY <1>1, DropListFacts
<1> QED BY <1>1, <1>2, <1>3

LEMMA UnlinkFacts ==
    ASSUME NEW l, unlink(l)
    PROVE  /\ ill \subseteq ill' /\ ill' \subseteq ill \cup {l}
           /\ \A k : k # l => SameFiles(dir, dir', k)
           /\ l \notin ill' /\ (\E on \in BOOLEAN : \A a \in BOOLEAN : File(l, a) \in DOMAIN dir => a = on)
                 => \A a \in BOOLEAN : File(l, a) \notin DOMAIN dir'
<1> DEFINE on == File(l, TRUE) \in DOMAIN dir
<1>1. CASE dir' = Drop(dir, {File(l, on)}) /\ Keeps
  <2>1. on \in BOOLEAN /\ (on <=> File(l, TRUE) \in DOMAIN dir)
    OBVIOUS
  <2> HIDE DEF on
  <2>2. /\ \A k : k # l => SameFiles(dir, dir', k)
        /\ \A b \in BOOLEAN : File(l, b) \in DOMAIN dir' <=> b # on /\ File(l, b) \in DOMAIN dir
    BY <1>1, <2>1, DropFile
  <2>3. ASSUME NEW a \in BOOLEAN, \A b \in BOOLEAN : File(l, b) \in DOMAIN dir => b = a, NEW b \in BOOLEAN
        PROVE  File(l, b) \notin DOMAIN dir'
    <3>1. SUFFICES ASSUME b # on, File(l, b) \in DOMAIN dir PROVE FALSE
      BY <2>2
    <3>2. CASE on = TRUE
      BY <2>1, <2>3, <3>1, <3>2
    <3>3. CASE on = FALSE
      <4>1. b = TRUE
        BY <3>1, <3>3
      <4> QED BY <2>1, <3>1, <3>3, <4>1
    <3> QED BY <2>1, <3>2, <3>3
  <2> QED BY <1>1, <2>2, <2>3, FaultFacts
<1>2. CASE dir' \in {dir, Drop(dir, {File(l, FALSE)})} /\ Breaks(l)
  <2>1. PICK off \in BOOLEAN : off = FALSE
    OBVIOUS
  <2>2. \A k : k # l => SameFiles(dir, dir', k)
    <3>1. \A k : k # l => SameFiles(dir, Drop(dir, {File(l, off)}), k)
      BY <2>1, DropFile
    <3>2. dir' = dir \/ dir' = Drop(dir, {File(l, off)})
      BY <1>2, <2>1
    <3> QED BY <3>1, <3>2, SameIsSame
  <2> QED BY <1>2, <2>2, FaultFacts
<1> QED BY <1>1, <1>2 DEF unlink


-----------------------------------------------------------------------------
(* What a session relies on. *)

LEMMA SameListFacts ==
    ASSUME NEW l, SameMeta(meta, meta', l), SameFiles(dir, dir', l), SameContents(mem, mem', l)
    PROVE  /\ (l \in DOMAIN meta' <=> l \in DOMAIN meta) /\ (l \in DOMAIN meta => meta'[l] = meta[l])
           /\ \A i : AgreesAs(mem', dir', i, l) <=> AgreesAs(mem, dir, i, l)
           /\ Agree(l) => Agree(l)'
           /\ Leaving(l) => Leaving(l)'
           /\ \A i \in Infos : Moved(i, l) => Moved(i, l)'
           /\ \A c \in Colors : Contents(mem', c, l) = Contents(mem, c, l)
<1>1. (l \in DOMAIN meta' <=> l \in DOMAIN meta) /\ (l \in DOMAIN meta => meta'[l] = meta[l])
  BY DEF SameMeta
<1>2. \A i : AgreesAs(mem', dir', i, l) <=> AgreesAs(mem, dir, i, l)
  BY AgreesSame
<1>3. Agree(l) => Agree(l)'
  BY AgreeSame
<1>4. /\ \A c \in Colors : Contents(mem', c, l) = Contents(mem, c, l)
      /\ \A on \in BOOLEAN : File(l, on) \in DOMAIN dir' <=> File(l, on) \in DOMAIN dir
      /\ \A m : readFile(dir', l, m) = readFile(dir, l, m)
  BY DEF SameContents, SameFiles, readFile
<1>5. Leaving(l) => Leaving(l)'
  BY <1>1, <1>4 DEF Leaving
<1>6. ASSUME NEW i \in Infos, Moved(i, l) PROVE Moved(i, l)'
  BY <1>4, <1>6, InfoFacts DEF Moved
<1> QED BY <1>1, <1>2, <1>3, <1>4, <1>5, <1>6

LEMMA LegHoldsSame ==
    ASSUME NEW s, NEW l, LegHolds(s, l), LegType(leg[s]), IsMeta(meta), leg'[s] = leg[s],
           SameMeta(meta, meta', l), SameFiles(dir, dir', l), SameContents(mem, mem', l)
    PROVE  LegHolds(s, l)'
<1>1. PICK r : r = leg[s] /\ r = leg'[s]
  OBVIOUS
<1>2. PICK i : i = meta[l] /\ (l \in DOMAIN meta => i = meta'[l] /\ i \in Infos)
  BY DEF SameMeta, IsMeta
<1>3. PICK a : a = r.arg
  OBVIOUS
<1>4. /\ l \in DOMAIN meta' <=> l \in DOMAIN meta
      /\ \A j : AgreesAs(mem', dir', j, l) <=> AgreesAs(mem, dir, j, l)
      /\ Agree(l) => Agree(l)'
      /\ Leaving(l) => Leaving(l)'
      /\ \A j \in Infos : Moved(j, l) => Moved(j, l)'
      /\ \A c \in Colors : Contents(mem', c, l) = Contents(mem, c, l)
  BY SameListFacts
<1>5. CASE l \in DOMAIN r.todo
  <2>1. Agree(l) /\ (l \in DOMAIN meta => i.color = r.todo[l])
    BY <1>1, <1>2, <1>5 DEF LegHolds
  <2>2. Agree(l)' /\ (l \in DOMAIN meta' => meta'[l].color = r.todo[l])
    BY <1>2, <1>4, <2>1
  <2> QED BY <1>1, <1>5, <2>2 DEF LegHolds
<1>6. CASE l \notin DOMAIN r.todo
  <2>1. /\ r.at = "unlink" => Leaving(l)
        /\ r.at = "forget" => AgreesAs(mem, dir, None, l)
        /\ r.at \in {"enable", "disable", "flag", "write"} \cup UpdatePlaces => l \in DOMAIN meta
        /\ r.at \in UpdatePlaces => a.timeOk /\ a.info.enabled = i.enabled
        /\ r.at \in {"mask", "enable", "disable", "write"} => Agree(l)
        /\ r.at = "mask" => a.info.color = i.color
        /\ r.at \in {"color", "get", "set"} => AgreesAs(mem, dir, [i EXCEPT !.mask = a.info.mask], l)
        /\ r.at \in {"get", "set"} => a.info.color # i.color
        /\ r.at = "set" => r.held = Contents(mem, i.color, l)
        /\ r.at = "drop" => Moved(a.info, l)
        /\ r.at = "update" => AgreesAs(mem, dir, a.info, l)
        /\ r.at \in {"enable", "disable"} => a.color = i.color
        /\ r.at = "enable" => a.mask = i.mask
        /\ r.at = "flag" => AgreesAs(mem, dir, [i EXCEPT !.enabled = a.enabled], l)
        /\ r.at = "write" => i = [color |-> a.color, mask |-> a.mask, enabled |-> TRUE]
    BY <1>1, <1>2, <1>3, <1>6 DEF LegHolds
  <2>2. /\ r.at \in UpdatePlaces => a.info \in Infos
        /\ r.at \in UpdatePlaces => i \in Infos /\ i.color \in Colors
    BY <1>1, <1>2, <1>3, <2>1, InfoFacts DEF LegType
  <2>3. r.at \in {"enable", "disable", "flag", "write"} \cup UpdatePlaces => l \in DOMAIN meta' /\ i = meta'[l]
    BY <1>2, <1>4, <2>1
  <2>4. /\ r.at = "unlink" => Leaving(l)'
        /\ r.at = "forget" => AgreesAs(mem', dir', None, l)
        /\ r.at \in {"mask", "enable", "disable", "write"} => Agree(l)'
        /\ r.at \in {"color", "get", "set"} => AgreesAs(mem', dir', [i EXCEPT !.mask = a.info.mask], l)
        /\ r.at = "update" => AgreesAs(mem', dir', a.info, l)
        /\ r.at = "flag" => AgreesAs(mem', dir', [i EXCEPT !.enabled = a.enabled], l)
    BY <1>4, <2>1
  <2>5. /\ r.at = "set" => r.held = Contents(mem', i.color, l)
        /\ r.at = "drop" => Moved(a.info, l)'
    BY <1>4, <2>1, <2>2 DEF UpdatePlaces
  <2>6. PICK j : j = meta'[l] /\ (r.at \in {"enable", "disable", "flag", "write"} \cup UpdatePlaces => j = i)
    BY <2>3
  <2>7. /\ r.at = "unlink" => Leaving(l)'
        /\ r.at = "forget" => AgreesAs(mem', dir', None, l)
        /\ r.at \in {"enable", "disable", "flag", "write"} \cup UpdatePlaces => l \in DOMAIN meta'
        /\ r.at \in UpdatePlaces => a.timeOk /\ a.info.enabled = j.enabled
        /\ r.at \in {"mask", "enable", "disable", "write"} => Agree(l)'
        /\ r.at = "mask" => a.info.color = j.color
        /\ r.at \in {"color", "get", "set"} => AgreesAs(mem', dir', [j EXCEPT !.mask = a.info.mask], l)
        /\ r.at \in {"get", "set"} => a.info.color # j.color
        /\ r.at = "set" => r.held = Contents(mem', j.color, l)
        /\ r.at = "drop" => Moved(a.info, l)'
        /\ r.at = "update" => AgreesAs(mem', dir', a.info, l)
        /\ r.at \in {"enable", "disable"} => a.color = j.color
        /\ r.at = "enable" => a.mask = j.mask
        /\ r.at = "flag" => AgreesAs(mem', dir', [j EXCEPT !.enabled = a.enabled], l)
        /\ r.at = "write" => j = [color |-> a.color, mask |-> a.mask, enabled |-> TRUE]
    BY <2>1, <2>3, <2>4, <2>5, <2>6 DEF UpdatePlaces
  <2> QED BY <1>1, <1>3, <1>6, <2>6, <2>7 DEF LegHolds
<1> QED BY <1>5, <1>6

LEMMA LegListFacts ==
    ASSUME LegTypes
    PROVE  /\ \A t \in Threads : WorksOn(t) \subseteq Lists
           /\ WorksOn(Main) = {} /\ LegacyLists \subseteq Lists
           /\ LegacyLists = UNION {WorksOn(s) : s \in Sessions}
           /\ Quiet(Sessions) => LegacyLists = {}
<1>1. \A t \in Threads : LegType(leg[t])
  BY DEF LegTypes
<1>2. ASSUME NEW t \in Threads PROVE WorksOn(t) \subseteq Lists
  <2>1. DOMAIN leg[t].todo \subseteq Lists /\ leg[t].id \in Lists \cup {None}
    BY <1>1 DEF LegType, Removals
  <2> QED BY <2>1 DEF WorksOn
<1>3. DOMAIN Empty = {}
  BY EmptyFacts
<1>4. WorksOn(Main) = {}
  <2>1. LegType(leg[Main]) /\ leg[Main].at \in {"rest", "rename"}
    BY <1>1 DEF LegTypes, Threads
  <2>2. leg[Main].todo = Empty /\ leg[Main].id = None
    BY <2>1 DEF LegType, RemovePlaces
  <2> QED BY <1>3, <2>2 DEF WorksOn
<1>5. LegacyLists = UNION {WorksOn(s) : s \in Sessions}
  BY <1>4 DEF LegacyLists, Threads
<1>6. ASSUME Quiet(Sessions) PROVE LegacyLists = {}
  <2>1. Rest.todo = Empty /\ Rest.id = None
    BY DEF Rest
  <2>2. ASSUME NEW s \in Sessions PROVE WorksOn(s) = {}
    BY <1>3, <1>6, <2>1 DEF Quiet, WorksOn
  <2> QED BY <1>5, <2>2
<1> QED BY <1>2, <1>4, <1>5, <1>6 DEF LegacyLists

LegLists ==
    /\ \A t \in Threads : WorksOn(t) \subseteq Lists
    /\ LegacyLists = UNION {WorksOn(s) : s \in Sessions}
    /\ Quiet(Sessions) => LegacyLists = {}

LEMMA LegListFactsNext == LegTypes' => LegLists'
<1>1. LegTypes => LegLists
  BY LegListFacts DEF LegLists
<1> QED BY <1>1, PTL

\* The sessions do not move, and the lists they work on stay as they are.
LEMMA LegacySame ==
    ASSUME LegacyInv, LegTypes, IsMeta(meta), leg' = leg, ill \subseteq ill',
           \A k \in LegacyLists \ ill' :
              /\ k \notin CmdLists' /\ SameMeta(meta, meta', k)
              /\ SameFiles(dir, dir', k) /\ SameContents(mem, mem', k)
    PROVE  LegacyInv' /\ LegacyLists' = LegacyLists
<1>1. LegacyLists' = LegacyLists /\ \A t : WorksOn(t)' = WorksOn(t)
  BY DEF LegacyLists, WorksOn
<1>2. ASSUME NEW k \in LegacyLists \ ill', NEW s \in Sessions, k \in WorksOn(s)
      PROVE  LegHolds(s, k)'
  <2>1. LegHolds(s, k) /\ LegType(leg[s])
    BY <1>2 DEF LegacyInv, LegTypes, Threads
  <2> QED BY <1>2, <2>1, LegHoldsSame
<1> QED BY <1>1, <1>2 DEF LegacyInv

\* A list the vNext command does not work on, and which agrees.
LEMMA FreeHolds ==
    ASSUME CmdTypes, ~Exclusive, cmd' = cmd, NEW l, l \notin CmdLists, Agree(l)'
    PROVE  Holds(l)'
<1>1. CASE cmd.op = "apply"
  <2>1. l \notin DOMAIN cmd.removes /\ l \notin DOMAIN cmd.plan
    BY <1>1, CmdFacts
  <2>2. cmd.at = "next" \/ l # cmd.id
    BY <1>1, CmdFacts
  <2>3. ApplyHolds(l)'
    BY <2>1, <2>2 DEF ApplyHolds
  <2> QED BY <1>1, <2>3 DEF Holds
<1>2. CASE cmd.op = "import"
  <2>1. l # cmd.id
    BY <1>2, CmdFacts
  <2>2. ImportHolds(l)'
    BY <2>1 DEF ImportHolds
  <2> QED BY <1>2, <2>2 DEF Holds
<1>3. CASE cmd.op \notin {"apply", "import"}
  BY <1>3 DEF Exclusive, Holds
<1> QED BY <1>1, <1>2, <1>3

-----------------------------------------------------------------------------
(* Steps of the sessions in general. *)

LEMMA LegacyStepKeeps ==
    ASSUME ListsInv, NEW s \in Sessions, NEW l \in Lists, l \in WorksOn(s), NEW r, LegType(r),
           UNCHANGED <<cmd, slot, saved>>, leg' = [leg EXCEPT ![s] = r], r.id \in {l, None},
           \A k \in DOMAIN r.todo : k # l /\ k \in DOMAIN leg[s].todo /\ r.todo[k] = leg[s].todo[k],
           WorksOn(s) \subseteq WorksOn(s)' \cup {l},
           ill \subseteq ill', DOMAIN mem' = Colors, AggInv', IsMeta(meta'),
           \A k \in Lists \ {l} : SameMeta(meta, meta', k) /\ SameFiles(dir, dir', k) /\ SameContents(mem, mem', k),
           l \notin ill' => IF r.id = l THEN LegHolds(s, l)' ELSE Agree(l)'
    PROVE  ListsInv'
<1>1. /\ CmdTypes /\ LegTypes /\ LegacyInv /\ IsMeta(meta) /\ RestoreInv
      /\ \A k \in Lists \ Loose : Holds(k)
  BY InvFacts DEF ListsInv
<1>2. /\ s \in Threads /\ s # Main /\ DOMAIN leg = Threads /\ Sessions \subseteq Threads /\ None \notin Lists
      /\ \A t \in Threads : LegType(leg[t])
  BY <1>1, ListsAssumption DEF Threads, LegTypes
<1>3. /\ LegacyLists = UNION {WorksOn(t) : t \in Sessions} /\ l \in LegacyLists
      /\ \A t \in Threads : WorksOn(t) \subseteq Lists
  BY <1>1, LegListFacts
<1>4. ~Exclusive
  <2>1. ~Quiet(Sessions)
    BY <1>1, <1>3, LegListFacts
  <2> QED BY <1>1, <2>1 DEF RestoreInv, Exclusive
<1>5. leg'[s] = r /\ DOMAIN leg' = Threads /\ \A t \in Threads : t # s => leg'[t] = leg[t]
  BY <1>2
<1>6. LegTypes'
  BY <1>1, <1>2, <1>5 DEF LegTypes, Threads
<1>7. CmdTypes' /\ Types'
  BY <1>1, <1>6, CmdSame, SameTypes
<1>8. LegacyLists' = UNION {WorksOn(t)' : t \in Sessions} /\ \A t \in Threads : WorksOn(t)' \subseteq Lists
  BY <1>6, LegListFactsNext DEF LegLists
<1>9. \A t \in Threads : t # s => WorksOn(t)' = WorksOn(t)
  BY <1>5 DEF WorksOn
<1>10. /\ \A k \in WorksOn(s)' : k = l \/ (k # l /\ k \in DOMAIN r.todo /\ k \in DOMAIN leg[s].todo)
       /\ l \in WorksOn(s)' <=> r.id = l
       /\ WorksOn(s)' \subseteq WorksOn(s)
  <2>1. WorksOn(s)' = (DOMAIN r.todo \cup {r.id}) \ {None} /\ WorksOn(s) = (DOMAIN leg[s].todo \cup {leg[s].id}) \ {None}
    BY <1>5 DEF WorksOn
  <2>2. l # None
    BY <1>2
  <2> QED BY <2>1, <2>2
<1>11. CmdLists' = CmdLists
  BY DEF CmdLists
<1>12. ASSUME NEW k \in Lists \ Loose' PROVE Holds(k)'
  <2>1. k \notin ill' /\ k \notin ill /\ \A t \in Sessions : k \notin WorksOn(t)'
    BY <1>8, <1>12 DEF Loose
  <2>2. CASE k = l
    <3>1. l \notin CmdLists
      BY <1>1, <1>3, <2>1, <2>2 DEF LegacyInv
    <3>2. Agree(l)'
      BY <1>10, <2>1, <2>2
    <3> QED BY <1>1, <1>4, <2>2, <3>1, <3>2, FreeHolds
  <2>3. CASE k # l
    <3>1. \A t \in Sessions : k \notin WorksOn(t)
      BY <1>2, <1>9, <2>1, <2>3
    <3>2. Holds(k)
      BY <1>1, <1>3, <1>12, <2>1, <3>1 DEF Loose
    <3> QED BY <1>1, <1>4, <1>12, <2>3, <3>2, SameHolds
  <2> QED BY <2>2, <2>3
<1>13. ASSUME NEW k \in LegacyLists' \ ill' 
       PROVE  /\ k \notin CmdLists'
              /\ \A t, u \in Sessions : k \in WorksOn(t)' /\ k \in WorksOn(u)' => t = u
              /\ \A t \in Sessions : k \in WorksOn(t)' => LegHolds(t, k)'
  <2>1. k \notin ill /\ k \in Lists /\ \A t \in Sessions : k \in WorksOn(t)' => k \in WorksOn(t)
    BY <1>2, <1>8, <1>9, <1>10, <1>13
  <2>2. k \in LegacyLists \ ill
    BY <1>3, <1>8, <1>13, <2>1
  <2>3. /\ k \notin CmdLists
        /\ \A t, u \in Sessions : k \in WorksOn(t) /\ k \in WorksOn(u) => t = u
        /\ \A t \in Sessions : k \in WorksOn(t) => LegHolds(t, k)
    BY <1>1, <2>2 DEF LegacyInv
  <2>4. ASSUME NEW t \in Sessions, k \in WorksOn(t)' PROVE LegHolds(t, k)'
    <3>1. CASE t = s /\ k = l
      BY <1>10, <1>13, <2>4, <3>1
    <3>2. CASE t = s /\ k # l
      <4>1. k \in DOMAIN r.todo /\ k \in DOMAIN leg[s].todo /\ r.todo[k] = leg[s].todo[k]
        BY <1>10, <2>4, <3>2
      <4>2. Agree(k) /\ (k \in DOMAIN meta => meta[k].color = leg[s].todo[k])
        BY <2>1, <2>3, <2>4, <3>2, <4>1 DEF LegHolds
      <4>3. SameMeta(meta, meta', k) /\ SameFiles(dir, dir', k) /\ SameContents(mem, mem', k)
        BY <2>1, <3>2
      <4>4. Agree(k)' /\ (k \in DOMAIN meta' => meta'[k].color = r.todo[k])
        BY <4>1, <4>2, <4>3, AgreeSame DEF SameMeta
      <4> QED BY <1>5, <3>2, <4>1, <4>4 DEF LegHolds
    <3>3. CASE t # s
      <4>1. k \in WorksOn(t) /\ k # l /\ leg'[t] = leg[t] /\ LegType(leg[t])
        BY <1>2, <1>5, <2>1, <2>3, <2>4, <3>3
      <4>2. LegHolds(t, k)
        BY <2>3, <4>1
      <4>3. SameMeta(meta, meta', k) /\ SameFiles(dir, dir', k) /\ SameContents(mem, mem', k)
        BY <2>1, <4>1
      <4> QED BY <1>1, <4>1, <4>2, <4>3, LegHoldsSame
    <3> QED BY <3>1, <3>2, <3>3
  <2> QED BY <1>11, <2>1, <2>3, <2>4
<1>14. LegacyInv'
  BY <1>13 DEF LegacyInv
<1> QED BY <1>4, <1>7, <1>12, <1>14, Shared DEF Exclusive

\* A request: what a session takes on agrees unless another command overlaps.
LEMMA BeginKeeps ==
    ASSUME ListsInv, NEW s \in Sessions, NEW work \in SUBSET Lists, NEW misused, NEW first,
           Begin(s, work, misused, first), LegType(first), WorksOn(s)' \subseteq work, IsMeta(meta'),
           \A k \in Lists \ work : SameMeta(meta, meta', k),
           \A k \in work \ ill' : Agree(k) => IF k \in WorksOn(s)' THEN LegHolds(s, k)' ELSE Agree(k)'
    PROVE  ListsInv'
<1>1. /\ CmdTypes /\ LegTypes /\ LegacyInv /\ IsMeta(meta) /\ AggInv /\ DOMAIN mem = Colors
      /\ \A k \in Lists \ Loose : Holds(k)
  BY InvFacts
<1>2. /\ s \in Threads /\ s # Main /\ DOMAIN leg = Threads /\ Sessions \subseteq Threads
      /\ \A t \in Threads : LegType(leg[t])
  BY <1>1, ListsAssumption DEF Threads, LegTypes
<1>3. /\ LegacyLists = UNION {WorksOn(t) : t \in Sessions} /\ LegacyLists \subseteq Lists
      /\ \A t \in Threads : WorksOn(t) \subseteq Lists
  BY <1>1, LegListFacts
<1>4. /\ ~Exclusive /\ leg[s] = Rest /\ leg' = [leg EXCEPT ![s] = first]
      /\ ill' = ill \cup misused \cup (work \cap Busy) /\ UNCHANGED <<mem, agg, dir, slot, saved, cmd>>
  BY DEF Begin, MayBegin
<1>5. WorksOn(s) = {}
  BY <1>4, EmptyFacts DEF Rest, WorksOn
<1>6. leg'[s] = first /\ DOMAIN leg' = Threads /\ \A t \in Threads : t # s => leg'[t] = leg[t]
  BY <1>2, <1>4
<1>7. LegTypes'
  BY <1>1, <1>2, <1>6 DEF LegTypes, Threads
<1>8. ill \subseteq ill' /\ DOMAIN mem' = Colors /\ AggInv' /\ \A k : SameContents(mem, mem', k) /\ SameFiles(dir, dir', k)
  BY <1>1, <1>4, SameMem, SameIsSame
<1>9. CmdTypes' /\ Types'
  BY <1>1, <1>4, <1>7, <1>8, CmdSame, SameTypes
<1>10. LegacyLists' = UNION {WorksOn(t)' : t \in Sessions}
  BY <1>7, LegListFactsNext DEF LegLists
<1>11. \A t \in Threads : t # s => WorksOn(t)' = WorksOn(t)
  BY <1>6 DEF WorksOn
<1>12. CmdLists' = CmdLists
  BY <1>4 DEF CmdLists
<1>13. ASSUME NEW k \in work \ ill'
       PROVE  /\ Agree(k) /\ k \notin CmdLists /\ \A t \in Sessions : t # s => k \notin WorksOn(t)'
              /\ IF k \in WorksOn(s)' THEN LegHolds(s, k)' ELSE Agree(k)'
  <2>1. k \in Lists \ (ill \cup Busy) /\ k \notin CmdLists /\ k \notin LegacyLists
    BY <1>4, <1>13 DEF Busy
  <2>2. Agree(k)
    BY <1>4, <2>1, FreeAgrees
  <2>3. \A t \in Sessions : t # s => k \notin WorksOn(t)'
    BY <1>2, <1>3, <1>11, <2>1
  <2> QED BY <1>13, <2>1, <2>2, <2>3
<1>14. ASSUME NEW k \in Lists \ Loose' PROVE Holds(k)'
  <2>1. k \notin ill' /\ k \notin ill /\ \A t \in Sessions : k \notin WorksOn(t)'
    BY <1>8, <1>10, <1>14 DEF Loose
  <2>2. CASE k \in work
    <3>1. Agree(k)' /\ k \notin CmdLists
      BY <1>13, <2>1, <2>2
    <3> QED BY <1>1, <1>4, <3>1, FreeHolds
  <2>3. CASE k \notin work
    <3>1. \A t \in Sessions : k \notin WorksOn(t)
      BY <1>2, <1>5, <1>11, <2>1
    <3>2. Holds(k)
      BY <1>1, <1>3, <1>14, <2>1, <3>1 DEF Loose
    <3> QED BY <1>1, <1>4, <1>8, <1>14, <2>3, <3>2, SameHolds
  <2> QED BY <2>2, <2>3
<1>15. ASSUME NEW k \in LegacyLists' \ ill'
       PROVE  /\ k \notin CmdLists'
              /\ \A t, u \in Sessions : k \in WorksOn(t)' /\ k \in WorksOn(u)' => t = u
              /\ \A t \in Sessions : k \in WorksOn(t)' => LegHolds(t, k)'
  <2>1. CASE k \in work
    BY <1>12, <1>13, <1>15, <2>1
  <2>2. CASE k \notin work
    <3>1. k \notin WorksOn(s)' /\ \A t \in Sessions : k \in WorksOn(t)' => t # s /\ k \in WorksOn(t)
      BY <1>2, <1>11, <2>2
    <3>2. k \in LegacyLists \ ill /\ k \in Lists
      BY <1>3, <1>8, <1>10, <1>15, <3>1
    <3>3. /\ k \notin CmdLists
          /\ \A t, u \in Sessions : k \in WorksOn(t) /\ k \in WorksOn(u) => t = u
          /\ \A t \in Sessions : k \in WorksOn(t) => LegHolds(t, k)
      BY <1>1, <3>2 DEF LegacyInv
    <3>4. ASSUME NEW t \in Sessions, k \in WorksOn(t)' PROVE LegHolds(t, k)'
      <4>1. LegHolds(t, k) /\ leg'[t] = leg[t] /\ LegType(leg[t])
        BY <1>2, <1>6, <3>1, <3>3, <3>4
      <4>2. SameMeta(meta, meta', k) /\ SameFiles(dir, dir', k) /\ SameContents(mem, mem', k)
        BY <1>8, <2>2, <3>2
      <4> QED BY <1>1, <4>1, <4>2, LegHoldsSame
    <3> QED BY <1>12, <3>1, <3>3, <3>4
  <2> QED BY <2>1, <2>2
<1>16. LegacyInv'
  BY <1>15 DEF LegacyInv
<1> QED BY <1>4, <1>8, <1>9, <1>14, <1>16, Shared DEF Exclusive

\* Lists, files and commands stay; sessions that work on no list may move.
LEMMA StillKeeps ==
    ASSUME ListsInv, UNCHANGED <<meta, mem, agg, dir, backup, ip, cmd, ill>>, Types',
           \A s \in Sessions : leg'[s] = leg[s] \/ (~Exclusive /\ WorksOn(s) = {} /\ WorksOn(s)' = {})
    PROVE  ListsInv'
<1>1. CmdTypes /\ LegTypes /\ LegTypes' /\ LegacyInv /\ IsMeta(meta) /\ RestoreInv
  BY InvFacts DEF ListsInv, Types
<1>2. LegacyLists = UNION {WorksOn(t) : t \in Sessions} /\ LegacyLists' = UNION {WorksOn(t)' : t \in Sessions}
  BY <1>1, LegListFacts, LegListFactsNext DEF LegLists
<1>3. \A s \in Sessions : WorksOn(s)' = WorksOn(s)
  BY DEF WorksOn
<1>4. LegacyLists' = LegacyLists /\ CmdLists' = CmdLists
  BY <1>2, <1>3 DEF CmdLists
<1>5. ASSUME NEW k \in LegacyLists \ ill, NEW s \in Sessions, k \in WorksOn(s) PROVE LegHolds(s, k)'
  <2>1. LegHolds(s, k) /\ LegType(leg[s]) /\ leg'[s] = leg[s]
    BY <1>1, <1>5 DEF LegacyInv, LegTypes, Threads
  <2> QED BY <1>1, <2>1, LegHoldsSame, SameIsSame DEF SameContents
<1>6. LegacyInv'
  BY <1>1, <1>3, <1>4, <1>5 DEF LegacyInv
<1>7. RestoreInv'
  BY <1>1 DEF RestoreInv, Exclusive, Quiet
<1>8. AggInv'
  BY DEF ListsInv, AggInv
<1>9. \A l \in Lists \ Loose' : Holds(l)'
  <2>1. ASSUME NEW l, Holds(l) PROVE Holds(l)'
    <3>1. CASE ~Exclusive
      BY <1>1, <2>1, <3>1, SameHolds, SameIsSame DEF SameContents
    <3>2. CASE Exclusive
      BY <2>1, <3>2 DEF Exclusive, Holds, Agree
    <3> QED BY <3>1, <3>2
  <2> QED BY <1>4, <2>1 DEF ListsInv, Loose
<1>10. FailedRestoreHarmless' /\ RestoredAsSaved'
  BY DEF ListsInv, FailedRestoreHarmless, RestoredAsSaved, Policy, Agree
<1> QED BY <1>6, <1>7, <1>8, <1>9, <1>10 DEF ListsInv

-----------------------------------------------------------------------------
(* Requests of the sessions. *)

LEMMA RestFacts ==
    /\ LegType(Rest) /\ LegType(Saving)
    /\ Rest.todo = Empty /\ Rest.id = None /\ Saving.todo = Empty /\ Saving.id = None
    /\ Rest.at = "rest" /\ Saving.at = "save"
<1>1. DOMAIN Empty = {} /\ Empty \in Removals
  <2>1. DOMAIN Empty = {} /\ Empty \in [{} -> Colors]
    BY DEF Empty
  <2>2. {} \in SUBSET Lists
    OBVIOUS
  <2> QED BY <2>1, <2>2 DEF Removals
<1> QED BY <1>1 DEF LegType, Rest, Saving, UpdatePlaces, RemovePlaces

LEMMA Begun ==
    ASSUME LegTypes, NEW s \in Sessions, NEW work, NEW misused, NEW first, Begin(s, work, misused, first)
    PROVE  /\ leg'[s] = first /\ WorksOn(s)' = (DOMAIN first.todo \cup {first.id}) \ {None}
           /\ mem' = mem /\ dir' = dir /\ ill \subseteq ill' /\ misused \subseteq ill'
<1>1. leg'[s] = first /\ mem' = mem /\ dir' = dir /\ ill \subseteq ill' /\ misused \subseteq ill'
  BY DEF Begin, LegTypes, Threads
<1> QED BY <1>1 DEF WorksOn

\* A request that leaves the metadata alone.
LEMMA BegunKeeps ==
    ASSUME ListsInv, NEW s \in Sessions, NEW work \in SUBSET Lists, NEW misused, NEW first,
           Begin(s, work, misused, first), UNCHANGED meta, LegType(first),
           (DOMAIN first.todo \cup {first.id}) \ {None} \subseteq work,
           \A k \in work \ misused : Agree(k) => IF k \in DOMAIN first.todo \/ k = first.id THEN LegHolds(s, k)' ELSE TRUE
    PROVE  ListsInv'
<1>1. LegTypes /\ IsMeta(meta) /\ None \notin Lists
  BY InvFacts, ListsAssumption
<1>2. /\ leg'[s] = first /\ WorksOn(s)' = (DOMAIN first.todo \cup {first.id}) \ {None}
      /\ mem' = mem /\ dir' = dir /\ ill \subseteq ill' /\ misused \subseteq ill'
  BY <1>1, Begun
<1>3. \A k : Agree(k) => Agree(k)'
  BY <1>2 DEF Agree
<1>4. WorksOn(s)' \subseteq work
  BY <1>2
<1>5. \A k \in work \ ill' : Agree(k) => IF k \in WorksOn(s)' THEN LegHolds(s, k)' ELSE Agree(k)'
  BY <1>1, <1>2, <1>3
<1>6. IsMeta(meta') /\ \A k \in Lists \ work : SameMeta(meta, meta', k)
  BY <1>1, SameIsSame
<1> QED BY <1>4, <1>5, <1>6, BeginKeeps

LEMMA AddListKeeps ==
    ASSUME ListsInv, NEW s \in Sessions, NEW l \in Lists, NEW i \in LegacyInfos, cmdAddBlockingList(s, l, i.color, i.mask)
    PROVE  ListsInv'
<1>1. LegTypes /\ IsMeta(meta) /\ l \notin DOMAIN meta /\ Begin(s, {l}, {}, Saving)
  BY InvFacts DEF cmdAddBlockingList
<1>2. PICK new \in Infos : new = [color |-> i.color, mask |-> i.mask, enabled |-> TRUE] /\ meta' = Put(meta, l, new)
  BY ListsAssumption, InfoFacts DEF cmdAddBlockingList, Infos
<1>3. /\ IsMeta(meta') /\ Get(meta', l, None) = new /\ Get(meta, l, None) = None
      /\ \A k \in Lists \ {l} : SameMeta(meta, meta', k)
  BY <1>1, <1>2, MetaFacts
<1>4. mem' = mem /\ dir' = dir /\ WorksOn(s)' = {}
  BY <1>1, Begun, RestFacts, EmptyFacts
<1>5. ASSUME Agree(l) PROVE Agree(l)'
  <2>1. /\ \A c \in Colors : Contents(mem, c, l) = Empty
        /\ \A on \in BOOLEAN : File(l, on) \notin DOMAIN dir
    BY <1>3, <1>5, AgreeFacts DEF Agree
  <2>2. readFile(dir, l, new.mask) = Empty
    BY <2>1, EmptyIs
  <2>3. AgreesAs(mem', dir', new, l)
    BY <1>4, <2>1, <2>2 DEF AgreesAs
  <2> QED BY <1>3, <2>3 DEF Agree
<1> QED BY <1>1, <1>3, <1>4, <1>5, BeginKeeps, RestFacts

LEMMA UpdateListKeeps ==
    ASSUME ListsInv, NEW s \in Sessions, NEW l \in Lists, NEW new \in LegacyInfos, NEW timeOk \in BOOLEAN,
           cmdUpdateBlockingList(s, l, new, timeOk)
    PROVE  ListsInv'
<1> DEFINE masks == new.mask # meta[l].mask
           misuse == \/ ~timeOk \/ new.enabled # meta[l].enabled
                     \/ masks /\ new.color # meta[l].color
           f == [Rest EXCEPT !.at = IF masks THEN "mask" ELSE "color", !.id = l,
                             !.arg = [info |-> new, timeOk |-> timeOk]]
<1>1. LegTypes /\ IsMeta(meta) /\ l \in DOMAIN meta /\ meta[l] \in Infos /\ UNCHANGED meta /\ new \in Infos
  BY InvFacts, ListsAssumption DEF cmdUpdateBlockingList, IsMeta
<1>2. Begin(s, {l}, Misused(l, misuse), f)
  BY DEF cmdUpdateBlockingList
<1>3. /\ f.at = IF masks THEN "mask" ELSE "color"
      /\ f.id = l /\ f.todo = Empty /\ f.arg.info = new /\ f.arg.timeOk = timeOk
      /\ DOMAIN f = {"at", "id", "arg", "todo", "held", "lists", "clash"}
  BY DEF Rest
<1>4. PICK first : first = f
  OBVIOUS
<1> HIDE DEF f
<1>5. LegType(first)
  BY <1>1, <1>3, <1>4, RestFacts, EmptyFacts DEF LegType, UpdatePlaces, RemovePlaces
<1>6. leg'[s] = first /\ mem' = mem /\ dir' = dir
  BY <1>1, <1>2, <1>4, Begun
<1>7. ASSUME l \notin Misused(l, misuse), Agree(l) PROVE LegHolds(s, l)'
  <2>1. ~misuse
    BY <1>7 DEF Misused
  <2>2. timeOk /\ new.enabled = meta[l].enabled /\ (masks => new.color = meta[l].color)
    BY <2>1
  <2>3. PICK i : i = meta[l] /\ i = meta'[l] /\ i \in Infos
    BY <1>1
  <2>4. AgreesAs(mem', dir', i, l) /\ Agree(l)'
    BY <1>1, <1>6, <1>7, <2>3 DEF Agree, Get
  <2>5. ~masks => [i EXCEPT !.mask = new.mask] = i
    BY <2>3 DEF Infos
  <2>6. first.at = "color" => AgreesAs(mem', dir', [i EXCEPT !.mask = new.mask], l)
    BY <1>3, <1>4, <2>4, <2>5
  <2>7. first.at \in {"mask", "color"} /\ l \notin DOMAIN first.todo /\ (first.at = "mask" => new.color = i.color)
    BY <1>3, <1>4, <2>2, <2>3, EmptyFacts
  <2> QED BY <1>1, <1>3, <1>4, <1>6, <2>2, <2>3, <2>4, <2>6, <2>7 DEF LegHolds
<1>8. PICK bad : bad = Misused(l, misuse)
  OBVIOUS
<1>9. Begin(s, {l}, bad, first) /\ (l \notin bad /\ Agree(l) => LegHolds(s, l)')
  BY <1>2, <1>4, <1>7, <1>8
<1>10. first.todo = Empty /\ first.id = l /\ DOMAIN Empty = {}
  BY <1>3, <1>4, EmptyFacts
<1> HIDE DEF misuse
<1> QED BY <1>1, <1>5, <1>9, <1>10, BegunKeeps

LEMMA RemoveListKeeps ==
    ASSUME ListsInv, NEW s \in Sessions, NEW l \in Lists, NEW c \in Colors, cmdRemoveBlockingList(s, l, c)
    PROVE  ListsInv'
<1> DEFINE f == [Rest EXCEPT !.at = "next", !.todo = [k \in {l} |-> c]]
<1>1. LegTypes /\ UNCHANGED meta /\ Begin(s, {l}, Misused(l, ~ColorOf(l, c)), f)
  BY InvFacts DEF cmdRemoveBlockingList
<1>2. /\ f.at = "next" /\ f.id = None /\ f.todo = [k \in {l} |-> c]
      /\ DOMAIN f = {"at", "id", "arg", "todo", "held", "lists", "clash"}
  BY DEF Rest
<1>3. PICK first : first = f
  OBVIOUS
<1> HIDE DEF f
<1>4. first.todo \in Removals /\ DOMAIN first.todo = {l} /\ first.todo[l] = c
  BY <1>2, <1>3 DEF Removals
<1>5. LegType(first)
  BY <1>2, <1>3, <1>4, ListsAssumption DEF LegType, UpdatePlaces, RemovePlaces
<1>6. leg'[s] = first /\ mem' = mem /\ dir' = dir
  BY <1>1, <1>3, Begun
<1>7. ASSUME l \notin Misused(l, ~ColorOf(l, c)), Agree(l) PROVE LegHolds(s, l)'
  <2>1. ColorOf(l, c)
    BY <1>7 DEF Misused
  <2>2. Agree(l)' /\ (l \in DOMAIN meta' => meta'[l].color = c)
    BY <1>1, <1>6, <1>7, <2>1 DEF Agree, ColorOf
  <2> QED BY <1>4, <1>6, <2>2 DEF LegHolds
<1>8. first.id = None
  BY <1>2, <1>3
<1> QED BY <1>1, <1>3, <1>4, <1>5, <1>7, <1>8, BegunKeeps

LEMMA ClearListsKeeps ==
    ASSUME ListsInv, NEW s \in Sessions, cmdClearBlockingLists(s)
    PROVE  ListsInv'
<1> DEFINE todo == [l \in DOMAIN meta |-> meta[l].color]
           f == [Rest EXCEPT !.at = IF meta = Empty THEN "save" ELSE "next", !.todo = todo]
<1>1. LegTypes /\ IsMeta(meta) /\ UNCHANGED meta /\ Begin(s, DOMAIN meta, {}, f)
  BY InvFacts DEF cmdClearBlockingLists
<1>2. /\ f.at = IF meta = Empty THEN "save" ELSE "next"
      /\ f.id = None /\ f.todo = todo
      /\ DOMAIN f = {"at", "id", "arg", "todo", "held", "lists", "clash"}
  BY DEF Rest
<1>3. PICK first : first = f
  OBVIOUS
<1> HIDE DEF f
<1>4. todo \in Removals
  <2>1. DOMAIN meta \in SUBSET Lists /\ \A l \in DOMAIN meta : meta[l].color \in Colors
    BY <1>1, InfoFacts DEF IsMeta
  <2> QED BY <2>1 DEF Removals
<1>5. meta = Empty => todo = Empty
  BY EmptyFacts DEF Empty
<1>6. LegType(first)
  BY <1>1, <1>2, <1>3, <1>4, <1>5, ListsAssumption DEF LegType, UpdatePlaces, RemovePlaces, IsMeta
<1>7. leg'[s] = first /\ mem' = mem /\ dir' = dir
  BY <1>1, <1>3, Begun
<1>8. ASSUME NEW l \in DOMAIN meta, Agree(l) PROVE LegHolds(s, l)'
  <2>1. Agree(l)' /\ meta'[l].color = first.todo[l] /\ l \in DOMAIN first.todo
    BY <1>1, <1>2, <1>3, <1>7, <1>8 DEF Agree
  <2> QED BY <1>7, <2>1 DEF LegHolds
<1>9. first.id = None /\ DOMAIN first.todo = DOMAIN meta /\ DOMAIN meta \in SUBSET Lists
  BY <1>1, <1>2, <1>3 DEF IsMeta
<1> QED BY <1>1, <1>3, <1>6, <1>8, <1>9, BegunKeeps

LEMMA EnableListKeeps ==
    ASSUME ListsInv, NEW s \in Sessions, NEW l \in Lists, NEW c \in Colors, cmdEnableBlockingList(s, l, c)
    PROVE  ListsInv'
<1> DEFINE a == [color |-> c, mask |-> meta[l].mask, enabled |-> TRUE]
           f == [Rest EXCEPT !.at = "enable", !.id = l, !.arg = a]
<1>1. LegTypes /\ IsMeta(meta) /\ l \in DOMAIN meta /\ UNCHANGED meta /\ Begin(s, {l}, Misused(l, ~ColorOf(l, c)), f)
  BY InvFacts DEF cmdEnableBlockingList
<1>2. /\ f.at = "enable" /\ f.id = l /\ f.todo = Empty /\ f.arg = a
      /\ DOMAIN f = {"at", "id", "arg", "todo", "held", "lists", "clash"}
  BY DEF Rest
<1>3. PICK first : first = f
  OBVIOUS
<1> HIDE DEF f
<1>4. meta[l].mask \in Bits /\ DOMAIN Empty = {} /\ l \notin DOMAIN first.todo
  BY <1>1, <1>2, <1>3, InfoFacts, EmptyFacts DEF IsMeta
<1>5. LegType(first)
  BY <1>2, <1>3, <1>4, RestFacts DEF LegType, UpdatePlaces, RemovePlaces
<1>6. leg'[s] = first /\ mem' = mem /\ dir' = dir
  BY <1>1, <1>3, Begun
<1>7. ASSUME l \notin Misused(l, ~ColorOf(l, c)), Agree(l) PROVE LegHolds(s, l)'
  <2>1. meta[l].color = c
    BY <1>1, <1>7 DEF Misused, ColorOf
  <2>2. Agree(l)' /\ l \in DOMAIN meta'
    BY <1>1, <1>6, <1>7 DEF Agree
  <2> QED BY <1>1, <1>2, <1>3, <1>4, <1>6, <2>1, <2>2 DEF LegHolds, UpdatePlaces
<1>8. first.todo = Empty /\ first.id = l
  BY <1>2, <1>3
<1> QED BY <1>1, <1>3, <1>4, <1>5, <1>7, <1>8, BegunKeeps

LEMMA DisableListKeeps ==
    ASSUME ListsInv, NEW s \in Sessions, NEW l \in Lists, NEW c \in Colors, cmdDisableBlockingList(s, l, c)
    PROVE  ListsInv'
<1> DEFINE a == [color |-> c, enabled |-> FALSE]
           f == [Rest EXCEPT !.at = "disable", !.id = l, !.arg = a]
           misuse == l \notin DOMAIN meta \/ ~ColorOf(l, c)
<1>1. LegTypes /\ UNCHANGED meta /\ Begin(s, {l}, Misused(l, misuse), f)
  BY InvFacts DEF cmdDisableBlockingList
<1>2. /\ f.at = "disable" /\ f.id = l /\ f.todo = Empty /\ f.arg = a
      /\ DOMAIN f = {"at", "id", "arg", "todo", "held", "lists", "clash"}
  BY DEF Rest
<1>3. PICK first : first = f
  OBVIOUS
<1> HIDE DEF f
<1>4. DOMAIN Empty = {} /\ l \notin DOMAIN first.todo
  BY <1>2, <1>3, EmptyFacts
<1>5. LegType(first)
  BY <1>2, <1>3, <1>4, RestFacts DEF LegType, UpdatePlaces, RemovePlaces
<1>6. leg'[s] = first /\ mem' = mem /\ dir' = dir
  BY <1>1, <1>3, Begun
<1>7. ASSUME l \notin Misused(l, misuse), Agree(l) PROVE LegHolds(s, l)'
  <2>1. l \in DOMAIN meta /\ meta[l].color = c
    BY <1>7 DEF Misused, ColorOf
  <2>2. Agree(l)' /\ l \in DOMAIN meta'
    BY <1>1, <1>6, <1>7, <2>1 DEF Agree
  <2> QED BY <1>1, <1>2, <1>3, <1>4, <1>6, <2>1, <2>2 DEF LegHolds, UpdatePlaces
<1>8. first.todo = Empty /\ first.id = l
  BY <1>2, <1>3
<1> QED BY <1>1, <1>3, <1>4, <1>5, <1>7, <1>8, BegunKeeps

LEMMA AddManyKeeps ==
    ASSUME ListsInv, NEW s \in Sessions, NEW l \in Lists, NEW i \in LegacyInfos, NEW clear \in BOOLEAN, NEW D,
           cmdAddManyDomains(s, l, i.color, i.mask, clear, D)
    PROVE  ListsInv'
<1> DEFINE a == [color |-> i.color, mask |-> i.mask, clear |-> clear, doms |-> D]
           f == [Rest EXCEPT !.at = "write", !.id = l, !.arg = a]
           want == [color |-> i.color, mask |-> i.mask, enabled |-> TRUE]
           misuse == Get(meta, l, None) # want
<1>1. LegTypes /\ UNCHANGED meta /\ Begin(s, {l}, Misused(l, misuse), f) /\ i.color \in Colors /\ i.mask \in Bits /\ want \in Infos
  BY InvFacts, InfoFacts, ListsAssumption DEF cmdAddManyDomains, Infos
<1>2. /\ f.at = "write" /\ f.id = l /\ f.todo = Empty /\ f.arg = a
      /\ DOMAIN f = {"at", "id", "arg", "todo", "held", "lists", "clash"}
  BY DEF Rest
<1>3. PICK first : first = f
  OBVIOUS
<1> HIDE DEF f
<1>4. DOMAIN Empty = {} /\ l \notin DOMAIN first.todo
  BY <1>2, <1>3, EmptyFacts
<1>5. LegType(first)
  BY <1>1, <1>2, <1>3, <1>4, RestFacts DEF LegType, UpdatePlaces, RemovePlaces
<1>6. leg'[s] = first /\ mem' = mem /\ dir' = dir
  BY <1>1, <1>3, Begun
<1>7. ASSUME l \notin Misused(l, misuse), Agree(l) PROVE LegHolds(s, l)'
  <2>1. Get(meta, l, None) = want
    BY <1>7 DEF Misused
  <2>2. l \in DOMAIN meta /\ meta[l] = want
    BY <1>1, <2>1, InfoFacts DEF Get
  <2>3. Agree(l)' /\ l \in DOMAIN meta'
    BY <1>1, <1>6, <1>7, <2>2 DEF Agree
  <2>4. meta'[l] = [color |-> first.arg.color, mask |-> first.arg.mask, enabled |-> TRUE]
    <3>1. first.arg.color = i.color /\ first.arg.mask = i.mask
      BY <1>2, <1>3
    <3>2. meta'[l] = want
      BY <1>1, <2>2
    <3> QED BY <3>1, <3>2
  <2> QED BY <1>2, <1>3, <1>4, <1>6, <2>3, <2>4 DEF LegHolds, UpdatePlaces
<1>8. first.todo = Empty /\ first.id = l
  BY <1>2, <1>3
<1> QED BY <1>1, <1>3, <1>4, <1>5, <1>7, <1>8, BegunKeeps

LEMMA RequestKeeps ==
    ASSUME ListsInv, NEW s \in Sessions, LegacyRequest(s)
    PROVE  ListsInv'
<1>1. ASSUME cmdSaveBlockingLists(s) PROVE ListsInv'
  <2>1. Begin(s, {}, {}, Saving) /\ UNCHANGED meta
    BY <1>1 DEF cmdSaveBlockingLists
  <2>2. (DOMAIN Saving.todo \cup {Saving.id}) \ {None} = {} /\ LegType(Saving)
    BY RestFacts, EmptyFacts
  <2> QED BY <2>1, <2>2, BegunKeeps
<1> QED BY <1>1, AddListKeeps, UpdateListKeeps, RemoveListKeeps, ClearListsKeeps, EnableListKeeps, DisableListKeeps,
           AddManyKeeps DEF LegacyRequest

-----------------------------------------------------------------------------
(* Steps of the sessions. *)

LEMMA AtFacts ==
    ASSUME ListsInv, NEW s \in Sessions, leg[s].id \in Lists
    PROVE  /\ LegType(leg[s]) /\ s \in DOMAIN leg /\ leg[s].id \in WorksOn(s) /\ leg[s].id \notin DOMAIN leg[s].todo
           /\ leg[s].id \notin ill => LegHolds(s, leg[s].id)
           /\ AggInv /\ DOMAIN mem = Colors /\ IsMeta(meta)
<1>1. LegTypes /\ LegacyInv /\ AggInv /\ DOMAIN mem = Colors /\ IsMeta(meta)
  BY InvFacts
<1>2. LegType(leg[s]) /\ s \in DOMAIN leg /\ s \in Threads
  BY <1>1 DEF LegTypes, Threads
<1>3. leg[s].id \in WorksOn(s) /\ leg[s].id \notin DOMAIN leg[s].todo
  BY <1>2, ListsAssumption DEF WorksOn, LegType
<1>4. leg[s].id \in LegacyLists
  BY <1>2, <1>3 DEF LegacyLists
<1> QED BY <1>1, <1>2, <1>3, <1>4 DEF LegacyInv

\* A step of a command about one list.
LEMMA MoveLegKeeps ==
    ASSUME ListsInv, NEW s \in Sessions, NEW l \in Lists, leg[s].id = l, leg[s].at \notin RemovePlaces,
           NEW r, LegType(r), Goes(s, r), r.todo = Empty, r.id \in {l, None},
           ill \subseteq ill', DOMAIN mem' = Colors, AggInv', IsMeta(meta'),
           \A k \in Lists \ {l} : SameMeta(meta, meta', k) /\ SameFiles(dir, dir', k) /\ SameContents(mem, mem', k),
           l \notin ill' => IF r.id = l THEN LegHolds(s, l)' ELSE Agree(l)'
    PROVE  ListsInv'
<1>1. LegType(leg[s]) /\ l \in WorksOn(s) /\ leg' = [leg EXCEPT ![s] = r] /\ UNCHANGED <<cmd, slot, saved>>
  BY AtFacts DEF Goes
<1>2. DOMAIN r.todo = {} /\ DOMAIN leg[s].todo = {}
  BY <1>1, EmptyFacts DEF LegType
<1>3. WorksOn(s) \subseteq WorksOn(s)' \cup {l}
  BY <1>2 DEF WorksOn
<1> QED BY <1>1, <1>2, <1>3, LegacyStepKeeps

\* What an UPDATE's place says.
LEMMA UpdateFacts ==
    ASSUME ListsInv, NEW s \in Sessions, leg[s].at \in UpdatePlaces
    PROVE  /\ leg[s].id \in Lists /\ leg[s].at \notin RemovePlaces /\ leg[s].arg.info \in Infos
           /\ leg[s].todo = Empty /\ leg[s].arg.info.color \in Colors
           /\ leg[s].id \notin ill =>
                 /\ LegHolds(s, leg[s].id) /\ leg[s].id \notin DOMAIN leg[s].todo
                 /\ leg[s].id \in DOMAIN meta /\ meta[leg[s].id] \in Infos
                 /\ leg[s].arg.timeOk /\ leg[s].arg.info.enabled = meta[leg[s].id].enabled
<1>1. LegType(leg[s]) /\ IsMeta(meta)
  BY InvFacts DEF LegTypes, Threads
<1>2. leg[s].at \notin {"rest", "save", "rename", "next", "unlink", "forget"}
  BY DEF UpdatePlaces
<1>3. /\ leg[s].id \in Lists /\ leg[s].at \notin RemovePlaces /\ leg[s].arg.info \in Infos
      /\ leg[s].todo = Empty /\ leg[s].arg.info.color \in Colors
  BY <1>1, <1>2, InfoFacts DEF LegType, RemovePlaces
<1>4. ASSUME leg[s].id \notin ill
      PROVE  /\ LegHolds(s, leg[s].id) /\ leg[s].id \notin DOMAIN leg[s].todo
             /\ leg[s].id \in DOMAIN meta
             /\ leg[s].arg.timeOk /\ leg[s].arg.info.enabled = meta[leg[s].id].enabled
  <2>1. LegHolds(s, leg[s].id) /\ leg[s].id \notin DOMAIN leg[s].todo
    BY <1>3, <1>4, AtFacts
  <2> QED BY <2>1 DEF LegHolds
<1> QED BY <1>1, <1>3, <1>4 DEF IsMeta

\* The next place of an UPDATE.
Placed(s, at, held) == [leg[s] EXCEPT !.at = at, !.held = held]
LEMMA UpdateNext ==
    ASSUME ListsInv, NEW s \in Sessions, leg[s].at \in UpdatePlaces, NEW at \in UpdatePlaces, NEW held,
           NEW r, r = Placed(s, at, held)
    PROVE  LegType(r) /\ r.at = at /\ r.id = leg[s].id /\ r.arg = leg[s].arg /\ r.todo = Empty /\ r.held = held
<1>1. LegType(leg[s]) /\ leg[s].todo = Empty /\ leg[s].id \in Lists /\ leg[s].arg.info \in Infos
  BY UpdateFacts, InvFacts DEF LegTypes, Threads
<1>2. /\ r.at = at /\ r.id = leg[s].id /\ r.arg = leg[s].arg /\ r.todo = Empty /\ r.held = held
      /\ DOMAIN r = {"at", "id", "arg", "todo", "held", "lists", "clash"}
  BY <1>1 DEF LegType, Placed
<1>3. LegType(r)
  BY <1>1, <1>2, RestFacts, EmptyFacts DEF LegType, UpdatePlaces, RemovePlaces
<1> QED BY <1>2, <1>3

LEMMA KeptHeld ==
    ASSUME ListsInv, NEW s \in Sessions, NEW at
    PROVE  [leg[s] EXCEPT !.at = at] = Placed(s, at, leg[s].held)
<1>1. LegType(leg[s])
  BY InvFacts DEF LegTypes, Threads
<1> QED BY <1>1 DEF LegType, Placed

LEMMA MovedTo ==
    ASSUME ListsInv, NEW s \in Sessions, NEW r, Goes(s, r)
    PROVE  leg'[s] = r
BY InvFacts DEF LegTypes, Threads, Goes

LEMMA UpdateMaskKeeps == ASSUME ListsInv, NEW s \in Sessions, UpdateMask(s) PROVE ListsInv'
<1>1. PICK l, a : l = leg[s].id /\ a = leg[s].arg
  OBVIOUS
<1>2. leg[s].at = "mask" /\ leg[s].at \in UpdatePlaces
  BY DEF UpdateMask, UpdatePlaces
<1>3. PICK r : r = Placed(s, "color", leg[s].held)
  OBVIOUS
<1>4. /\ changeBlockMask(l, a.info.mask, a.info.color) /\ Goes(s, r) /\ UNCHANGED <<meta, dir, ill>>
  BY <1>1, <1>3, KeptHeld DEF UpdateMask
<1>5. LegType(r) /\ r.at = "color" /\ r.id = l /\ r.arg = a /\ r.todo = Empty
  <2>1. "color" \in UpdatePlaces
    BY DEF UpdatePlaces
  <2> QED BY <1>1, <1>2, <1>3, <2>1, UpdateNext
<1>6. l \in Lists /\ leg[s].at \notin RemovePlaces /\ a.info \in Infos /\ a.info.color \in Colors
  BY <1>1, <1>2, UpdateFacts
<1>7. AggInv /\ DOMAIN mem = Colors /\ IsMeta(meta) /\ leg'[s] = r
  BY <1>4, InvFacts, MovedTo
<1>8. /\ DOMAIN mem' = Colors /\ AggInv'
      /\ \A b \in Colors : \A k : Contents(mem', b, k) =
            IF b = a.info.color /\ k = l THEN Remask(Contents(mem, a.info.color, l), a.info.mask) ELSE Contents(mem, b, k)
      /\ \A k : k # l => SameContents(mem, mem', k)
  BY <1>4, <1>6, <1>7, ChangeMaskFacts
<1>9. ASSUME l \notin ill' PROVE LegHolds(s, l)'
  <2>1. PICK i \in Infos : i = meta[l] /\ i = meta'[l]
    BY <1>1, <1>2, <1>4, <1>9, UpdateFacts
  <2>2. /\ l \in DOMAIN meta' /\ a.timeOk /\ a.info.enabled = i.enabled /\ Agree(l) /\ a.info.color = i.color
    BY <1>1, <1>2, <1>4, <1>9, <2>1, UpdateFacts DEF LegHolds
  <2>3. /\ \A on \in BOOLEAN : File(l, on) \in DOMAIN dir => i.enabled = on
        /\ \A b \in Colors : Contents(mem, b, l) = IF i.enabled /\ i.color = b THEN readFile(dir, l, i.mask) ELSE Empty
    BY <1>4, <2>1, <2>2, InfoFacts, AgreeFacts DEF Agree, Get
  <2>4. PICK j \in Infos : /\ j = [i EXCEPT !.mask = a.info.mask] /\ j.enabled = i.enabled
                           /\ j.color = i.color /\ j.mask = a.info.mask
    BY <1>6, <2>1, InfoFacts, Masked
  <2>5. \A b \in Colors : Contents(mem', b, l) = IF j.enabled /\ j.color = b THEN readFile(dir, l, j.mask) ELSE Empty
    BY <1>8, <2>2, <2>3, <2>4, RemaskFacts
  <2>6. AgreesAs(mem', dir', j, l)
    BY <1>4, <2>3, <2>4, <2>5, InfoFacts, AgreeFacts
  <2> QED BY <1>5, <1>7, <2>1, <2>2, <2>4, <2>6, EmptyFacts DEF LegHolds, UpdatePlaces
<1> QED BY <1>1, <1>2, <1>4, <1>5, <1>6, <1>7, <1>8, <1>9, MoveLegKeeps, SameIsSame

\* A step of an UPDATE that only reads.
LEMMA UpdateReads ==
    ASSUME ListsInv, NEW s \in Sessions, leg[s].at \in UpdatePlaces, NEW at \in UpdatePlaces, NEW held,
           NEW r, r = Placed(s, at, held), Goes(s, r), UNCHANGED <<meta, mem, agg, dir, ill>>,
           NEW l, l = leg[s].id, l \notin ill => LegHolds(s, l)'
    PROVE  ListsInv'
<1>3. LegType(r) /\ r.id = l /\ r.todo = Empty /\ leg'[s] = r
  BY UpdateNext, MovedTo
<1>4. l \in Lists /\ leg[s].at \notin RemovePlaces
  BY UpdateFacts
<1>5. /\ DOMAIN mem' = Colors /\ AggInv' /\ IsMeta(meta')
      /\ \A k : SameMeta(meta, meta', k) /\ SameFiles(dir, dir', k) /\ SameContents(mem, mem', k)
  BY InvFacts, SameMem, SameIsSame
<1>6. l \notin ill' => LegHolds(s, l)'
  OBVIOUS
<1> QED BY <1>3, <1>4, <1>5, <1>6, MoveLegKeeps

LEMMA GetColorKeeps == ASSUME ListsInv, NEW s \in Sessions, getColor(s) PROVE ListsInv'
<1>1. PICK l, a : l = leg[s].id /\ a = leg[s].arg
  OBVIOUS
<1>2. leg[s].at = "color" /\ leg[s].at \in UpdatePlaces /\ {"update", "get"} \subseteq UpdatePlaces
  BY DEF getColor, UpdatePlaces
<1>3. PICK at \in UpdatePlaces : at = IF ColorOf(l, a.info.color) THEN "update" ELSE "get"
  BY <1>2
<1>r. PICK r : r = Placed(s, at, leg[s].held)
  OBVIOUS
<1>4. Goes(s, r) /\ UNCHANGED <<meta, mem, agg, dir, ill>>
  BY <1>1, <1>3, <1>r, KeptHeld DEF getColor
<1>5. ASSUME l \notin ill PROVE LegHolds(s, l)'
  <2>1. r = leg'[s]
    BY <1>4, MovedTo
  <2>2. r.at = at /\ r.id = l /\ r.arg = a /\ r.todo = Empty
    BY <1>1, <1>2, <1>r, UpdateNext
  <2>3. PICK i \in Infos : i = meta[l] /\ i = meta'[l]
    BY <1>1, <1>2, <1>4, <1>5, UpdateFacts
  <2>4. /\ l \in DOMAIN meta /\ l \in DOMAIN meta' /\ a.timeOk /\ a.info.enabled = i.enabled /\ a.info \in Infos
        /\ AgreesAs(mem, dir, [i EXCEPT !.mask = a.info.mask], l)
    BY <1>1, <1>2, <1>4, <1>5, <2>3, UpdateFacts DEF LegHolds
  <2>5. i.color = a.info.color => [i EXCEPT !.mask = a.info.mask] = a.info
    BY <2>3, <2>4 DEF Infos
  <2>6. /\ AgreesAs(mem', dir', [i EXCEPT !.mask = a.info.mask], l)
        /\ at = "update" => AgreesAs(mem', dir', a.info, l)
        /\ at = "get" => a.info.color # i.color
        /\ at \in {"update", "get"}
    BY <1>3, <1>4, <2>3, <2>4, <2>5 DEF ColorOf
  <2> QED BY <2>1, <2>2, <2>3, <2>4, <2>6, EmptyFacts DEF LegHolds, UpdatePlaces
<1> QED BY <1>1, <1>2, <1>r, <1>4, <1>5, UpdateReads

LEMMA SwitchGetKeeps == ASSUME ListsInv, NEW s \in Sessions, SwitchGet(s) PROVE ListsInv'
<1>1. PICK l, a : l = leg[s].id /\ a = leg[s].arg
  OBVIOUS
<1>2. leg[s].at = "get" /\ leg[s].at \in UpdatePlaces /\ "set" \in UpdatePlaces
  BY DEF SwitchGet, UpdatePlaces
<1>3. PICK held : held = Contents(mem, Other(a.info.color), l)
  OBVIOUS
<1>r. PICK r : r = Placed(s, "set", held)
  OBVIOUS
<1>4. Goes(s, r) /\ UNCHANGED <<meta, mem, agg, dir, ill>>
  BY <1>1, <1>3, <1>r DEF SwitchGet, Placed
<1>5. ASSUME l \notin ill PROVE LegHolds(s, l)'
  <2>1. r = leg'[s]
    BY <1>4, MovedTo
  <2>2. r.at = "set" /\ r.id = l /\ r.arg = a /\ r.todo = Empty /\ r.held = held
    BY <1>1, <1>2, <1>r, UpdateNext
  <2>3. PICK i \in Infos : i = meta[l] /\ i = meta'[l]
    BY <1>1, <1>2, <1>4, <1>5, UpdateFacts
  <2>4. /\ l \in DOMAIN meta' /\ a.timeOk /\ a.info.enabled = i.enabled /\ a.info.color \in Colors
        /\ AgreesAs(mem, dir, [i EXCEPT !.mask = a.info.mask], l) /\ a.info.color # i.color
    BY <1>1, <1>2, <1>4, <1>5, <2>3, UpdateFacts DEF LegHolds
  <2>5. Other(a.info.color) = i.color
    BY <2>3, <2>4, ColorFacts, InfoFacts
  <2>6. AgreesAs(mem', dir', [i EXCEPT !.mask = a.info.mask], l) /\ held = Contents(mem', i.color, l)
    BY <1>3, <1>4, <2>4, <2>5
  <2> QED BY <2>1, <2>2, <2>3, <2>4, <2>6, EmptyFacts DEF LegHolds, UpdatePlaces
<1> QED BY <1>1, <1>2, <1>r, <1>4, <1>5, UpdateReads

LEMMA SwitchPutKeeps == ASSUME ListsInv, NEW s \in Sessions, SwitchPut(s) PROVE ListsInv'
<1>1. PICK l, a : l = leg[s].id /\ a = leg[s].arg
  OBVIOUS
<1>2. leg[s].at = "set" /\ leg[s].at \in UpdatePlaces /\ "drop" \in UpdatePlaces
  BY DEF SwitchPut, UpdatePlaces
<1>3. PICK r : r = Placed(s, "drop", Empty)
  OBVIOUS
<1>4. PICK held : held = leg[s].held
  OBVIOUS
<1>5. set(a.info.color, l, held) /\ Goes(s, r) /\ UNCHANGED <<meta, dir, ill>>
  BY <1>1, <1>3, <1>4 DEF SwitchPut, Placed
<1>6. LegType(r) /\ r.at = "drop" /\ r.id = l /\ r.arg = a /\ r.todo = Empty
  BY <1>1, <1>2, <1>3, UpdateNext
<1>7. l \in Lists /\ leg[s].at \notin RemovePlaces /\ a.info \in Infos /\ a.info.color \in Colors
  BY <1>1, <1>2, UpdateFacts
<1>8. AggInv /\ DOMAIN mem = Colors /\ IsMeta(meta) /\ leg'[s] = r
  BY <1>5, InvFacts, MovedTo
<1>9. /\ DOMAIN mem' = Colors /\ AggInv'
      /\ \A b \in Colors : \A k : Contents(mem', b, k) = IF b = a.info.color /\ k = l THEN held ELSE Contents(mem, b, k)
      /\ \A k : k # l => SameContents(mem, mem', k)
  BY <1>5, <1>7, <1>8, SetFacts
<1>10. ASSUME l \notin ill' PROVE LegHolds(s, l)'
  <2>1. PICK i \in Infos : i = meta[l] /\ i = meta'[l]
    BY <1>1, <1>2, <1>5, <1>10, UpdateFacts
  <2>2. /\ l \in DOMAIN meta' /\ a.timeOk /\ a.info.enabled = i.enabled /\ held = Contents(mem, i.color, l)
        /\ AgreesAs(mem, dir, [i EXCEPT !.mask = a.info.mask], l)
    BY <1>1, <1>2, <1>4, <1>5, <1>10, <2>1, UpdateFacts DEF LegHolds
  <2>3. PICK j \in Infos : /\ j = [i EXCEPT !.mask = a.info.mask] /\ j.enabled = i.enabled
                           /\ j.color = i.color /\ j.mask = a.info.mask
    BY <1>7, <2>1, InfoFacts, Masked
  <2>4. /\ \A on \in BOOLEAN : File(l, on) \in DOMAIN dir => j.enabled = on
        /\ \A b \in Colors : Contents(mem, b, l) = IF j.enabled /\ j.color = b THEN readFile(dir, l, j.mask) ELSE Empty
    <3>1. AgreesAs(mem, dir, j, l)
      BY <2>2, <2>3
    <3> QED BY <3>1, InfoFacts, AgreeFacts
  <2>5. held = IF a.info.enabled THEN readFile(dir, l, a.info.mask) ELSE Empty
    BY <2>1, <2>2, <2>3, <2>4, InfoFacts
  <2>6. Moved(a.info, l)'
    BY <1>5, <1>7, <1>9, <2>2, <2>3, <2>4, <2>5 DEF Moved
  <2> QED BY <1>6, <1>8, <2>1, <2>2, <2>6, EmptyFacts DEF LegHolds, UpdatePlaces
<1> QED BY <1>1, <1>2, <1>5, <1>6, <1>7, <1>8, <1>9, <1>10, MoveLegKeeps, SameIsSame

\* The old colour forgets a list that has moved.
LEMMA MovedOut ==
    ASSUME NEW l, NEW i \in Infos, Moved(i, l), UNCHANGED dir,
           \A b \in Colors : Contents(mem', b, l) = IF b = i.color THEN Contents(mem, b, l) ELSE Empty
    PROVE  AgreesAs(mem', dir', i, l)
<1>1. /\ Contents(mem, i.color, l) = IF i.enabled THEN readFile(dir, l, i.mask) ELSE Empty
      /\ \A on \in BOOLEAN : File(l, on) \in DOMAIN dir => i.enabled = on
  BY DEF Moved
<1>2. i.color \in Colors /\ i # None
  BY InfoFacts
<1> QED BY <1>1, <1>2, AgreeFacts

LEMMA SwitchDropKeeps == ASSUME ListsInv, NEW s \in Sessions, SwitchDrop(s) PROVE ListsInv'
<1>1. PICK l, a : l = leg[s].id /\ a = leg[s].arg
  OBVIOUS
<1>2. leg[s].at = "drop" /\ leg[s].at \in UpdatePlaces /\ "update" \in UpdatePlaces
  BY DEF SwitchDrop, UpdatePlaces
<1>3. PICK r : r = Placed(s, "update", leg[s].held)
  OBVIOUS
<1>4. erase(Other(a.info.color), l) /\ Goes(s, r) /\ UNCHANGED <<meta, dir, ill>>
  BY <1>1, <1>3, KeptHeld DEF SwitchDrop
<1>5. LegType(r) /\ r.at = "update" /\ r.id = l /\ r.arg = a /\ r.todo = Empty
  BY <1>1, <1>2, <1>3, UpdateNext
<1>6. l \in Lists /\ leg[s].at \notin RemovePlaces /\ a.info \in Infos /\ a.info.color \in Colors
  BY <1>1, <1>2, UpdateFacts
<1>7. PICK c \in Colors : c = Other(a.info.color) /\ \A b \in Colors : b = c <=> b # a.info.color
  BY <1>6, ColorFacts
<1>8. AggInv /\ DOMAIN mem = Colors /\ IsMeta(meta) /\ leg'[s] = r
  BY <1>4, InvFacts, MovedTo
<1>9. /\ DOMAIN mem' = Colors /\ AggInv'
      /\ \A b \in Colors : \A k : Contents(mem', b, k) = IF b = c /\ k = l THEN Empty ELSE Contents(mem, b, k)
      /\ \A k : k # l => SameContents(mem, mem', k)
  BY <1>4, <1>7, <1>8, EraseFacts
<1>10. ASSUME l \notin ill' PROVE LegHolds(s, l)'
  <2>1. PICK i \in Infos : i = meta[l] /\ i = meta'[l]
    BY <1>1, <1>2, <1>4, <1>10, UpdateFacts
  <2>2. l \in DOMAIN meta' /\ a.timeOk /\ a.info.enabled = i.enabled /\ Moved(a.info, l)
    BY <1>1, <1>2, <1>4, <1>10, <2>1, UpdateFacts DEF LegHolds
  <2>3. \A b \in Colors : Contents(mem', b, l) = IF b = a.info.color THEN Contents(mem, b, l) ELSE Empty
    BY <1>7, <1>9
  <2>4. AgreesAs(mem', dir', a.info, l)
    BY <1>4, <1>6, <2>2, <2>3, MovedOut
  <2> QED BY <1>5, <1>8, <2>1, <2>2, <2>4, EmptyFacts DEF LegHolds, UpdatePlaces
<1> QED BY <1>1, <1>2, <1>4, <1>5, <1>6, <1>8, <1>9, <1>10, MoveLegKeeps, SameIsSame

\* New metadata with which memory and file already agree.
LEMMA NewMetaAgrees ==
    ASSUME NEW l \in Lists, NEW i \in Infos, IsMeta(meta), meta' = Put(meta, l, i), UNCHANGED <<mem, dir>>, AgreesAs(mem, dir, i, l)
    PROVE  Agree(l)'
BY MetaFacts DEF Agree

LEMMA UpdateMetaKeeps == ASSUME ListsInv, NEW s \in Sessions, UpdateMeta(s) PROVE ListsInv'
<1>1. PICK l, a : l = leg[s].id /\ a = leg[s].arg
  OBVIOUS
<1>2. leg[s].at = "update" /\ leg[s].at \in UpdatePlaces
  BY DEF UpdateMeta, UpdatePlaces
<1>3. PICK ok : ok = (a.timeOk /\ l \in DOMAIN meta)
  OBVIOUS
<1>4. PICK r \in {Rest, Saving} : r = IF ok THEN Saving ELSE Rest
  OBVIOUS
<1>5. /\ meta' = IF ok THEN [meta EXCEPT ![l] = a.info] ELSE meta
      /\ Goes(s, r) /\ UNCHANGED <<mem, agg, dir, ill>>
  BY <1>1, <1>3, <1>4 DEF UpdateMeta
<1>6. LegType(r) /\ r.id = None /\ r.todo = Empty
  BY <1>4, RestFacts
<1>7. l \in Lists /\ leg[s].at \notin RemovePlaces /\ a.info \in Infos /\ IsMeta(meta) /\ r.id # l
  BY <1>1, <1>2, <1>6, UpdateFacts, InvFacts, ListsAssumption
<1>8. DOMAIN mem' = Colors /\ AggInv' /\ \A k : SameContents(mem, mem', k) /\ SameFiles(dir, dir', k)
  BY <1>5, InvFacts, SameMem, SameIsSame
<1>9. ok => meta' = Put(meta, l, a.info)
  BY <1>3, <1>5, <1>7, MetaFacts
<1>10. IsMeta(meta') /\ \A k \in Lists \ {l} : SameMeta(meta, meta', k)
  <2>1. CASE ok
    <3>1. PICK i \in Infos : i = a.info
      BY <1>7
    <3>2. meta' = Put(meta, l, i)
      BY <1>9, <2>1, <3>1
    <3>3. IsMeta(Put(meta, l, i)) /\ \A k \in Lists \ {l} : SameMeta(meta, Put(meta, l, i), k)
      BY <1>7, MetaFacts
    <3> QED BY <3>2, <3>3
  <2>2. CASE ~ok
    BY <1>5, <1>7, <2>2, SameIsSame
  <2> QED BY <2>1, <2>2
<1>11. ASSUME l \notin ill' PROVE Agree(l)'
  <2>1. ok /\ AgreesAs(mem, dir, a.info, l)
    BY <1>1, <1>2, <1>3, <1>5, <1>11, UpdateFacts DEF LegHolds
  <2> QED BY <1>5, <1>7, <1>9, <2>1, NewMetaAgrees
<1> QED BY <1>1, <1>2, <1>5, <1>6, <1>7, <1>8, <1>10, <1>11, MoveLegKeeps

LEMMA RemoveKeeps == ASSUME ListsInv, NEW s \in Sessions, NEW l \in Lists, Remove(s, l) PROVE ListsInv'
<1>1. PICK todo : todo = leg[s].todo
  OBVIOUS
<1>2. leg[s].at = "next" /\ l \in DOMAIN todo
  BY <1>1 DEF Remove
<1>3. PICK c : c = todo[l]
  OBVIOUS
<1>4. PICK r : r = [leg[s] EXCEPT !.at = "unlink", !.id = l, !.todo = Drop(@, {l})]
  OBVIOUS
<1>5. erase(c, l) /\ Goes(s, r) /\ UNCHANGED <<meta, dir, ill>>
  BY <1>1, <1>3, <1>4 DEF Remove
<1>6. LegTypes /\ LegType(leg[s]) /\ s \in Threads /\ AggInv /\ DOMAIN mem = Colors /\ IsMeta(meta) /\ LegacyInv /\ leg'[s] = r
  BY <1>5, InvFacts, MovedTo DEF LegTypes, Threads
<1>7. leg[s].id = None /\ todo \in Removals /\ c \in Colors /\ None \notin Lists
  BY <1>1, <1>2, <1>3, <1>6, ListsAssumption DEF LegType, Removals
<1>8. /\ r.at = "unlink" /\ r.id = l /\ r.todo = Drop(todo, {l})
      /\ DOMAIN r = {"at", "id", "arg", "todo", "held", "lists", "clash"}
  BY <1>1, <1>4, <1>6 DEF LegType
<1>9. DOMAIN r.todo = DOMAIN todo \ {l} /\ \A k \in DOMAIN r.todo : r.todo[k] = todo[k]
  <2>1. PICK gone : gone = {l}
    OBVIOUS
  <2>2. /\ DOMAIN Drop(todo, gone) = DOMAIN todo \ gone
        /\ \A k \in DOMAIN todo \ gone : Drop(todo, gone)[k] = todo[k]
    BY DropFacts
  <2> QED BY <1>8, <2>1, <2>2
<1>10. r.todo \in Removals
  <2>1. DOMAIN todo \in SUBSET Lists /\ todo \in [DOMAIN todo -> Colors]
    BY <1>7 DEF Removals
  <2>2. r.todo \in [DOMAIN todo \ {l} -> Colors]
    BY <1>8, <2>1 DEF Drop, Restrict
  <2> QED BY <2>1, <2>2 DEF Removals
<1>11. LegType(r)
  BY <1>8, <1>9, <1>10 DEF LegType, UpdatePlaces, RemovePlaces
<1>12. /\ DOMAIN mem' = Colors /\ AggInv'
       /\ \A b \in Colors : \A k : Contents(mem', b, k) = IF b = c /\ k = l THEN Empty ELSE Contents(mem, b, k)
       /\ \A k : k # l => SameContents(mem, mem', k)
  BY <1>5, <1>6, <1>7, EraseFacts
<1>13. l \in WorksOn(s) /\ WorksOn(s) = DOMAIN todo /\ WorksOn(s)' = (DOMAIN todo \ {l}) \cup {l}
  <2>1. DOMAIN todo \subseteq Lists
    BY <1>7 DEF Removals
  <2>2. WorksOn(s) = (DOMAIN todo \cup {None}) \ {None}
    BY <1>1, <1>7 DEF WorksOn
  <2>3. WorksOn(s)' = (DOMAIN r.todo \cup {l}) \ {None}
    BY <1>6, <1>8 DEF WorksOn
  <2> QED BY <1>2, <1>7, <1>9, <2>1, <2>2, <2>3
<1>14. ASSUME l \notin ill' PROVE LegHolds(s, l)'
  <2>1. LegHolds(s, l)
    BY <1>5, <1>6, <1>13, <1>14 DEF LegacyInv, LegacyLists
  <2>2. Agree(l) /\ (l \in DOMAIN meta => meta[l].color = c)
    BY <1>1, <1>2, <1>3, <2>1 DEF LegHolds
  <2>3. \A b \in Colors : Contents(mem', b, l) = Empty
    BY <1>12, <2>2 DEF Agree, AgreesAs, Get
  <2>4. ASSUME NEW on \in BOOLEAN, File(l, on) \in DOMAIN dir' PROVE l \in DOMAIN meta' /\ meta'[l].enabled = on
    BY <1>5, <2>2, <2>4 DEF Agree, AgreesAs, Get
  <2>5. Leaving(l)'
    BY <2>3, <2>4 DEF Leaving
  <2>6. l \notin DOMAIN r.todo
    BY <1>9
  <2> QED BY <1>6, <1>8, <2>5, <2>6 DEF LegHolds, UpdatePlaces
<1>15. \A k \in DOMAIN r.todo : k # l /\ k \in DOMAIN leg[s].todo /\ r.todo[k] = leg[s].todo[k]
  BY <1>1, <1>9
<1>16. UNCHANGED <<cmd, slot, saved>> /\ leg' = [leg EXCEPT ![s] = r]
  BY <1>5 DEF Goes
<1>17. \A k \in Lists \ {l} : SameMeta(meta, meta', k) /\ SameFiles(dir, dir', k) /\ SameContents(mem, mem', k)
  BY <1>5, <1>12, SameIsSame
<1>18. WorksOn(s) \subseteq WorksOn(s)' \cup {l} /\ r.id \in {l, None} /\ IsMeta(meta') /\ ill \subseteq ill'
  BY <1>5, <1>6, <1>8, <1>13
<1> QED BY <1>8, <1>11, <1>12, <1>13, <1>14, <1>15, <1>16, <1>17, <1>18, LegacyStepKeeps

\* A list on its way out has one file at most, and without it is unknown to
\* memory and files.
LEMMA UnlinkAgrees ==
    ASSUME NEW l, Leaving(l), UNCHANGED mem, unlink(l), l \notin ill'
    PROVE  AgreesAs(mem', dir', None, l)
<1>1. /\ \A c \in Colors : Contents(mem, c, l) = Empty
      /\ \A on \in BOOLEAN : File(l, on) \in DOMAIN dir => l \in DOMAIN meta /\ meta[l].enabled = on
  BY DEF Leaving
<1>2. \E on \in BOOLEAN : \A a \in BOOLEAN : File(l, a) \in DOMAIN dir => a = on
  <2>1. CASE \E on \in BOOLEAN : File(l, on) \in DOMAIN dir
    BY <1>1, <2>1
  <2>2. CASE ~\E on \in BOOLEAN : File(l, on) \in DOMAIN dir
    BY <2>2
  <2> QED BY <2>1, <2>2
<1>3. \A a \in BOOLEAN : File(l, a) \notin DOMAIN dir'
  BY <1>2, UnlinkFacts
<1> QED BY <1>1, <1>3, AgreeFacts

LEMMA UnlinkKeeps == ASSUME ListsInv, NEW s \in Sessions, Unlink(s) PROVE ListsInv'
<1>1. PICK l : l = leg[s].id
  OBVIOUS
<1>2. PICK r : r = [leg[s] EXCEPT !.at = "forget"]
  OBVIOUS
<1>3. leg[s].at = "unlink" /\ unlink(l) /\ Goes(s, r) /\ UNCHANGED <<meta, mem, agg>>
  BY <1>1, <1>2 DEF Unlink
<1>4. LegType(leg[s]) /\ AggInv /\ DOMAIN mem = Colors /\ IsMeta(meta) /\ leg'[s] = r
  BY <1>3, InvFacts, MovedTo DEF LegTypes, Threads
<1>5. l \in Lists /\ l # None
  BY <1>1, <1>3, <1>4, ListsAssumption DEF LegType
<1>6. /\ r.at = "forget" /\ r.id = l /\ r.todo = leg[s].todo
      /\ DOMAIN r = {"at", "id", "arg", "todo", "held", "lists", "clash"}
  BY <1>1, <1>2, <1>4 DEF LegType
<1>7. LegType(r)
  <2>1. leg[s].todo \in Removals /\ l \notin DOMAIN leg[s].todo
    BY <1>1, <1>4 DEF LegType
  <2> QED BY <1>5, <1>6, <2>1 DEF LegType, UpdatePlaces, RemovePlaces
<1>8. l \in WorksOn(s) /\ l \notin DOMAIN leg[s].todo /\ (l \notin ill => LegHolds(s, l))
  BY <1>1, <1>5, AtFacts
<1>9. ill \subseteq ill' /\ \A k : k # l => SameFiles(dir, dir', k)
  BY <1>3, UnlinkFacts
<1>10. DOMAIN mem' = Colors /\ AggInv' /\ \A k : SameContents(mem, mem', k) /\ SameMeta(meta, meta', k)
  BY <1>3, <1>4, <1>9, SameMem, SameIsSame
<1>11. ASSUME l \notin ill' PROVE LegHolds(s, l)'
  <2>1. Leaving(l)
    BY <1>1, <1>3, <1>8, <1>9, <1>11 DEF LegHolds
  <2>2. AgreesAs(mem', dir', None, l)
    BY <1>3, <1>11, <2>1, UnlinkAgrees
  <2> QED BY <1>4, <1>6, <1>8, <2>2 DEF LegHolds, UpdatePlaces
<1>12. WorksOn(s) \subseteq WorksOn(s)' \cup {l}
  BY <1>1, <1>4, <1>6 DEF WorksOn
<1>13. \A k \in DOMAIN r.todo : k # l /\ k \in DOMAIN leg[s].todo /\ r.todo[k] = leg[s].todo[k]
  BY <1>6, <1>8
<1>14. UNCHANGED <<cmd, slot, saved>> /\ leg' = [leg EXCEPT ![s] = r] /\ IsMeta(meta')
  BY <1>3, <1>4 DEF Goes
<1> QED BY <1>5, <1>6, <1>7, <1>8, <1>9, <1>10, <1>11, <1>12, <1>13, <1>14, LegacyStepKeeps

LEMMA ForgetKeeps == ASSUME ListsInv, NEW s \in Sessions, Forget(s) PROVE ListsInv'
<1>1. PICK l : l = leg[s].id
  OBVIOUS
<1>2. PICK q : q = [leg[s] EXCEPT !.at = "next", !.id = None]
  OBVIOUS
<1>3. PICK r : r = IF leg[s].todo = Empty THEN Saving ELSE q
  OBVIOUS
<1>4. leg[s].at = "forget" /\ meta' = Drop(meta, {l}) /\ Goes(s, r) /\ UNCHANGED <<mem, agg, dir, ill>>
  BY <1>1, <1>2, <1>3 DEF Forget
<1>5. LegType(leg[s]) /\ AggInv /\ DOMAIN mem = Colors /\ IsMeta(meta) /\ leg'[s] = r
  BY <1>4, InvFacts, MovedTo DEF LegTypes, Threads
<1>6. l \in Lists /\ l # None /\ None \notin Lists
  BY <1>1, <1>4, <1>5, ListsAssumption DEF LegType
<1>7. /\ q.at = "next" /\ q.id = None /\ q.todo = leg[s].todo
      /\ DOMAIN q = {"at", "id", "arg", "todo", "held", "lists", "clash"}
  BY <1>2, <1>5 DEF LegType
<1>8. LegType(q)
  <2>1. None \notin DOMAIN q.todo
    BY <1>5, <1>6, <1>7 DEF LegType, Removals
  <2> QED BY <1>5, <1>7, <2>1 DEF LegType, UpdatePlaces, RemovePlaces
<1>9. LegType(r) /\ r.todo = leg[s].todo /\ r.id = None
  BY <1>3, <1>7, <1>8, RestFacts
<1>10. l \in WorksOn(s) /\ l \notin DOMAIN leg[s].todo /\ (l \notin ill => LegHolds(s, l))
  BY <1>1, <1>6, AtFacts
<1>11. DOMAIN mem' = Colors /\ AggInv' /\ \A k : SameContents(mem, mem', k) /\ SameFiles(dir, dir', k)
  BY <1>4, <1>5, SameMem, SameIsSame
<1>12. IsMeta(meta') /\ Get(meta', l, None) = None /\ \A k \in Lists \ {l} : SameMeta(meta, meta', k)
  BY <1>4, <1>5, <1>6, MetaFacts
<1>13. ASSUME l \notin ill' PROVE Agree(l)'
  <2>1. AgreesAs(mem, dir, None, l)
    BY <1>1, <1>4, <1>10, <1>13 DEF LegHolds
  <2> QED BY <1>4, <1>12, <2>1 DEF Agree
<1>14. WorksOn(s) \subseteq WorksOn(s)' \cup {l}
  BY <1>1, <1>5, <1>9 DEF WorksOn
<1>15. \A k \in DOMAIN r.todo : k # l /\ k \in DOMAIN leg[s].todo /\ r.todo[k] = leg[s].todo[k]
  BY <1>9, <1>10
<1>16. UNCHANGED <<cmd, slot, saved, ill>> /\ leg' = [leg EXCEPT ![s] = r]
  BY <1>4 DEF Goes
<1> QED BY <1>6, <1>9, <1>10, <1>11, <1>12, <1>13, <1>14, <1>15, <1>16, LegacyStepKeeps

\* The file is renamed to its enabled form and read, or there is none.
LEMMA EnabledAgrees ==
    ASSUME AggInv, DOMAIN mem = Colors, NEW l, NEW i \in Infos, NEW old, NEW c \in Colors, AgreesAs(mem, dir, old, l),
           old # None => ~old.enabled,
           enable(l, i.mask, c), i.color = c, i.enabled, l \notin ill'
    PROVE  AgreesAs(mem', dir', i, l)
<1>1. /\ File(l, TRUE) \in DOMAIN dir' /\ File(l, FALSE) \notin DOMAIN dir'
      /\ \A b \in Colors : Contents(mem', b, l) = IF b = c THEN readFile(dir', l, i.mask) ELSE Contents(mem, b, l)
  <2>1. PICK m : m = i.mask
    OBVIOUS
  <2>2. enable(l, m, c)
    BY <2>1
  <2>3. /\ File(l, TRUE) \in DOMAIN dir' /\ File(l, FALSE) \notin DOMAIN dir'
        /\ Contents(mem', c, l) = readFile(dir', l, m)
        /\ \A b \in Colors : b # c => Contents(mem', b, l) = Contents(mem, b, l)
    BY <2>2, EnableFacts
  <2> QED BY <2>1, <2>3
<1>2. \A b \in Colors : Contents(mem, b, l) = Empty
  BY DEF AgreesAs
<1>3. i # None /\ i.enabled = TRUE
  BY InfoFacts
<1>4. /\ \A b \in Colors : Contents(mem', b, l) = IF i.enabled /\ i.color = b THEN readFile(dir', l, i.mask) ELSE Empty
      /\ \A on \in BOOLEAN : File(l, on) \in DOMAIN dir' => i.enabled = on
  BY <1>1, <1>2, <1>3
<1> QED BY <1>3, <1>4 DEF AgreesAs

LEMMA DisabledAgrees ==
    ASSUME AggInv, DOMAIN mem = Colors, NEW l, NEW i \in Infos, NEW old, NEW c \in Colors, AgreesAs(mem, dir, old, l),
           old # None => old.color = c, disable(l, c), ~i.enabled
    PROVE  AgreesAs(mem', dir', i, l)
<1>1. /\ File(l, FALSE) \in DOMAIN dir' /\ File(l, TRUE) \notin DOMAIN dir'
      /\ \A b \in Colors : Contents(mem', b, l) = IF b = c THEN Empty ELSE Contents(mem, b, l)
  BY DisableFacts
<1>2. \A b \in Colors : b # c => Contents(mem, b, l) = Empty
  BY DEF AgreesAs
<1>3. i # None /\ i.enabled = FALSE
  BY InfoFacts
<1>4. /\ \A b \in Colors : Contents(mem', b, l) = IF i.enabled /\ i.color = b THEN readFile(dir', l, i.mask) ELSE Empty
      /\ \A on \in BOOLEAN : File(l, on) \in DOMAIN dir' => i.enabled = on
  BY <1>1, <1>2, <1>3
<1> QED BY <1>3, <1>4 DEF AgreesAs

\* The place after the rename of ENABLE and DISABLE.
LEMMA FlagNext ==
    ASSUME ListsInv, NEW s \in Sessions, leg[s].at \in {"enable", "disable"}, NEW r, r = [leg[s] EXCEPT !.at = "flag"]
    PROVE  /\ LegType(r) /\ r.at = "flag" /\ r.id = leg[s].id /\ r.arg = leg[s].arg /\ r.todo = Empty
           /\ leg[s].id \in Lists /\ leg[s].at \notin RemovePlaces /\ leg[s].arg.color \in Colors
           /\ leg[s].at = "enable" => leg[s].arg.mask \in Bits /\ leg[s].arg.enabled = TRUE
           /\ leg[s].at = "disable" => leg[s].arg.enabled = FALSE
           /\ leg[s].id \notin ill =>
                 /\ leg[s].id \in DOMAIN meta /\ meta[leg[s].id] \in Infos /\ Agree(leg[s].id)
                 /\ leg[s].arg.color = meta[leg[s].id].color
                 /\ leg[s].at = "enable" => leg[s].arg.mask = meta[leg[s].id].mask
<1>1. LegType(leg[s])
  BY InvFacts DEF LegTypes, Threads
<1>2. /\ leg[s].id \in Lists /\ leg[s].at \notin RemovePlaces /\ leg[s].arg.color \in Colors /\ leg[s].todo = Empty
      /\ leg[s].at = "enable" => leg[s].arg.mask \in Bits /\ leg[s].arg.enabled = TRUE
      /\ leg[s].at = "disable" => leg[s].arg.enabled = FALSE
  BY <1>1 DEF LegType, RemovePlaces
<1>3. /\ r.at = "flag" /\ r.id = leg[s].id /\ r.arg = leg[s].arg /\ r.todo = Empty
      /\ DOMAIN r = {"at", "id", "arg", "todo", "held", "lists", "clash"}
  BY <1>1, <1>2 DEF LegType
<1>4. r.arg.enabled \in BOOLEAN
  BY <1>2, <1>3
<1>5. LegType(r)
  BY <1>2, <1>3, <1>4, RestFacts, EmptyFacts DEF LegType, UpdatePlaces, RemovePlaces
<1>6. ASSUME leg[s].id \notin ill
      PROVE  /\ leg[s].id \in DOMAIN meta /\ Agree(leg[s].id)
             /\ leg[s].arg.color = meta[leg[s].id].color
             /\ leg[s].at = "enable" => leg[s].arg.mask = meta[leg[s].id].mask
  <2>1. LegHolds(s, leg[s].id) /\ leg[s].id \notin DOMAIN leg[s].todo
    BY <1>2, <1>6, AtFacts
  <2> QED BY <2>1 DEF LegHolds
<1> QED BY <1>2, <1>3, <1>5, <1>6, InvFacts DEF IsMeta

\* The rename fails: the command ends.
LEMMA RenameFailsKeeps ==
    ASSUME ListsInv, NEW s \in Sessions, leg[s].at \in {"enable", "disable"}, UNCHANGED <<meta, mem, agg, dir, ill>>,
           Goes(s, Rest)
    PROVE  ListsInv'
<1>1. PICK l : l = leg[s].id
  OBVIOUS
<1>2. l \in Lists /\ leg[s].at \notin RemovePlaces /\ (l \notin ill => Agree(l))
  BY <1>1, FlagNext
<1>3. /\ DOMAIN mem' = Colors /\ AggInv' /\ IsMeta(meta')
      /\ \A k : SameMeta(meta, meta', k) /\ SameFiles(dir, dir', k) /\ SameContents(mem, mem', k)
  BY InvFacts, SameMem, SameIsSame
<1>4. Agree(l) => Agree(l)'
  BY <1>3, AgreeSame
<1>5. Rest.id # l
  BY <1>2, RestFacts, ListsAssumption
<1> QED BY <1>1, <1>2, <1>3, <1>4, <1>5, RestFacts, MoveLegKeeps

LEMMA EnableKeeps == ASSUME ListsInv, NEW s \in Sessions, Enable(s) PROVE ListsInv'
<1>1. PICK l, a : l = leg[s].id /\ a = leg[s].arg
  OBVIOUS
<1>2. PICK r : r = [leg[s] EXCEPT !.at = "flag"]
  OBVIOUS
<1>3. leg[s].at = "enable" /\ UNCHANGED meta
  BY DEF Enable
<1>4. CASE renameFails(File(l, FALSE)) /\ Goes(s, Rest) /\ UNCHANGED ill
  BY <1>3, <1>4, RenameFailsKeeps DEF renameFails
<1>5. CASE enable(l, a.mask, a.color) /\ Goes(s, r)
  <2>1. /\ LegType(r) /\ r.at = "flag" /\ r.id = l /\ r.arg = a /\ r.todo = Empty
        /\ l \in Lists /\ leg[s].at \notin RemovePlaces /\ a.color \in Colors /\ a.mask \in Bits /\ a.enabled = TRUE
        /\ l \notin ill => l \in DOMAIN meta /\ meta[l] \in Infos /\ Agree(l) /\ a.color = meta[l].color /\ a.mask = meta[l].mask
    BY <1>1, <1>2, <1>3, FlagNext
  <2>2. AggInv /\ DOMAIN mem = Colors /\ IsMeta(meta) /\ leg'[s] = r
    BY <1>5, InvFacts, MovedTo
  <2>3. PICK c \in Colors, m \in Bits : c = a.color /\ m = a.mask /\ enable(l, m, c)
    BY <1>5, <2>1
  <2>4. /\ ill \subseteq ill' /\ DOMAIN mem' = Colors /\ AggInv' /\ File(l, FALSE) \in DOMAIN dir
        /\ \A k : k # l => SameFiles(dir, dir', k) /\ SameContents(mem, mem', k)
    BY <2>2, <2>3, EnableFacts
  <2>5. ASSUME l \notin ill' PROVE LegHolds(s, l)'
    <3>1. PICK i \in Infos : i = meta[l] /\ i = meta'[l]
      BY <1>3, <2>1, <2>4, <2>5
    <3>2. l \in DOMAIN meta' /\ c = i.color /\ m = i.mask /\ Agree(l) /\ Get(meta, l, None) = i
      BY <1>3, <2>1, <2>3, <2>4, <2>5, <3>1 DEF Get
    <3>3. AgreesAs(mem, dir, i, l) /\ i.enabled = FALSE
      BY <2>4, <3>1, <3>2, InfoFacts, AgreeFacts DEF Agree
    <3>4. PICK j \in Infos : /\ j = [i EXCEPT !.enabled = TRUE] /\ j.enabled = TRUE
                             /\ j.color = i.color /\ j.mask = i.mask
      BY <3>1, Updated
    <3>5. enable(l, j.mask, c)
      BY <2>3, <3>2, <3>4
    <3>6. AgreesAs(mem', dir', j, l)
      BY <2>2, <2>5, <3>2, <3>3, <3>4, <3>5, EnabledAgrees
    <3>7. j = [i EXCEPT !.enabled = a.enabled]
      BY <2>1, <3>4
    <3>8. AgreesAs(mem', dir', [i EXCEPT !.enabled = a.enabled], l)
      BY <3>6, <3>7
    <3> QED BY <2>1, <2>2, <3>1, <3>2, <3>8, EmptyFacts DEF LegHolds, UpdatePlaces
  <2>6. IsMeta(meta') /\ \A k : SameMeta(meta, meta', k)
    BY <1>3, <2>2, SameIsSame
  <2> QED BY <1>1, <1>5, <2>1, <2>4, <2>5, <2>6, MoveLegKeeps
<1> QED BY <1>1, <1>2, <1>4, <1>5 DEF Enable

LEMMA DisableKeeps == ASSUME ListsInv, NEW s \in Sessions, Disable(s) PROVE ListsInv'
<1>1. PICK l, a : l = leg[s].id /\ a = leg[s].arg
  OBVIOUS
<1>2. PICK r : r = [leg[s] EXCEPT !.at = "flag"]
  OBVIOUS
<1>3. leg[s].at = "disable" /\ UNCHANGED meta
  BY DEF Disable
<1>4. CASE renameFails(File(l, TRUE)) /\ Goes(s, Rest) /\ UNCHANGED ill
  BY <1>3, <1>4, RenameFailsKeeps DEF renameFails
<1>5. CASE disable(l, a.color) /\ Goes(s, r)
  <2>1. /\ LegType(r) /\ r.at = "flag" /\ r.id = l /\ r.arg = a /\ r.todo = Empty
        /\ l \in Lists /\ leg[s].at \notin RemovePlaces /\ a.color \in Colors /\ a.enabled = FALSE
        /\ l \notin ill => l \in DOMAIN meta /\ meta[l] \in Infos /\ Agree(l) /\ a.color = meta[l].color
    BY <1>1, <1>2, <1>3, FlagNext
  <2>2. AggInv /\ DOMAIN mem = Colors /\ IsMeta(meta) /\ leg'[s] = r
    BY <1>5, InvFacts, MovedTo
  <2>3. PICK c \in Colors : c = a.color /\ disable(l, c)
    BY <1>5, <2>1
  <2>4. /\ ill' = ill /\ DOMAIN mem' = Colors /\ AggInv'
        /\ \A k : k # l => SameFiles(dir, dir', k) /\ SameContents(mem, mem', k)
    BY <2>2, <2>3, DisableFacts
  <2>5. ASSUME l \notin ill' PROVE LegHolds(s, l)'
    <3>1. PICK i \in Infos : i = meta[l] /\ i = meta'[l]
      BY <1>3, <2>1, <2>4, <2>5
    <3>2. l \in DOMAIN meta' /\ c = i.color /\ Agree(l) /\ Get(meta, l, None) = i
      BY <1>3, <2>1, <2>3, <2>4, <2>5, <3>1 DEF Get
    <3>3. AgreesAs(mem, dir, i, l)
      BY <3>2 DEF Agree
    <3>4. PICK j \in Infos : j = [i EXCEPT !.enabled = FALSE] /\ j.enabled = FALSE
      BY <3>1, Updated
    <3>6. AgreesAs(mem', dir', j, l)
      BY <2>2, <2>3, <3>2, <3>3, <3>4, DisabledAgrees
    <3>7. j = [i EXCEPT !.enabled = a.enabled]
      BY <2>1, <3>4
    <3>8. AgreesAs(mem', dir', [i EXCEPT !.enabled = a.enabled], l)
      BY <3>6, <3>7
    <3> QED BY <2>1, <2>2, <3>1, <3>2, <3>8, EmptyFacts DEF LegHolds, UpdatePlaces
  <2>6. IsMeta(meta') /\ \A k : SameMeta(meta, meta', k)
    BY <1>3, <2>2, SameIsSame
  <2> QED BY <1>1, <1>5, <2>1, <2>4, <2>5, <2>6, MoveLegKeeps
<1> QED BY <1>1, <1>2, <1>4, <1>5 DEF Disable

LEMMA SetEnabledKeeps == ASSUME ListsInv, NEW s \in Sessions, setEnabled(s) PROVE ListsInv'
<1>1. PICK l, a : l = leg[s].id /\ a = leg[s].arg
  OBVIOUS
<1>2. PICK known : known = (l \in DOMAIN meta)
  OBVIOUS
<1>3. PICK r \in {Rest, Saving} : r = IF known THEN Saving ELSE Rest
  OBVIOUS
<1>4. /\ leg[s].at = "flag" /\ meta' = IF known THEN [meta EXCEPT ![l].enabled = a.enabled] ELSE meta
      /\ Goes(s, r) /\ UNCHANGED <<mem, agg, dir, ill>>
  BY <1>1, <1>2, <1>3 DEF setEnabled
<1>5. LegType(r) /\ r.id = None /\ r.todo = Empty
  BY <1>3, RestFacts
<1>6. LegType(leg[s]) /\ IsMeta(meta)
  BY InvFacts DEF LegTypes, Threads
<1>7. l \in Lists /\ leg[s].at \notin RemovePlaces /\ a.enabled \in BOOLEAN /\ r.id # l
  BY <1>1, <1>4, <1>5, <1>6, ListsAssumption DEF LegType, RemovePlaces
<1>8. DOMAIN mem' = Colors /\ AggInv' /\ \A k : SameContents(mem, mem', k) /\ SameFiles(dir, dir', k)
  BY <1>4, InvFacts, SameMem, SameIsSame
<1>9. ASSUME known
      PROVE  \E j \in Infos : j = [meta[l] EXCEPT !.enabled = a.enabled] /\ meta' = Put(meta, l, j)
  <2>1. PICK i \in Infos : i = meta[l]
    BY <1>2, <1>6, <1>9 DEF IsMeta
  <2>2. PICK j \in Infos : j = [i EXCEPT !.enabled = a.enabled]
    BY <1>7, <2>1, Updated
  <2>3. meta' = [meta EXCEPT ![l] = j]
    BY <1>4, <1>9, <2>1, <2>2
  <2>4. [meta EXCEPT ![l] = j] = Put(meta, l, j)
    BY <1>2, <1>6, <1>7, <1>9, MetaFacts
  <2> QED BY <2>1, <2>2, <2>3, <2>4
<1>10. IsMeta(meta') /\ \A k \in Lists \ {l} : SameMeta(meta, meta', k)
  <2>1. CASE known
    <3>1. PICK j \in Infos : meta' = Put(meta, l, j)
      BY <1>9, <2>1
    <3>2. IsMeta(Put(meta, l, j)) /\ \A k \in Lists \ {l} : SameMeta(meta, Put(meta, l, j), k)
      BY <1>6, <1>7, MetaFacts
    <3> QED BY <3>1, <3>2
  <2>2. CASE ~known
    BY <1>4, <1>6, <2>2, SameIsSame
  <2> QED BY <2>1, <2>2
<1>11. ASSUME l \notin ill' PROVE Agree(l)'
  <2>1. LegHolds(s, l) /\ l \notin DOMAIN leg[s].todo
    BY <1>1, <1>4, <1>7, <1>11, AtFacts
  <2>2. known /\ AgreesAs(mem, dir, [meta[l] EXCEPT !.enabled = a.enabled], l)
    BY <1>1, <1>2, <1>4, <2>1 DEF LegHolds
  <2>3. PICK j \in Infos : j = [meta[l] EXCEPT !.enabled = a.enabled] /\ meta' = Put(meta, l, j)
    BY <1>9, <2>2
  <2>4. AgreesAs(mem, dir, j, l)
    BY <2>2, <2>3
  <2> QED BY <1>4, <1>6, <1>7, <2>3, <2>4, NewMetaAgrees
<1>12. leg[s].id = l /\ r.id \in {l, None} /\ ill \subseteq ill'
  BY <1>1, <1>4, <1>5
<1> QED BY <1>4, <1>5, <1>7, <1>8, <1>10, <1>11, <1>12, MoveLegKeeps

\* A write to a list's enabled file.
LEMMA PutOnFile ==
    ASSUME NEW d, NEW l, NEW v
    PROVE  /\ \A k : k # l => SameFiles(d, Put(d, File(l, TRUE), v), k)
           /\ FileOf(Put(d, File(l, TRUE), v), l, TRUE) = v
           /\ \A b \in BOOLEAN : File(l, b) \in DOMAIN Put(d, File(l, TRUE), v) <=> b = TRUE \/ File(l, b) \in DOMAIN d
<1>1. PICK on \in BOOLEAN : on = TRUE
  OBVIOUS
<1>2. \A k : k # l => SameFiles(d, Put(d, File(l, on), v), k)
  BY PutFile
<1>3. FileOf(Put(d, File(l, on), v), l, on) = v
  BY DEF FileOf, Put, Get
<1>4. \A b \in BOOLEAN : File(l, b) \in DOMAIN Put(d, File(l, on), v) <=> b = on \/ File(l, b) \in DOMAIN d
  BY PutFile
<1> QED BY <1>1, <1>2, <1>3, <1>4

LEMMA WriteFacts ==
    ASSUME AggInv, DOMAIN mem = Colors, NEW l, NEW i \in Infos, NEW doms, NEW clear \in BOOLEAN,
           write(l, doms, i.mask, clear, i.color), i.enabled
    PROVE  /\ ill' = ill /\ DOMAIN mem' = Colors /\ AggInv'
           /\ \A k : k # l => SameFiles(dir, dir', k) /\ SameContents(mem, mem', k)
           /\ AgreesAs(mem, dir, i, l) => AgreesAs(mem', dir', i, l)
<1> DEFINE c == i.color
           mask == i.mask
           old == keptSet(l, clear, c)
           file == keptFile(l, clear)
           new == newDomains(l, doms, clear, c)
           now == added(l, doms, mask, clear, c)
<1>1. dir' = Put(dir, File(l, TRUE), file \cup new) /\ set(c, l, now) /\ ill' = ill
  BY FaultFacts DEF write
<1>2. i # None /\ i.enabled = TRUE /\ c \in Colors
  BY InfoFacts
<1>3. /\ \A k : k # l => SameFiles(dir, dir', k)
      /\ FileOf(dir', l, TRUE) = file \cup new
      /\ \A b \in BOOLEAN : File(l, b) \in DOMAIN dir' <=> b = TRUE \/ File(l, b) \in DOMAIN dir
  <2>1. PICK v : v = file \cup new
    OBVIOUS
  <2>2. dir' = Put(dir, File(l, TRUE), v)
    BY <1>1, <2>1
  <2>3. /\ \A k : k # l => SameFiles(dir, Put(dir, File(l, TRUE), v), k)
        /\ FileOf(Put(dir, File(l, TRUE), v), l, TRUE) = v
        /\ \A b \in BOOLEAN : File(l, b) \in DOMAIN Put(dir, File(l, TRUE), v) <=> b = TRUE \/ File(l, b) \in DOMAIN dir
    BY PutOnFile
  <2> HIDE DEF file, new
  <2> QED BY <2>1, <2>2, <2>3
<1>4. /\ DOMAIN mem' = Colors /\ AggInv'
      /\ \A b \in Colors : \A k : Contents(mem', b, k) = IF b = c /\ k = l THEN now ELSE Contents(mem, b, k)
      /\ \A k : k # l => SameContents(mem, mem', k)
  <2> HIDE DEF now
  <2> QED BY <1>1, <1>2, SetFacts
<1>5. ASSUME AgreesAs(mem, dir, i, l) PROVE AgreesAs(mem', dir', i, l)
  <2>1. /\ \A on \in BOOLEAN : File(l, on) \in DOMAIN dir => i.enabled = on
        /\ \A b \in Colors : Contents(mem, b, l) = IF i.enabled /\ i.color = b THEN readFile(dir, l, i.mask) ELSE Empty
    BY <1>2, <1>5, AgreeFacts
  <2>2. DOMAIN old = file /\ (\A d \in file : old[d] = {mask})
    <3>1. CASE clear
      BY <3>1, EmptyFacts DEF keptSet, keptFile
    <3>2. CASE ~clear
      <4>1. old = readFile(dir, l, mask) /\ file = FileOf(dir, l, TRUE)
        BY <1>2, <2>1, <3>2 DEF keptSet, keptFile
      <4> QED BY <4>1 DEF readFile
    <3> QED BY <3>1, <3>2
  <2>3. now = [d \in file \cup new |-> {mask}]
    <3>1. now = Over(old, [d \in new |-> {mask}])
      BY DEF added
    <3> HIDE DEF old, new, file, now
    <3> QED BY <2>2, <3>1 DEF Over
  <2>4. now = readFile(dir', l, mask)
    <3> HIDE DEF now, new, file
    <3> QED BY <1>3, <2>3 DEF readFile
  <2> HIDE DEF now, old, new, file
  <2>5. /\ \A on \in BOOLEAN : File(l, on) \in DOMAIN dir' => i.enabled = on
        /\ \A b \in Colors : Contents(mem', b, l) = IF i.enabled /\ i.color = b THEN readFile(dir', l, i.mask) ELSE Empty
    BY <1>2, <1>3, <1>4, <2>1, <2>4
  <2> QED BY <1>2, <2>5, AgreeFacts
<1> QED BY <1>1, <1>3, <1>4, <1>5

\* A write that fails leaves the list half-way.
LEMMA WriteFailsFacts ==
    ASSUME AggInv, DOMAIN mem = Colors, NEW l, NEW c \in Colors, NEW mask, NEW doms, NEW clear \in BOOLEAN,
           writeNotOpened(l, clear, c) \/ writeTorn(l, doms, mask, clear, c)
    PROVE  /\ ill \subseteq ill' /\ l \in ill' /\ DOMAIN mem' = Colors /\ AggInv'
           /\ \A k : k # l => SameFiles(dir, dir', k) /\ SameContents(mem, mem', k)
<1>1. CASE writeNotOpened(l, clear, c)
  <2>1. PICK v : v = keptSet(l, clear, c)
    OBVIOUS
  <2>2. /\ mem' = setList(mem, c, l, v) /\ ill' = ill \cup {l}
        /\ dir' = dir \/ dir' = Put(dir, File(l, TRUE), {})
    <3>1. mem' = [mem EXCEPT ![c] = Put(@, l, v)] /\ Breaks(l)
      BY <1>1, <2>1 DEF writeNotOpened
    <3>2. dir' = dir \/ dir' = Put(dir, File(l, TRUE), {})
      BY <1>1 DEF writeNotOpened
    <3> QED BY <3>1, <3>2, FaultFacts DEF setList
  <2>3. DOMAIN mem' = Colors /\ \A k : k # l => SameContents(mem, mem', k)
    BY <2>2, SetListFacts DEF SameContents
  <2>4. \A k : k # l => SameFiles(dir, dir', k)
    <3>1. PICK e : e = {}
      OBVIOUS
    <3>2. \A k : k # l => SameFiles(dir, Put(dir, File(l, TRUE), e), k)
      BY PutOnFile
    <3> QED BY <2>2, <3>1, <3>2, SameIsSame
  <2>5. AggInv'
    BY <2>2 DEF AggInv
  <2> QED BY <2>2, <2>3, <2>4, <2>5
<1>2. CASE writeTorn(l, doms, mask, clear, c)
  <2>1. PICK now : now = added(l, doms, mask, clear, c)
    OBVIOUS
  <2>2. PICK v : dir' = Put(dir, File(l, TRUE), v)
    BY <1>2 DEF writeTorn
  <2>3. set(c, l, now) /\ ill' = ill \cup {l}
    BY <1>2, <2>1, FaultFacts DEF writeTorn
  <2>4. DOMAIN mem' = Colors /\ AggInv' /\ \A k : k # l => SameContents(mem, mem', k)
    BY <2>3, SetFacts
  <2>5. \A k : k # l => SameFiles(dir, dir', k)
    BY <2>2, PutOnFile
  <2> QED BY <2>3, <2>4, <2>5
<1> QED BY <1>1, <1>2

LEMMA AddDomainsKeeps == ASSUME ListsInv, NEW s \in Sessions, AddDomains(s) PROVE ListsInv'
<1>1. PICK l, a : l = leg[s].id /\ a = leg[s].arg
  OBVIOUS
<1>2. /\ leg[s].at = "write" /\ Goes(s, Rest) /\ UNCHANGED meta
      /\ \/ write(l, a.doms, a.mask, a.clear, a.color)
         \/ writeNotOpened(l, a.clear, a.color)
         \/ writeTorn(l, a.doms, a.mask, a.clear, a.color)
  BY <1>1 DEF AddDomains
<1>3. AggInv /\ DOMAIN mem = Colors /\ IsMeta(meta) /\ LegType(leg[s])
  BY InvFacts DEF LegTypes, Threads
<1>4. /\ l \in Lists /\ leg[s].at \notin RemovePlaces /\ Rest.id # l
      /\ a.color \in Colors /\ a.mask \in Bits /\ a.clear \in BOOLEAN
  BY <1>1, <1>2, <1>3, RestFacts, ListsAssumption DEF LegType, RemovePlaces
<1>5. PICK i \in Infos : i = [color |-> a.color, mask |-> a.mask, enabled |-> TRUE]
  BY <1>4 DEF Infos
<1>6. i.color = a.color /\ i.mask = a.mask /\ i.enabled
  BY <1>5
<1>7. ASSUME l \notin ill PROVE Agree(l) /\ Get(meta, l, None) = i /\ AgreesAs(mem, dir, i, l)
  <2>1. LegHolds(s, l) /\ l \notin DOMAIN leg[s].todo
    BY <1>1, <1>4, <1>7, AtFacts
  <2>2. Agree(l) /\ l \in DOMAIN meta /\ meta[l] = i
    BY <1>1, <1>2, <1>5, <2>1 DEF LegHolds
  <2> QED BY <2>2 DEF Agree, Get
<1>8. /\ ill \subseteq ill' /\ DOMAIN mem' = Colors /\ AggInv'
      /\ \A k : k # l => SameFiles(dir, dir', k) /\ SameContents(mem, mem', k)
      /\ l \notin ill' => (AgreesAs(mem, dir, i, l) => AgreesAs(mem', dir', i, l))
  <2>1. PICK doms, clear, mask, c : doms = a.doms /\ clear = a.clear /\ mask = a.mask /\ c = a.color
    OBVIOUS
  <2>2. CASE write(l, a.doms, a.mask, a.clear, a.color)
    <3>1. write(l, doms, i.mask, clear, i.color) /\ clear \in BOOLEAN
      BY <1>4, <1>6, <2>1, <2>2
    <3> QED BY <1>3, <1>6, <3>1, WriteFacts
  <2>3. CASE writeNotOpened(l, a.clear, a.color) \/ writeTorn(l, a.doms, a.mask, a.clear, a.color)
    <3>1. /\ writeNotOpened(l, clear, c) \/ writeTorn(l, doms, mask, clear, c)
          /\ clear \in BOOLEAN /\ c \in Colors
      BY <1>4, <2>1, <2>3
    <3> QED BY <1>3, <3>1, WriteFailsFacts
  <2> QED BY <1>2, <2>2, <2>3
<1>9. l \notin ill' => Agree(l)'
  BY <1>2, <1>7, <1>8 DEF Agree
<1>10. IsMeta(meta') /\ \A k : SameMeta(meta, meta', k)
  BY <1>2, <1>3, SameIsSame
<1> QED BY <1>1, <1>2, <1>4, <1>8, <1>9, <1>10, RestFacts, MoveLegKeeps

LEMMA LegacyStepsKeep == ASSUME ListsInv, NEW s \in Sessions, LegacyStep(s) PROVE ListsInv'
BY UpdateMaskKeeps, GetColorKeeps, SwitchGetKeeps, SwitchPutKeeps, SwitchDropKeeps, UpdateMetaKeeps,
   RemoveKeeps, UnlinkKeeps, ForgetKeeps, EnableKeeps, DisableKeeps, SetEnabledKeeps, AddDomainsKeeps
   DEF LegacyStep

-----------------------------------------------------------------------------
(* The saves. *)

\* A thread at a save works on no list, and none is there during a restore.
LEMMA SavingFacts ==
    ASSUME ListsInv, NEW s \in Sessions, leg[s].at \in {"save", "rename"}
    PROVE  WorksOn(s) = {} /\ ~Exclusive
<1>1. LegType(leg[s])
  BY InvFacts DEF LegTypes, Threads
<1>2. leg[s].id = None /\ leg[s].todo = Empty
  BY <1>1 DEF LegType, RemovePlaces
<1>3. leg[s] # Rest
  BY RestFacts
<1>4. ~Quiet(Sessions)
  BY <1>3 DEF Quiet
<1> QED BY <1>2, <1>4, EmptyFacts DEF WorksOn, ListsInv, RestoreInv, Exclusive

\* A save moves threads that work on no list.
LEMMA SaveMoves ==
    ASSUME ListsInv, Types', UNCHANGED <<meta, mem, agg, dir, backup, ip, cmd, ill>>,
           \A s \in Sessions : leg'[s] = leg[s] \/ (leg[s].at \in {"save", "rename"} /\ leg'[s].at \in {"rest", "rename"})
    PROVE  ListsInv'
<1>1. LegTypes'
  BY DEF Types
<1>2. ASSUME NEW s \in Sessions, leg[s].at \in {"save", "rename"}, leg'[s].at \in {"rest", "rename"}
      PROVE  ~Exclusive /\ WorksOn(s) = {} /\ WorksOn(s)' = {}
  <2>1. LegType(leg'[s])
    BY <1>1 DEF LegTypes, Threads
  <2>2. leg'[s].id = None /\ leg'[s].todo = Empty
    BY <1>2, <2>1 DEF LegType, RemovePlaces
  <2> QED BY <1>2, <2>2, SavingFacts, EmptyFacts DEF WorksOn
<1> QED BY <1>2, StillKeeps

LEMMA SaveListsKeeps == ASSUME ListsInv, NEW t \in Threads, SaveLists(t) PROVE ListsInv'
<1>1. LegTypes /\ IsMeta(meta) /\ DOMAIN leg = Threads /\ \A u \in Threads : LegType(leg[u])
  BY InvFacts DEF LegTypes
<1>2. PICK r : r = [Rest EXCEPT !.at = "rename", !.lists = meta, !.clash = Writing # {}]
  OBVIOUS
<1>3. /\ MaySave(t) /\ UNCHANGED <<meta, mem, agg, dir, backup, ip, saved, slot, cmd, left, ill>>
      /\ DOMAIN leg' = Threads /\ leg'[t] = r
      /\ \A u \in Threads \ {t} : leg'[u] = IF u \in Writing THEN [leg[u] EXCEPT !.clash = TRUE] ELSE leg[u]
  <2> DEFINE g == [u \in Threads |-> IF u = t THEN r ELSE IF u \in Writing THEN [leg[u] EXCEPT !.clash = TRUE] ELSE leg[u]]
  <2>1. MaySave(t) /\ UNCHANGED <<meta, mem, agg, dir, backup, ip, saved, slot, cmd, left, ill>>
    BY DEF SaveLists
  <2>2. leg' = g
    BY <1>2 DEF SaveLists
  <2>3. DOMAIN g = Threads /\ g[t] = r
    OBVIOUS
  <2>4. \A u \in Threads \ {t} : g[u] = IF u \in Writing THEN [leg[u] EXCEPT !.clash = TRUE] ELSE leg[u]
    OBVIOUS
  <2> HIDE DEF g
  <2> QED BY <2>1, <2>2, <2>3, <2>4
<1>4. LegType(r) /\ r.at = "rename"
  <2>1. /\ r.at = "rename" /\ r.id = None /\ r.todo = Empty /\ r.lists = meta
        /\ DOMAIN r = {"at", "id", "arg", "todo", "held", "lists", "clash"}
    BY <1>2 DEF Rest
  <2> QED BY <1>1, <2>1, RestFacts, EmptyFacts DEF LegType, UpdatePlaces, RemovePlaces
<1>5. ASSUME NEW u \in Threads \ {t}, leg'[u] # leg[u]
      PROVE  LegType(leg'[u]) /\ leg[u].at = "rename" /\ leg'[u].at = "rename"
  <2>1. u \in Writing /\ leg'[u] = [leg[u] EXCEPT !.clash = TRUE]
    BY <1>3, <1>5
  <2>2. PICK q : q = leg'[u]
    OBVIOUS
  <2>3. LegType(leg[u]) /\ leg[u].at = "rename"
    BY <1>1, <2>1 DEF Writing
  <2>4. /\ q.at = "rename" /\ q.id = leg[u].id /\ q.todo = leg[u].todo /\ q.lists = leg[u].lists
        /\ DOMAIN q = {"at", "id", "arg", "todo", "held", "lists", "clash"}
    BY <2>1, <2>2, <2>3 DEF LegType
  <2>5. LegType(q)
    BY <2>3, <2>4 DEF LegType, UpdatePlaces, RemovePlaces
  <2> QED BY <2>2, <2>3, <2>4, <2>5
<1>6. LegTypes'
  <2>1. \A u \in Threads : LegType(leg'[u])
    BY <1>1, <1>3, <1>4, <1>5
  <2>2. Main \in Threads
    BY DEF Threads
  <2>3. leg'[Main].at \in {"rest", "rename"}
    BY <1>1, <1>3, <1>4, <1>5, <2>2 DEF LegTypes
  <2> QED BY <1>3, <2>1, <2>3 DEF LegTypes
<1>7. Types'
  <2>1. CmdTypes' /\ DOMAIN mem' = Colors /\ IsMeta(meta')
    BY <1>1, <1>3, InvFacts, CmdSame
  <2> QED BY <1>3, <1>6, <2>1, SameTypes
<1>8. ASSUME NEW s \in Sessions, leg'[s] # leg[s]
      PROVE  leg[s].at \in {"save", "rename"} /\ leg'[s].at \in {"rest", "rename"}
  <2>1. s \in Threads /\ s # Main
    BY ListsAssumption DEF Threads
  <2>2. CASE s = t
    BY <1>3, <1>4, <2>1, <2>2 DEF MaySave
  <2>3. CASE s # t
    BY <1>5, <1>8, <2>1, <2>3
  <2> QED BY <2>2, <2>3
<1> QED BY <1>3, <1>7, <1>8, SaveMoves

LEMMA SaveFileKeeps == ASSUME ListsInv, NEW t \in Threads, SaveFile(t) PROVE ListsInv'
<1>1. LegTypes /\ IsMeta(meta) /\ DOMAIN leg = Threads /\ LegType(leg[t]) /\ IsMeta(saved.meta)
  BY InvFacts DEF LegTypes
<1>2. PICK lists : lists = leg[t].lists
  OBVIOUS
<1>3. PICK n : n = IF t = Main THEN ip ELSE saved.ip
  OBVIOUS
<1>4. PICK new : new = [meta |-> lists, ip |-> n]
  OBVIOUS
<1>5. /\ leg[t].at = "rename" /\ leg' = [leg EXCEPT ![t] = Rest]
      /\ UNCHANGED <<meta, mem, agg, dir, backup, ip, slot, cmd, ill>>
      /\ \/ saved' = new
         \/ saved' = [new EXCEPT !.meta = saved.meta]
         \/ \E L \in SUBSET DOMAIN lists : saved' = [new EXCEPT !.meta = Restrict(@, L)]
  BY <1>2, <1>3, <1>4 DEF SaveFile
<1>6. IsMeta(lists)
  BY <1>1, <1>2, <1>5 DEF LegType
<1>7. IsMeta(saved'.meta) /\ DOMAIN saved' = {"meta", "ip"}
  <2>1. CASE saved' = new
    BY <1>4, <1>6, <2>1
  <2>2. CASE saved' = [new EXCEPT !.meta = saved.meta]
    BY <1>1, <1>4, <2>2
  <2>3. CASE \E L \in SUBSET DOMAIN lists : saved' = [new EXCEPT !.meta = Restrict(@, L)]
    <3>1. PICK L \in SUBSET DOMAIN lists : saved' = [new EXCEPT !.meta = Restrict(@, L)]
      BY <2>3
    <3>2. PICK part : part = Restrict(lists, L)
      OBVIOUS
    <3>3. saved'.meta = part /\ DOMAIN saved' = {"meta", "ip"}
      BY <1>4, <3>1, <3>2
    <3>4. DOMAIN part = L /\ \A l \in L : part[l] = lists[l]
      BY <3>2 DEF Restrict
    <3> QED BY <1>6, <3>3, <3>4 DEF IsMeta
  <2> QED BY <1>5, <2>1, <2>2, <2>3
<1>8. leg'[t] = Rest /\ \A u \in Threads : u # t => leg'[u] = leg[u]
  BY <1>1, <1>5
<1>9. LegTypes'
  <2>1. DOMAIN leg' = Threads /\ Main \in Threads
    BY <1>1, <1>5 DEF Threads
  <2>2. \A u \in Threads : LegType(leg'[u])
    BY <1>1, <1>8, RestFacts DEF LegTypes
  <2>3. leg'[Main].at \in {"rest", "rename"}
    BY <1>1, <1>8, <2>1, RestFacts DEF LegTypes
  <2> QED BY <2>1, <2>2, <2>3 DEF LegTypes
<1>10. Types'
  <2>1. CmdTypes' /\ DOMAIN mem' = Colors /\ IsMeta(meta') /\ (slot' # None => IsSlot(slot'))
    BY <1>1, <1>5, InvFacts, CmdSame DEF ListsInv, Types
  <2> QED BY <1>7, <1>9, <2>1 DEF Types
<1>11. \A s \in Sessions : leg'[s] = leg[s] \/ (leg[s].at \in {"save", "rename"} /\ leg'[s].at \in {"rest", "rename"})
  BY <1>5, <1>8, RestFacts DEF Threads
<1> QED BY <1>5, <1>10, <1>11, SaveMoves

-----------------------------------------------------------------------------
(* DOMAINLISTS.APPLY. *)

\* What a step of an APPLY leaves alone of the command: what it asks of a list.
SameRequest(l) ==
    /\ l \in DOMAIN cmd'.removes => l \in DOMAIN cmd.removes /\ cmd'.removes[l] = cmd.removes[l]
    /\ l \in DOMAIN cmd'.plan => l \in DOMAIN cmd.plan /\ cmd'.plan[l] = cmd.plan[l]

\* What holds of a list the vNext command works on.
LEMMA WorkHolds ==
    ASSUME ListsInv, NEW l \in CmdLists, l \notin ill
    PROVE  Holds(l) /\ l \in Lists \ Loose /\ (cmd.op = "apply" => ApplyHolds(l))
<1>1. l \in Lists /\ LegacyInv
  BY InvFacts, CmdFacts
<1>2. l \notin LegacyLists
  BY <1>1 DEF LegacyInv
<1> QED BY <1>1, <1>2, InvFacts DEF Loose, Holds

\* A list the step does not work on.
LEMMA OtherHolds ==
    ASSUME ListsInv, cmd.op = "apply", NEW k, NEW l \in Lists \ Loose, l # k, cmd.at = "next" \/ cmd.id = k,
           \/ cmd' = Idle
           \/ cmd'.op = "apply" /\ (cmd'.at = "next" \/ cmd'.id = k) /\ SameRequest(l),
           SameMeta(meta, meta', l), SameFiles(dir, dir', l), SameContents(mem, mem', l)
    PROVE  Holds(l)'
<1>1. ApplyHolds(l)
  BY InvFacts DEF Holds
<1>2. Get(meta', l, None) = Get(meta, l, None) /\ (l \in DOMAIN meta => l \in DOMAIN meta' /\ meta'[l] = meta[l])
  BY SameIsSame DEF SameMeta
<1>3. Agree(l)
  BY <1>1 DEF ApplyHolds
<1>4. Agree(l)'
  BY <1>3, AgreeSame
<1>5. CASE cmd' = Idle
  BY <1>4, <1>5 DEF Holds, Idle
<1>6. CASE cmd'.op = "apply" /\ (cmd'.at = "next" \/ cmd'.id = k) /\ SameRequest(l)
  <2>1. /\ l \in DOMAIN cmd'.removes => l \in DOMAIN meta' /\ meta'[l].color = cmd'.removes[l]
        /\ l \in DOMAIN cmd'.plan => cmd'.plan[l].old = Get(meta', l, None)
    BY <1>1, <1>2, <1>6 DEF ApplyHolds, SameRequest
  <2>2. cmd'.at = "next" \/ l # cmd'.id
    BY <1>6
  <2>3. ApplyHolds(l)'
    BY <1>4, <2>1, <2>2 DEF ApplyHolds
  <2> QED BY <1>6, <2>3 DEF Holds
<1> QED BY <1>5, <1>6

\* A step of an APPLY: the list it works on is all there is to see to.
LEMMA ApplyStep ==
    ASSUME ListsInv, cmd.op = "apply", NEW k, k \in CmdLists \/ k = None, cmd.at = "next" \/ cmd.id = k,
           \/ cmd' = Idle
           \/ cmd'.op = "apply" /\ (cmd'.at = "next" \/ cmd'.id = k) /\ \A l : l # k => SameRequest(l),
           \A l \in Lists : l # k => SameMeta(meta, meta', l) /\ SameFiles(dir, dir', l) /\ SameContents(mem, mem', l),
           CmdTypes', DOMAIN mem' = Colors, AggInv', IsMeta(meta'), UNCHANGED <<saved, slot, leg>>, ill \subseteq ill',
           k \in CmdLists /\ k \notin ill' => Holds(k)'
    PROVE  ListsInv'
<1>1. LegTypes /\ LegacyInv /\ IsMeta(meta) /\ CmdTypes /\ LegTypes' /\ None \notin Lists
  BY InvFacts, LegSame, ListsAssumption
<1>2. Types'
  BY <1>1, SameTypes
<1>3. CmdLists' \subseteq CmdLists
  <2>1. CmdLists = DOMAIN cmd.removes \cup DOMAIN cmd.plan
    BY <1>1, CmdFacts
  <2>2. CASE cmd' = Idle
    BY <2>2 DEF Idle, CmdLists
  <2>3. CASE cmd'.op = "apply" /\ \A l : l # k => SameRequest(l)
    <3>1. CmdLists' = DOMAIN cmd'.removes \cup DOMAIN cmd'.plan /\ CmdLists' \subseteq Lists
      <4>1. CmdLists' = DOMAIN cmd'.removes \cup DOMAIN cmd'.plan
        BY <2>3 DEF CmdLists
      <4>2. DOMAIN cmd'.removes \subseteq Lists /\ DOMAIN cmd'.plan \subseteq Lists
        BY <2>3 DEF CmdTypes, Removals, Plans
      <4> QED BY <4>1, <4>2
    <3> QED BY <1>1, <2>1, <2>3, <3>1 DEF SameRequest
  <2> QED BY <2>2, <2>3
<1>4. LegacyLists \subseteq Lists
  BY <1>1, LegListFacts
<1>5. LegacyInv' /\ LegacyLists' = LegacyLists
  <2>1. ASSUME NEW l \in LegacyLists \ ill'
        PROVE  l \notin CmdLists' /\ SameMeta(meta, meta', l) /\ SameFiles(dir, dir', l) /\ SameContents(mem, mem', l)
    <3>1. l \notin CmdLists /\ l \in Lists
      BY <1>1, <1>4, <2>1 DEF LegacyInv
    <3> QED BY <1>1, <1>3, <3>1
  <2> QED BY <1>1, <2>1, LegacySame
<1>6. \A l \in Lists \ Loose' : Holds(l)'
  <2> SUFFICES ASSUME NEW l \in Lists \ Loose' PROVE Holds(l)'
    OBVIOUS
  <2>1. l \in Lists \ Loose /\ l \notin ill'
    BY <1>5 DEF Loose
  <2>2. CASE l = k
    BY <1>1, <2>1, <2>2
  <2>3. CASE l # k
    BY <2>1, <2>3, OtherHolds
  <2> QED BY <2>2, <2>3
<1>7. ~(cmd'.op = "restore")
  BY DEF Idle
<1> QED BY <1>2, <1>5, <1>6, <1>7, Shared

LEMMA IdleTypes == ASSUME cmd' = Idle PROVE CmdTypes'
BY DEF CmdTypes, Idle

\* The parts of an APPLY's record.
LEMMA ApplyRecord ==
    ASSUME CmdTypes, cmd.op = "apply"
    PROVE  /\ DOMAIN cmd = {"op", "at", "id", "removes", "plan", "held"} /\ cmd.at \in ApplyPlaces
           /\ cmd.removes \in Removals /\ cmd.plan \in Plans
           /\ DOMAIN cmd.removes \cap DOMAIN cmd.plan = {}
           /\ \A l \in DOMAIN cmd.plan : MayChange(cmd.plan[l])
           /\ \A l \in DOMAIN cmd.removes : cmd.removes[l] \in Colors /\ l \in Lists
           /\ cmd.at \in {"unlink", "forget"} => cmd.id \in DOMAIN cmd.removes
           /\ cmd.at \notin {"next", "unlink", "forget"} => cmd.id \in DOMAIN cmd.plan
           /\ cmd.at \in {"move", "set", "switched"} => cmd.plan[cmd.id].old # None
           /\ CmdLists = DOMAIN cmd.removes \cup DOMAIN cmd.plan
<1>1. \A l \in DOMAIN cmd.removes : cmd.removes[l] \in Colors /\ l \in Lists
  BY DEF CmdTypes, Removals
<1> QED BY <1>1, CmdFacts DEF CmdTypes

\* One list taken off the request.
LEMMA FewerTypes ==
    /\ \A r \in Removals : \A S : Drop(r, S) \in Removals /\ DOMAIN Drop(r, S) = DOMAIN r \ S
    /\ \A p \in Plans : \A S : Drop(p, S) \in Plans /\ DOMAIN Drop(p, S) = DOMAIN p \ S
    /\ \A r, S : \A x \in DOMAIN r \ S : Drop(r, S)[x] = r[x]
<1>1. \A f, S : DOMAIN Drop(f, S) = DOMAIN f \ S /\ \A x \in DOMAIN f \ S : Drop(f, S)[x] = f[x]
  BY DEF Drop, Restrict
<1>2. \A T, D, f, S : f \in [D -> T] => Drop(f, S) \in [D \ S -> T]
  BY DEF Drop, Restrict
<1>3. ASSUME NEW r \in Removals, NEW S PROVE Drop(r, S) \in Removals
  <2>1. PICK D \in SUBSET Lists : r \in [D -> Colors]
    BY <1>3 DEF Removals
  <2>2. Drop(r, S) \in [D \ S -> Colors] /\ D \ S \in SUBSET Lists
    BY <1>2, <2>1
  <2> QED BY <2>2 DEF Removals
<1>4. ASSUME NEW r \in Plans, NEW S PROVE Drop(r, S) \in Plans
  <2> DEFINE T == [new : Infos, old : Infos \cup {None}]
  <2>1. PICK D \in SUBSET Lists : r \in [D -> T]
    BY <1>4 DEF Plans
  <2> HIDE DEF T
  <2>2. Drop(r, S) \in [D \ S -> T] /\ D \ S \in SUBSET Lists
    BY <1>2, <2>1
  <2> QED BY <2>2 DEF Plans, T
<1> QED BY <1>1, <1>3, <1>4

\* The command moves to another place and keeps its request.
LEMMA MoveFacts ==
    ASSUME CmdTypes, cmd.op = "apply", NEW at \in ApplyPlaces \ {"next"}, NEW l \in CmdLists, NEW held,
           cmd' = [cmd EXCEPT !.at = at, !.id = l, !.held = held],
           l \in DOMAIN cmd.removes <=> at \in {"unlink", "forget"},
           at \in {"move", "set", "switched"} => cmd.plan[l].old # None
    PROVE  /\ CmdTypes' /\ cmd'.op = "apply" /\ cmd'.at = at /\ cmd'.id = l /\ cmd'.held = held
           /\ cmd'.removes = cmd.removes /\ cmd'.plan = cmd.plan /\ \A k : SameRequest(k)
<1>1. /\ cmd'.op = "apply" /\ cmd'.at = at /\ cmd'.id = l /\ cmd'.held = held
      /\ cmd'.removes = cmd.removes /\ cmd'.plan = cmd.plan /\ DOMAIN cmd' = DOMAIN cmd
  BY ApplyRecord
<1>2. l \in DOMAIN cmd.removes \cup DOMAIN cmd.plan
  BY ApplyRecord
<1>3. CmdTypes'
  BY <1>1, <1>2, ApplyRecord DEF CmdTypes, ApplyPlaces
<1> QED BY <1>1, <1>3 DEF SameRequest

\* The place alone, or the place and the list, change.
LEMMA Stays ==
    ASSUME CmdTypes, cmd.op = "apply"
    PROVE  /\ \A at : [cmd EXCEPT !.at = at] = [cmd EXCEPT !.at = at, !.id = cmd.id, !.held = cmd.held]
           /\ \A at, l : [cmd EXCEPT !.at = at, !.id = l] = [cmd EXCEPT !.at = at, !.id = l, !.held = cmd.held]
           /\ \A at, h : [cmd EXCEPT !.at = at, !.held = h] = [cmd EXCEPT !.at = at, !.id = cmd.id, !.held = h]
BY ApplyRecord

\* The command stays at its list.
LEMMA PlaceFacts ==
    ASSUME CmdTypes, cmd.op = "apply", cmd.at # "next", NEW at \in ApplyPlaces \ {"next"},
           cmd' = [cmd EXCEPT !.at = at],
           at \in {"unlink", "forget"} <=> cmd.at \in {"unlink", "forget"},
           at \in {"move", "set", "switched"} => cmd.plan[cmd.id].old # None
    PROVE  /\ CmdTypes' /\ cmd'.op = "apply" /\ cmd'.at = at /\ cmd'.id = cmd.id /\ cmd'.held = cmd.held
           /\ cmd'.removes = cmd.removes /\ cmd'.plan = cmd.plan /\ \A k : SameRequest(k)
<1>1. PICK l : l = cmd.id
  OBVIOUS
<1>2. PICK held : held = cmd.held
  OBVIOUS
<1>3. cmd' = [cmd EXCEPT !.at = at, !.id = l, !.held = held]
  BY <1>1, <1>2, Stays
<1>4. l \in CmdLists /\ (l \in DOMAIN cmd.removes <=> at \in {"unlink", "forget"})
  BY <1>1, ApplyRecord
<1> QED BY <1>1, <1>2, <1>3, <1>4, MoveFacts

LEMMA RemoveStepKeeps == ASSUME ListsInv, NEW l \in Lists, RemoveList(l) PROVE ListsInv'
<1>1. PICK c : c = cmd.removes[l]
  OBVIOUS
<1>2. PICK held : held = cmd.held
  OBVIOUS
<1>3. CmdTypes /\ IsMeta(meta) /\ AggInv /\ DOMAIN mem = Colors
  BY InvFacts
<1>4. /\ cmd.op = "apply" /\ cmd.at = "next" /\ l \in DOMAIN cmd.removes /\ erase(c, l)
      /\ cmd' = [cmd EXCEPT !.at = "unlink", !.id = l, !.held = held]
      /\ UNCHANGED <<meta, dir, saved, slot, leg, ill>>
  BY <1>1, <1>2, <1>3, Stays DEF RemoveList
<1>5. l \in CmdLists /\ c \in Colors /\ l \notin DOMAIN cmd.plan
  BY <1>1, <1>3, <1>4, ApplyRecord
<1>6. /\ CmdTypes' /\ cmd'.op = "apply" /\ cmd'.at = "unlink" /\ cmd'.id = l
      /\ cmd'.removes = cmd.removes /\ cmd'.plan = cmd.plan /\ \A k : SameRequest(k)
  <2>1. "unlink" \in ApplyPlaces \ {"next"}
    BY DEF ApplyPlaces
  <2> QED BY <1>3, <1>4, <1>5, <2>1, MoveFacts
<1>7. /\ DOMAIN mem' = Colors /\ AggInv' /\ IsMeta(meta')
      /\ \A b \in Colors : Contents(mem', b, l) = IF b = c THEN Empty ELSE Contents(mem, b, l)
      /\ \A k : k # l => SameContents(mem, mem', k)
  BY <1>3, <1>4, <1>5, EraseFacts
<1>8. \A k : SameMeta(meta, meta', k) /\ SameFiles(dir, dir', k)
  BY <1>4, SameIsSame
<1>9. ASSUME l \notin ill PROVE Holds(l)'
  <2>1. ApplyHolds(l)
    BY <1>4, <1>5, <1>9, WorkHolds
  <2>2. l \in DOMAIN meta /\ meta[l].color = c /\ Agree(l)
    BY <1>1, <1>4, <2>1 DEF ApplyHolds
  <2>3. meta[l] # None /\ Get(meta, l, None) = meta[l]
    BY <1>3, <2>2, MetaFacts, InfoFacts
  <2>4. /\ \A b \in Colors : b # c => Contents(mem, b, l) = Empty
        /\ \A on \in BOOLEAN : File(l, on) \in DOMAIN dir => meta[l].enabled = on
    BY <2>2, <2>3, AgreeFacts DEF Agree
  <2>5. Leaving(l)'
    BY <1>4, <1>7, <2>2, <2>4 DEF Leaving
  <2>6. AtHolds(l)'
    BY <1>6, <2>5 DEF AtHolds
  <2>7. ApplyHolds(l)'
    BY <1>1, <1>4, <1>5, <1>6, <2>2, <2>6 DEF ApplyHolds
  <2> QED BY <1>6, <2>7 DEF Holds
<1> QED BY <1>4, <1>5, <1>6, <1>7, <1>8, <1>9, ApplyStep

LEMMA UnlinkStepKeeps == ASSUME ListsInv, RemoveFile PROVE ListsInv'
<1>1. PICK l : l = cmd.id
  OBVIOUS
<1>2. CmdTypes /\ IsMeta(meta) /\ AggInv /\ DOMAIN mem = Colors
  BY InvFacts
<1>3. /\ cmd.op = "apply" /\ cmd.at = "unlink" /\ unlink(l) /\ cmd' = [cmd EXCEPT !.at = "forget"]
      /\ UNCHANGED <<meta, mem, agg, saved, slot, leg>>
  BY <1>1 DEF RemoveFile
<1>4. l \in DOMAIN cmd.removes /\ l \in CmdLists /\ l \notin DOMAIN cmd.plan
  BY <1>1, <1>2, <1>3, ApplyRecord
<1>5. /\ CmdTypes' /\ cmd'.op = "apply" /\ cmd'.at = "forget" /\ cmd'.id = l
      /\ cmd'.removes = cmd.removes /\ cmd'.plan = cmd.plan /\ \A k : SameRequest(k)
  <2>1. "forget" \in ApplyPlaces \ {"next"}
    BY DEF ApplyPlaces
  <2> QED BY <1>1, <1>2, <1>3, <2>1, PlaceFacts
<1>6. ill \subseteq ill' /\ \A k : k # l => SameFiles(dir, dir', k)
  BY <1>3, UnlinkFacts
<1>7. DOMAIN mem' = Colors /\ AggInv' /\ IsMeta(meta') /\ \A k : SameMeta(meta, meta', k) /\ SameContents(mem, mem', k)
  BY <1>2, <1>3, <1>6, SameMem, SameIsSame
<1>8. ASSUME l \notin ill' PROVE Holds(l)'
  <2>1. ApplyHolds(l)
    BY <1>3, <1>4, <1>6, <1>8, WorkHolds
  <2>2. l \in DOMAIN meta /\ meta[l].color = cmd.removes[l] /\ Leaving(l)
    BY <1>1, <1>3, <1>4, <2>1 DEF ApplyHolds, AtHolds
  <2>3. AgreesAs(mem', dir', None, l)
    BY <1>3, <1>8, <2>2, UnlinkAgrees
  <2>4. AtHolds(l)'
    BY <1>5, <2>3 DEF AtHolds
  <2>5. ApplyHolds(l)'
    BY <1>3, <1>4, <1>5, <2>2, <2>4 DEF ApplyHolds
  <2> QED BY <1>5, <2>5 DEF Holds
<1> QED BY <1>1, <1>3, <1>4, <1>5, <1>6, <1>7, <1>8, ApplyStep

LEMMA ForgetStepKeeps == ASSUME ListsInv, removeBlockingList PROVE ListsInv'
<1>1. PICK l : l = cmd.id
  OBVIOUS
<1>2. CmdTypes /\ IsMeta(meta)
  BY InvFacts
<1>3. /\ cmd.op = "apply" /\ cmd.at = "forget" /\ meta' = Drop(meta, {l})
      /\ cmd' = [cmd EXCEPT !.at = "next", !.removes = Drop(@, {l})] /\ UNCHANGED <<mem, agg, dir, saved, slot, leg, ill>>
  BY <1>1 DEF removeBlockingList
<1>4. l \in DOMAIN cmd.removes /\ l \in Lists /\ l \in CmdLists
  BY <1>1, <1>2, <1>3, ApplyRecord
<1>5. /\ cmd'.op = "apply" /\ cmd'.at = "next" /\ cmd'.id = l
      /\ cmd'.removes = Drop(cmd.removes, {l}) /\ cmd'.plan = cmd.plan /\ DOMAIN cmd' = DOMAIN cmd
  BY <1>1, <1>2, <1>3, ApplyRecord
<1>6. CmdTypes' /\ l \notin DOMAIN cmd'.removes /\ l \notin DOMAIN cmd'.plan
  <2>1. /\ cmd'.removes \in Removals /\ DOMAIN cmd'.removes = DOMAIN cmd.removes \ {l}
    BY <1>2, <1>3, <1>5, ApplyRecord, FewerTypes
  <2> QED BY <1>2, <1>3, <1>4, <1>5, <2>1, ApplyRecord DEF CmdTypes, ApplyPlaces
<1>7. \A k : k # l => SameRequest(k)
  BY <1>5 DEF SameRequest, Drop, Restrict
<1>8. /\ DOMAIN mem' = Colors /\ AggInv' /\ \A k : SameFiles(dir, dir', k) /\ SameContents(mem, mem', k)
      /\ IsMeta(meta') /\ Get(meta', l, None) = None /\ \A k \in Lists \ {l} : SameMeta(meta, meta', k)
  BY <1>2, <1>3, <1>4, InvFacts, SameMem, SameIsSame, MetaFacts
<1>9. ASSUME l \notin ill PROVE Holds(l)'
  <2>1. ApplyHolds(l)
    BY <1>3, <1>4, <1>9, WorkHolds
  <2>2. AgreesAs(mem, dir, None, l)
    BY <1>1, <1>3, <2>1 DEF ApplyHolds, AtHolds
  <2>3. Agree(l)'
    BY <1>3, <1>8, <2>2 DEF Agree
  <2>4. ApplyHolds(l)'
    BY <1>5, <1>6, <2>3 DEF ApplyHolds
  <2> QED BY <1>5, <2>4 DEF Holds
<1> QED BY <1>1, <1>3, <1>4, <1>5, <1>6, <1>7, <1>8, <1>9, ApplyStep

LEMMA EnsureKeeps == ASSUME ListsInv, NEW l \in Lists, EnsureFile(l) PROVE ListsInv'
<1>0. PICK p : p = cmd.plan[l]
  OBVIOUS
<1>1. PICK at : at = IF p.old = None THEN "add" ELSE "move"
  OBVIOUS
<1>2. PICK held : held = cmd.held
  OBVIOUS
<1>3. PICK on \in BOOLEAN : on = (p.old # None /\ p.old.enabled)
  OBVIOUS
<1>4. CmdTypes /\ IsMeta(meta) /\ AggInv /\ DOMAIN mem = Colors
  BY InvFacts
<1>5. /\ cmd.op = "apply" /\ cmd.at = "next" /\ l \in DOMAIN cmd.plan
      /\ IF on /\ p.new.enabled THEN UNCHANGED dir /\ Keeps ELSE ensureFileExists(l, on)
      /\ cmd' = [cmd EXCEPT !.at = at, !.id = l, !.held = held]
      /\ UNCHANGED <<meta, mem, agg, saved, slot, leg>>
  <2>1. /\ cmd.op = "apply" /\ cmd.at = "next" /\ l \in DOMAIN cmd.plan
        /\ IF on /\ p.new.enabled THEN UNCHANGED dir /\ Keeps ELSE ensureFileExists(l, on)
        /\ cmd' = [cmd EXCEPT !.at = at, !.id = l]
        /\ UNCHANGED <<meta, mem, agg, saved, slot, leg>>
    BY <1>0, <1>1, <1>3 DEF EnsureFile
  <2> QED BY <1>2, <1>4, <2>1, Stays
<1>6. /\ l \in CmdLists /\ p.new \in Infos /\ p.new.enabled \in BOOLEAN /\ l \notin DOMAIN cmd.removes
      /\ p.old # None => p.old \in Infos /\ p.old.enabled \in BOOLEAN
  BY <1>0, <1>4, <1>5, ApplyRecord, PlanFacts, InfoFacts
<1>7. /\ CmdTypes' /\ cmd'.op = "apply" /\ cmd'.at = at /\ cmd'.id = l
      /\ cmd'.removes = cmd.removes /\ cmd'.plan = cmd.plan /\ \A k : SameRequest(k)
  <2>1. at \in ApplyPlaces \ {"next"} /\ at \notin {"unlink", "forget"} /\ (at \in {"move", "set", "switched"} => cmd.plan[l].old # None)
    BY <1>0, <1>1 DEF ApplyPlaces
  <2> QED BY <1>4, <1>5, <1>6, <2>1, MoveFacts
<1>8. /\ ill' = ill /\ \A k : k # l => SameFiles(dir, dir', k)
      /\ \A b \in BOOLEAN : /\ File(l, b) \in DOMAIN dir' => b = on \/ File(l, b) \in DOMAIN dir
                            /\ FileOf(dir', l, b) = FileOf(dir, l, b)
  <2>1. CASE on /\ p.new.enabled
    BY <1>5, <2>1, SameIsSame, FaultFacts
  <2>2. CASE ~(on /\ p.new.enabled)
    BY <1>5, <2>2, EnsureFileFacts
  <2> QED BY <2>1, <2>2
<1>9. DOMAIN mem' = Colors /\ AggInv' /\ IsMeta(meta') /\ \A k : SameMeta(meta, meta', k) /\ SameContents(mem, mem', k)
  BY <1>4, <1>5, <1>8, SameMem, SameIsSame
<1>10. ASSUME l \notin ill PROVE Holds(l)'
  <2>1. ApplyHolds(l)
    BY <1>5, <1>6, <1>10, WorkHolds
  <2>2. p.old = Get(meta, l, None) /\ AgreesAs(mem, dir, p.old, l)
    BY <1>0, <1>5, <2>1 DEF ApplyHolds, Agree
  <2>3. AtHolds(l)'
    <3>1. CASE p.old = None
      <4>1. (\A c \in Colors : Contents(mem, c, l) = Empty) /\ (\A b \in BOOLEAN : File(l, b) \notin DOMAIN dir)
        BY <2>2, <3>1, AgreeFacts
      <4>2. Waiting(l)'
        BY <1>3, <1>5, <1>8, <3>1, <4>1 DEF Waiting
      <4>3. cmd'.at = "add" /\ cmd'.plan[l].old = None
        BY <1>0, <1>1, <1>7, <3>1
      <4> QED BY <4>2, <4>3 DEF AtHolds
    <3>2. CASE p.old # None
      <4>1. /\ \A b \in Colors : Contents(mem, b, l) = IF p.old.enabled /\ p.old.color = b THEN readFile(dir, l, p.old.mask) ELSE Empty
            /\ \A a \in BOOLEAN : File(l, a) \in DOMAIN dir => p.old.enabled = a
        BY <2>2, <3>2, AgreeFacts
      <4>2. on = p.old.enabled
        BY <1>3, <1>6, <3>2
      <4>3. readFile(dir', l, p.old.mask) = readFile(dir, l, p.old.mask)
        BY <1>8 DEF readFile
      <4>4. /\ \A b \in Colors : Contents(mem', b, l) = IF p.old.enabled /\ p.old.color = b THEN readFile(dir', l, p.old.mask) ELSE Empty
            /\ \A a \in BOOLEAN : File(l, a) \in DOMAIN dir' => p.old.enabled = a
        BY <1>5, <1>8, <4>1, <4>2, <4>3
      <4>5. AgreesAs(mem', dir', p.old, l)
        BY <3>2, <4>4, AgreeFacts
      <4>6. Agree(l)' /\ cmd'.at = "move" /\ cmd'.plan[l].old # None
        BY <1>0, <1>1, <1>5, <1>7, <2>2, <3>2, <4>5 DEF Agree
      <4> QED BY <4>6 DEF AtHolds
    <3> QED BY <3>1, <3>2
  <2>4. cmd'.at \notin {"next", "update", "enable"} /\ cmd'.plan[l].old = Get(meta', l, None)
    BY <1>0, <1>1, <1>5, <1>7, <2>2
  <2>5. ApplyHolds(l)'
    BY <1>6, <1>7, <2>3, <2>4 DEF ApplyHolds
  <2> QED BY <1>7, <2>5 DEF Holds
<1> QED BY <1>5, <1>6, <1>7, <1>8, <1>9, <1>10, ApplyStep

LEMMA AddStepKeeps == ASSUME ListsInv, addBlockingList PROVE ListsInv'
<1>0. PICK l : l = cmd.id
  OBVIOUS
<1>1. PICK i : i = [cmd.plan[l].new EXCEPT !.enabled = TRUE]
  OBVIOUS
<1>2. CmdTypes /\ IsMeta(meta)
  BY InvFacts
<1>3. /\ cmd.op = "apply" /\ cmd.at = "add"
      /\ meta' = IF l \in DOMAIN meta THEN meta ELSE Put(meta, l, i)
      /\ cmd' = [cmd EXCEPT !.at = "update"] /\ UNCHANGED <<mem, agg, dir, saved, slot, leg, ill>>
  BY <1>0, <1>1 DEF addBlockingList
<1>4. /\ l \in DOMAIN cmd.plan /\ l \in Lists /\ l \notin DOMAIN cmd.removes /\ l \in CmdLists /\ i \in Infos
  BY <1>0, <1>1, <1>2, <1>3, ApplyRecord, PlanFacts, Updated
<1>5. /\ CmdTypes' /\ cmd'.op = "apply" /\ cmd'.at = "update" /\ cmd'.id = l
      /\ cmd'.removes = cmd.removes /\ cmd'.plan = cmd.plan /\ \A k : SameRequest(k)
  <2>1. "update" \in ApplyPlaces \ {"next"}
    BY DEF ApplyPlaces
  <2> QED BY <1>0, <1>2, <1>3, <2>1, PlaceFacts
<1>6. IsMeta(meta') /\ l \in DOMAIN meta' /\ \A k \in Lists \ {l} : SameMeta(meta, meta', k)
  <2>1. CASE l \in DOMAIN meta
    BY <1>2, <1>3, <2>1, SameIsSame
  <2>2. CASE l \notin DOMAIN meta
    BY <1>2, <1>3, <1>4, <2>2, MetaFacts DEF Put
  <2> QED BY <2>1, <2>2
<1>7. DOMAIN mem' = Colors /\ AggInv' /\ \A k : SameFiles(dir, dir', k) /\ SameContents(mem, mem', k)
  BY <1>3, InvFacts, SameMem, SameIsSame
<1>8. ASSUME l \notin ill PROVE Holds(l)'
  <2>1. ApplyHolds(l)
    BY <1>3, <1>4, <1>8, WorkHolds
  <2>2. cmd.plan[l].old = None /\ Waiting(l)
    BY <1>0, <1>3, <2>1 DEF ApplyHolds, AtHolds
  <2>3. Waiting(l)'
    BY <1>3, <2>2 DEF Waiting
  <2>4. AtHolds(l)'
    BY <1>5, <1>6, <2>2, <2>3 DEF AtHolds
  <2>5. ApplyHolds(l)'
    BY <1>4, <1>5, <2>4 DEF ApplyHolds
  <2> QED BY <1>5, <2>5 DEF Holds
<1> QED BY <1>0, <1>3, <1>4, <1>5, <1>6, <1>7, <1>8, ApplyStep

\* The list after a step of the upsert, when its metadata come next.
LEMMA UpdateNextHolds ==
    ASSUME CmdTypes', cmd'.op = "apply", cmd'.at = "update", NEW l, cmd'.id = l, l \in DOMAIN cmd'.plan,
           l \notin DOMAIN cmd'.removes, l \in DOMAIN meta', NEW i, i = cmd'.plan[l].new, cmd'.plan[l].old # None,
           AgreesAs(mem', dir', i, l)
    PROVE  Holds(l)'
<1>1. AtHolds(l)'
  BY DEF AtHolds
<1>2. ApplyHolds(l)'
  BY <1>1 DEF ApplyHolds
<1> QED BY <1>2 DEF Holds

LEMMA MoveKeeps == ASSUME ListsInv, UpsertMove PROVE ListsInv'
<1>0. PICK l : l = cmd.id
  OBVIOUS
<1>1. PICK p : p = cmd.plan[l]
  OBVIOUS
<1>2. PICK old, new : old = p.old /\ new = p.new
  OBVIOUS
<1>3. PICK after : after = [cmd EXCEPT !.at = "update"]
  OBVIOUS
<1>4. PICK held : held = Contents(mem, old.color, l)
  OBVIOUS
<1>5. PICK aside : aside = [cmd EXCEPT !.at = "set", !.held = held]
  OBVIOUS
<1>6. /\ cmd.op = "apply" /\ cmd.at = "move" /\ UNCHANGED <<meta, saved, slot, leg>>
      /\ \/ old.enabled /\ ~new.enabled /\ disable(l, old.color) /\ cmd' = after
         \/ ~old.enabled /\ new.enabled /\ enable(l, new.mask, new.color) /\ cmd' = after
         \/ cmd' = Idle /\ UNCHANGED <<dir, mem, agg, ill>>
         \/ /\ old.enabled /\ new.enabled /\ old.color # new.color
            /\ cmd' = aside /\ UNCHANGED <<dir, mem, agg, ill>>
         \/ /\ old.enabled /\ new.enabled /\ old.mask # new.mask /\ changeBlockMask(l, new.mask, new.color)
            /\ cmd' = after /\ UNCHANGED <<dir, ill>>
         \/ /\ (old.enabled /\ new.enabled /\ old = new) \/ (~old.enabled /\ ~new.enabled)
            /\ cmd' = after /\ UNCHANGED <<dir, mem, agg, ill>>
  BY <1>0, <1>1, <1>2, <1>3, <1>4, <1>5, FaultFacts DEF UpsertMove, renameFails
<1>7. CmdTypes /\ IsMeta(meta) /\ AggInv /\ DOMAIN mem = Colors
  BY InvFacts
<1>8. l \in DOMAIN cmd.plan /\ l \in Lists /\ l \in CmdLists /\ l \notin DOMAIN cmd.removes /\ old # None
  BY <1>0, <1>1, <1>2, <1>6, <1>7, ApplyRecord, PlanFacts
<1>9. /\ new \in Infos /\ new # None /\ new.color \in Colors /\ new.enabled \in BOOLEAN
      /\ old \in Infos /\ old.color \in Colors /\ old.enabled \in BOOLEAN
      /\ old.color = new.color \/ old.mask = new.mask
  BY <1>1, <1>2, <1>6, <1>7, <1>8, PlanFacts, InfoFacts DEF MayChange
<1>10. IsMeta(meta') /\ \A k : SameMeta(meta, meta', k)
  BY <1>6, <1>7, SameIsSame
<1>11. cmd' = after =>
           /\ CmdTypes' /\ cmd'.op = "apply" /\ cmd'.at = "update" /\ cmd'.id = l
           /\ cmd'.removes = cmd.removes /\ cmd'.plan = cmd.plan /\ \A k : SameRequest(k)
  <2>1. "update" \in ApplyPlaces \ {"next"}
    BY DEF ApplyPlaces
  <2> QED BY <1>0, <1>3, <1>6, <1>7, <2>1, PlaceFacts
\* The list as the metadata have it, before the step.
<1>12. ASSUME l \notin ill
       PROVE  /\ l \in DOMAIN meta /\ old = Get(meta, l, None) /\ Agree(l) /\ AgreesAs(mem, dir, old, l)
              /\ \A b \in Colors : Contents(mem, b, l) = IF old.enabled /\ old.color = b THEN readFile(dir, l, old.mask) ELSE Empty
              /\ \A on \in BOOLEAN : File(l, on) \in DOMAIN dir => old.enabled = on
  <2>1. ApplyHolds(l)
    BY <1>6, <1>8, <1>12, WorkHolds
  <2>2. old = Get(meta, l, None) /\ Agree(l)
    BY <1>0, <1>1, <1>2, <1>6, <1>8, <2>1 DEF ApplyHolds, AtHolds
  <2>3. l \in DOMAIN meta /\ AgreesAs(mem, dir, old, l)
    BY <1>8, <2>2 DEF Get, Agree
  <2> QED BY <1>8, <2>2, <2>3, AgreeFacts
\* The list after it.
<1>13. ASSUME l \notin ill, cmd' = after, AgreesAs(mem', dir', new, l)
       PROVE  Holds(l)'
  <2>1. l \in DOMAIN meta'
    BY <1>6, <1>12, <1>13
  <2> QED BY <1>1, <1>2, <1>8, <1>11, <1>13, <2>1, UpdateNextHolds
<1>14. CASE old.enabled /\ ~new.enabled /\ disable(l, old.color) /\ cmd' = after
  <2>1. PICK c : c = old.color
    OBVIOUS
  <2>2. disable(l, c) /\ c \in Colors
    BY <1>9, <1>14, <2>1
  <2>3. /\ ill' = ill /\ DOMAIN mem' = Colors /\ AggInv'
        /\ \A k : k # l => SameFiles(dir, dir', k) /\ SameContents(mem, mem', k)
    BY <1>7, <2>2, DisableFacts
  <2>4. ASSUME l \notin ill PROVE AgreesAs(mem', dir', new, l)
    BY <1>7, <1>9, <1>12, <1>14, <2>1, <2>2, <2>4, DisabledAgrees
  <2> QED BY <1>0, <1>6, <1>8, <1>10, <1>11, <1>13, <1>14, <2>3, <2>4, ApplyStep
<1>15. CASE ~old.enabled /\ new.enabled /\ enable(l, new.mask, new.color) /\ cmd' = after
  <2>1. PICK c, m : c = new.color /\ m = new.mask
    OBVIOUS
  <2>2. enable(l, m, c) /\ c \in Colors
    BY <1>9, <1>15, <2>1
  <2>3. /\ ill \subseteq ill' /\ DOMAIN mem' = Colors /\ AggInv'
        /\ \A k : k # l => SameFiles(dir, dir', k) /\ SameContents(mem, mem', k)
    BY <1>7, <2>2, EnableFacts
  <2>4. ASSUME l \notin ill' PROVE AgreesAs(mem', dir', new, l)
    BY <1>7, <1>9, <1>12, <1>15, <2>1, <2>2, <2>3, <2>4, EnabledAgrees
  <2> QED BY <1>0, <1>6, <1>8, <1>10, <1>11, <1>13, <1>15, <2>3, <2>4, ApplyStep
<1>16. CASE UNCHANGED <<dir, mem, agg, ill>>
  <2>1. DOMAIN mem' = Colors /\ AggInv' /\ \A k : SameFiles(dir, dir', k) /\ SameContents(mem, mem', k)
    BY <1>7, <1>16, SameMem, SameIsSame
  <2>2. CASE cmd' = Idle
    <3>1. ASSUME l \notin ill PROVE Holds(l)'
      <4>1. Agree(l)'
        BY <1>10, <1>12, <2>1, <3>1, AgreeSame
      <4> QED BY <2>2, <4>1 DEF Holds, Idle
    <3> QED BY <1>0, <1>6, <1>8, <1>10, <1>16, <2>1, <2>2, <3>1, IdleTypes, ApplyStep
  <2>3. CASE old.enabled /\ new.enabled /\ old.color # new.color /\ cmd' = aside
    <3>1. /\ CmdTypes' /\ cmd'.op = "apply" /\ cmd'.at = "set" /\ cmd'.id = l /\ cmd'.held = held
          /\ cmd'.removes = cmd.removes /\ cmd'.plan = cmd.plan /\ \A k : SameRequest(k)
      <4>1. cmd' = [cmd EXCEPT !.at = "set", !.id = l, !.held = held]
        BY <1>0, <1>5, <1>6, <1>7, <2>3, Stays
      <4>2. "set" \in ApplyPlaces \ {"next"} /\ cmd.plan[l].old # None
        BY <1>1, <1>2, <1>8 DEF ApplyPlaces
      <4> QED BY <1>6, <1>7, <1>8, <4>1, <4>2, MoveFacts
    <3>2. ASSUME l \notin ill PROVE Holds(l)'
      <4>1. Agree(l)' /\ held = Contents(mem', old.color, l)
        BY <1>4, <1>10, <1>12, <1>16, <2>1, <3>2, AgreeSame
      <4>2. cmd'.plan[l].old = old /\ cmd'.plan[l].new = new
        BY <1>1, <1>2, <3>1
      <4>3. AtHolds(l)'
        BY <1>8, <2>3, <3>1, <4>1, <4>2 DEF AtHolds
      <4>4. old = Get(meta', l, None)
        BY <1>6, <1>12, <3>2
      <4>5. ApplyHolds(l)'
        BY <1>8, <3>1, <4>2, <4>3, <4>4 DEF ApplyHolds
      <4> QED BY <3>1, <4>5 DEF Holds
    <3> QED BY <1>0, <1>6, <1>8, <1>10, <1>16, <2>1, <3>1, <3>2, ApplyStep
  <2>4. CASE ((old.enabled /\ new.enabled /\ old = new) \/ (~old.enabled /\ ~new.enabled)) /\ cmd' = after
    <3>1. ASSUME l \notin ill PROVE AgreesAs(mem', dir', new, l)
      <4>1. /\ \A b \in Colors : Contents(mem', b, l) = IF new.enabled /\ new.color = b THEN readFile(dir', l, new.mask) ELSE Empty
            /\ \A on \in BOOLEAN : File(l, on) \in DOMAIN dir' => new.enabled = on
        BY <1>9, <1>12, <1>16, <2>4, <3>1
      <4> QED BY <1>9, <4>1, AgreeFacts
    <3> QED BY <1>0, <1>6, <1>8, <1>10, <1>11, <1>13, <1>16, <2>1, <2>4, <3>1, ApplyStep
  <2>5. CASE old.enabled /\ new.enabled /\ old.mask # new.mask /\ changeBlockMask(l, new.mask, new.color) /\ cmd' = after
    <3>1. ASSUME l \notin ill PROVE AgreesAs(mem', dir', new, l)
      <4>1. PICK c, m : c = new.color /\ m = new.mask
        OBVIOUS
      <4>2. \A b \in Colors : Contents(mem', b, l) = IF b = c THEN Remask(Contents(mem, c, l), m) ELSE Contents(mem, b, l)
        BY <1>7, <1>9, <1>16, <2>5, <4>1, ChangeMaskFacts
      <4>3. old.color = c
        BY <1>9, <2>5, <4>1
      <4>4. Remask(readFile(dir, l, old.mask), m) = readFile(dir, l, m)
        BY RemaskFacts
      <4>5. /\ \A b \in Colors : Contents(mem', b, l) = IF new.enabled /\ new.color = b THEN readFile(dir', l, new.mask) ELSE Empty
            /\ \A on \in BOOLEAN : File(l, on) \in DOMAIN dir' => new.enabled = on
        BY <1>9, <1>12, <1>16, <2>5, <3>1, <4>1, <4>2, <4>3, <4>4
      <4> QED BY <1>9, <4>5, AgreeFacts
    <3> QED BY <1>0, <1>6, <1>8, <1>10, <1>11, <1>13, <1>16, <2>1, <2>5, <3>1, ApplyStep
  <2> QED BY <1>6, <1>14, <1>15, <2>2, <2>3, <2>4, <2>5
<1>17. CASE old.enabled /\ new.enabled /\ old.mask # new.mask /\ changeBlockMask(l, new.mask, new.color) /\ cmd' = after
            /\ UNCHANGED <<dir, ill>>
  <2>1. PICK c, m : c = new.color /\ m = new.mask
    OBVIOUS
  <2>2. changeBlockMask(l, m, c) /\ c \in Colors
    BY <1>9, <1>17, <2>1
  <2>3. /\ DOMAIN mem' = Colors /\ AggInv'
        /\ \A b \in Colors : \A k : Contents(mem', b, k) = IF b = c /\ k = l THEN Remask(Contents(mem, c, l), m) ELSE Contents(mem, b, k)
        /\ \A k : k # l => SameContents(mem, mem', k)
    BY <1>7, <1>17, <2>2, ChangeMaskFacts
  <2>4. ASSUME l \notin ill PROVE AgreesAs(mem', dir', new, l)
    <3>1. old.color = c
      BY <1>9, <1>17, <2>1
    <3>2. Remask(readFile(dir, l, old.mask), m) = readFile(dir, l, m) /\ Remask(Empty, m) = Empty
      BY RemaskFacts
    <3>3. /\ \A b \in Colors : Contents(mem', b, l) = IF new.enabled /\ new.color = b THEN readFile(dir', l, new.mask) ELSE Empty
          /\ \A on \in BOOLEAN : File(l, on) \in DOMAIN dir' => new.enabled = on
      BY <1>9, <1>12, <1>17, <2>1, <2>3, <2>4, <3>1, <3>2
    <3> QED BY <1>9, <3>3, AgreeFacts
  <2>5. \A k : SameFiles(dir, dir', k)
    BY <1>17, SameIsSame
  <2> QED BY <1>0, <1>6, <1>8, <1>10, <1>11, <1>13, <1>17, <2>3, <2>4, <2>5, ApplyStep
<1> QED BY <1>6, <1>14, <1>15, <1>16, <1>17

LEMMA SwitchSetKeeps == ASSUME ListsInv, SwitchSet PROVE ListsInv'
<1>0. PICK l : l = cmd.id
  OBVIOUS
<1>1. PICK p : p = cmd.plan[l]
  OBVIOUS
<1>2. PICK old, new : old = p.old /\ new = p.new
  OBVIOUS
<1>3. PICK c, held : c = new.color /\ held = cmd.held
  OBVIOUS
<1>4. CmdTypes /\ IsMeta(meta) /\ AggInv /\ DOMAIN mem = Colors
  BY InvFacts
<1>5. /\ cmd.op = "apply" /\ cmd.at = "set" /\ set(c, l, held)
      /\ cmd' = [cmd EXCEPT !.at = "switched", !.id = l, !.held = Empty] /\ UNCHANGED <<meta, dir, saved, slot, leg, ill>>
  BY <1>0, <1>1, <1>2, <1>3, <1>4, Stays DEF SwitchSet
<1>6. l \in DOMAIN cmd.plan /\ l \in Lists /\ l \in CmdLists /\ l \notin DOMAIN cmd.removes /\ old # None
  BY <1>0, <1>1, <1>2, <1>4, <1>5, ApplyRecord, PlanFacts
<1>7. /\ new \in Infos /\ c \in Colors /\ new.enabled \in BOOLEAN
      /\ old \in Infos /\ old.color \in Colors
      /\ old.color = new.color \/ old.mask = new.mask
  BY <1>1, <1>2, <1>3, <1>4, <1>5, <1>6, PlanFacts, InfoFacts DEF MayChange
<1>8. /\ CmdTypes' /\ cmd'.op = "apply" /\ cmd'.at = "switched" /\ cmd'.id = l
      /\ cmd'.removes = cmd.removes /\ cmd'.plan = cmd.plan /\ \A k : SameRequest(k)
  <2>1. "switched" \in ApplyPlaces \ {"next"} /\ cmd.plan[l].old # None
    BY <1>1, <1>2, <1>6 DEF ApplyPlaces
  <2> QED BY <1>4, <1>5, <1>6, <2>1, MoveFacts
<1>9. /\ DOMAIN mem' = Colors /\ AggInv'
      /\ Contents(mem', c, l) = held
      /\ \A k : k # l => SameContents(mem, mem', k)
  BY <1>4, <1>5, <1>7, SetFacts
<1>10. IsMeta(meta') /\ \A k : SameMeta(meta, meta', k) /\ SameFiles(dir, dir', k)
  BY <1>4, <1>5, SameIsSame
<1>11. ASSUME l \notin ill PROVE Holds(l)'
  <2>1. ApplyHolds(l)
    BY <1>5, <1>6, <1>11, WorkHolds
  <2>2. /\ old = Get(meta, l, None) /\ Agree(l) /\ old.enabled /\ new.enabled /\ old.color # new.color
        /\ held = Contents(mem, old.color, l)
    BY <1>0, <1>1, <1>2, <1>3, <1>5, <1>6, <2>1 DEF ApplyHolds, AtHolds
  <2>3. /\ Contents(mem, old.color, l) = readFile(dir, l, old.mask)
        /\ \A on \in BOOLEAN : File(l, on) \in DOMAIN dir => old.enabled = on
    <3>1. AgreesAs(mem, dir, old, l)
      BY <2>2 DEF Agree
    <3>2. /\ \A b \in Colors : Contents(mem, b, l) = IF old.enabled /\ old.color = b THEN readFile(dir, l, old.mask) ELSE Empty
          /\ \A on \in BOOLEAN : File(l, on) \in DOMAIN dir => old.enabled = on
      BY <1>6, <3>1, AgreeFacts
    <3> QED BY <1>7, <2>2, <3>2
  <2>4. Moved(new, l)'
    BY <1>3, <1>5, <1>7, <1>9, <2>2, <2>3, InfoFacts DEF Moved
  <2>5. cmd'.plan[l].old = old /\ cmd'.plan[l].new = new
    BY <1>1, <1>2, <1>8
  <2>6. AtHolds(l)'
    BY <1>6, <1>8, <2>2, <2>4, <2>5 DEF AtHolds
  <2>7. ApplyHolds(l)'
    BY <1>5, <1>6, <1>8, <2>2, <2>5, <2>6 DEF ApplyHolds
  <2> QED BY <1>8, <2>7 DEF Holds
<1> QED BY <1>0, <1>5, <1>6, <1>8, <1>9, <1>10, <1>11, ApplyStep

LEMMA SwitchKeeps == ASSUME ListsInv, SwitchErase PROVE ListsInv'
<1>0. PICK l : l = cmd.id
  OBVIOUS
<1>1. PICK p : p = cmd.plan[l]
  OBVIOUS
<1>2. PICK old, new : old = p.old /\ new = p.new
  OBVIOUS
<1>3. PICK c : c = old.color
  OBVIOUS
<1>4. CmdTypes /\ IsMeta(meta) /\ AggInv /\ DOMAIN mem = Colors
  BY InvFacts
<1>5. /\ cmd.op = "apply" /\ cmd.at = "switched" /\ erase(c, l)
      /\ cmd' = [cmd EXCEPT !.at = "update"] /\ UNCHANGED <<meta, dir, saved, slot, leg, ill>>
  BY <1>0, <1>1, <1>2, <1>3 DEF SwitchErase
<1>6. l \in DOMAIN cmd.plan /\ l \in Lists /\ l \in CmdLists /\ l \notin DOMAIN cmd.removes /\ old # None
  BY <1>0, <1>1, <1>2, <1>4, <1>5, ApplyRecord, PlanFacts
<1>7. new \in Infos /\ new.color \in Colors /\ c \in Colors
  BY <1>1, <1>2, <1>3, <1>4, <1>5, <1>6, PlanFacts, InfoFacts
<1>8. /\ CmdTypes' /\ cmd'.op = "apply" /\ cmd'.at = "update" /\ cmd'.id = l
      /\ cmd'.removes = cmd.removes /\ cmd'.plan = cmd.plan /\ \A k : SameRequest(k)
  <2>1. "update" \in ApplyPlaces \ {"next"}
    BY DEF ApplyPlaces
  <2> QED BY <1>0, <1>4, <1>5, <2>1, PlaceFacts
<1>9. /\ DOMAIN mem' = Colors /\ AggInv'
      /\ \A b \in Colors : Contents(mem', b, l) = IF b = c THEN Empty ELSE Contents(mem, b, l)
      /\ \A k : k # l => SameContents(mem, mem', k)
  BY <1>4, <1>5, <1>7, EraseFacts
<1>10. IsMeta(meta') /\ \A k : SameMeta(meta, meta', k) /\ SameFiles(dir, dir', k)
  BY <1>4, <1>5, SameIsSame
<1>11. ASSUME l \notin ill PROVE Holds(l)'
  <2>1. ApplyHolds(l)
    BY <1>5, <1>6, <1>11, WorkHolds
  <2>2. old = Get(meta, l, None) /\ old.color # new.color /\ Moved(new, l)
    BY <1>0, <1>1, <1>2, <1>5, <1>6, <2>1 DEF ApplyHolds, AtHolds
  <2>3. l \in DOMAIN meta'
    BY <1>5, <1>6, <2>2 DEF Get
  <2>4. \A b \in Colors : Contents(mem', b, l) = IF b = new.color THEN Contents(mem, b, l) ELSE Empty
    <3>1. \A b \in Colors : b = new.color \/ b = c
      BY <1>3, <1>7, <2>2, ColorFacts
    <3> QED BY <1>3, <1>9, <2>2, <3>1
  <2>5. AgreesAs(mem', dir', new, l)
    BY <1>5, <1>7, <2>2, <2>4, MovedOut
  <2> QED BY <1>1, <1>2, <1>6, <1>8, <2>3, <2>5, UpdateNextHolds
<1> QED BY <1>0, <1>5, <1>6, <1>8, <1>9, <1>10, <1>11, ApplyStep

\* The list is done: the request goes on without it.
LEMMA DoneFacts ==
    ASSUME CmdTypes, cmd.op = "apply", NEW l \in DOMAIN cmd.plan, l = cmd.id,
           cmd' = [cmd EXCEPT !.at = "next", !.plan = Drop(@, {l})]
    PROVE  /\ CmdTypes' /\ cmd'.op = "apply" /\ cmd'.at = "next" /\ \A k : k # l => SameRequest(k)
           /\ Agree(l)' => Holds(l)'
<1>1. /\ cmd'.op = "apply" /\ cmd'.at = "next" /\ cmd'.id = l
      /\ cmd'.removes = cmd.removes /\ cmd'.plan = Drop(cmd.plan, {l}) /\ DOMAIN cmd' = DOMAIN cmd
  BY ApplyRecord
<1>2. /\ cmd'.plan \in Plans /\ DOMAIN cmd'.plan = DOMAIN cmd.plan \ {l}
      /\ \A k \in DOMAIN cmd'.plan : cmd'.plan[k] = cmd.plan[k]
  <2>1. cmd.plan \in Plans
    BY ApplyRecord
  <2>2. /\ Drop(cmd.plan, {l}) \in Plans /\ DOMAIN Drop(cmd.plan, {l}) = DOMAIN cmd.plan \ {l}
        /\ \A k \in DOMAIN cmd.plan \ {l} : Drop(cmd.plan, {l})[k] = cmd.plan[k]
    BY <2>1, FewerTypes DEF Drop, Restrict
  <2> QED BY <1>1, <2>2
<1>3. CmdTypes'
  <2>1. \A k \in DOMAIN cmd'.plan : MayChange(cmd'.plan[k])
    BY <1>2, ApplyRecord
  <2> QED BY <1>1, <1>2, <2>1, ApplyRecord DEF CmdTypes, ApplyPlaces
<1>4. \A k : k # l => SameRequest(k)
  BY <1>1, <1>2 DEF SameRequest
<1>5. ASSUME Agree(l)' PROVE Holds(l)'
  <2>1. l \notin DOMAIN cmd'.plan /\ l \notin DOMAIN cmd'.removes
    BY <1>1, <1>2, ApplyRecord
  <2>2. ApplyHolds(l)'
    BY <1>1, <1>5, <2>1 DEF ApplyHolds
  <2> QED BY <1>1, <2>2 DEF Holds
<1> QED BY <1>1, <1>3, <1>4, <1>5

LEMMA UpdateStepKeeps == ASSUME ListsInv, updateBlockingList PROVE ListsInv'
<1>0. PICK l : l = cmd.id
  OBVIOUS
<1>1. PICK p : p = cmd.plan[l]
  OBVIOUS
<1>2. PICK old, new : old = p.old /\ new = p.new
  OBVIOUS
<1>3. /\ cmd.op = "apply" /\ cmd.at = "update" /\ UNCHANGED <<mem, agg, dir, saved, slot, leg, ill>>
      /\ \/ l \in DOMAIN meta /\ meta' = [meta EXCEPT ![l] = new]
            /\ cmd' = IF old = None THEN [cmd EXCEPT !.at = "enable"] ELSE [cmd EXCEPT !.at = "next", !.plan = Drop(@, {l})]
         \/ l \notin DOMAIN meta /\ cmd' = Idle /\ UNCHANGED meta
  BY <1>0, <1>1, <1>2 DEF updateBlockingList
<1>4. CmdTypes /\ IsMeta(meta)
  BY InvFacts
<1>5. l \in DOMAIN cmd.plan /\ l \in Lists /\ l \in CmdLists /\ l \notin DOMAIN cmd.removes /\ new \in Infos
  BY <1>0, <1>1, <1>2, <1>3, <1>4, ApplyRecord, PlanFacts
<1>6. /\ DOMAIN mem' = Colors /\ AggInv' /\ \A k : SameFiles(dir, dir', k) /\ SameContents(mem, mem', k)
  BY <1>3, InvFacts, SameMem, SameIsSame
<1>7. ASSUME l \notin ill
      PROVE  l \in DOMAIN meta /\ IF old = None THEN Waiting(l) ELSE AgreesAs(mem, dir, new, l)
  <2>1. ApplyHolds(l)
    BY <1>3, <1>5, <1>7, WorkHolds
  <2> QED BY <1>0, <1>1, <1>2, <1>3, <2>1 DEF ApplyHolds, AtHolds
<1>8. CASE l \notin DOMAIN meta
  BY <1>0, <1>3, <1>4, <1>5, <1>6, <1>7, <1>8, IdleTypes, SameIsSame, ApplyStep
<1>9. CASE l \in DOMAIN meta
  <2>1. meta' = Put(meta, l, new)
    BY <1>3, <1>4, <1>5, <1>9, MetaFacts
  <2>2. IsMeta(meta') /\ Get(meta', l, None) = new /\ l \in DOMAIN meta' /\ meta'[l] = new
    BY <1>4, <1>5, <2>1, MetaFacts DEF Put
  <2>3. \A k \in Lists \ {l} : SameMeta(meta, meta', k)
    BY <1>4, <1>5, <2>1, MetaFacts
  <2>4. CASE old = None
    <3>1. cmd' = [cmd EXCEPT !.at = "enable"]
      BY <1>3, <1>9, <2>4
    <3>2. /\ CmdTypes' /\ cmd'.op = "apply" /\ cmd'.at = "enable" /\ cmd'.id = l
          /\ cmd'.removes = cmd.removes /\ cmd'.plan = cmd.plan /\ \A k : SameRequest(k)
      <4>1. "enable" \in ApplyPlaces \ {"next"}
        BY DEF ApplyPlaces
      <4> QED BY <1>0, <1>3, <1>4, <3>1, <4>1, PlaceFacts
    <3>3. ASSUME l \notin ill PROVE Holds(l)'
      <4>1. Waiting(l)'
        BY <1>3, <1>7, <2>4, <3>3 DEF Waiting
      <4>2. cmd'.plan[l].old = None /\ cmd'.plan[l].new = new
        BY <1>1, <1>2, <2>4, <3>2
      <4>3. AtHolds(l)'
        BY <2>2, <3>2, <4>1, <4>2 DEF AtHolds
      <4>4. ApplyHolds(l)'
        BY <1>5, <3>2, <4>3 DEF ApplyHolds
      <4> QED BY <3>2, <4>4 DEF Holds
    <3> QED BY <1>0, <1>3, <1>5, <1>6, <2>2, <2>3, <3>2, <3>3, ApplyStep
  <2>5. CASE old # None
    <3>1. cmd' = [cmd EXCEPT !.at = "next", !.plan = Drop(@, {l})]
      BY <1>3, <1>9, <2>5
    <3>2. /\ CmdTypes' /\ cmd'.op = "apply" /\ cmd'.at = "next" /\ \A k : k # l => SameRequest(k)
          /\ Agree(l)' => Holds(l)'
      BY <1>0, <1>3, <1>4, <1>5, <3>1, DoneFacts
    <3>3. ASSUME l \notin ill PROVE Agree(l)'
      BY <1>3, <1>7, <2>2, <2>5, <3>3 DEF Agree
    <3> QED BY <1>0, <1>3, <1>5, <1>6, <2>2, <2>3, <3>2, <3>3, ApplyStep
  <2> QED BY <2>4, <2>5
<1> QED BY <1>8, <1>9

\* A list that waits agrees with new metadata once its file is there.
LEMMA WaitingAgrees ==
    ASSUME NEW l, NEW i \in Infos, Waiting(l), UNCHANGED mem,
           \A on \in BOOLEAN : File(l, on) \in DOMAIN dir' => on = FALSE /\ i.enabled = FALSE
    PROVE  AgreesAs(mem', dir', i, l)
<1>1. \A c \in Colors : Contents(mem', c, l) = Empty
  BY DEF Waiting
<1>2. i # None /\ i.enabled \in BOOLEAN
  BY InfoFacts
<1>3. \A on \in BOOLEAN : File(l, on) \in DOMAIN dir' => i.enabled = on
  BY <1>1, <1>2
<1>4. i.enabled => readFile(dir', l, i.mask) = Empty
  <2>1. i.enabled => File(l, TRUE) \notin DOMAIN dir'
    OBVIOUS
  <2> QED BY <2>1, EmptyIs
<1> QED BY <1>1, <1>2, <1>3, <1>4, AgreeFacts

LEMMA EnableNewKeeps == ASSUME ListsInv, EnableNew PROVE ListsInv'
<1>0. PICK l : l = cmd.id
  OBVIOUS
<1>1. PICK new : new = cmd.plan[l].new
  OBVIOUS
<1>2. PICK c, m : c = new.color /\ m = new.mask
  OBVIOUS
<1>3. PICK done : done = [cmd EXCEPT !.at = "next", !.plan = Drop(@, {l})]
  OBVIOUS
<1>4. /\ cmd.op = "apply" /\ cmd.at = "enable" /\ UNCHANGED <<meta, saved, slot, leg>>
      /\ \/ new.enabled /\ enable(l, m, c) /\ cmd' = done
         \/ /\ new.enabled /\ UNCHANGED <<mem, agg, dir>> /\ cmd' = Idle
            /\ ill' = IF File(l, FALSE) \in DOMAIN dir THEN ill \cup {l} ELSE ill
         \/ ~new.enabled /\ ensureFileExists(l, FALSE) /\ cmd' = done /\ UNCHANGED <<mem, agg>>
  BY <1>0, <1>1, <1>2, <1>3 DEF EnableNew, renameFails
<1>5. CmdTypes /\ IsMeta(meta) /\ AggInv /\ DOMAIN mem = Colors
  BY InvFacts
<1>6. /\ l \in DOMAIN cmd.plan /\ l \in Lists /\ l \in CmdLists
      /\ new \in Infos /\ c \in Colors /\ new.enabled \in BOOLEAN
  BY <1>0, <1>1, <1>2, <1>4, <1>5, ApplyRecord, PlanFacts, InfoFacts
<1>7. IsMeta(meta') /\ \A k : SameMeta(meta, meta', k)
  BY <1>4, <1>5, SameIsSame
<1>8. cmd' = done =>
          /\ CmdTypes' /\ cmd'.op = "apply" /\ cmd'.at = "next" /\ \A k : k # l => SameRequest(k)
          /\ Agree(l)' => Holds(l)'
  BY <1>0, <1>3, <1>4, <1>5, <1>6, DoneFacts
<1>9. ASSUME l \notin ill PROVE Get(meta', l, None) = new /\ Waiting(l)
  <2>1. ApplyHolds(l)
    BY <1>4, <1>6, <1>9, WorkHolds
  <2> QED BY <1>0, <1>1, <1>4, <2>1 DEF ApplyHolds, AtHolds, Get
<1>10. CASE new.enabled /\ enable(l, m, c) /\ cmd' = done
  <2>1. /\ DOMAIN mem' = Colors /\ AggInv' /\ ill \subseteq ill'
        /\ \A k : k # l => SameFiles(dir, dir', k) /\ SameContents(mem, mem', k)
    BY <1>5, <1>6, <1>10, EnableFacts
  <2>2. ASSUME l \notin ill' PROVE Agree(l)'
    <3>1. Waiting(l) /\ Get(meta', l, None) = new
      BY <1>9, <2>1, <2>2
    <3>2. /\ Contents(mem', c, l) = readFile(dir', l, m)
          /\ \A b \in Colors : b # c => Contents(mem', b, l) = Contents(mem, b, l)
          /\ File(l, TRUE) \in DOMAIN dir' /\ File(l, FALSE) \notin DOMAIN dir'
      BY <1>5, <1>6, <1>10, <2>2, EnableFacts
    <3>3. /\ \A on \in BOOLEAN : File(l, on) \in DOMAIN dir' => new.enabled = on
          /\ \A b \in Colors : Contents(mem', b, l) = IF new.enabled /\ new.color = b THEN readFile(dir', l, new.mask) ELSE Empty
      BY <1>2, <1>6, <1>10, <3>1, <3>2 DEF Waiting
    <3> QED BY <1>6, <3>1, <3>3, InfoFacts, AgreeFacts DEF Agree
  <2> QED BY <1>0, <1>4, <1>6, <1>7, <1>8, <1>10, <2>1, <2>2, ApplyStep
<1>11. CASE /\ new.enabled /\ UNCHANGED <<mem, agg, dir>> /\ cmd' = Idle
            /\ ill' = IF File(l, FALSE) \in DOMAIN dir THEN ill \cup {l} ELSE ill
  <2>1. ill \subseteq ill' /\ (l \notin ill' => File(l, FALSE) \notin DOMAIN dir)
    BY <1>11
  <2>2. DOMAIN mem' = Colors /\ AggInv' /\ \A k : SameFiles(dir, dir', k) /\ SameContents(mem, mem', k)
    BY <1>5, <1>11, <2>1, SameMem, SameIsSame
  <2>3. ASSUME l \notin ill' PROVE Holds(l)'
    <3>1. Waiting(l) /\ Get(meta', l, None) = new
      BY <1>9, <2>1, <2>3
    <3>2. \A on \in BOOLEAN : File(l, on) \notin DOMAIN dir'
      BY <1>11, <2>1, <2>3, <3>1 DEF Waiting
    <3>3. AgreesAs(mem', dir', new, l)
      BY <1>6, <1>11, <3>1, <3>2, WaitingAgrees
    <3> QED BY <1>11, <3>1, <3>3 DEF Holds, Idle, Agree
  <2> QED BY <1>0, <1>4, <1>6, <1>7, <1>11, <2>1, <2>2, <2>3, IdleTypes, ApplyStep
<1>12. CASE ~new.enabled /\ ensureFileExists(l, FALSE) /\ cmd' = done /\ UNCHANGED <<mem, agg>>
  <2>1. PICK off \in BOOLEAN : off = FALSE
    OBVIOUS
  <2>2. /\ ill' = ill /\ \A k : k # l => SameFiles(dir, dir', k)
        /\ \A b \in BOOLEAN : File(l, b) \in DOMAIN dir' => b = off \/ File(l, b) \in DOMAIN dir
    BY <1>12, <2>1, EnsureFileFacts
  <2>3. DOMAIN mem' = Colors /\ AggInv' /\ \A k : SameContents(mem, mem', k)
    BY <1>5, <1>12, <2>2, SameMem
  <2>4. ASSUME l \notin ill PROVE Agree(l)'
    <3>1. Waiting(l) /\ Get(meta', l, None) = new /\ new.enabled = FALSE
      BY <1>6, <1>9, <1>12, <2>4
    <3>2. \A b \in BOOLEAN : File(l, b) \in DOMAIN dir' => b = FALSE
      BY <2>1, <2>2, <3>1 DEF Waiting
    <3>3. AgreesAs(mem', dir', new, l)
      BY <1>6, <1>12, <3>1, <3>2, WaitingAgrees
    <3> QED BY <3>1, <3>3 DEF Agree
  <2> QED BY <1>0, <1>4, <1>6, <1>7, <1>8, <1>12, <2>2, <2>3, <2>4, ApplyStep
<1> QED BY <1>4, <1>10, <1>11, <1>12

LEMMA ApplyEndKeeps == ASSUME ListsInv, ApplyEnd PROVE ListsInv'
<1>1. /\ cmd.op = "apply" /\ cmd.at = "next" /\ cmd' = Idle /\ UNCHANGED <<meta, mem, agg, dir, saved, slot, leg, ill>>
  BY DEF ApplyEnd
<1>2. /\ IsMeta(meta') /\ DOMAIN mem' = Colors /\ AggInv' /\ CmdTypes'
      /\ \A k : SameMeta(meta, meta', k) /\ SameFiles(dir, dir', k) /\ SameContents(mem, mem', k)
  BY <1>1, InvFacts, SameMem, SameIsSame, IdleTypes
<1>3. None \notin CmdLists
  BY InvFacts, CmdFacts, ListsAssumption
<1>4. PICK k : k = None
  OBVIOUS
<1> QED BY <1>1, <1>2, <1>3, <1>4, ApplyStep

\* A step of the vNext commands: the sessions stand still.
LEMMA VNextStep ==
    ASSUME ListsInv, Types', AggInv', UNCHANGED leg, ill \subseteq ill', cmd'.op = "restore" => cmd'.at = "lock",
           \A k \in LegacyLists \ ill' :
              k \notin CmdLists' /\ SameMeta(meta, meta', k) /\ SameFiles(dir, dir', k) /\ SameContents(mem, mem', k),
           \A k \in Lists \ (ill' \cup LegacyLists) : Holds(k)'
    PROVE  ListsInv'
<1>1. LegacyInv' /\ LegacyLists' = LegacyLists
  BY InvFacts, LegacySame
<1>2. \A k \in Lists \ Loose' : Holds(k)'
  BY <1>1 DEF Loose
<1> QED BY <1>1, <1>2, Shared

LEMMA ApplyBeginKeeps == ASSUME ListsInv, NEW r \in Requests, ApplyBegin(r.remove, r.upsert) PROVE ListsInv'
<1> DEFINE upserts == r.upsert
           removes == removeOrder(r.remove)
           plan == [l \in DOMAIN upserts |-> PlannedList(l, upserts[l])]
<1>1. /\ cmd = Idle /\ r.remove \cap DOMAIN upserts = {}
      /\ \A l \in DOMAIN upserts : ValidUpsert(upserts[l]) /\ MayChange(PlannedList(l, upserts[l]))
      /\ cmd' = [op |-> "apply", at |-> "next", id |-> None, removes |-> removes, plan |-> plan, held |-> Empty]
      /\ ill' = ill \cup ((DOMAIN removes \cup DOMAIN upserts) \cap Busy)
      /\ UNCHANGED <<meta, mem, agg, dir, saved, slot, leg>>
  BY DEF ApplyBegin, Overlaps
<1>2. IsMeta(meta) /\ DOMAIN upserts \subseteq Lists /\ \A l \in DOMAIN upserts : upserts[l] \in Infos
  BY <1>1, InvFacts, ListsAssumption DEF ValidUpsert
<1>3. /\ DOMAIN removes = r.remove \cap DOMAIN meta /\ removes \in Removals
      /\ \A l \in DOMAIN removes : removes[l] = meta[l].color
  <2>1. /\ DOMAIN removes = r.remove \cap DOMAIN meta
        /\ \A l \in DOMAIN removes : removes[l] = meta[l].color
    BY DEF removeOrder
  <2>2. \A l \in DOMAIN meta : meta[l].color \in Colors
    BY <1>2, InfoFacts DEF IsMeta
  <2>3. removes \in [r.remove \cap DOMAIN meta -> Colors]
    BY <2>2 DEF removeOrder
  <2>4. r.remove \cap DOMAIN meta \in SUBSET Lists
    BY <1>2 DEF IsMeta
  <2> HIDE DEF removes
  <2> QED BY <2>1, <2>3, <2>4 DEF Removals
<1>4. /\ DOMAIN plan = DOMAIN upserts /\ plan \in Plans
      /\ \A l \in DOMAIN plan : plan[l] = PlannedList(l, upserts[l])
  <2>1. \A l \in DOMAIN upserts : PlannedList(l, upserts[l]) \in [new : Infos, old : Infos \cup {None}]
    BY <1>2 DEF PlannedList, Get, IsMeta
  <2>2. plan \in [DOMAIN upserts -> [new : Infos, old : Infos \cup {None}]]
    BY <2>1
  <2>3. DOMAIN upserts \in SUBSET Lists
    BY <1>2
  <2>4. DOMAIN plan = DOMAIN upserts /\ \A l \in DOMAIN plan : plan[l] = PlannedList(l, upserts[l])
    OBVIOUS
  <2> HIDE DEF plan, upserts
  <2> QED BY <2>2, <2>3, <2>4 DEF Plans
<1>5. \A l \in DOMAIN plan : MayChange(plan[l]) /\ plan[l].old = Get(meta, l, None)
  BY <1>1, <1>4 DEF PlannedList
<1> HIDE DEF removes, plan, upserts
<1>6. /\ cmd'.op = "apply" /\ cmd'.at = "next" /\ cmd'.removes = removes /\ cmd'.plan = plan
      /\ DOMAIN cmd' = {"op", "at", "id", "removes", "plan", "held"}
  BY <1>1
<1>7. CmdTypes'
  BY <1>1, <1>3, <1>4, <1>5, <1>6 DEF CmdTypes, ApplyPlaces
<1>8. DOMAIN mem' = Colors /\ AggInv' /\ Types' /\ ill \subseteq ill'
  BY <1>1, <1>2, <1>7, InvFacts, SameMem, LegSame, SameTypes
<1>9. ASSUME NEW l \in Lists \ (ill' \cup LegacyLists) PROVE Holds(l)'
  <2>1. Agree(l)'
    BY <1>1, <1>8, <1>9, InvFacts DEF Holds, Idle, Agree, Loose
  <2>2. ApplyHolds(l)'
    BY <1>1, <1>3, <1>5, <1>6, <2>1 DEF ApplyHolds
  <2> QED BY <1>6, <2>2 DEF Holds
<1>10. CmdLists' = DOMAIN removes \cup DOMAIN upserts
  BY <1>4, <1>6 DEF CmdLists
<1>11. ASSUME NEW k \in LegacyLists \ ill'
       PROVE  k \notin CmdLists' /\ SameMeta(meta, meta', k) /\ SameFiles(dir, dir', k) /\ SameContents(mem, mem', k)
  BY <1>1, <1>10, <1>11, SameIsSame DEF Busy
<1> QED BY <1>1, <1>6, <1>8, <1>9, <1>11, VNextStep

-----------------------------------------------------------------------------
(* DOMAINLISTS.IMPORT. *)

LEMMA ImportBeginKeeps ==
    ASSUME ListsInv, NEW l \in Lists, NEW doms, NEW clear \in BOOLEAN, ImportBegin(l, doms, clear)
    PROVE  ListsInv'
<1> DEFINE i == meta[l]
           merged == importMerge(l, doms, i.mask, clear, i.enabled, i.color)
<1>1. /\ cmd = Idle /\ l \in DOMAIN meta /\ UNCHANGED <<meta, mem, agg, dir, saved, slot, leg>>
      /\ cmd' = [op |-> "import", at |-> "rename", id |-> l, info |-> i, merged |-> merged]
      /\ ill' = ill \cup ({l} \cap Busy)
  BY DEF ImportBegin, Overlaps
<1>2. i \in Infos /\ i # None /\ i.enabled \in BOOLEAN /\ i.color \in Colors /\ Get(meta, l, None) = i
  BY <1>1, InvFacts, MetaFacts, InfoFacts
<1>3. Agree(l) => merged = [d \in DOMAIN merged |-> {i.mask}]
  <2> DEFINE old == CASE clear -> Empty
                      [] ~clear /\ i.enabled /\ l \in DOMAIN mem[i.color] -> mem[i.color][l]
                      [] OTHER -> [d \in FileOf(dir, l, i.enabled) |-> {i.mask}]
  <2>1. merged = [d \in DOMAIN old \cup doms |-> Get(old, d, {}) \cup (IF d \in doms THEN {i.mask} ELSE {})]
    BY DEF importMerge
  <2>2. ASSUME Agree(l) PROVE \A d \in DOMAIN old : old[d] = {i.mask}
    <3>1. CASE clear
      BY <3>1, EmptyFacts
    <3>2. CASE ~clear /\ i.enabled /\ l \in DOMAIN mem[i.color]
      <4>1. old = Contents(mem, i.color, l)
        BY <3>2 DEF Contents, Get
      <4>2. Contents(mem, i.color, l) = readFile(dir, l, i.mask)
        BY <1>2, <2>2, <3>2, AgreeFacts DEF Agree
      <4> QED BY <4>1, <4>2 DEF readFile
    <3>3. CASE ~clear /\ ~(i.enabled /\ l \in DOMAIN mem[i.color])
      <4>1. old = [d \in FileOf(dir, l, i.enabled) |-> {i.mask}]
        BY <3>3
      <4> QED BY <4>1
    <3> QED BY <3>1, <3>2, <3>3
  <2> HIDE DEF old, merged
  <2> QED BY <2>1, <2>2 DEF Get
<1> HIDE DEF merged
<1>4. /\ cmd'.op = "import" /\ cmd'.at = "rename" /\ cmd'.id = l /\ cmd'.info = i /\ cmd'.merged = merged
      /\ DOMAIN cmd' = {"op", "at", "id", "info", "merged"}
  BY <1>1
<1>5. CmdTypes'
  BY <1>2, <1>4 DEF CmdTypes
<1>6. DOMAIN mem' = Colors /\ AggInv' /\ Types' /\ ill \subseteq ill'
  BY <1>1, <1>5, InvFacts, SameMem, LegSame, SameTypes
<1>7. ASSUME NEW k \in Lists \ (ill' \cup LegacyLists) PROVE Holds(k)'
  <2>1. Agree(k) /\ Agree(k)'
    BY <1>1, <1>6, <1>7, InvFacts DEF Holds, Idle, Agree, Loose
  <2>2. ImportHolds(k)'
    BY <1>1, <1>3, <1>4, <2>1 DEF ImportHolds
  <2> QED BY <1>4, <2>2 DEF Holds
<1>8. CmdLists' = {l}
  BY <1>4 DEF CmdLists
<1>9. ASSUME NEW k \in LegacyLists \ ill'
      PROVE  k \notin CmdLists' /\ SameMeta(meta, meta', k) /\ SameFiles(dir, dir', k) /\ SameContents(mem, mem', k)
  BY <1>1, <1>8, <1>9, SameIsSame DEF Busy
<1> QED BY <1>1, <1>4, <1>6, <1>7, <1>9, VNextStep

\* What an IMPORT leaves alone.
LEMMA ImportStep ==
    ASSUME ListsInv, cmd.op = "import", NEW l, l = cmd.id, Types', AggInv', UNCHANGED <<meta, leg, ill>>,
           cmd' = Idle \/ (cmd'.op = "import" /\ cmd'.id = l),
           \A k : k # l => SameFiles(dir, dir', k) /\ SameContents(mem, mem', k),
           l \notin ill => Holds(l)'
    PROVE  ListsInv'
<1>1. CmdLists = {l} /\ LegacyInv /\ \A k \in Lists \ Loose : ImportHolds(k)
  BY InvFacts, CmdFacts DEF Holds
<1>2. CmdLists' \subseteq {l}
  BY DEF CmdLists, Idle
<1>3. ASSUME NEW k \in LegacyLists \ ill'
      PROVE  k \notin CmdLists' /\ SameMeta(meta, meta', k) /\ SameFiles(dir, dir', k) /\ SameContents(mem, mem', k)
  <2>1. k \notin CmdLists
    BY <1>1, <1>3 DEF LegacyInv
  <2> QED BY <1>1, <1>2, <2>1, SameIsSame
<1>4. ASSUME NEW k \in Lists \ (ill' \cup LegacyLists) PROVE Holds(k)'
  <2>1. CASE k = l
    BY <1>4, <2>1
  <2>2. CASE k # l
    <3>1. Agree(k)
      BY <1>1, <1>4, <2>2 DEF ImportHolds, Loose
    <3>2. Agree(k)'
      BY <2>2, <3>1, SameIsSame, AgreeSame
    <3>3. cmd'.op = "import" => ImportHolds(k)'
      BY <2>2, <3>2 DEF ImportHolds, Idle
    <3> QED BY <3>2, <3>3 DEF Holds, Idle
  <2> QED BY <2>1, <2>2
<1> QED BY <1>3, <1>4, VNextStep DEF Idle

LEMMA ImportRenameKeeps == ASSUME ListsInv, ImportRename PROVE ListsInv'
<1>0. PICK l : l = cmd.id
  OBVIOUS
<1>i. PICK i : i = cmd.info
  OBVIOUS
<1>v. PICK v : v = DOMAIN cmd.merged
  OBVIOUS
<1>o. PICK on : on = i.enabled
  OBVIOUS
<1>1. /\ cmd.op = "import" /\ cmd.at = "rename" /\ UNCHANGED <<meta, mem, agg, saved, slot, leg, ill>>
      /\ \/ dir' = Put(dir, File(l, on), v) /\ cmd' = [cmd EXCEPT !.at = "publish"]
         \/ cmd' = Idle /\ UNCHANGED dir
  BY <1>0, <1>i, <1>v, <1>o DEF ImportRename
<1>2. /\ CmdTypes /\ IsMeta(meta) /\ LegTypes /\ DOMAIN mem = Colors /\ AggInv
      /\ l \in Lists /\ i \in Infos /\ on \in BOOLEAN /\ i # None /\ i.color \in Colors
      /\ DOMAIN cmd = {"op", "at", "id", "info", "merged"}
  BY <1>0, <1>i, <1>o, <1>1, InvFacts, InfoFacts DEF CmdTypes
<1>3. l \notin ill => ImportHolds(l)
  <2>1. l \in CmdLists
    BY <1>0, <1>1, <1>2, CmdFacts
  <2> QED BY <1>1, <2>1, WorkHolds DEF Holds
<1>4. DOMAIN mem' = Colors /\ AggInv' /\ IsMeta(meta') /\ LegTypes'
      /\ \A k : SameMeta(meta, meta', k) /\ SameContents(mem, mem', k)
  BY <1>1, <1>2, SameMem, LegSame, SameIsSame
<1>5. CASE cmd' = Idle /\ UNCHANGED dir
  <2>1. Types'
    BY <1>1, <1>4, <1>5, IdleTypes, SameTypes
  <2>2. ASSUME l \notin ill PROVE Holds(l)'
    <3>1. Agree(l)
      BY <1>0, <1>1, <1>3, <2>2 DEF ImportHolds
    <3>2. Agree(l)'
      BY <1>4, <1>5, <3>1, SameIsSame, AgreeSame
    <3> QED BY <1>5, <3>2 DEF Holds, Idle
  <2> QED BY <1>0, <1>1, <1>4, <1>5, <2>1, <2>2, SameIsSame, ImportStep
<1>6. CASE dir' = Put(dir, File(l, on), v) /\ cmd' = [cmd EXCEPT !.at = "publish"]
  <2>1. /\ cmd'.op = "import" /\ cmd'.at = "publish" /\ cmd'.id = l /\ cmd'.info = i /\ cmd'.merged = cmd.merged
        /\ DOMAIN cmd' = DOMAIN cmd
    BY <1>0, <1>i, <1>1, <1>2, <1>6
  <2>2. CmdTypes'
    BY <1>2, <2>1 DEF CmdTypes
  <2>3. Types'
    BY <1>1, <1>4, <2>2, SameTypes
  <2>4. /\ \A k : k # l => SameFiles(dir, dir', k)
        /\ FileOf(dir', l, on) = v
        /\ \A b \in BOOLEAN : File(l, b) \in DOMAIN dir' <=> b = on \/ File(l, b) \in DOMAIN dir
    <3>1. on \in BOOLEAN
      BY <1>2
    <3>2. PICK d : d = dir
      OBVIOUS
    <3>3. \A k : k # l => SameFiles(d, Put(d, File(l, on), v), k)
      BY ONLY <3>1, PutFile
    <3>4. FileOf(Put(d, File(l, on), v), l, on) = v
      BY ONLY DEF FileOf, Put, Get
    <3>5. \A b \in BOOLEAN : File(l, b) \in DOMAIN Put(d, File(l, on), v) <=> b = on \/ File(l, b) \in DOMAIN d
      BY ONLY <3>1, PutFile
    <3>6. dir' = Put(d, File(l, on), v)
      BY <1>6, <3>2
    <3> QED BY ONLY <3>2, <3>3, <3>4, <3>5, <3>6
  <2>5. ASSUME l \notin ill PROVE Holds(l)'
    <3>1. /\ l \in DOMAIN meta /\ meta[l] = i /\ cmd.merged = [d \in DOMAIN cmd.merged |-> {i.mask}] /\ Agree(l)
      BY <1>0, <1>i, <1>1, <1>3, <2>5 DEF ImportHolds
    <3>2. AgreesAs(mem, dir, i, l)
      BY <3>1 DEF Agree, Get
    <3>3. /\ \A b \in Colors : Contents(mem, b, l) = IF i.enabled /\ i.color = b THEN readFile(dir, l, i.mask) ELSE Empty
          /\ \A b \in BOOLEAN : File(l, b) \in DOMAIN dir => on = b
      BY <1>2, <1>o, <3>2, AgreeFacts
    <3>4. /\ File(l, on) \in DOMAIN dir'
          /\ \A b \in BOOLEAN : File(l, b) \in DOMAIN dir' => b = on
          /\ \A c \in Colors : (~on \/ c # i.color) => Contents(mem', c, l) = Empty
      BY <1>1, <1>2, <1>o, <2>4, <3>3
    <3>5. ImportHolds(l)'
      BY <1>1, <1>o, <1>v, <2>1, <2>4, <3>1, <3>4 DEF ImportHolds
    <3> QED BY <2>1, <3>5 DEF Holds
  <2> QED BY <1>0, <1>1, <1>4, <2>1, <2>3, <2>4, <2>5, ImportStep
<1> QED BY <1>1, <1>5, <1>6

LEMMA ImportPublishKeeps == ASSUME ListsInv, ImportPublish PROVE ListsInv'
<1>0. PICK l : l = cmd.id
  OBVIOUS
<1>i. PICK i : i = cmd.info
  OBVIOUS
<1>v. PICK v : v = cmd.merged
  OBVIOUS
<1>c. PICK c : c = i.color
  OBVIOUS
<1>1. /\ cmd.op = "import" /\ cmd.at = "publish" /\ cmd' = Idle /\ UNCHANGED <<meta, dir, saved, slot, leg, ill>>
      /\ IF i.enabled THEN set(c, l, v) ELSE UNCHANGED <<mem, agg>>
  BY <1>0, <1>i, <1>v, <1>c DEF ImportPublish
<1>2. /\ CmdTypes /\ IsMeta(meta) /\ LegTypes /\ DOMAIN mem = Colors /\ AggInv
      /\ l \in Lists /\ i \in Infos /\ i.enabled \in BOOLEAN /\ i # None /\ c \in Colors
  BY <1>0, <1>i, <1>c, <1>1, InvFacts, InfoFacts DEF CmdTypes
<1>3. l \notin ill => ImportHolds(l)
  <2>1. l \in CmdLists
    BY <1>0, <1>1, <1>2, CmdFacts
  <2> QED BY <1>1, <2>1, WorkHolds DEF Holds
<1>4. /\ DOMAIN mem' = Colors /\ AggInv'
      /\ \A b \in Colors : Contents(mem', b, l) = IF i.enabled /\ b = c THEN v ELSE Contents(mem, b, l)
      /\ \A k : k # l => SameContents(mem, mem', k)
  <2>1. CASE i.enabled
    <3>1. set(c, l, v)
      BY <1>1, <2>1
    <3>2. /\ DOMAIN mem' = Colors /\ AggInv'
          /\ \A b \in Colors : \A k : Contents(mem', b, k) = IF b = c /\ k = l THEN v ELSE Contents(mem, b, k)
          /\ \A k : k # l => SameContents(mem, mem', k)
      BY <1>1, <1>2, <3>1, SetFacts
    <3> QED BY <2>1, <3>2
  <2>2. CASE ~i.enabled
    BY <1>1, <1>2, <2>2, SameMem
  <2> QED BY <2>1, <2>2
<1>5. Types'
  BY <1>1, <1>2, <1>4, IdleTypes, LegSame, SameTypes
<1>6. ASSUME l \notin ill PROVE Holds(l)'
  <2>1. /\ l \in DOMAIN meta /\ meta[l] = i /\ v = [d \in DOMAIN v |-> {i.mask}]
        /\ FileOf(dir, l, i.enabled) = DOMAIN v
        /\ \A on \in BOOLEAN : File(l, on) \in DOMAIN dir => on = i.enabled
        /\ \A b \in Colors : (~i.enabled \/ b # i.color) => Contents(mem, b, l) = Empty
    BY <1>0, <1>i, <1>v, <1>1, <1>3, <1>6 DEF ImportHolds
  <2>2. i.enabled => v = readFile(dir', l, i.mask)
    BY <1>1, <1>2, <2>1 DEF readFile
  <2>3. /\ \A b \in Colors : Contents(mem', b, l) = IF i.enabled /\ i.color = b THEN readFile(dir', l, i.mask) ELSE Empty
        /\ \A on \in BOOLEAN : File(l, on) \in DOMAIN dir' => i.enabled = on
    BY <1>1, <1>2, <1>c, <1>4, <2>1, <2>2
  <2>4. Get(meta', l, None) = i
    BY <1>1, <2>1 DEF Get
  <2>5. AgreesAs(mem', dir', i, l)
    BY <1>2, <2>3, AgreeFacts
  <2> QED BY <1>1, <2>4, <2>5 DEF Agree, Holds, Idle
<1> QED BY <1>0, <1>1, <1>4, <1>5, <1>6, SameIsSame, ImportStep

-----------------------------------------------------------------------------
(* The checkpoint slot and the other commands. *)

\* A command that changes no list.
LEMMA TurnKeeps ==
    ASSUME ListsInv, ~Exclusive, cmd.op \notin {"apply", "import"}, UNCHANGED <<meta, mem, agg, dir, leg, ill>>, Types',
           cmd'.op \notin {"apply", "import"}, cmd'.op = "restore" => cmd'.at = "lock"
    PROVE  ListsInv'
<1>1. AggInv' /\ \A k : SameMeta(meta, meta', k) /\ SameFiles(dir, dir', k) /\ SameContents(mem, mem', k)
  BY InvFacts, SameMem, SameIsSame
<1>2. CmdLists' = {}
  BY DEF CmdLists
<1>3. ASSUME NEW k \in Lists \ (ill' \cup LegacyLists) PROVE Holds(k)'
  <2>1. CmdLists = {}
    BY InvFacts, CmdFacts
  <2>2. Agree(k)
    BY <1>3, <2>1, FreeAgrees DEF Busy
  <2>3. Agree(k)'
    BY <1>1, <2>2, AgreeSame
  <2> QED BY <2>3 DEF Holds
<1> QED BY <1>1, <1>2, <1>3, VNextStep

LEMMA IpRulesApplyKeeps == ASSUME ListsInv, IpRulesApply PROVE ListsInv'
<1>1. cmd = Idle /\ UNCHANGED <<meta, mem, agg, dir, saved, slot, cmd, leg, ill>>
  BY DEF IpRulesApply
<1>2. Types'
  BY <1>1, InvFacts, CmdSame, LegSame, SameTypes
<1> QED BY <1>1, <1>2, TurnKeeps DEF Exclusive, Idle

LEMMA ClearSlotKeeps == ASSUME ListsInv, clearSlot PROVE ListsInv'
<1>1. cmd = Idle /\ slot' = None /\ UNCHANGED <<meta, mem, agg, dir, saved, cmd, leg, ill>>
  BY DEF clearSlot
<1>2. Types'
  BY <1>1, InvFacts, CmdSame, LegSame DEF Types
<1> QED BY <1>1, <1>2, TurnKeeps DEF Exclusive, Idle

LEMMA CaptureListsKeeps == ASSUME ListsInv, CaptureLists PROVE ListsInv'
<1>1. /\ cmd = Idle /\ cmd'.op = "save" /\ cmd'.lists = meta
      /\ UNCHANGED <<meta, mem, agg, dir, saved, slot, leg, ill>>
  BY DEF CaptureLists
<1>2. CmdTypes'
  BY <1>1, InvFacts DEF CmdTypes
<1>3. Types'
  BY <1>1, <1>2, InvFacts, LegSame, SameTypes
<1> QED BY <1>1, <1>3, TurnKeeps DEF Exclusive, Idle

LEMMA CaptureWriteKeeps == ASSUME ListsInv, CaptureWrite PROVE ListsInv'
<1> DEFINE new == [lists |-> captureContents(cmd.lists), ip |-> ip]
<1>1. /\ cmd.op = "save" /\ cmd' = Idle /\ (slot' = slot \/ slot' = new)
      /\ UNCHANGED <<meta, mem, agg, dir, saved, leg, ill>>
  BY DEF CaptureWrite
<1>2. IsMeta(cmd.lists) /\ CmdTypes' /\ LegTypes'
  BY <1>1, InvFacts, IdleTypes, LegSame DEF CmdTypes
<1>3. IsSlot(new)
  BY <1>2 DEF IsSlot, IsMeta, captureContents
<1> HIDE DEF new
<1>4. slot' # None => IsSlot(slot')
  BY <1>1, <1>3, InvFacts DEF Types
<1>5. Types'
  BY <1>1, <1>2, <1>4, InvFacts DEF Types
<1> QED BY <1>1, <1>5, TurnKeeps DEF Exclusive, Idle

LEMMA RestoreStageKeeps == ASSUME ListsInv, RestoreStage PROVE ListsInv'
<1>1. /\ cmd = Idle /\ slot # None
      /\ cmd' = [op |-> "restore", at |-> "lock", bundle |-> slot, stage |-> prepareDomainListFiles(slot)]
      /\ UNCHANGED <<meta, mem, agg, dir, saved, slot, leg, ill>>
  BY DEF RestoreStage
<1>2. IsSlot(slot)
  BY <1>1, InvFacts DEF Types
<1>3. CmdTypes'
  BY <1>1, <1>2 DEF CmdTypes, RestorePlaces
<1>4. Types'
  BY <1>1, <1>3, InvFacts, LegSame, SameTypes
<1> QED BY <1>1, <1>4, TurnKeeps DEF Exclusive, Idle

\* No session is at a command: nothing is to be seen to but the lists.
LEMMA AloneKeeps ==
    ASSUME ListsInv, Quiet(Sessions), UNCHANGED leg, Types', AggInv', cmd'.op = "restore" => cmd'.at = "lock",
           \A l \in Lists \ ill' : Holds(l)'
    PROVE  ListsInv'
<1>1. LegTypes /\ LegTypes'
  BY InvFacts, LegSame
<1>2. Quiet(Sessions)'
  BY DEF Quiet
<1>3. LegacyLists' = {}
  BY <1>1, <1>2, LegListFactsNext DEF LegLists
<1>4. LegacyInv'
  BY <1>3 DEF LegacyInv
<1> QED BY <1>3, <1>4, Shared DEF Loose

LEMMA ResetAllKeeps == ASSUME ListsInv, ResetAll PROVE ListsInv'
<1> DEFINE m == [c \in Colors |-> Empty]
<1>1. /\ cmd = Idle /\ cmd' = cmd /\ leg' = leg /\ meta' = Empty /\ dir' = Empty /\ slot' = None /\ PublishAll(m)
      /\ saved' = [meta |-> Empty, ip |-> 0] /\ Quiet(Threads)
  BY DEF ResetAll
<1>2. mem' = m /\ DOMAIN mem' = Colors /\ AggInv'
  <2>1. DOMAIN m = Colors /\ PublishAll(m)
    BY <1>1
  <2> HIDE DEF m
  <2> QED BY <2>1, PublishAllFacts
<1>3. IsMeta(Empty) /\ \A k : Get(Empty, k, None) = None
  BY EmptyFacts DEF IsMeta
<1>4. Types'
  BY <1>1, <1>2, <1>3, InvFacts, CmdSame, LegSame DEF Types
<1>5. ASSUME NEW l PROVE Agree(l)'
  <2>1. \A c \in Colors : Contents(mem', c, l) = Empty
    BY <1>2, EmptyFacts DEF Contents
  <2>2. \A on \in BOOLEAN : File(l, on) \notin DOMAIN dir'
    BY <1>1, EmptyFacts
  <2>3. AgreesAs(mem', dir', None, l)
    BY <2>1, <2>2 DEF AgreesAs
  <2> QED BY <1>1, <1>3, <2>3 DEF Agree
<1>6. \A l \in Lists \ ill' : Holds(l)'
  BY <1>1, <1>5 DEF Holds, Idle
<1>7. Quiet(Sessions)
  BY <1>1 DEF Quiet, Threads
<1> QED BY <1>1, <1>2, <1>4, <1>6, <1>7, AloneKeeps DEF Idle

\* The restore is over, or has failed and says so.
LEMMA RestoreEndKeeps == ASSUME ListsInv, RestoreSave \/ RestoreFailed PROVE ListsInv'
<1>1. /\ cmd.op = "restore" /\ cmd.at \in {"saving", "failed"} /\ cmd' = Idle
      /\ \/ saved' = saved
         \/ saved' = [meta |-> meta, ip |-> ip]
         \/ saved' = [saved EXCEPT !.ip = ip]
      /\ UNCHANGED <<meta, mem, agg, dir, slot, leg, ill>>
  BY DEF RestoreSave, RestoreFailed
<1>2. CmdTypes' /\ LegTypes' /\ AggInv' /\ DOMAIN mem' = Colors /\ Quiet(Sessions) /\ LegacyLists = {}
  BY <1>1, InvFacts, IdleTypes, LegSame, SameMem, LegListFacts DEF ListsInv, RestoreInv
<1>3. IsMeta(saved'.meta) /\ DOMAIN saved' = {"meta", "ip"}
  BY <1>1, InvFacts DEF Types
<1>4. Types'
  BY <1>1, <1>2, <1>3, InvFacts DEF Types
<1>5. \A l \in Lists \ ill : Agree(l)
  BY <1>1, <1>2, InvFacts DEF Holds, Loose
<1>6. \A l \in Lists \ ill' : Agree(l)'
  BY <1>1, <1>5 DEF Agree
<1>7. \A l \in Lists \ ill' : Holds(l)'
  BY <1>1, <1>6 DEF Holds, Idle
<1> QED BY <1>1, <1>2, <1>4, <1>7, AloneKeeps DEF Idle

-----------------------------------------------------------------------------
(* CHECKPOINT.RESTORE. *)

\* No session is at a command while a restore holds mutexListeners.
LEMMA HeldFacts ==
    ASSUME ListsInv, Quiet(Sessions), UNCHANGED leg
    PROVE  /\ Quiet(Sessions)' /\ LegacyInv' /\ Loose' = ill' /\ LegTypes' /\ LegacyLists = {}
           /\ \A l \in Lists \ ill : Holds(l)
<1>1. LegTypes /\ LegTypes' /\ Quiet(Sessions)'
  BY InvFacts, LegSame DEF Quiet
<1>2. LegacyLists = {} /\ LegacyLists' = {}
  BY <1>1, LegListFacts, LegListFactsNext DEF LegLists
<1>3. LegacyInv'
  BY <1>2 DEF LegacyInv
<1> QED BY <1>1, <1>2, <1>3, InvFacts DEF Loose

\* The parts of a restore's record.
LEMMA RestoreRecord ==
    ASSUME ListsInv, cmd.op = "restore", cmd.at # "failed"
    PROVE  /\ DOMAIN cmd = {"op", "at", "bundle", "stage"} \cup (IF cmd.at = "lock" THEN {} ELSE {"before"})
           /\ IsSlot(cmd.bundle) /\ cmd.stage = prepareDomainListFiles(cmd.bundle)
           /\ cmd.at # "lock" => Quiet(Sessions)
BY InvFacts DEF CmdTypes, ListsInv, RestoreInv

\* The restore has failed: what was there before is there again.
LEMMA FailKeeps ==
    ASSUME ListsInv, Quiet(Sessions), NEW before, Fail(before), DOMAIN mem' = Colors, AggInv',
           UNCHANGED <<meta, saved, slot, leg, ill>>, Policy' = before, \A l \in Lists \ ill : Agree(l)'
    PROVE  ListsInv'
<1>1. cmd'.op = "restore" /\ cmd'.at = "failed" /\ cmd'.before = before
  BY DEF Fail
<1>2. CmdTypes'
  BY <1>1 DEF CmdTypes, RestorePlaces
<1>3. Types' /\ Quiet(Sessions)' /\ LegacyInv' /\ Loose' = ill
  BY <1>2, InvFacts, HeldFacts, SameTypes
<1>4. RestoreInv' /\ FailedRestoreHarmless' /\ RestoredAsSaved'
  BY <1>1, <1>3 DEF RestoreInv, FailedRestoreHarmless, RestoredAsSaved
<1>5. \A l \in Lists \ Loose' : Holds(l)'
  BY <1>1, <1>3 DEF Holds
<1> QED BY <1>3, <1>4, <1>5 DEF ListsInv

LEMMA RestoreBackupKeeps == ASSUME ListsInv, RestoreBackup PROVE ListsInv'
<1>1. /\ cmd.op = "restore" /\ cmd.at = "lock" /\ Quiet(Sessions)
      /\ UNCHANGED <<meta, mem, agg, ip, saved, slot, leg, ill>>
  BY DEF RestoreBackup
<1>2. \A l \in Lists \ ill : Agree(l)
  BY <1>1, HeldFacts DEF Holds
<1>3. DOMAIN mem' = Colors /\ AggInv' /\ IsMeta(meta')
  BY <1>1, InvFacts, SameMem
<1>h. Quiet(Sessions)' /\ LegacyInv' /\ Loose' = ill /\ LegTypes'
  BY <1>1, HeldFacts
<1>4. CASE /\ backup' = dir /\ dir' = Empty
           /\ cmd' = [op |-> "restore", at |-> "publish", bundle |-> cmd.bundle, stage |-> cmd.stage, before |-> Policy]
  <2>1. /\ cmd'.op = "restore" /\ cmd'.at = "publish" /\ cmd'.bundle = cmd.bundle /\ cmd'.stage = cmd.stage
        /\ cmd'.before = Policy /\ DOMAIN cmd' = {"op", "at", "bundle", "stage", "before"}
    BY <1>4
  <2>2. CmdTypes'
    BY <1>1, <2>1, RestoreRecord DEF CmdTypes, RestorePlaces
  <2>3. Types'
    BY <1>1, <1>3, <1>h, <2>2, SameTypes
  <2>4. RestoreInv'
    BY <1>1, <1>4, <1>h, <2>1 DEF RestoreInv, Policy
  <2>5. FailedRestoreHarmless' /\ RestoredAsSaved'
    BY <2>1 DEF FailedRestoreHarmless, RestoredAsSaved
  <2>6. \A l \in Lists \ Loose' : Holds(l)'
    BY <1>1, <1>2, <1>4, <1>h, <2>1 DEF Holds, Agree
  <2> QED BY <1>3, <1>h, <2>3, <2>4, <2>5, <2>6 DEF ListsInv
<1>5. CASE Fail(Policy) /\ dir' = rollbackDomainListFiles(dir, FALSE)
  <2>1. dir' = dir
    BY <1>5 DEF rollbackDomainListFiles
  <2>2. Policy' = Policy /\ \A l \in Lists \ ill : Agree(l)'
    BY <1>1, <1>2, <2>1 DEF Policy, Agree
  <2>3. PICK before : before = Policy
    OBVIOUS
  <2> QED BY <1>1, <1>3, <1>5, <2>2, <2>3, FailKeeps
<1> QED BY <1>4, <1>5 DEF RestoreBackup

\* The next phase of a restore: its record keeps all but the place.
LEMMA PhaseTypes ==
    ASSUME ListsInv, cmd.op = "restore", cmd.at \in {"publish", "iprules", "live"}, NEW p \in {"iprules", "live", "saving"},
           cmd' = [cmd EXCEPT !.at = p]
    PROVE  /\ cmd'.op = "restore" /\ cmd'.at = p /\ cmd'.bundle = cmd.bundle /\ cmd'.stage = cmd.stage
           /\ cmd'.before = cmd.before /\ CmdTypes'
<1>1. DOMAIN cmd = {"op", "at", "bundle", "stage", "before"} /\ IsSlot(cmd.bundle)
      /\ cmd.stage = prepareDomainListFiles(cmd.bundle)
  BY RestoreRecord
<1>2. /\ cmd'.op = "restore" /\ cmd'.at = p /\ cmd'.bundle = cmd.bundle /\ cmd'.stage = cmd.stage
      /\ cmd'.before = cmd.before /\ DOMAIN cmd' = {"op", "at", "bundle", "stage", "before"}
  BY <1>1
<1> QED BY <1>1, <1>2 DEF CmdTypes, RestorePlaces

LEMMA RestorePublishKeeps == ASSUME ListsInv, RestorePublish PROVE ListsInv'
<1>1. cmd.op = "restore" /\ cmd.at = "publish" /\ UNCHANGED <<meta, mem, agg, ip, saved, slot, leg, ill>>
  BY DEF RestorePublish
<1>h. Quiet(Sessions) /\ Quiet(Sessions)' /\ LegacyInv' /\ Loose' = ill /\ LegTypes' /\ \A l \in Lists \ ill : Holds(l)
  BY <1>1, RestoreRecord, HeldFacts
<1>2. \A l \in Lists \ ill : AgreesAs(mem, backup, Get(meta, l, None), l)
  BY <1>1, <1>h DEF Holds
<1>3. DOMAIN mem' = Colors /\ AggInv' /\ IsMeta(meta')
  BY <1>1, InvFacts, SameMem
<1>4. cmd.before = [meta |-> meta, mem |-> mem, agg |-> agg, dir |-> backup, ip |-> ip]
  BY <1>1 DEF ListsInv, RestoreInv
<1>5. CASE dir' = cmd.stage /\ cmd' = [cmd EXCEPT !.at = "iprules"] /\ backup' = backup
  <2>1. /\ cmd'.op = "restore" /\ cmd'.at = "iprules" /\ cmd'.bundle = cmd.bundle /\ cmd'.stage = cmd.stage
        /\ cmd'.before = cmd.before /\ CmdTypes'
    BY <1>1, <1>5, PhaseTypes
  <2>2. Types'
    BY <1>1, <1>3, <1>h, <2>1, SameTypes
  <2>3. RestoreInv'
    BY <1>1, <1>4, <1>5, <1>h, <2>1 DEF RestoreInv
  <2>4. FailedRestoreHarmless' /\ RestoredAsSaved'
    BY <2>1 DEF FailedRestoreHarmless, RestoredAsSaved
  <2>5. \A l \in Lists \ Loose' : Holds(l)'
    BY <1>1, <1>2, <1>5, <1>h, <2>1 DEF Holds
  <2> QED BY <1>3, <1>h, <2>2, <2>3, <2>4, <2>5 DEF ListsInv
<1>6. CASE Fail(cmd.before) /\ dir' = rollbackDomainListFiles(backup, FALSE)
  <2>1. dir' = backup
    BY <1>6 DEF rollbackDomainListFiles
  <2>2. PICK before : before = cmd.before
    OBVIOUS
  <2>3. Policy' = before /\ Fail(before) /\ \A l \in Lists \ ill : Agree(l)'
    BY <1>1, <1>2, <1>4, <1>6, <2>1, <2>2 DEF Policy, Agree, Fail
  <2> QED BY <1>1, <1>3, <1>h, <2>3, FailKeeps
<1> QED BY <1>5, <1>6 DEF RestorePublish

LEMMA RestoreIpRulesKeeps == ASSUME ListsInv, RestoreIpRules PROVE ListsInv'
<1>1. cmd.op = "restore" /\ cmd.at = "iprules" /\ UNCHANGED <<meta, mem, agg, saved, slot, leg, ill>>
  BY DEF RestoreIpRules
<1>h. Quiet(Sessions) /\ Quiet(Sessions)' /\ LegacyInv' /\ Loose' = ill /\ LegTypes' /\ \A l \in Lists \ ill : Holds(l)
  BY <1>1, RestoreRecord, HeldFacts
<1>2. \A l \in Lists \ ill : AgreesAs(mem, backup, Get(meta, l, None), l)
  BY <1>1, <1>h DEF Holds
<1>3. DOMAIN mem' = Colors /\ AggInv' /\ IsMeta(meta')
  BY <1>1, InvFacts, SameMem
<1>4. /\ cmd.before = [meta |-> meta, mem |-> mem, agg |-> agg, dir |-> backup, ip |-> ip]
      /\ dir = cmd.stage
  BY <1>1 DEF ListsInv, RestoreInv
<1>5. CASE ip' = cmd.bundle.ip /\ cmd' = [cmd EXCEPT !.at = "live"] /\ UNCHANGED <<dir, backup>>
  <2>1. /\ cmd'.op = "restore" /\ cmd'.at = "live" /\ cmd'.bundle = cmd.bundle /\ cmd'.stage = cmd.stage
        /\ CmdTypes'
    BY <1>1, <1>5, PhaseTypes
  <2>2. Types'
    BY <1>1, <1>3, <1>h, <2>1, SameTypes
  <2>3. RestoreInv'
    BY <1>4, <1>5, <1>h, <2>1 DEF RestoreInv
  <2>4. FailedRestoreHarmless' /\ RestoredAsSaved'
    BY <2>1 DEF FailedRestoreHarmless, RestoredAsSaved
  <2>5. \A l \in Lists \ Loose' : Holds(l)'
    BY <2>1 DEF Holds
  <2> QED BY <1>3, <1>h, <2>2, <2>3, <2>4, <2>5 DEF ListsInv
<1>6. CASE Fail(cmd.before) /\ dir' = rollbackDomainListFiles(dir, TRUE) /\ UNCHANGED ip
  <2>1. dir' = backup
    BY <1>6 DEF rollbackDomainListFiles
  <2>2. PICK before : before = cmd.before
    OBVIOUS
  <2>3. Policy' = before /\ Fail(before) /\ \A l \in Lists \ ill : Agree(l)'
    BY <1>1, <1>2, <1>4, <1>6, <2>1, <2>2 DEF Policy, Agree, Fail
  <2> QED BY <1>1, <1>3, <1>h, <2>3, FailKeeps
<1> QED BY <1>5, <1>6 DEF RestoreIpRules


-----------------------------------------------------------------------------
(* Start-up on the lists of a save file or of a bundle. *)

\* The metadata infos of list l name the only file d has of it.
Fits(infos, d, l) ==
    \A on \in BOOLEAN : File(l, on) \in DOMAIN d => l \in DOMAIN infos /\ infos[l].enabled = on

LEMMA StartDirFacts ==
    ASSUME NEW infos, IsMeta(infos), NEW d, NEW l, Fits(infos, d, l)
    PROVE  SameFiles(d, startDir(infos, d), l)
<1> DEFINE off == {k \in DOMAIN infos : ~infos[k].enabled /\ File(k, TRUE) \in DOMAIN d}
           renamed == [f \in {File(k, FALSE) : k \in off} |-> d[File(f[1], TRUE)]]
           kept == Drop(d, {File(k, TRUE) : k \in off})
<1>1. l \notin off
  BY DEF Fits
<1>2. startDir(infos, d) = Over(renamed, kept)
  BY DEF startDir
<1>3. \A k : \A a, b \in BOOLEAN : File(l, a) = File(k, b) => l = k
  BY FileFacts
<1>4. /\ DOMAIN renamed = {File(k, FALSE) : k \in off}
      /\ DOMAIN kept = DOMAIN d \ {File(k, TRUE) : k \in off}
      /\ \A f \in DOMAIN kept : kept[f] = d[f]
  <2>1. DOMAIN renamed = {File(k, FALSE) : k \in off}
    OBVIOUS
  <2> DEFINE gone == {File(k, TRUE) : k \in off}
  <2> HIDE DEF off, gone, renamed
  <2>2. DOMAIN Drop(d, gone) = DOMAIN d \ gone /\ \A f \in DOMAIN d \ gone : Drop(d, gone)[f] = d[f]
    BY DropFacts
  <2> QED BY <2>1, <2>2 DEF gone
<1> HIDE DEF off, renamed, kept
<1>5. \A on \in BOOLEAN : File(l, on) \notin DOMAIN renamed /\ (File(l, on) \in DOMAIN kept <=> File(l, on) \in DOMAIN d)
  BY <1>1, <1>3, <1>4
<1>6. ASSUME NEW on \in BOOLEAN
      PROVE  /\ File(l, on) \in DOMAIN startDir(infos, d) <=> File(l, on) \in DOMAIN d
             /\ FileOf(startDir(infos, d), l, on) = FileOf(d, l, on)
  <2> DEFINE f == File(l, on)
  <2>1. /\ DOMAIN startDir(infos, d) = DOMAIN renamed \cup DOMAIN kept
        /\ f \in DOMAIN kept => startDir(infos, d)[f] = kept[f]
    <3>1. f \notin DOMAIN renamed
      BY <1>5
    <3> HIDE DEF f
    <3> QED BY <1>2, <3>1 DEF Over
  <2>2. f \notin DOMAIN renamed /\ (f \in DOMAIN kept <=> f \in DOMAIN d) /\ (f \in DOMAIN kept => kept[f] = d[f])
    BY <1>4, <1>5
  <2> HIDE DEF f
  <2>3. Get(startDir(infos, d), f, {}) = Get(d, f, {})
    BY <2>1, <2>2 DEF Get
  <2> QED BY <2>1, <2>2, <2>3 DEF f, FileOf
<1> QED BY <1>6 DEF SameFiles

LEMMA StartMemFacts ==
    ASSUME NEW infos, IsMeta(infos), NEW d, NEW l, NEW c \in Colors
    PROVE  Contents(startMem(infos, d), c, l) =
              IF l \in DOMAIN infos /\ infos[l].enabled /\ infos[l].color = c
              THEN readFile(d, l, infos[l].mask) ELSE Empty
<1> DEFINE on == {k \in DOMAIN infos : /\ infos[k].enabled /\ infos[k].color = c
                                       /\ File(k, TRUE) \in DOMAIN d}
           lists == [k \in on |-> readFile(d, k, infos[k].mask)]
<1>1. startMem(infos, d)[c] = lists
  BY DEF startMem
<1>2. CASE l \in on
  <2>1. lists[l] = readFile(d, l, infos[l].mask) /\ l \in DOMAIN lists
    BY <1>2
  <2> QED BY <1>1, <1>2, <2>1 DEF Contents, Get
<1>3. CASE l \notin on
  <2>1. Contents(startMem(infos, d), c, l) = Empty
    BY <1>1, <1>3 DEF Contents, Get
  <2>2. ASSUME l \in DOMAIN infos, infos[l].enabled, infos[l].color = c PROVE readFile(d, l, infos[l].mask) = Empty
    <3>1. File(l, TRUE) \notin DOMAIN d
      BY <1>3, <2>2
    <3> QED BY <3>1, EmptyIs
  <2> QED BY <2>1, <2>2
<1> QED BY <1>2, <1>3

LEMMA StartMemTypes ==
    \A infos, d : DOMAIN startMem(infos, d) = Colors
BY DEF startMem

\* A start on files that fit the metadata: the list is enforced as they say.
LEMMA StartFacts ==
    ASSUME NEW infos, IsMeta(infos), NEW d, NEW l, Fits(infos, d, l)
    PROVE  /\ SameFiles(d, startDir(infos, d), l)
           /\ AgreesAs(startMem(infos, d), d, Get(infos, l, None), l)
           /\ AgreesAs(startMem(infos, d), startDir(infos, d), Get(infos, l, None), l)
<1> DEFINE i == Get(infos, l, None)
<1>1. SameFiles(d, startDir(infos, d), l)
  BY StartDirFacts
<1>2. (i # None <=> l \in DOMAIN infos) /\ (l \in DOMAIN infos => i = infos[l])
  BY InfoFacts DEF Get, IsMeta
<1> HIDE DEF i
<1>3. \A c \in Colors : Contents(startMem(infos, d), c, l) =
         IF i # None /\ i.enabled /\ i.color = c THEN readFile(d, l, i.mask) ELSE Empty
  BY <1>2, StartMemFacts
<1>4. \A on \in BOOLEAN : File(l, on) \in DOMAIN d => i # None /\ i.enabled = on
  BY <1>2 DEF Fits
<1>5. AgreesAs(startMem(infos, d), d, i, l)
  BY <1>3, <1>4 DEF AgreesAs
<1>6. SameContents(startMem(infos, d), startMem(infos, d), l)
  BY SameIsSame
<1>7. AgreesAs(startMem(infos, d), startDir(infos, d), i, l)
  BY <1>1, <1>5, <1>6, AgreesSame
<1> QED BY <1>1, <1>5, <1>7 DEF i

LEMMA AgreesFits ==
    ASSUME NEW infos, NEW m, NEW d, NEW l, AgreesAs(m, d, Get(infos, l, None), l)
    PROVE  Fits(infos, d, l)
BY DEF AgreesAs, Fits, Get

LEMMA StageFacts ==
    ASSUME NEW b, IsSlot(b)
    PROVE  /\ IsMeta(bundleInfos(b)) /\ DOMAIN bundleInfos(b) = DOMAIN b.lists
           /\ \A l : Fits(bundleInfos(b), prepareDomainListFiles(b), l)
           /\ \A l \in DOMAIN b.lists : b.lists[l].info.enabled =>
                 FileOf(prepareDomainListFiles(b), l, TRUE) = b.lists[l].domains
<1> DEFINE infos == bundleInfos(b)
           files == prepareDomainListFiles(b)
<1>1. DOMAIN infos = DOMAIN b.lists /\ \A l \in DOMAIN b.lists : infos[l] = b.lists[l].info
  BY DEF bundleInfos
<1>2. IsMeta(infos)
  BY <1>1 DEF IsSlot, IsMeta
<1>3. /\ DOMAIN files = {File(l, b.lists[l].info.enabled) : l \in DOMAIN b.lists}
      /\ \A f \in DOMAIN files : files[f] = b.lists[f[1]].domains
  BY DEF prepareDomainListFiles
<1>4. \A l \in DOMAIN b.lists : b.lists[l].info.enabled \in BOOLEAN
  BY InfoFacts DEF IsSlot
<1> HIDE DEF infos, files
<1>5. ASSUME NEW l, NEW on \in BOOLEAN, File(l, on) \in DOMAIN files PROVE l \in DOMAIN infos /\ infos[l].enabled = on
  <2>1. PICK k \in DOMAIN b.lists : File(l, on) = File(k, b.lists[k].info.enabled)
    BY <1>3, <1>5
  <2>2. l = k /\ on = b.lists[k].info.enabled
    BY <1>4, <2>1, FileFacts
  <2> QED BY <1>1, <2>2
<1>6. ASSUME NEW l \in DOMAIN b.lists, b.lists[l].info.enabled PROVE FileOf(files, l, TRUE) = b.lists[l].domains
  <2>1. b.lists[l].info.enabled = TRUE
    BY <1>4, <1>6
  <2>2. File(l, TRUE) \in DOMAIN files
    BY <1>3, <2>1
  <2>3. File(l, TRUE)[1] = l
    BY FileFacts
  <2> QED BY <1>3, <2>2, <2>3 DEF FileOf, Get
<1> QED BY <1>1, <1>2, <1>5, <1>6 DEF infos, files, Fits

LEMMA RestoreLiveKeeps == ASSUME ListsInv, RestoreLive PROVE ListsInv'
<1> DEFINE b == cmd.bundle
           infos == bundleInfos(b)
           m == startMem(infos, dir)
           d == startDir(infos, dir)
<1>1. /\ cmd.op = "restore" /\ cmd.at = "live" /\ meta' = infos /\ PublishAll(m)
      /\ dir' = cleanupStaleDomainListFiles(d, b) /\ cmd' = [cmd EXCEPT !.at = "saving"]
      /\ ill' = {} /\ UNCHANGED <<ip, saved, slot, leg>>
  BY DEF RestoreLive, resetPolicyAndStart
<1>2. /\ cmd'.op = "restore" /\ cmd'.at = "saving" /\ cmd'.bundle = b /\ CmdTypes'
      /\ dir = prepareDomainListFiles(b) /\ IsSlot(b) /\ ip' = b.ip
  <2>1. cmd'.op = "restore" /\ cmd'.at = "saving" /\ cmd'.bundle = b /\ CmdTypes'
    BY <1>1, PhaseTypes
  <2>2. cmd.stage = prepareDomainListFiles(b) /\ IsSlot(b)
    BY <1>1, RestoreRecord
  <2>3. dir = cmd.stage /\ ip = b.ip
    BY <1>1 DEF ListsInv, RestoreInv
  <2> QED BY <1>1, <2>1, <2>2, <2>3
<1>3. /\ IsMeta(infos) /\ DOMAIN infos = DOMAIN b.lists /\ \A l : Fits(infos, dir, l)
      /\ \A l \in DOMAIN b.lists : b.lists[l].info.enabled => FileOf(dir, l, TRUE) = b.lists[l].domains
  BY <1>2, StageFacts
<1>4. \A l \in DOMAIN infos : infos[l] = b.lists[l].info /\ infos[l].color \in Colors
  BY <1>3, InfoFacts DEF bundleInfos, IsMeta
<1> HIDE DEF infos, m, d, b
<1>h. Quiet(Sessions) /\ Quiet(Sessions)' /\ LegacyInv' /\ Loose' = ill' /\ LegTypes'
  BY <1>1, RestoreRecord, HeldFacts
<1>5. mem' = m /\ DOMAIN mem' = Colors /\ AggInv'
  BY <1>1, StartMemTypes, PublishAllFacts DEF m
<1>6. Types'
  BY <1>1, <1>2, <1>3, <1>5, <1>h, SameTypes
<1>7. ASSUME NEW l PROVE SameFiles(d, dir', l)
  <2>1. dir' = Drop(d, {f \in DOMAIN d : f[1] \notin DOMAIN b.lists})
    BY <1>1 DEF cleanupStaleDomainListFiles
  <2>2. ASSUME NEW on \in BOOLEAN, File(l, on) \in DOMAIN d PROVE l \in DOMAIN b.lists
    <3>1. SameFiles(dir, d, l)
      BY <1>3, StartFacts DEF d
    <3>2. File(l, on) \in DOMAIN dir
      BY <2>2, <3>1 DEF SameFiles
    <3> QED BY <1>3, <3>2 DEF Fits
  <2>3. \A on \in BOOLEAN : File(l, on)[1] = l
    BY FileFacts
  <2>4. ASSUME NEW on \in BOOLEAN
        PROVE  /\ File(l, on) \in DOMAIN dir' <=> File(l, on) \in DOMAIN d
               /\ FileOf(dir', l, on) = FileOf(d, l, on)
    <3> DEFINE f == File(l, on)
               S == {g \in DOMAIN d : g[1] \notin DOMAIN b.lists}
    <3>1. f \notin S
      BY <2>2, <2>3
    <3> HIDE DEF f, S
    <3>2. (f \in DOMAIN dir' <=> f \in DOMAIN d) /\ Get(dir', f, {}) = Get(d, f, {})
      <4>1. dir' = Drop(d, S)
        BY <2>1 DEF S
      <4> QED BY <3>1, <4>1 DEF Drop, Restrict, Get
    <3> QED BY <3>2 DEF f, FileOf
  <2> QED BY <2>4 DEF SameFiles
<1>8. ASSUME NEW l PROVE Agree(l)'
  <2>1. AgreesAs(m, d, Get(infos, l, None), l)
    BY <1>3, StartFacts DEF m, d
  <2>2. AgreesAs(mem', dir', Get(infos, l, None), l)
    BY <1>5, <1>7, <2>1, SameIsSame, AgreesSame
  <2> QED BY <1>1, <2>2 DEF Agree
<1>9. ASSUME NEW l \in DOMAIN meta', meta'[l].enabled
      PROVE  DOMAIN Contents(mem', meta'[l].color, l) = b.lists[l].domains
  <2>1. l \in DOMAIN infos /\ infos[l].enabled /\ infos[l].color \in Colors
    BY <1>1, <1>4, <1>9
  <2>2. Contents(mem', infos[l].color, l) = readFile(dir, l, infos[l].mask)
    BY <1>3, <1>5, <2>1, StartMemFacts DEF m
  <2>3. FileOf(dir, l, TRUE) = b.lists[l].domains
    BY <1>3, <1>4, <2>1
  <2>4. DOMAIN readFile(dir, l, infos[l].mask) = FileOf(dir, l, TRUE)
    BY EmptyIs
  <2>5. meta'[l].color = infos[l].color
    BY <1>1
  <2> QED BY <2>2, <2>3, <2>4, <2>5
<1>10. RestoredAsSaved'
  BY <1>1, <1>2, <1>8, <1>9 DEF RestoredAsSaved, infos
<1>11. RestoreInv' /\ FailedRestoreHarmless' /\ \A l \in Lists \ Loose' : Holds(l)'
  BY <1>2, <1>8, <1>h DEF RestoreInv, FailedRestoreHarmless, Holds
<1> QED BY <1>5, <1>6, <1>10, <1>11, <1>h DEF ListsInv


-----------------------------------------------------------------------------
(* Crashes and start-up. *)

\* At a start-up no thread is at a command.
LEMMA AllRest ==
    ASSUME leg = [t \in Threads |-> Rest]
    PROVE  LegTypes /\ Quiet(Sessions) /\ LegacyLists = {} /\ LegacyInv
<1>1. LegTypes
  BY RestFacts DEF LegTypes, Threads
<1>2. Quiet(Sessions)
  BY DEF Quiet, Threads
<1>3. LegacyLists = {}
  BY <1>1, <1>2, LegListFacts
<1> QED BY <1>1, <1>2, <1>3 DEF LegacyInv

LEMMA AllRestNext ==
    leg' = [t \in Threads |-> Rest] => LegTypes' /\ LegacyLists' = {} /\ LegacyInv'
<1>1. leg = [t \in Threads |-> Rest] => LegTypes /\ LegacyLists = {} /\ LegacyInv
  BY AllRest
<1>2. (leg = [t \in Threads |-> Rest])' => (LegTypes /\ LegacyLists = {} /\ LegacyInv)'
  BY <1>1, PTL
<1> QED BY <1>2

\* A crash and the start-up, for a list that is not torn.
LEMMA RestartFacts ==
    ASSUME ListsInv, Restart, NEW l \in Lists \ ill'
    PROVE  Agree(l) /\ Agree(l)' /\ SameContents(mem, mem', l)
<1>1. /\ meta' = saved.meta /\ dir' = startDir(saved.meta, dir) /\ PublishAll(startMem(saved.meta, dir))
      /\ ill' = ill \cup TornByCrash
  BY DEF Restart
<1>2. /\ l \in Lists \ (ill \cup Busy) /\ Get(saved.meta, l, None) = Get(meta, l, None)
      /\ Exclusive => cmd.at = "failed"
  BY <1>1 DEF TornByCrash
<1>3. Agree(l)
  <2>1. CASE Exclusive
    <3>1. Holds(l)
      BY <1>2, InvFacts DEF Busy, Loose
    <3> QED BY <1>2, <2>1, <3>1 DEF Exclusive, Holds
  <2>2. CASE ~Exclusive
    BY <1>2, <2>2, FreeAgrees
  <2> QED BY <2>1, <2>2
<1>4. AgreesAs(mem, dir, Get(saved.meta, l, None), l)
  BY <1>2, <1>3 DEF Agree
<1>5. IsMeta(saved.meta) /\ Fits(saved.meta, dir, l)
  BY <1>4, InvFacts, AgreesFits
<1>6. mem' = startMem(saved.meta, dir)
  BY <1>1 DEF PublishAll
<1>7. /\ AgreesAs(mem', dir, Get(saved.meta, l, None), l)
      /\ AgreesAs(mem', dir', Get(saved.meta, l, None), l)
  BY <1>1, <1>5, <1>6, StartFacts
<1>8. SameContents(mem, mem', l)
  BY <1>4, <1>7 DEF AgreesAs, SameContents
<1> QED BY <1>1, <1>3, <1>7, <1>8 DEF Agree

LEMMA RestartKeeps == ASSUME ListsInv, Restart PROVE ListsInv'
<1>1. /\ meta' = saved.meta /\ PublishAll(startMem(saved.meta, dir)) /\ cmd' = Idle /\ UNCHANGED <<saved, slot>>
      /\ leg' = [t \in Threads |-> Rest]
  BY DEF Restart
<1>2. DOMAIN mem' = Colors /\ AggInv'
  <2>1. PICK m : m = startMem(saved.meta, dir)
    OBVIOUS
  <2> QED BY <1>1, <2>1, StartMemTypes, PublishAllFacts
<1>3. LegTypes' /\ LegacyLists' = {} /\ LegacyInv'
  BY <1>1, AllRestNext
<1>4. Types'
  BY <1>1, <1>2, <1>3, InvFacts, IdleTypes, SameTypes
<1>5. \A l \in Lists \ ill' : Agree(l)'
  BY RestartFacts
<1>6. \A l \in Lists \ Loose' : Holds(l)'
  BY <1>1, <1>5 DEF Holds, Idle, Loose
<1> QED BY <1>1, <1>2, <1>3, <1>4, <1>6, Shared DEF Idle

LEMMA StartHolds == ASSUME Init PROVE ListsInv
<1>1. PICK s \in Starts : meta = s.meta /\ dir = startDir(s.meta, s.dir) /\ slot = s.slot
  BY DEF Init
<1>2. /\ mem = startMem(meta, dir) /\ agg = [c \in Colors |-> rebuildAgg(mem[c])]
      /\ saved = [meta |-> meta, ip |-> 0] /\ cmd = Idle /\ leg = [t \in Threads |-> Rest]
  BY DEF Init
<1>3. /\ IsMeta(meta) /\ (slot # None => IsSlot(slot))
      /\ DOMAIN s.dir \subseteq {File(l, meta[l].enabled) : l \in DOMAIN meta}
  BY <1>1, ListsAssumption
<1>4. \A l \in DOMAIN meta : meta[l].enabled \in BOOLEAN
  BY <1>3, InfoFacts DEF IsMeta
<1>5. ASSUME NEW l PROVE Agree(l)
  <2>1. ASSUME NEW on \in BOOLEAN, File(l, on) \in DOMAIN s.dir PROVE l \in DOMAIN meta /\ meta[l].enabled = on
    <3>1. PICK k \in DOMAIN meta : File(l, on) = File(k, meta[k].enabled)
      BY <1>3, <2>1
    <3> QED BY <1>4, <3>1, FileFacts
  <2>2. Fits(meta, s.dir, l)
    BY <2>1 DEF Fits
  <2>3. SameFiles(s.dir, dir, l)
    BY <1>1, <1>3, <2>2, StartDirFacts
  <2>4. Fits(meta, dir, l)
    BY <2>2, <2>3 DEF Fits, SameFiles
  <2> QED BY <1>2, <1>3, <2>4, StartFacts DEF Agree
<1>6. DOMAIN mem = Colors /\ CmdTypes /\ LegTypes /\ LegacyInv
  BY <1>2, StartMemTypes, AllRest DEF CmdTypes, Idle
<1>7. Types
  BY <1>2, <1>3, <1>6 DEF Types
<1>8. AggInv /\ RestoreInv /\ FailedRestoreHarmless /\ RestoredAsSaved
  BY <1>2 DEF AggInv, RestoreInv, FailedRestoreHarmless, RestoredAsSaved, Idle
<1>9. \A l \in Lists \ Loose : Holds(l)
  BY <1>2, <1>5 DEF Holds, Idle
<1> QED BY <1>6, <1>7, <1>8, <1>9 DEF ListsInv

-----------------------------------------------------------------------------
(* Every step, and memory holds nothing but lists. *)

LEMMA NextKeeps == ASSUME ListsInv, [Next]_vars PROVE ListsInv'
<1>1. CASE UNCHANGED vars
  <2>1. UNCHANGED <<meta, mem, agg, dir, backup, ip, saved, slot, cmd, leg, ill>>
    BY <1>1 DEF vars
  <2>2. Types'
    BY <2>1, InvFacts, CmdSame, LegSame, SameTypes
  <2> QED BY <2>1, <2>2, StillKeeps
<1>2. ASSUME NEW r \in Requests, ApplyBegin(r.remove, r.upsert) PROVE ListsInv'
  BY <1>2, ApplyBeginKeeps
<1>3. CASE \/ \E l \in Lists : RemoveList(l) \/ EnsureFile(l)
           \/ RemoveFile \/ removeBlockingList \/ addBlockingList \/ UpsertMove \/ SwitchSet \/ SwitchErase
           \/ updateBlockingList \/ EnableNew \/ ApplyEnd
  BY <1>3, RemoveStepKeeps, UnlinkStepKeeps, ForgetStepKeeps, EnsureKeeps, AddStepKeeps, MoveKeeps,
     SwitchSetKeeps, SwitchKeeps, UpdateStepKeeps, EnableNewKeeps, ApplyEndKeeps
<1>4. CASE \/ \E l \in Lists, D \in Imports, clear \in BOOLEAN : ImportBegin(l, D, clear)
           \/ ImportRename \/ ImportPublish
  BY <1>4, ImportBeginKeeps, ImportRenameKeeps, ImportPublishKeeps
<1>5. CASE IpRulesApply \/ CaptureLists \/ CaptureWrite \/ clearSlot \/ ResetAll \/ Restart
  BY <1>5, IpRulesApplyKeeps, CaptureListsKeeps, CaptureWriteKeeps, ClearSlotKeeps, ResetAllKeeps, RestartKeeps
<1>6. CASE RestoreStage \/ RestoreBackup \/ RestorePublish \/ RestoreIpRules \/ RestoreLive \/ RestoreSave \/ RestoreFailed
  BY <1>6, RestoreStageKeeps, RestoreBackupKeeps, RestorePublishKeeps, RestoreIpRulesKeeps,
     RestoreLiveKeeps, RestoreEndKeeps
<1>7. ASSUME NEW s \in Sessions, LegacyRequest(s) \/ LegacyStep(s) PROVE ListsInv'
  BY <1>7, RequestKeeps, LegacyStepsKeep
<1>8. ASSUME NEW t \in Threads, SaveLists(t) \/ SaveFile(t) PROVE ListsInv'
  BY <1>8, SaveListsKeeps, SaveFileKeeps
<1>9. CASE VNext
  BY <1>2, <1>3, <1>4, <1>5, <1>6, <1>9 DEF VNext
<1> QED BY <1>1, <1>5, <1>7, <1>8, <1>9 DEF Next

\* A list in memory is one of the lists.
MemOf(m) == DOMAIN m = Colors /\ \A c \in Colors : DOMAIN m[c] \subseteq Lists

\* What a critical section of one colour does to memory.
LEMMA MemOfPublish ==
    ASSUME MemOf(mem), NEW c \in Colors, NEW l \in Lists
    PROVE  /\ \A v : set(c, l, v) => MemOf(mem')
           /\ \A v : mem' = [mem EXCEPT ![c] = Put(@, l, v)] => MemOf(mem')
           /\ erase(c, l) => MemOf(mem')
           /\ Publish(c, Drop(mem[c], {l})) => MemOf(mem')
           /\ \A mask : changeBlockMask(l, mask, c) => MemOf(mem')
<1>1. ASSUME NEW v, mem' = [mem EXCEPT ![c] = Put(mem[c], l, v)] PROVE MemOf(mem')
  <2>1. DOMAIN Put(mem[c], l, v) = DOMAIN mem[c] \cup {l}
    BY PutFacts
  <2> QED BY <1>1, <2>1 DEF MemOf
<1>2. \A v : set(c, l, v) => MemOf(mem')
  BY <1>1 DEF set, Publish
<1>3. ASSUME Publish(c, Drop(mem[c], {l})) PROVE MemOf(mem')
  <2>1. DOMAIN Drop(mem[c], {l}) = DOMAIN mem[c] \ {l}
    BY DropFacts
  <2> QED BY <1>3, <2>1 DEF MemOf, Publish
<1>4. erase(c, l) => MemOf(mem')
  BY <1>3 DEF erase
<1>5. \A mask : changeBlockMask(l, mask, c) => MemOf(mem')
  BY <1>1 DEF changeBlockMask, masked, Publish
<1> QED BY <1>1, <1>2, <1>3, <1>4, <1>5

LEMMA MemOfOps ==
    ASSUME MemOf(mem), NEW c \in Colors, NEW l \in Lists
    PROVE  /\ \A mask : enable(l, mask, c) => MemOf(mem')
           /\ disable(l, c) => MemOf(mem')
           /\ \A doms, mask, clear : write(l, doms, mask, clear, c) => MemOf(mem')
           /\ \A clear : writeNotOpened(l, clear, c) => MemOf(mem')
           /\ \A doms, mask, clear : writeTorn(l, doms, mask, clear, c) => MemOf(mem')
<1>1. \A mask : enable(l, mask, c) => MemOf(mem')
  BY MemOfPublish DEF enable
<1>2. disable(l, c) => MemOf(mem')
  BY MemOfPublish DEF disable
<1>3. \A doms, mask, clear : write(l, doms, mask, clear, c) => MemOf(mem')
  BY MemOfPublish DEF write
<1>4. \A clear : writeNotOpened(l, clear, c) => MemOf(mem')
  BY MemOfPublish DEF writeNotOpened
<1>5. \A doms, mask, clear : writeTorn(l, doms, mask, clear, c) => MemOf(mem')
  BY MemOfPublish DEF writeTorn
<1> QED BY <1>1, <1>2, <1>3, <1>4, <1>5

LEMMA MemOfStart ==
    ASSUME NEW infos, IsMeta(infos), NEW d
    PROVE  MemOf(startMem(infos, d))
BY DEF MemOf, startMem, IsMeta

LEMMA VNextMem == ASSUME ListsInv, MemOf(mem), VNext PROVE MemOf(mem')
<1>1. CmdTypes
  BY InvFacts
<1>2. ASSUME cmd.op = "apply", cmd.at # "next"
      PROVE  /\ cmd.id \in Lists
             /\ cmd.at \notin {"unlink", "forget"} => cmd.plan[cmd.id].new.color \in Colors
             /\ cmd.at \in {"move", "switched"} => cmd.plan[cmd.id].old.color \in Colors
  BY <1>1, <1>2, ApplyRecord, PlanFacts, InfoFacts
<1>3. ASSUME NEW l \in Lists, RemoveList(l) PROVE MemOf(mem')
  <2>1. cmd.removes[l] \in Colors /\ erase(cmd.removes[l], l)
    BY <1>1, <1>3, ApplyRecord DEF RemoveList
  <2> QED BY <2>1, MemOfPublish
<1>4. ASSUME UpsertMove PROVE MemOf(mem')
  <2>1. PICK l, a, b : l = cmd.id /\ a = cmd.plan[l].old.color /\ b = cmd.plan[l].new.color
    OBVIOUS
  <2>2. l \in Lists /\ a \in Colors /\ b \in Colors
    BY <1>2, <1>4, <2>1 DEF UpsertMove
  <2>3. \/ mem' = mem \/ disable(l, a)
        \/ \E mask : enable(l, mask, b) \/ changeBlockMask(l, mask, b)
    BY <1>4, <2>1 DEF UpsertMove, renameFails
  <2> QED BY <2>2, <2>3, MemOfPublish, MemOfOps
<1>5. ASSUME SwitchSet PROVE MemOf(mem')
  <2>1. PICK l, c : l = cmd.id /\ c = cmd.plan[l].new.color
    OBVIOUS
  <2>2. l \in Lists /\ c \in Colors /\ set(c, l, cmd.held)
    BY <1>2, <1>5, <2>1 DEF SwitchSet
  <2> QED BY <2>2, MemOfPublish
<1>6. ASSUME SwitchErase PROVE MemOf(mem')
  <2>1. PICK l, c : l = cmd.id /\ c = cmd.plan[l].old.color
    OBVIOUS
  <2>2. l \in Lists /\ c \in Colors /\ erase(c, l)
    BY <1>2, <1>6, <2>1 DEF SwitchErase
  <2> QED BY <2>2, MemOfPublish
<1>7. ASSUME EnableNew PROVE MemOf(mem')
  <2>1. PICK l, c : l = cmd.id /\ c = cmd.plan[l].new.color
    OBVIOUS
  <2>2. l \in Lists /\ c \in Colors
    BY <1>2, <1>7, <2>1 DEF EnableNew
  <2>3. mem' = mem \/ \E mask : enable(l, mask, c)
    BY <1>7, <2>1 DEF EnableNew, renameFails
  <2> QED BY <2>2, <2>3, MemOfOps
<1>8. ASSUME ImportPublish PROVE MemOf(mem')
  <2>1. PICK l, c : l = cmd.id /\ c = cmd.info.color
    OBVIOUS
  <2>2. l \in Lists /\ c \in Colors
    BY <1>1, <1>8, <2>1, InfoFacts DEF ImportPublish, CmdTypes
  <2>3. mem' = mem \/ set(c, l, cmd.merged)
    BY <1>8, <2>1 DEF ImportPublish
  <2> QED BY <2>2, <2>3, MemOfPublish
<1>9. ASSUME RestoreLive PROVE MemOf(mem')
  <2>1. PICK infos : infos = bundleInfos(cmd.bundle)
    OBVIOUS
  <2>2. IsMeta(infos)
    BY <1>9, <2>1, RestoreRecord, StageFacts DEF RestoreLive
  <2>3. mem' = startMem(infos, dir)
    BY <1>9, <2>1 DEF RestoreLive, resetPolicyAndStart, PublishAll
  <2> QED BY <2>2, <2>3, MemOfStart
<1>10. ASSUME ResetAll PROVE MemOf(mem')
  BY <1>10, EmptyFacts DEF ResetAll, PublishAll, MemOf
<1>11. ASSUME \/ \E r \in Requests : ApplyBegin(r.remove, r.upsert)
              \/ \E l \in Lists : EnsureFile(l)
              \/ RemoveFile \/ removeBlockingList \/ addBlockingList \/ updateBlockingList \/ ApplyEnd
              \/ \E l \in Lists, D \in Imports, clear \in BOOLEAN : ImportBegin(l, D, clear)
              \/ ImportRename
       PROVE  mem' = mem
  BY <1>11 DEF ApplyBegin, EnsureFile, RemoveFile, removeBlockingList, addBlockingList, updateBlockingList,
               ApplyEnd, ImportBegin, ImportRename
<1>12. ASSUME \/ IpRulesApply \/ CaptureLists \/ CaptureWrite \/ clearSlot
              \/ RestoreStage \/ RestoreBackup \/ RestorePublish \/ RestoreIpRules \/ RestoreSave \/ RestoreFailed
       PROVE  mem' = mem
  BY <1>12 DEF IpRulesApply, CaptureLists, CaptureWrite, clearSlot,
               RestoreStage, RestoreBackup, RestorePublish, RestoreIpRules, RestoreSave, RestoreFailed
<1> QED BY <1>3, <1>4, <1>5, <1>6, <1>7, <1>8, <1>9, <1>10, <1>11, <1>12 DEF VNext

LEMMA LegacyMem == ASSUME ListsInv, MemOf(mem), NEW s \in Sessions, LegacyStep(s) PROVE MemOf(mem')
<1>1. PICK r : r = leg[s]
  OBVIOUS
<1>2. PICK l : l = r.id
  OBVIOUS
<1>3. LegType(r)
  BY <1>1, InvFacts DEF LegTypes, Threads
<1>4. /\ r.at \in {"unlink", "enable", "disable", "write"} \cup UpdatePlaces => l \in Lists
      /\ r.at \in {"enable", "disable", "write"} => r.arg.color \in Colors
      /\ r.at \in UpdatePlaces => r.arg.info.color \in Colors
  BY <1>2, <1>3, InfoFacts DEF LegType, UpdatePlaces
<1>5. ASSUME UpdateMask(s) \/ SwitchPut(s) \/ SwitchDrop(s) PROVE MemOf(mem')
  <2>1. PICK c, o, m, h : c = r.arg.info.color /\ o = Other(c) /\ m = r.arg.info.mask /\ h = r.held
    OBVIOUS
  <2>2. l \in Lists /\ c \in Colors
    BY <1>1, <1>4, <1>5, <2>1 DEF UpdateMask, SwitchPut, SwitchDrop, UpdatePlaces
  <2>3. o \in Colors
    BY <2>1, <2>2, ColorFacts
  <2>4. changeBlockMask(l, m, c) \/ set(c, l, h) \/ erase(o, l)
    BY <1>1, <1>2, <1>5, <2>1 DEF UpdateMask, SwitchPut, SwitchDrop
  <2> QED BY <2>2, <2>3, <2>4, MemOfPublish
<1>6. ASSUME NEW k \in Lists, Remove(s, k) PROVE MemOf(mem')
  <2>1. PICK c : c = r.todo[k]
    OBVIOUS
  <2>2. c \in Colors /\ erase(c, k)
    BY <1>1, <1>3, <1>6, <2>1 DEF Remove, LegType, Removals
  <2> QED BY <2>2, MemOfPublish
<1>7. ASSUME Enable(s) \/ Disable(s) \/ AddDomains(s) PROVE MemOf(mem')
  <2>1. PICK c : c = r.arg.color
    OBVIOUS
  <2>2. l \in Lists /\ c \in Colors
    BY <1>1, <1>4, <1>7, <2>1 DEF Enable, Disable, AddDomains
  <2>3. CASE Enable(s)
    <3>1. mem' = mem \/ \E mask : enable(l, mask, c)
      BY <1>1, <1>2, <2>1, <2>3 DEF Enable, renameFails
    <3> QED BY <2>2, <3>1, MemOfOps
  <2>4. CASE Disable(s)
    <3>1. mem' = mem \/ disable(l, c)
      BY <1>1, <1>2, <2>1, <2>4 DEF Disable, renameFails
    <3> QED BY <2>2, <3>1, MemOfOps
  <2>5. CASE AddDomains(s)
    <3>1. PICK doms, mask, clear : doms = r.arg.doms /\ mask = r.arg.mask /\ clear = r.arg.clear
      OBVIOUS
    <3>2. write(l, doms, mask, clear, c) \/ writeNotOpened(l, clear, c) \/ writeTorn(l, doms, mask, clear, c)
      BY <1>1, <1>2, <2>1, <2>5, <3>1 DEF AddDomains
    <3> QED BY <2>2, <3>2, MemOfOps
  <2> QED BY <1>7, <2>3, <2>4, <2>5
<1>8. ASSUME getColor(s) \/ SwitchGet(s) \/ UpdateMeta(s) \/ Unlink(s) \/ Forget(s) \/ setEnabled(s)
      PROVE  mem' = mem
  BY <1>8 DEF getColor, SwitchGet, UpdateMeta, Unlink, Forget, setEnabled
<1> QED BY <1>5, <1>6, <1>7, <1>8 DEF LegacyStep

LEMMA RequestMem == ASSUME NEW s \in Sessions, LegacyRequest(s) PROVE mem' = mem
<1>1. \A work, misused, first : Begin(s, work, misused, first) => mem' = mem
  BY DEF Begin
<1> QED BY <1>1 DEF LegacyRequest, cmdRemoveBlockingList, cmdEnableBlockingList, cmdDisableBlockingList,
                    cmdAddBlockingList, cmdUpdateBlockingList, cmdAddManyDomains, cmdClearBlockingLists,
                    cmdSaveBlockingLists

LEMMA MemKeeps == ASSUME ListsInv, MemOf(mem), [Next]_vars PROVE MemOf(mem')
<1>1. ASSUME UNCHANGED vars PROVE mem' = mem
  BY <1>1 DEF vars
<1>2. ASSUME NEW t \in Threads, SaveLists(t) \/ SaveFile(t) PROVE mem' = mem
  BY <1>2 DEF SaveLists, SaveFile
<1>3. ASSUME Restart PROVE MemOf(mem')
  BY <1>3, InvFacts, MemOfStart DEF Restart, PublishAll
<1> QED BY <1>1, <1>2, <1>3, VNextMem, LegacyMem, RequestMem DEF Next

-----------------------------------------------------------------------------
(* Looked-up names. *)

\* The enabled lists of a colour whose file holds x.
Holders(c, x) == {l \in DOMAIN meta : meta[l].enabled /\ meta[l].color = c /\ x \in FileOf(dir, l, TRUE)}

\* The published aggregate of a colour, when every list agrees.
LEMMA AggOfLists ==
    ASSUME agg = [b \in Colors |-> rebuildAgg(mem[b])], MemOf(mem), IsMeta(meta), \A l \in Lists : Agree(l), NEW c \in Colors, NEW x
    PROVE  /\ x \in DOMAIN agg[c] <=> Holders(c, x) # {}
           /\ x \in DOMAIN agg[c] => agg[c][x] = {meta[l].mask : l \in Holders(c, x)}
<1> DEFINE L == mem[c]
           H == Holders(c, x)
<1>1. agg[c] = rebuildAgg(L)
  OBVIOUS
<1>2. DOMAIN L \subseteq Lists
  BY DEF MemOf
<1>3. ASSUME NEW l \in Lists
      PROVE  /\ x \in DOMAIN Get(L, l, Empty) <=> l \in H
             /\ l \in H => l \in DOMAIN L /\ L[l][x] = {meta[l].mask}
  <2> DEFINE i == Get(meta, l, None)
  <2>1. (i # None <=> l \in DOMAIN meta) /\ (l \in DOMAIN meta => i = meta[l])
    BY InfoFacts DEF Get, IsMeta
  <2>2. Contents(mem, c, l) = IF i # None /\ i.enabled /\ i.color = c THEN readFile(dir, l, i.mask) ELSE Empty
    BY DEF Agree, AgreesAs
  <2> HIDE DEF i
  <2>3. CASE l \in DOMAIN meta /\ meta[l].enabled /\ meta[l].color = c
    <3>1. Get(L, l, Empty) = readFile(dir, l, meta[l].mask)
      BY <2>1, <2>2, <2>3 DEF Contents
    <3>2. x \in DOMAIN Get(L, l, Empty) <=> x \in FileOf(dir, l, TRUE)
      BY <3>1, EmptyIs
    <3>3. l \in H <=> x \in FileOf(dir, l, TRUE)
      BY <2>3 DEF Holders
    <3>4. ASSUME x \in FileOf(dir, l, TRUE) PROVE l \in DOMAIN L /\ L[l][x] = {meta[l].mask}
      <4>1. l \in DOMAIN L
        BY <3>2, <3>4, EmptyFacts DEF Get
      <4>2. L[l] = readFile(dir, l, meta[l].mask)
        BY <3>1, <4>1 DEF Get
      <4> QED BY <3>4, <4>1, <4>2 DEF readFile
    <3> QED BY <3>2, <3>3, <3>4
  <2>4. CASE ~(l \in DOMAIN meta /\ meta[l].enabled /\ meta[l].color = c)
    <3>1. Get(L, l, Empty) = Empty
      BY <2>1, <2>2, <2>4 DEF Contents
    <3>2. l \notin H
      BY <2>4 DEF Holders
    <3> QED BY <3>1, <3>2, EmptyFacts
  <2> QED BY <2>3, <2>4
<1>4. H \subseteq Lists
  BY DEF Holders, IsMeta
<1> HIDE DEF L, H
<1>5. \A l \in DOMAIN L : Get(L, l, Empty) = L[l]
  BY DEF Get
<1>6. /\ H \subseteq DOMAIN L
      /\ \A l \in DOMAIN L : x \in DOMAIN L[l] <=> l \in H
      /\ \A l \in H : L[l][x] = {meta[l].mask}
  BY <1>2, <1>3, <1>4, <1>5
<1>7. DOMAIN rebuildAgg(L) = UNION {DOMAIN L[l] : l \in DOMAIN L}
  BY DEF rebuildAgg
<1>8. x \in DOMAIN rebuildAgg(L) <=> H # {}
  BY <1>6, <1>7
<1>9. ASSUME x \in DOMAIN rebuildAgg(L) PROVE rebuildAgg(L)[x] = {meta[l].mask : l \in H}
  <2>1. rebuildAgg(L)[x] = UNION {Get(L[l], x, {}) : l \in DOMAIN L}
    BY <1>7, <1>9 DEF rebuildAgg
  <2>2. \A l \in DOMAIN L : Get(L[l], x, {}) = IF l \in H THEN {meta[l].mask} ELSE {}
    BY <1>6 DEF Get
  <2>3. UNION {Get(L[l], x, {}) : l \in DOMAIN L} = {meta[l].mask : l \in H}
    BY <1>6, <2>2
  <2> QED BY <2>1, <2>3
<1> QED BY <1>1, <1>8, <1>9 DEF H

LEMMA MinFacts ==
    ASSUME NEW n \in Nat, NEW S, S \subseteq 1..n, S # {}
    PROVE  Min(S) \in S
<1>1. S \subseteq Nat
  OBVIOUS
<1>2. PICK x \in S : \A y \in S : ~(<<y, x>> \in OpToRel(<, Nat))
  BY <1>1, NatLessThanWellFounded, WFMin
<1>3. \A y \in S : x =< y
  <2> SUFFICES ASSUME NEW y \in S, y < x PROVE FALSE
    BY <1>1
  <2>1. <<y, x>> \in OpToRel(<, Nat)
    BY <1>1 DEF OpToRel
  <2> QED BY <1>2, <2>1
<1> QED BY <1>3 DEF Min

\* The longest listed suffix is the same in the aggregate and in the files.
LEMMA MaskWanted ==
    ASSUME agg = [b \in Colors |-> rebuildAgg(mem[b])], MemOf(mem), IsMeta(meta), \A l \in Lists : Agree(l), NEW c \in Colors, NEW name \in Seq(STRING)
    PROVE  blockMask(c, name) = WantedMask(c, name)
<1> DEFINE q == IF name[Len(name)] = "" THEN SubSeq(name, 1, Len(name) - 1) ELSE name
           n == Len(q)
           Suffix(i) == SubSeq(q, i, n)
           on == {l \in DOMAIN meta : meta[l].enabled /\ meta[l].color = c}
           Holding(i) == {l \in on : Suffix(i) \in FileOf(dir, l, TRUE)}
           hits == {i \in 1..n : /\ i = 1 \/ i < n
                                 /\ Suffix(i) \in DOMAIN agg[c]}
           wanted == {i \in 1..n : (i = 1 \/ i < n) /\ Holding(i) # {}}
<1>1. blockMask(c, name) = IF hits = {} THEN {} ELSE agg[c][Suffix(Min(hits))]
  BY DEF blockMask
<1>2. WantedMask(c, name) = IF wanted = {} THEN {} ELSE {meta[l].mask : l \in Holding(Min(wanted))}
  BY DEF WantedMask
<1>3. n \in Nat
  <2>1. Len(name) \in Nat /\ \A i \in 1..(Len(name) - 1) : name[i] \in STRING
    OBVIOUS
  <2>2. SubSeq(name, 1, Len(name) - 1) \in Seq(STRING)
    BY <2>1, SubSeqProperties
  <2>3. q \in Seq(STRING)
    BY <2>2
  <2> HIDE DEF q
  <2> QED BY <2>3
<1>4. \A i : Holding(i) = Holders(c, Suffix(i))
  BY DEF Holders
<1> HIDE DEF q, n, Suffix, Holding
<1>5. ASSUME NEW i
      PROVE  /\ Suffix(i) \in DOMAIN agg[c] <=> Holding(i) # {}
             /\ Suffix(i) \in DOMAIN agg[c] => agg[c][Suffix(i)] = {meta[l].mask : l \in Holding(i)}
  BY <1>4, AggOfLists
<1>6. hits = wanted /\ hits \subseteq 1..n
  BY <1>5
<1>7. hits # {} => Min(hits) \in hits
  <2> HIDE DEF hits
  <2> QED BY <1>3, <1>6, MinFacts
<1>8. hits # {} => agg[c][Suffix(Min(hits))] = {meta[l].mask : l \in Holding(Min(hits))}
  BY <1>5, <1>7
<1> HIDE DEF hits, wanted
<1> QED BY <1>1, <1>2, <1>6, <1>8

LEMMA DecisionsHold == ASSUME ListsInv, MemOf(mem) PROVE DecisionsFollowLists
<1> SUFFICES ASSUME ill \cup Busy = {}, ~Exclusive, NEW q \in Queries
             PROVE  initDomain(q).mask = IF WantedMask("white", q) # {} THEN {} ELSE WantedMask("black", q)
  BY DEF DecisionsFollowLists
<1>1. \A l \in Lists : Agree(l)
  BY FreeAgrees
<1>2. q \in Seq(STRING) /\ IsMeta(meta) /\ agg = [b \in Colors |-> rebuildAgg(mem[b])]
  BY InvFacts, ListsAssumption DEF AggInv
<1>3. blockMask("white", q) = WantedMask("white", q) /\ blockMask("black", q) = WantedMask("black", q)
  BY <1>1, <1>2, MaskWanted DEF Colors
<1> QED BY <1>3 DEF initDomain

-----------------------------------------------------------------------------
(* The theorems. *)

\* The inductive invariant: what memory, files, metadata and the slot hold of
\* every list at every place a vNext command, the legacy commands of any
\* number of sessions and the saves can be in at once.
THEOREM ListsInvariant == Spec => [](ListsInv /\ MemOf(mem))
<1>1. Init => ListsInv /\ MemOf(mem)
  <2> SUFFICES ASSUME Init PROVE ListsInv /\ MemOf(mem)
    OBVIOUS
  <2>1. ListsInv
    BY StartHolds
  <2> QED BY <2>1, InvFacts, MemOfStart DEF Init
<1>2. ListsInv /\ MemOf(mem) /\ [Next]_vars => (ListsInv /\ MemOf(mem))'
  BY NextKeeps, MemKeeps
<1> QED BY <1>1, <1>2, PTL DEF Spec

\* A list nothing went wrong with (no overlapping or misused commands, no
\* failure the code ignores, no crash in a command) and none is working on is
\* held in memory and on disk as its metadata say: through the separate
\* critical sections of APPLY, IMPORT, ENABLE, DISABLE, UPDATE, REMOVE, CLEAR
\* and ADDMANY, with steps of the commands on other lists in between.
THEOREM ListsAgreeAlways == Spec => []ListsAgree
<1>1. ListsInv => ListsAgree
  BY FreeAgrees DEF ListsAgree
<1> QED BY <1>1, ListsInvariant, PTL

\* A looked-up name gets the mask the enabled lists' files give it, through
\* the aggregates every one of those steps publishes on its own.
THEOREM DecisionsFollowListsAlways == Spec => []DecisionsFollowLists
<1> QED BY DecisionsHold, ListsInvariant, PTL

\* A CHECKPOINT.RESTORE that fails, at any of its steps, changes no policy.
THEOREM FailedRestoreIsHarmless == Spec => []FailedRestoreHarmless
<1>1. ListsInv => FailedRestoreHarmless
  BY DEF ListsInv
<1> QED BY <1>1, ListsInvariant, PTL

\* A CHECKPOINT.RESTORE that succeeds leaves the slot's lists and no others.
THEOREM RestoreInstallsSlot == Spec => []RestoredAsSaved
<1>1. ListsInv => RestoredAsSaved
  BY DEF ListsInv
<1> QED BY <1>1, ListsInvariant, PTL

\* A crash and restart, at any step of any command, changes nothing about a
\* list that nothing went wrong with, that no command works on, and whose
\* metadata is saved.
THEOREM RestartReproducesLists == Spec => RestartReproduces
<1>1. ListsInv /\ [Next]_vars =>
         [Restart => \A l \in Lists \ ill' : \A c \in Colors : Contents(mem', c, l) = Contents(mem, c, l)]_vars
  BY RestartFacts DEF SameContents
<1> QED BY <1>1, ListsInvariant, PTL DEF Spec, RestartReproduces
===============================================================================
