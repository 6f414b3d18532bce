---------------------------- MODULE DomainLists ----------------------------
(***************************************************************************)
(* The domain block and allow lists: their metadata (BlockingListManager), *)
(* their contents in memory (one DomainList per colour with its published  *)
(* aggregate), their files, the vNext and the legacy commands that change  *)
(* them, the policy checkpoint slot that saves and restores them, and the  *)
(* restart of the daemon.                                                  *)
(*                                                                         *)
(* A list has two file names, `<id>` while it is enabled and               *)
(* `<id>.disabled`.  A mask is a set of bits and a list has one bit.  A    *)
(* domain is the sequence of its labels.  Several threads change the       *)
(* state, one critical section or file operation at a time: the vNext      *)
(* command that holds mutexControlMutations (`cmd`), the sessions of       *)
(* legacy control clients and the periodic save (`leg`).  Legacy commands  *)
(* hold mutexListeners shared only, so the steps of two of them, and of    *)
(* one and a vNext command, interleave.                                    *)
(***************************************************************************)
EXTENDS Sequences, Integers, FiniteSets, Functions, FiniteSetsExt

CONSTANTS
    Lists,          \* list ids
    None,           \* no list, no directory, an empty slot
    Queries,        \* names that are looked up
    Bits,           \* the mask bits a list may have
    StandardBit,    \* settings.standardListBit
    ReinforcedBit,  \* settings.reinforcedListBit
    Imports,        \* sets of domains a command brings
    BadDomains,     \* names isValidDomainString refuses
    Requests,       \* what a DOMAINLISTS.APPLY removes and upserts
    LegacyInfos,    \* kinds, masks and enabled flags legacy clients send
    Starts,         \* what the save files hold at the first start-up
    Sessions,       \* legacy control sessions
    Main,           \* the thread of the periodic save
    Bounds          \* bounds on vNext commands, legacy commands,
                    \* failing file operations and crashes

VARIABLES
    meta,    \* BlockingListManager::_ByIds
    mem,     \* DomainList::_domainsByListId of each colour
    agg,     \* DomainList::_aggSnapshot of each colour
    dir,     \* the files of the domain list directory
    backup,  \* the directory set aside by a restore, or None
    ip,      \* the IP rules, restored together with the lists
    saved,   \* the metadata and IP rules in the save files
    slot,    \* the checkpoint slot
    cmd,     \* the vNext command in progress
    leg,     \* per thread, the legacy command or periodic save in progress
    left,    \* what is left of each bound
    ill      \* history: lists that something has gone wrong with: commands
             \* that overlap or are misused on the list, a file failure the
             \* code ignores, or a crash while a command works on it

vars == <<meta, mem, agg, dir, backup, ip, saved, slot, cmd, leg, left, ill>>

Colors == {"black", "white"}
Other(c) == CHOOSE d \in Colors : d # c
Infos == [color : Colors, mask : Bits, enabled : BOOLEAN]
Idle == [op |-> "idle"]
Empty == <<>>

\* A legacy command: its place, the list it is at, its arguments, the lists
\* it has still to remove, the contents it has read and the metadata it is
\* saving, with whether another save overlaps.
Threads == Sessions \cup {Main}
Rest == [at |-> "rest", id |-> None, arg |-> None, todo |-> Empty,
         held |-> Empty, lists |-> Empty, clash |-> FALSE]
Saving == [Rest EXCEPT !.at = "save"]

Drop(f, keys) == Restrict(f, DOMAIN f \ keys)
Get(f, k, default) == IF k \in DOMAIN f THEN f[k] ELSE default
Put(f, k, v) == [x \in DOMAIN f \cup {k} |-> IF x = k THEN v ELSE f[x]]
Over(f, g) == [x \in DOMAIN f \cup DOMAIN g |-> IF x \in DOMAIN f THEN f[x] ELSE g[x]]
File(l, on) == <<l, IF on THEN "" ELSE ".disabled">>
FileOf(d, l, on) == Get(d, File(l, on), {})

\* A file operation fails, either harmlessly or with list l left half-way.
Spend(what) == left[what] > 0 /\ left' = [left EXCEPT ![what] = @ - 1]
Keeps == UNCHANGED <<left, ill>>
Harmless == Spend("faults") /\ UNCHANGED ill
Breaks(l) == Spend("faults") /\ ill' = ill \cup {l}

\* Metadata of lists, and a checkpoint slot with its lists.
IsMeta(m) == DOMAIN m \subseteq Lists /\ \A l \in DOMAIN m : m[l] \in Infos
IsSlot(s) == DOMAIN s.lists \subseteq Lists /\ \A l \in DOMAIN s.lists : s.lists[l].info \in Infos

----------------------------------------------------------------------------
(* DomainList: one object per colour.                                      *)

\* rebuildAggSnapshotLocked: the OR of the masks of the lists of one colour.
rebuildAgg(lists) ==
    [d \in UNION {DOMAIN lists[l] : l \in DOMAIN lists} |->
        UNION {Get(lists[l], d, {}) : l \in DOMAIN lists}]

\* The contents of a list file, every domain with the list's mask.
readFile(d, l, mask) == [x \in FileOf(d, l, TRUE) |-> {mask}]

\* ensureFileExists: an empty file unless there is one; a failure is ignored.
ensured(l, on) == IF File(l, on) \in DOMAIN dir THEN dir ELSE Put(dir, File(l, on), {})
ensureFileExists(l, on) ==
    \/ dir' = ensured(l, on) /\ Keeps
    \/ File(l, on) \notin DOMAIN dir /\ UNCHANGED dir /\ Harmless

\* rename(2) of a list's file to its other name, which fails when there is
\* no such file and may fail when there is.
renameFile(d, from, to) == Put(Drop(d, {from}), to, d[from])
renameFails(from) ==
    /\ IF from \in DOMAIN dir THEN Spend("faults") ELSE UNCHANGED left
    /\ UNCHANGED <<mem, agg, dir>>

\* rebuildAggSnapshotLocked of one colour, under the lock that changed it.
Publish(c, lists) ==
    mem' = [mem EXCEPT ![c] = lists] /\ agg' = [agg EXCEPT ![c] = rebuildAgg(lists)]

\* Both colours are reset, or the lists are started.
PublishAll(m) == mem' = m /\ agg' = [c \in Colors |-> rebuildAgg(m[c])]

\* set; and erase, which publishes only what it has changed.
Contents(m, c, l) == Get(m[c], l, Empty)
set(c, l, doms) == Publish(c, Put(mem[c], l, doms))
erase(c, l) == IF l \in DOMAIN mem[c] THEN Publish(c, Drop(mem[c], {l}))
                                      ELSE UNCHANGED <<mem, agg>>

enableMemoryOnly(l, mask, c) ==
    LET d == renameFile(dir, File(l, FALSE), File(l, TRUE))
    IN  /\ File(l, FALSE) \in DOMAIN dir
        /\ set(c, l, readFile(d, l, mask))
        /\ UNCHANGED dir /\ Keeps

\* enable: the `.disabled` file is renamed over the enabled one and read; if
\* it cannot be opened the list is empty.
enable(l, mask, c) ==
    LET d == renameFile(dir, File(l, FALSE), File(l, TRUE))
    IN  /\ File(l, FALSE) \in DOMAIN dir
        /\ dir' = d
        /\ \/ set(c, l, readFile(d, l, mask)) /\ Keeps
           \/ set(c, l, Empty) /\ Breaks(l)

disable(l, c) ==
    /\ File(l, TRUE) \in DOMAIN dir
    /\ dir' = renameFile(dir, File(l, TRUE), File(l, FALSE))
    /\ Publish(c, Drop(mem[c], {l}))
    /\ Keeps

masked(l, mask, c) == Put(mem[c], l, [d \in DOMAIN mem[c][l] |-> {mask}])
changeBlockMaskNoPublish(l, mask, c) ==
    /\ mem' = IF l \in DOMAIN mem[c] THEN [mem EXCEPT ![c] = masked(l, mask, c)] ELSE mem
    /\ UNCHANGED agg

changeBlockMask(l, mask, c) ==
    IF l \in DOMAIN mem[c] THEN Publish(c, masked(l, mask, c)) ELSE UNCHANGED <<mem, agg>>

\* remove, after the erase: the enabled file goes, or else the disabled one;
\* a failure is ignored.
unlink(l) ==
    \/ dir' = Drop(dir, {File(l, File(l, TRUE) \in DOMAIN dir)}) /\ Keeps
    \/ /\ \E on \in BOOLEAN : File(l, on) \in DOMAIN dir
       /\ dir' \in {dir, Drop(dir, {File(l, FALSE)})}
       /\ Breaks(l)

\* write: clear empties memory and file; only new domains are appended.
keptSet(l, clear, c) == IF clear THEN Empty ELSE Contents(mem, c, l)
keptFile(l, clear) == IF clear THEN {} ELSE FileOf(dir, l, TRUE)
newDomains(l, doms, clear, c) == doms \ DOMAIN keptSet(l, clear, c)
added(l, doms, mask, clear, c) ==
    Over(keptSet(l, clear, c), [d \in newDomains(l, doms, clear, c) |-> {mask}])

writeNoAppend(l, doms, mask, clear, c) ==
    /\ dir' = Put(dir, File(l, TRUE), keptFile(l, clear))
    /\ set(c, l, added(l, doms, mask, clear, c))
    /\ Keeps

write(l, doms, mask, clear, c) ==
    /\ dir' = Put(dir, File(l, TRUE), keptFile(l, clear) \cup newDomains(l, doms, clear, c))
    /\ set(c, l, added(l, doms, mask, clear, c))
    /\ Keeps

\* The file cannot be opened to append: nothing is published.
writeNotOpened(l, clear, c) ==
    /\ mem' = [mem EXCEPT ![c] = Put(@, l, keptSet(l, clear, c))]
    /\ dir' \in {dir} \cup (IF clear THEN {Put(dir, File(l, TRUE), {})} ELSE {})
    /\ UNCHANGED agg
    /\ Breaks(l)

\* It is not emptied, or not all domains reach it.
writeTorn(l, doms, mask, clear, c) ==
    /\ \E old \in {FileOf(dir, l, TRUE), keptFile(l, clear)},
          new \in SUBSET newDomains(l, doms, clear, c) :
             dir' = Put(dir, File(l, TRUE), old \cup new)
    /\ set(c, l, added(l, doms, mask, clear, c))
    /\ Breaks(l)

\* importAtomic, first phase: the target set, from memory when the list is
\* enabled and there, else from its file.
importMerge(l, doms, mask, clear, on, c) ==
    LET old == CASE clear -> Empty
                 [] ~clear /\ on /\ l \in DOMAIN mem[c] -> mem[c][l]
                 [] OTHER -> [d \in FileOf(dir, l, on) |-> {mask}]
    IN  [d \in DOMAIN old \cup doms |->
            Get(old, d, {}) \cup (IF d \in doms THEN {mask} ELSE {})]

\* blockMask: a trailing dot is stripped, then the name itself and its
\* suffixes are looked up, the last label alone excepted; the first hit wins.
blockMask(c, name) ==
    LET q == IF name[Len(name)] = "" THEN SubSeq(name, 1, Len(name) - 1) ELSE name
        hits == {i \in 1..Len(q) : /\ i = 1 \/ i < Len(q)
                                   /\ SubSeq(q, i, Len(q)) \in DOMAIN agg[c]}
    IN  IF hits = {} THEN {} ELSE agg[c][SubSeq(q, Min(hits), Len(q))]

\* DomainManager::initDomain: the mask and colour a domain is given when it
\* is looked up; an allow list hit leaves it without a mask.
initDomain(name) ==
    LET mask == IF blockMask("white", name) = {} THEN blockMask("black", name) ELSE {}
    IN  [mask |-> mask,
         color |-> CASE StandardBit \in mask -> "black"
                     [] StandardBit \notin mask /\ ReinforcedBit \in mask -> "white"
                     [] OTHER -> "grey"]

\* DomainManager::start: enabled lists are read into their colour (emplace:
\* a list already there stays), a disabled list's enabled file is renamed.
startDir(infos, d) ==
    LET off == {l \in DOMAIN infos : ~infos[l].enabled /\ File(l, TRUE) \in DOMAIN d}
    IN  Over([f \in {File(l, FALSE) : l \in off} |-> d[File(f[1], TRUE)]],
             Drop(d, {File(l, TRUE) : l \in off}))
startMem(infos, d) ==
    [c \in Colors |->
        [l \in {k \in DOMAIN infos : /\ infos[k].enabled /\ infos[k].color = c
                                     /\ File(k, TRUE) \in DOMAIN d} |->
            readFile(d, l, infos[l].mask)]]

\* What commands ask is about lists; an earlier run left the files of its
\* lists and a slot of its own.
ASSUME ListsAssumption ==
    /\ {StandardBit, ReinforcedBit} \subseteq Bits
    /\ None \notin Infos /\ None \notin Lists /\ LegacyInfos \subseteq Infos
    /\ Main \notin Sessions
    /\ \A b \in Bounds :
          b \in [{"commands", "legacy", "faults", "restarts"} -> Nat]
    /\ \A r \in Requests :
          /\ r.remove \subseteq Lists /\ DOMAIN r.upsert \subseteq Lists
          /\ \A l \in DOMAIN r.upsert :
                r.upsert[l].color \in Colors /\ r.upsert[l].mask \in Bits => r.upsert[l] \in Infos
    /\ \A s \in Starts :
          /\ IsMeta(s.meta) /\ (s.slot # None => IsSlot(s.slot))
          /\ DOMAIN s.dir \subseteq {File(l, s.meta[l].enabled) : l \in DOMAIN s.meta}
    /\ Queries \subseteq Seq(STRING)

----------------------------------------------------------------------------
\* The daemon has started on the save files of an earlier run.
Init ==
    /\ \E s \in Starts :
          meta = s.meta /\ dir = startDir(s.meta, s.dir) /\ slot = s.slot
    /\ mem = startMem(meta, dir)
    /\ agg = [c \in Colors |-> rebuildAgg(mem[c])]
    /\ backup = None
    /\ ip = 0
    /\ saved = [meta |-> meta, ip |-> 0]
    /\ cmd = Idle
    /\ leg = [t \in Threads |-> Rest]
    /\ left \in Bounds
    /\ ill = {}

\* The lists the vNext command in progress works on, those a thread's
\* legacy command works on, and both.
CmdLists == CASE cmd.op = "apply" -> DOMAIN cmd.removes \cup DOMAIN cmd.plan
              [] cmd.op = "import" -> {cmd.id}
              [] OTHER -> {}
WorksOn(t) == (DOMAIN leg[t].todo \cup {leg[t].id}) \ {None}
LegacyLists == UNION {WorksOn(t) : t \in Threads}
Busy == CmdLists \cup LegacyLists

\* A lock the threads hold during a command, or a save, is free.
Quiet(threads) == \A t \in threads : leg[t] = Rest

\* The restore holds mutexListeners exclusively from its publish step on.
Exclusive == cmd.op = "restore" /\ cmd.at # "lock"

----------------------------------------------------------------------------
(* DOMAINLISTS.APPLY.  The metadata is read once, before anything changes. *)

\* The lists to remove, each once; an unknown one is reported and skipped.
removeOrder(removes) == [l \in removes \cap DOMAIN meta |-> meta[l].color]

\* An upsert names a list kind and one supported mask bit.
ValidUpsert(new) == new.color \in Colors /\ new.mask \in Bits

\* What is planned for a list, with what is known of it; kind and mask of a
\* list do not change together.
PlannedList(l, new) == [new |-> new, old |-> Get(meta, l, None)]
MayChange(p) == p.old # None => p.old.color = p.new.color \/ p.old.mask = p.new.mask

\* A command that overlaps another one on a list is not promised anything
\* about it: the code orders their steps in no way.
Overlaps(work) == ill' = ill \cup (work \cap Busy)

\* The request is refused as a whole, or the command starts.  A list may not
\* be in both parts.
ApplyBegin(removes, upserts) ==
    /\ cmd = Idle
    /\ Spend("commands")
    /\ removes \cap DOMAIN upserts = {}
    /\ \A l \in DOMAIN upserts : ValidUpsert(upserts[l]) /\ MayChange(PlannedList(l, upserts[l]))
    /\ cmd' = [op |-> "apply", at |-> "next", id |-> None, removes |-> removeOrder(removes),
               plan |-> [l \in DOMAIN upserts |-> PlannedList(l, upserts[l])], held |-> Empty]
    /\ Overlaps(DOMAIN removeOrder(removes) \cup DOMAIN upserts)
    /\ UNCHANGED <<meta, mem, agg, dir, backup, ip, saved, slot, leg>>

\* The next list of the request: removals first, from memory, then its file,
\* then its metadata.
RemoveList(l) ==
    /\ cmd.op = "apply" /\ cmd.at = "next" /\ l \in DOMAIN cmd.removes
    /\ erase(cmd.removes[l], l)
    /\ cmd' = [cmd EXCEPT !.at = "unlink", !.id = l]
    /\ UNCHANGED <<meta, dir, backup, ip, saved, slot, leg, left, ill>>

RemoveFile ==
    /\ cmd.op = "apply" /\ cmd.at = "unlink"
    /\ unlink(cmd.id)
    /\ cmd' = [cmd EXCEPT !.at = "forget"]
    /\ UNCHANGED <<meta, mem, agg, backup, ip, saved, slot, leg>>

removeBlockingList ==
    /\ cmd.op = "apply" /\ cmd.at = "forget"
    /\ meta' = Drop(meta, {cmd.id})
    /\ cmd' = [cmd EXCEPT !.at = "next", !.removes = Drop(@, {cmd.id})]
    /\ UNCHANGED <<mem, agg, dir, backup, ip, saved, slot, leg, left, ill>>

\* The file an upsert needs before it renames or keeps it: the enabled form
\* to disable the list, the disabled form to create or enable it or to leave
\* it disabled.
EnsureFile(l) ==
    LET p == cmd.plan[l]
        on == p.old # None /\ p.old.enabled
    IN  /\ cmd.op = "apply" /\ cmd.at = "next" /\ cmd.removes = Empty /\ l \in DOMAIN cmd.plan
        /\ IF on /\ p.new.enabled THEN UNCHANGED dir /\ Keeps ELSE ensureFileExists(l, on)
        /\ cmd' = [cmd EXCEPT !.at = IF p.old = None THEN "add" ELSE "move", !.id = l]
        /\ UNCHANGED <<meta, mem, agg, backup, ip, saved, slot, leg>>

\* A new list: addBlockingList (enabled, unless the id has appeared) and then
\* updateBlockingList with the request's values.
addBlockingList ==
    /\ cmd.op = "apply" /\ cmd.at = "add"
    /\ meta' = IF cmd.id \in DOMAIN meta THEN meta
               ELSE Put(meta, cmd.id, [cmd.plan[cmd.id].new EXCEPT !.enabled = TRUE])
    /\ cmd' = [cmd EXCEPT !.at = "update"]
    /\ UNCHANGED <<mem, agg, dir, backup, ip, saved, slot, leg, left, ill>>

\* An existing list: disable (old colour), enable (new colour), or, enabled
\* before and after, switch the colour or change the mask.  A rename that
\* fails ends the command with INTERNAL_ERROR.
UpsertMove ==
    LET l == cmd.id
        p == cmd.plan[l]
        keeps == p.old.enabled /\ p.new.enabled
        after == [cmd EXCEPT !.at = "update"]
    IN  /\ cmd.op = "apply" /\ cmd.at = "move"
        /\ \/ /\ p.old.enabled /\ ~p.new.enabled
              /\ disable(l, p.old.color) /\ cmd' = after
           \/ /\ ~p.old.enabled /\ p.new.enabled
              /\ enable(l, p.new.mask, p.new.color) /\ cmd' = after
           \/ /\ p.old.enabled # p.new.enabled
              /\ renameFails(File(l, p.old.enabled)) /\ cmd' = Idle /\ UNCHANGED ill
           \/ /\ keeps /\ p.old.color # p.new.color
              /\ cmd' = [cmd EXCEPT !.at = "set", !.held = Contents(mem, p.old.color, l)]
              /\ UNCHANGED <<dir, mem, agg>> /\ Keeps
           \/ /\ keeps /\ p.old.mask # p.new.mask
              /\ changeBlockMask(l, p.new.mask, p.new.color) /\ cmd' = after
              /\ UNCHANGED dir /\ Keeps
           \/ /\ (keeps /\ p.old = p.new) \/ (~p.old.enabled /\ ~p.new.enabled)
              /\ cmd' = after /\ UNCHANGED <<dir, mem, agg>> /\ Keeps
        /\ UNCHANGED <<meta, backup, ip, saved, slot, leg>>

\* switchListColor: what was read is set in the new colour, and the old
\* colour forgets the list.
SwitchSet ==
    /\ cmd.op = "apply" /\ cmd.at = "set"
    /\ set(cmd.plan[cmd.id].new.color, cmd.id, cmd.held)
    /\ cmd' = [cmd EXCEPT !.at = "switched", !.held = Empty]
    /\ UNCHANGED <<meta, dir, backup, ip, saved, slot, leg, left, ill>>

SwitchErase ==
    /\ cmd.op = "apply" /\ cmd.at = "switched"
    /\ erase(cmd.plan[cmd.id].old.color, cmd.id)
    /\ cmd' = [cmd EXCEPT !.at = "update"]
    /\ UNCHANGED <<meta, dir, backup, ip, saved, slot, leg, left, ill>>

\* updateBlockingList; it fails when a legacy command has removed the list.
updateBlockingList ==
    LET l == cmd.id
        p == cmd.plan[l]
    IN  /\ cmd.op = "apply" /\ cmd.at = "update"
        /\ \/ /\ l \in DOMAIN meta
              /\ meta' = [meta EXCEPT ![l] = p.new]
              /\ cmd' = IF p.old = None
                        THEN [cmd EXCEPT !.at = "enable"]
                        ELSE [cmd EXCEPT !.at = "next", !.plan = Drop(@, {l})]
           \/ l \notin DOMAIN meta /\ cmd' = Idle /\ UNCHANGED meta
        /\ UNCHANGED <<mem, agg, dir, backup, ip, saved, slot, leg, left, ill>>

\* A new list: its file is renamed and read last, or is there in disabled
\* form.  Its metadata say enabled when the rename fails.
EnableNew ==
    LET l == cmd.id
        p == cmd.plan[l]
        done == [cmd EXCEPT !.at = "next", !.plan = Drop(@, {l})]
    IN  /\ cmd.op = "apply" /\ cmd.at = "enable"
        /\ \/ /\ p.new.enabled /\ enable(l, p.new.mask, p.new.color)
              /\ cmd' = done
           \/ /\ p.new.enabled /\ renameFails(File(l, FALSE)) /\ cmd' = Idle
              /\ ill' = IF File(l, FALSE) \in DOMAIN dir THEN ill \cup {l} ELSE ill
           \/ /\ ~p.new.enabled /\ ensureFileExists(l, FALSE)
              /\ cmd' = done /\ UNCHANGED <<mem, agg>>
        /\ UNCHANGED <<meta, backup, ip, saved, slot, leg>>

ApplyEnd ==
    /\ cmd.op = "apply" /\ cmd.at = "next" /\ cmd.removes = Empty /\ cmd.plan = Empty
    /\ cmd' = Idle
    /\ UNCHANGED <<meta, mem, agg, dir, backup, ip, saved, slot, leg, left, ill>>

----------------------------------------------------------------------------
(* DOMAINLISTS.IMPORT: merge, write and rename the file, publish.          *)

\* The request's kind and mask must be the stored ones, its names valid.
ImportBegin(l, doms, clear) ==
    /\ cmd = Idle
    /\ Spend("commands")
    /\ l \in DOMAIN meta /\ doms \cap BadDomains = {}
    /\ LET i == meta[l]
       IN  cmd' = [op |-> "import", at |-> "rename", id |-> l, info |-> i,
                   merged |-> importMerge(l, doms, i.mask, clear, i.enabled, i.color)]
    /\ Overlaps({l})
    /\ UNCHANGED <<meta, mem, agg, dir, backup, ip, saved, slot, leg>>

\* The temporary file replaces the list's file; a failure changes nothing.
ImportRename ==
    /\ cmd.op = "import" /\ cmd.at = "rename"
    /\ \/ /\ dir' = Put(dir, File(cmd.id, cmd.info.enabled), DOMAIN cmd.merged)
          /\ cmd' = [cmd EXCEPT !.at = "publish"]
          /\ UNCHANGED left
       \/ Spend("faults") /\ cmd' = Idle /\ UNCHANGED dir
    /\ UNCHANGED <<meta, mem, agg, backup, ip, saved, slot, leg, ill>>

ImportPublish ==
    /\ cmd.op = "import" /\ cmd.at = "publish"
    /\ IF cmd.info.enabled THEN set(cmd.info.color, cmd.id, cmd.merged)
                           ELSE UNCHANGED <<mem, agg>>
    /\ cmd' = Idle
    /\ UNCHANGED <<meta, dir, backup, ip, saved, slot, leg, left, ill>>

----------------------------------------------------------------------------
(* CHECKPOINT.SAVE, CLEAR and RESTORE of one slot, RESETALL, the other     *)
(* policy commands (IPRULES.APPLY), the periodic save and a restart.       *)

IpRulesApply ==
    /\ cmd = Idle
    /\ Spend("commands")
    /\ ip' = 1 - ip
    /\ UNCHANGED <<meta, mem, agg, dir, backup, saved, slot, cmd, leg, ill>>

\* captureLivePolicy: the metadata of all lists first, then their contents
\* as memory has them; `imported` is history, what the list's file holds.
CaptureLists ==
    /\ cmd = Idle /\ Quiet({Main})
    /\ Spend("commands")
    /\ cmd' = [op |-> "save", lists |-> meta]
    /\ UNCHANGED <<meta, mem, agg, dir, backup, ip, saved, slot, leg, ill>>

captureContents(lists) ==
    [l \in DOMAIN lists |->
        [info |-> lists[l],
         domains |-> DOMAIN Get(mem[lists[l].color], l, Empty),
         imported |-> FileOf(dir, l, lists[l].enabled)]]

\* validateBundle, for the lists: legacy commands may have stored names that
\* a bundle may not contain.
validateBundle(lists) == \A l \in DOMAIN lists : lists[l].domains \cap BadDomains = {}

\* writeSlotAtomically replaces the slot file by rename; an invalid bundle or
\* a failure leaves the old one.
CaptureWrite ==
    LET lists == captureContents(cmd.lists)
    IN
    /\ cmd.op = "save"
    /\ \/ validateBundle(lists) /\ slot' = [lists |-> lists, ip |-> ip] /\ UNCHANGED left
       \/ ~validateBundle(lists) /\ UNCHANGED <<slot, left>>
       \/ Spend("faults") /\ UNCHANGED slot
    /\ cmd' = Idle
    /\ UNCHANGED <<meta, mem, agg, dir, backup, ip, saved, leg, ill>>

clearSlot ==
    /\ cmd = Idle /\ Quiet({Main})
    /\ slot # None
    /\ Spend("commands")
    /\ slot' = None
    /\ UNCHANGED <<meta, mem, agg, dir, backup, ip, saved, cmd, leg, ill>>

bundleInfos(bundle) == [l \in DOMAIN bundle.lists |-> bundle.lists[l].info]

\* stageBundleForRestore: a file per list of the bundle in a stage directory.
prepareDomainListFiles(bundle) ==
    [f \in {File(l, bundle.lists[l].info.enabled) : l \in DOMAIN bundle.lists} |->
        bundle.lists[f[1]].domains]

RestoreStage ==
    /\ cmd = Idle /\ Quiet({Main})
    /\ slot # None
    /\ Spend("commands")
    /\ cmd' = [op |-> "restore", at |-> "lock", bundle |-> slot,
               stage |-> prepareDomainListFiles(slot)]
    /\ UNCHANGED <<meta, mem, agg, dir, backup, ip, saved, slot, leg, ill>>

Policy == [meta |-> meta, mem |-> mem, agg |-> agg, dir |-> dir, ip |-> ip]

\* The restore ends with an error after rollbackDomainListFiles: once the
\* stage has been published, the backup replaces it.
Fail(before) == cmd' = [op |-> "restore", at |-> "failed", before |-> before]

rollbackKeepStage(d, published) == d
rollbackDomainListFiles(d, published) == IF published THEN backup ELSE d

\* mutexListeners is taken; the directory is renamed to the backup name.
RestoreBackup ==
    /\ cmd.op = "restore" /\ cmd.at = "lock" /\ Quiet(Sessions)
    /\ \/ /\ backup' = dir /\ dir' = Empty
          /\ cmd' = [op |-> "restore", at |-> "publish", bundle |-> cmd.bundle,
                     stage |-> cmd.stage, before |-> Policy]
          /\ UNCHANGED left
       \/ /\ Spend("faults") /\ Fail(Policy)
          /\ dir' = rollbackDomainListFiles(dir, FALSE) /\ UNCHANGED backup
    /\ UNCHANGED <<meta, mem, agg, ip, saved, slot, leg, ill>>

\* The stage is renamed to the final name, or the backup is renamed back.
RestorePublish ==
    /\ cmd.op = "restore" /\ cmd.at = "publish"
    /\ \/ /\ dir' = cmd.stage
          /\ cmd' = [cmd EXCEPT !.at = "iprules"]
          /\ UNCHANGED <<backup, left>>
       \/ /\ Spend("faults") /\ Fail(cmd.before)
          /\ dir' = rollbackDomainListFiles(backup, FALSE) /\ backup' = None
    /\ UNCHANGED <<meta, mem, agg, ip, saved, slot, leg, ill>>

\* restorePolicySnapshot of the IP rules is the last step that may fail.
RestoreIpRules ==
    /\ cmd.op = "restore" /\ cmd.at = "iprules"
    /\ \/ /\ ip' = cmd.bundle.ip
          /\ cmd' = [cmd EXCEPT !.at = "live"]
          /\ UNCHANGED <<dir, backup, left>>
       \/ /\ Spend("faults") /\ Fail(cmd.before)
          /\ dir' = rollbackDomainListFiles(dir, TRUE) /\ backup' = None
          /\ UNCHANGED ip
    /\ UNCHANGED <<meta, mem, agg, saved, slot, leg, ill>>

resetPolicyKeepsLists(infos) ==
    PublishAll([c \in Colors |-> Over(mem[c], startMem(infos, dir)[c])])
\* resetPolicyForCheckpointRestore and start: memory holds the bundle's
\* enabled lists and nothing else.
resetPolicyAndStart(infos) == PublishAll(startMem(infos, dir))

\* Only files named after the bundle's lists stay.
cleanupStaleDomainListFiles(d, bundle) ==
    Drop(d, {f \in DOMAIN d : f[1] \notin DOMAIN bundle.lists})

\* The rest cannot fail: metadata, memory, stale files, the backup.
RestoreLive ==
    /\ cmd.op = "restore" /\ cmd.at = "live"
    /\ meta' = bundleInfos(cmd.bundle)
    /\ resetPolicyAndStart(bundleInfos(cmd.bundle))
    /\ dir' = cleanupStaleDomainListFiles(startDir(bundleInfos(cmd.bundle), dir), cmd.bundle)
    /\ backup' = None
    /\ cmd' = [cmd EXCEPT !.at = "saving"]
    /\ ill' = {}
    /\ UNCHANGED <<ip, saved, slot, leg, left>>

RestoreSave ==
    /\ cmd.op = "restore" /\ cmd.at = "saving"
    /\ \/ saved' = [meta |-> meta, ip |-> ip] /\ UNCHANGED left
       \/ Spend("faults") /\ saved' = [saved EXCEPT !.ip = ip]
    /\ cmd' = Idle
    /\ UNCHANGED <<meta, mem, agg, dir, backup, ip, slot, leg, ill>>

RestoreFailed ==
    /\ cmd.op = "restore" /\ cmd.at = "failed"
    /\ cmd' = Idle
    /\ UNCHANGED <<meta, mem, agg, dir, backup, ip, saved, slot, leg, left, ill>>

\* RESETALL holds every lock: memory, metadata, files and slots are cleared.
ResetAll ==
    /\ cmd = Idle /\ Quiet(Threads)
    /\ Spend("commands")
    /\ meta' = Empty /\ dir' = Empty /\ ip' = 0 /\ slot' = None
    /\ PublishAll([c \in Colors |-> Empty])
    /\ saved' = [meta |-> Empty, ip |-> 0]
    /\ ill' = {}
    /\ UNCHANGED <<backup, cmd, leg>>

\* The lists whose files and saved metadata a crash leaves at odds.
TornByCrash ==
    UNION {Busy,
           {l \in Lists : Get(saved.meta, l, None) # Get(meta, l, None)},
           IF Exclusive /\ cmd.at # "failed" THEN Lists ELSE {}}

\* A crash, and the start-up that follows: the directory is created if it is
\* missing, the metadata is restored and the lists are started.
Restart ==
    /\ Spend("restarts")
    /\ meta' = saved.meta /\ ip' = saved.ip
    /\ dir' = startDir(saved.meta, dir)
    /\ PublishAll(startMem(saved.meta, dir))
    /\ cmd' = Idle /\ backup' = None /\ leg' = [t \in Threads |-> Rest]
    /\ ill' = ill \cup TornByCrash
    /\ UNCHANGED <<saved, slot>>

----------------------------------------------------------------------------
(* BlockingListManager::save: a snapshot of the metadata, then a file that *)
(* is renamed.  Every save writes through the one stream of the Saver.     *)

\* The periodic snortSave excludes the checkpoint commands only.
Writing == {t \in Threads : leg[t].at = "rename"}
MaySave(t) == \/ t \in Sessions /\ leg[t].at = "save"
              \/ t = Main /\ leg[t] = Rest /\ cmd.op \notin {"save", "restore"}
SaveLists(t) ==
    /\ MaySave(t)
    /\ leg' = [u \in Threads |->
                  IF u = t THEN [Rest EXCEPT !.at = "rename", !.lists = meta, !.clash = Writing # {}]
                  ELSE IF u \in Writing THEN [leg[u] EXCEPT !.clash = TRUE] ELSE leg[u]]
    /\ UNCHANGED <<meta, mem, agg, dir, backup, ip, saved, slot, cmd, left, ill>>

\* Two saves at once race on the stream: a file of which nothing or a part
\* can be restored, or no new file.
SaveFile(t) ==
    LET new == [meta |-> leg[t].lists, ip |-> IF t = Main THEN ip ELSE saved.ip]
        part(L) == [new EXCEPT !.meta = Restrict(@, L)]
    IN  /\ leg[t].at = "rename"
        /\ \/ saved' = new /\ UNCHANGED left
           \/ saved' = [new EXCEPT !.meta = saved.meta]
              /\ IF leg[t].clash THEN UNCHANGED left ELSE Spend("faults")
           \/ /\ leg[t].clash /\ UNCHANGED left
              /\ \E L \in SUBSET DOMAIN leg[t].lists : saved' = part(L)
        /\ leg' = [leg EXCEPT ![t] = Rest]
        /\ UNCHANGED <<meta, mem, agg, dir, backup, ip, slot, cmd, ill>>

----------------------------------------------------------------------------
(* Legacy commands.  They take a colour, a mask and an enabled flag from   *)
(* the client and do not compare them with the stored ones.                *)

\* A session takes a request about lists, of which it is misused on some.
\* Requests wait while a restore holds mutexListeners.
MayBegin(s) == leg[s] = Rest /\ ~Exclusive /\ left["legacy"] > 0
Begin(s, work, misused, first) ==
    /\ MayBegin(s) /\ Spend("legacy")
    /\ leg' = [leg EXCEPT ![s] = first]
    /\ ill' = ill \cup misused \cup (work \cap Busy)
    /\ UNCHANGED <<mem, agg, dir, backup, ip, saved, slot, cmd>>

\* A command is misused on a list when its arguments disagree with the
\* stored metadata.
Misused(l, misuse) == IF misuse THEN {l} ELSE {}
ColorOf(l, c) == l \in DOMAIN meta => meta[l].color = c

\* addBlockingList and a save.
cmdAddBlockingList(s, l, c, mask) ==
    /\ l \notin DOMAIN meta
    /\ Begin(s, {l}, {}, Saving)
    /\ meta' = Put(meta, l, [color |-> c, mask |-> mask, enabled |-> TRUE])

\* getBlockMask: an unknown list is refused.
cmdUpdateBlockingList(s, l, new, timeOk) ==
    /\ l \in DOMAIN meta
    /\ LET masks == new.mask # meta[l].mask
           misuse == \/ ~timeOk \/ new.enabled # meta[l].enabled
                     \/ masks /\ new.color # meta[l].color
       IN  Begin(s, {l}, Misused(l, misuse),
                 [Rest EXCEPT !.at = IF masks THEN "mask" ELSE "color", !.id = l,
                              !.arg = [info |-> new, timeOk |-> timeOk]])
    /\ UNCHANGED meta

cmdRemoveBlockingList(s, l, c) ==
    /\ Begin(s, {l}, Misused(l, ~ColorOf(l, c)),
             [Rest EXCEPT !.at = "next", !.todo = [k \in {l} |-> c]])
    /\ UNCHANGED meta

\* listsSnapshot: every stored list is to be removed from its own colour.
cmdClearBlockingLists(s) ==
    /\ Begin(s, DOMAIN meta, {},
             [Rest EXCEPT !.at = IF meta = Empty THEN "save" ELSE "next",
                          !.todo = [l \in DOMAIN meta |-> meta[l].color]])
    /\ UNCHANGED meta

\* getBlockMask: an unknown list is refused.
cmdEnableBlockingList(s, l, c) ==
    /\ l \in DOMAIN meta
    /\ Begin(s, {l}, Misused(l, ~ColorOf(l, c)),
             [Rest EXCEPT !.at = "enable", !.id = l,
                          !.arg = [color |-> c, mask |-> meta[l].mask, enabled |-> TRUE]])
    /\ UNCHANGED meta

cmdDisableBlockingList(s, l, c) ==
    /\ Begin(s, {l}, Misused(l, l \notin DOMAIN meta \/ ~ColorOf(l, c)),
             [Rest EXCEPT !.at = "disable", !.id = l,
                          !.arg = [color |-> c, enabled |-> FALSE]])
    /\ UNCHANGED meta

cmdAddManyDomains(s, l, c, mask, clear, doms) ==
    /\ Begin(s, {l}, Misused(l, Get(meta, l, None) # [color |-> c, mask |-> mask, enabled |-> TRUE]),
             [Rest EXCEPT !.at = "write", !.id = l,
                          !.arg = [color |-> c, mask |-> mask, clear |-> clear, doms |-> doms]])
    /\ UNCHANGED meta

cmdSaveBlockingLists(s) == Begin(s, {}, {}, Saving) /\ UNCHANGED meta

\* The steps of a session's command, each a critical section of one manager
\* or a file operation outside of one.
Goes(s, next) ==
    leg' = [leg EXCEPT ![s] = next] /\ UNCHANGED <<backup, ip, saved, slot, cmd>>

\* UPDATE: the mask is changed in the request's colour before the colour is
\* switched, and both before the metadata.
UpdateMask(s) ==
    LET new == leg[s].arg.info
    IN  /\ leg[s].at = "mask"
        /\ changeBlockMask(leg[s].id, new.mask, new.color)
        /\ Goes(s, [leg[s] EXCEPT !.at = "color"])
        /\ UNCHANGED <<meta, dir, left, ill>>

getColor(s) ==
    /\ leg[s].at = "color"
    /\ Goes(s, [leg[s] EXCEPT !.at = IF ColorOf(leg[s].id, leg[s].arg.info.color)
                                     THEN "update" ELSE "get"])
    /\ UNCHANGED <<meta, mem, agg, dir, left, ill>>

\* switchListColor: get, set and erase.
SwitchGet(s) ==
    /\ leg[s].at = "get"
    /\ Goes(s, [leg[s] EXCEPT !.at = "set",
                   !.held = Contents(mem, Other(leg[s].arg.info.color), leg[s].id)])
    /\ UNCHANGED <<meta, mem, agg, dir, left, ill>>

SwitchPut(s) ==
    /\ leg[s].at = "set"
    /\ set(leg[s].arg.info.color, leg[s].id, leg[s].held)
    /\ Goes(s, [leg[s] EXCEPT !.at = "drop", !.held = Empty])
    /\ UNCHANGED <<meta, dir, left, ill>>

SwitchDrop(s) ==
    /\ leg[s].at = "drop"
    /\ erase(Other(leg[s].arg.info.color), leg[s].id)
    /\ Goes(s, [leg[s] EXCEPT !.at = "update"])
    /\ UNCHANGED <<meta, dir, left, ill>>

\* An invalid time, or a list removed meanwhile, ends the command unsaved.
UpdateMeta(s) ==
    LET l == leg[s].id
        ok == leg[s].arg.timeOk /\ l \in DOMAIN meta
    IN  /\ leg[s].at = "update"
        /\ meta' = IF ok THEN [meta EXCEPT ![l] = leg[s].arg.info] ELSE meta
        /\ Goes(s, IF ok THEN Saving ELSE Rest)
        /\ UNCHANGED <<mem, agg, dir, left, ill>>

\* REMOVE and CLEAR: memory, file and metadata of one list after the other.
Remove(s, l) ==
    /\ leg[s].at = "next" /\ l \in DOMAIN leg[s].todo
    /\ erase(leg[s].todo[l], l)
    /\ Goes(s, [leg[s] EXCEPT !.at = "unlink", !.id = l, !.todo = Drop(@, {l})])
    /\ UNCHANGED <<meta, dir, left, ill>>

Unlink(s) ==
    /\ leg[s].at = "unlink"
    /\ unlink(leg[s].id)
    /\ Goes(s, [leg[s] EXCEPT !.at = "forget"])
    /\ UNCHANGED <<meta, mem, agg>>

Forget(s) ==
    /\ leg[s].at = "forget"
    /\ meta' = Drop(meta, {leg[s].id})
    /\ Goes(s, IF leg[s].todo = Empty THEN Saving
               ELSE [leg[s] EXCEPT !.at = "next", !.id = None])
    /\ UNCHANGED <<mem, agg, dir, left, ill>>

\* ENABLE and DISABLE: the file and memory, then the metadata.
Enable(s) ==
    LET a == leg[s].arg
    IN  /\ leg[s].at = "enable"
        /\ \/ enable(leg[s].id, a.mask, a.color) /\ Goes(s, [leg[s] EXCEPT !.at = "flag"])
           \/ renameFails(File(leg[s].id, FALSE)) /\ Goes(s, Rest) /\ UNCHANGED ill
        /\ UNCHANGED meta

Disable(s) ==
    /\ leg[s].at = "disable"
    /\ \/ disable(leg[s].id, leg[s].arg.color) /\ Goes(s, [leg[s] EXCEPT !.at = "flag"])
       \/ renameFails(File(leg[s].id, TRUE)) /\ Goes(s, Rest) /\ UNCHANGED ill
    /\ UNCHANGED meta

\* An unknown list has nothing to save.
setEnabled(s) ==
    LET l == leg[s].id
        known == l \in DOMAIN meta
    IN  /\ leg[s].at = "flag"
        /\ meta' = IF known THEN [meta EXCEPT ![l].enabled = leg[s].arg.enabled] ELSE meta
        /\ Goes(s, IF known THEN Saving ELSE Rest)
        /\ UNCHANGED <<mem, agg, dir, left, ill>>

\* ADDMANY.
AddDomains(s) ==
    LET a == leg[s].arg
        l == leg[s].id
    IN  /\ leg[s].at = "write"
        /\ \/ write(l, a.doms, a.mask, a.clear, a.color)
           \/ writeNotOpened(l, a.clear, a.color)
           \/ writeTorn(l, a.doms, a.mask, a.clear, a.color)
        /\ Goes(s, Rest)
        /\ UNCHANGED meta

----------------------------------------------------------------------------
VNext ==
    \/ \E r \in Requests : ApplyBegin(r.remove, r.upsert)
    \/ \E l \in Lists : RemoveList(l) \/ EnsureFile(l)
    \/ RemoveFile \/ removeBlockingList \/ addBlockingList
    \/ UpsertMove \/ SwitchSet \/ SwitchErase
    \/ updateBlockingList \/ EnableNew \/ ApplyEnd
    \/ \E l \in Lists, D \in Imports, clear \in BOOLEAN : ImportBegin(l, D, clear)
    \/ ImportRename \/ ImportPublish
    \/ IpRulesApply \/ CaptureLists \/ CaptureWrite \/ clearSlot
    \/ RestoreStage \/ RestoreBackup \/ RestorePublish \/ RestoreIpRules
    \/ RestoreLive \/ RestoreSave \/ RestoreFailed \/ ResetAll

LegacyRequest(s) ==
    \/ \E l \in Lists, c \in Colors :
          \/ cmdRemoveBlockingList(s, l, c) \/ cmdEnableBlockingList(s, l, c)
          \/ cmdDisableBlockingList(s, l, c)
    \/ \E l \in Lists, i \in LegacyInfos :
          \/ cmdAddBlockingList(s, l, i.color, i.mask)
          \/ \E timeOk \in BOOLEAN : cmdUpdateBlockingList(s, l, i, timeOk)
          \/ \E clear \in BOOLEAN, D \in Imports :
                cmdAddManyDomains(s, l, i.color, i.mask, clear, D)
    \/ cmdClearBlockingLists(s) \/ cmdSaveBlockingLists(s)

LegacyStep(s) ==
    \/ UpdateMask(s) \/ getColor(s) \/ SwitchGet(s) \/ SwitchPut(s) \/ SwitchDrop(s)
    \/ UpdateMeta(s) \/ (\E l \in Lists : Remove(s, l)) \/ Unlink(s) \/ Forget(s)
    \/ Enable(s) \/ Disable(s) \/ setEnabled(s) \/ AddDomains(s)

Next ==
    \/ VNext
    \/ \E s \in Sessions : \/ MayBegin(s) /\ LegacyRequest(s)
                           \/ leg[s] # Rest /\ LegacyStep(s)
    \/ \E t \in Threads : SaveLists(t) \/ SaveFile(t)
    \/ Restart

Spec == Init /\ [][Next]_vars

----------------------------------------------------------------------------
(* Properties.                                                             *)

\* Memory m and files d hold list l as its metadata i say (None: not at all).
AgreesAs(m, d, i, l) ==
    /\ \A c \in Colors :
          Contents(m, c, l) = IF i # None /\ i.enabled /\ i.color = c
                              THEN readFile(d, l, i.mask) ELSE Empty
    /\ \A on \in BOOLEAN : File(l, on) \in DOMAIN d => i # None /\ i.enabled = on
Agree(l) == AgreesAs(mem, dir, Get(meta, l, None), l)

\* A list that nothing has gone wrong with, and no command works on, is
\* enforced exactly as its metadata and its file say: in its colour, with its
\* mask and with the contents of its enabled file, and not at all when it is
\* disabled or unknown; it has no file but the one its metadata name, which
\* would come back later.  Every command changes the three places in separate
\* critical sections; those of commands on other lists, saves and harmless
\* file failures come in between.
ListsAgree ==
    ~Exclusive => \A l \in Lists \ (ill \cup Busy) : Agree(l)

\* The mask wanted for a name: of the longest listed suffix, the bits of all
\* enabled lists of the colour that hold it.
WantedMask(c, name) ==
    LET q == IF name[Len(name)] = "" THEN SubSeq(name, 1, Len(name) - 1) ELSE name
        on == {l \in DOMAIN meta : meta[l].enabled /\ meta[l].color = c}
        Holding(i) == {l \in on : SubSeq(q, i, Len(q)) \in FileOf(dir, l, TRUE)}
        hits == {i \in 1..Len(q) : (i = 1 \/ i < Len(q)) /\ Holding(i) # {}}
    IN  IF hits = {} THEN {} ELSE {meta[l].mask : l \in Holding(Min(hits))}

\* Between commands, and if nothing has gone wrong with any list, a looked-up
\* name gets the mask the enabled lists give it, through the aggregates of
\* both colours: whichever way the steps of several sessions have interleaved
\* no change stays unpublished, and an allow list hit wins.
DecisionsFollowLists ==
    ill \cup Busy = {} /\ ~Exclusive =>
        \A q \in Queries :
            initDomain(q).mask = IF WantedMask("white", q) # {} THEN {}
                                 ELSE WantedMask("black", q)

\* A restore that fails at any step (either rename of the directories, or the
\* IP rules) leaves metadata, memory, files and IP rules as they were.
FailedRestoreHarmless ==
    cmd.op = "restore" /\ cmd.at = "failed" => Policy = cmd.before

\* After a restore the lists are the slot's: its metadata, its IP rules, in
\* memory the contents it holds of its enabled lists, and no other list.
RestoredAsSaved ==
    cmd.op = "restore" /\ cmd.at = "saving" =>
        /\ meta = bundleInfos(cmd.bundle) /\ ip = cmd.bundle.ip
        /\ \A l \in Lists : Agree(l)
        /\ \A l \in DOMAIN meta : meta[l].enabled =>
              DOMAIN Contents(mem, meta[l].color, l) = cmd.bundle.lists[l].domains

\* A crash and restart, at any step of any command, does not change what a
\* list enforces that nothing has gone wrong with, that no command works on
\* and whose metadata the save file holds: overlapping and torn saves
\* included, the files and the metadata bring back what memory had.
RestartReproduces ==
    [][Restart => \A l \in Lists \ ill' : \A c \in Colors :
                     Contents(mem', c, l) = Contents(mem, c, l)]_vars

\* A checkpoint holds the imported contents of every list it names, enabled
\* or not.
CheckpointHasContents ==
    slot # None => \A l \in DOMAIN slot.lists :
                      slot.lists[l].domains = slot.lists[l].imported

=============================================================================
