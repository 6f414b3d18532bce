--------------------------- MODULE MCDomainLists ---------------------------
(* Two lists; a name, its parent and a name below both are looked up.      *)
EXTENDS DomainLists, TLC

Parent == <<"b", "c">>
Child == <<"a", "b", "c">>
Bad == <<"-">>
MCImports == {{Parent}, {Child, Bad}}
MCBadDomains == {Bad}
MCQueries == {Child, Parent, <<"x", "a", "b", "c", "">>, <<"c">>}
Info(c, mask, on) == [color |-> c, mask |-> mask, enabled |-> on]
Saved(info, doms) == [info |-> info, domains |-> doms, imported |-> doms]

\* A fresh device, and one with an enabled and a disabled list whose slot was
\* saved when the first was disabled and empty and the second an enabled
\* block list.
MCStarts ==
    {[meta |-> Empty, dir |-> Empty, slot |-> None]} \cup
    {[meta |-> (l :> Info("black", 1, TRUE)) @@ (k :> Info("white", 2, FALSE)),
      dir |-> (File(l, TRUE) :> {Parent}) @@ (File(k, FALSE) :> {Child}),
      slot |-> [ip |-> 1,
                lists |-> (l :> Saved(Info("black", 1, FALSE), {}))
                       @@ (k :> Saved(Info("black", 2, TRUE), {Child}))]]
        : <<l, k>> \in {p \in Lists \X Lists : p[1] # p[2]}}

\* Requests about one list, two about both, and two that are refused: a
\* mask of two bits, a list in both parts.
MCRequests ==
    {[remove |-> {}, upsert |-> l :> Info("black", 3, TRUE)] : l \in Lists} \cup
    {[remove |-> {l}, upsert |-> l :> Info("black", 1, TRUE)] : l \in Lists} \cup
    {[remove |-> {l}, upsert |-> Empty] : l \in Lists} \cup
    {[remove |-> {}, upsert |-> l :> i] : <<l, i>> \in Lists \X
        (Infos \ {Info("black", 2, FALSE), Info("white", 1, FALSE)})} \cup
    UNION {{[remove |-> {l}, upsert |-> k :> Info("black", 2, TRUE)],
            [remove |-> {}, upsert |-> l :> Info("black", 1, FALSE)
                                       @@ k :> Info("white", 2, TRUE)]}
             : <<l, k>> \in {p \in Lists \X Lists : p[1] # p[2]}}
MCLegacyInfos == {Info("black", 1, TRUE), Info("black", 2, TRUE), Info("white", 1, TRUE)}

\* What may happen in one run: each hazard with the actors it needs.
Scene(commands, legacy, faults, restarts) ==
    [commands |-> commands, legacy |-> legacy, faults |-> faults, restarts |-> restarts]
MCBounds == {Scene(2, 0, 1, 1), Scene(1, 1, 1, 0), Scene(1, 1, 0, 1),
             Scene(0, 2, 1, 0), Scene(0, 2, 0, 1)}
CommandsOnly == {Scene(2, 0, 0, 0)}
MCSymmetry == Permutations(Lists) \cup Permutations(Sessions)
=============================================================================
