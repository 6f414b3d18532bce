------------------------------ MODULE MCConntrackEpoch ------------------------------
(* Two packet threads on one bucket, with a slot for each, in two scenes: both insert,  *)
(* sweep and reclaim, with two heap cells; and one does while the other only looks up,  *)
(* with the three cells it takes until a retired entry is freed.                        *)
EXTENDS ConntrackEpoch

CONSTANT reader     \* a thread
VARIABLE scene

\* Heap cells are numbered and the allocator returns the lowest free one.
Play == /\ Next
        /\ \A e \in heap' \ heap : \A f \in Entries \ heap : e <= f
        /\ IF scene = "writers" THEN Cardinality(heap') <= 2 ELSE mutex' # reader
        /\ UNCHANGED scene

MCInit == Init /\ scene \in {"writers", "reader"}

\* A thread that entered a function keeps running: no step of it waits for a packet.
FairSpec == /\ MCInit
            /\ [][Play]_<<vars, scene>>
            /\ \A t \in Threads : WF_vars(Step(t))

\* The reclaim gate, at which enter() spins, does not stay closed: the reclaimer waits
\* for the shard mutex only, and no thread waits at the gate with the mutex held.
GateReopens == []<>~reclaiming
=====================================================================================
