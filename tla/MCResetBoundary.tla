---------------------------- MODULE MCResetBoundary ----------------------------
(* One run over three casts: traffic against one control session, two control sessions  *)
(* against the package listener, and traffic with a control session and the main thread.*)
EXTENDS ResetBoundary

CONSTANTS p, d, c1, c2, m
VARIABLE cast

Casts == {{p, d, c1}, {p, c1, m}, {p, c1}, {c1, c2, "packages"}}

\* A thread outside the cast stays idle; without the package listener nothing is
\* installed or removed.
Play == /\ Next
        /\ \A t \in Threads \ cast : pc'[t] = "idle"
        /\ "packages" \notin cast => UNCHANGED changes
        /\ Cardinality(cast) = 3 /\ p \in cast => op'[c1] \in Resetting \cup {"none"}
        /\ UNCHANGED cast

MCInit == Init /\ cast \in Casts
MCSpec == MCInit /\ [][Play]_<<vars, cast>>
MCFairSpec == MCSpec /\ \A t \in Threads : SF_vars(Busy(t) /\ ThreadStep(t))
===============================================================================
