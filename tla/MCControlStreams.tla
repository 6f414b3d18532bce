-------------------------- MODULE MCControlStreams --------------------------
(* Two sessions and two accept loops.  Scenes: three clients ask for two   *)
(* places and a signal ends them; one client starts, stops and starts a    *)
(* stream while events happen; two clients, one of which resets; the       *)
(* activity stream.                                                        *)
EXTENDS ControlStreams

CONSTANTS s1, s2
MCSessions == {s1, s2}

Scene(clients, commands, events, quiet, signals, streams) ==
  [clients |-> clients, commands |-> commands, events |-> events, suppressed |-> quiet,
   signals |-> signals, streams |-> streams]

MCScenes ==
  {Scene(3, 1, 0, 0, 1, {"pkt"}),
   Scene(1, 3, 3, 1, 0, {"pkt"}),
   Scene(2, 3, 2, 0, 0, {"pkt"}),
   Scene(2, 2, 2, 0, 0, {"activity"})}
\* The replay of start is pushPending of one event after the other.
ASSUME \A q \in SeqOf(1..3, 4) :
  Replay(q) = FoldLeft(LAMBDA st, n : pushPending(st.q, st.d, n), [q |-> << >>, d |-> 0], q)
=============================================================================
