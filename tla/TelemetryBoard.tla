------------------------------ MODULE TelemetryBoard ------------------------------
(***************************************************************************)
(* What the telemetry export channel promises its single consumer: a board *)
(* of SlotCount places.  A place is either unreadable or shows exactly one *)
(* whole record, named by its transport ticket; a record only ever shows   *)
(* up in the place its ticket selects, and only after its ticket was       *)
(* issued.  A new session starts with an empty board and tickets from 0.   *)
(***************************************************************************)
EXTENDS Naturals

CONSTANTS SlotCount, NoRecord

VARIABLES issued, board

Places == 0 .. SlotCount - 1

BoardInit ==
    /\ issued = 0
    /\ board = [i \in Places |-> NoRecord]

\* A producer takes the next ticket.
Issue ==
    /\ issued' = issued + 1
    /\ UNCHANGED board

\* A producer claims a place: what it showed is gone.
Hide(i) ==
    /\ board' = [board EXCEPT ![i] = NoRecord]
    /\ UNCHANGED issued

\* A producer publishes a whole record at the place its ticket selects.
Publish(i, t) ==
    /\ board[i] = NoRecord
    /\ t \in 0 .. issued - 1
    /\ t % SlotCount = i
    /\ board' = [board EXCEPT ![i] = t]
    /\ UNCHANGED issued

\* A session boundary: OPEN, CLOSE or RESETALL.
Renew ==
    /\ issued' = 0
    /\ board' = [i \in Places |-> NoRecord]

BoardNext ==
    \/ Issue
    \/ Renew
    \/ \E i \in Places : Hide(i) \/ \E t \in 0 .. issued - 1 : Publish(i, t)

BoardSpec == BoardInit /\ [][BoardNext]_<<issued, board>>
================================================================================
