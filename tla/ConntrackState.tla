---------------------------- MODULE ConntrackState ----------------------------
(***************************************************************************)
(* Connection tracking as the policy sees it: the state of a flow's entry, *)
(* how a packet looks it up and advances it (inspectForPolicy), and the    *)
(* entry budget that the IPv4 and the IPv6 table share.  Reclamation of    *)
(* retired entries is module ConntrackEpoch, telemetry fields are module   *)
(* FlowRecords.                                                            *)
(*                                                                         *)
(* A flow is an unordered pair of endpoints of one uid and protocol, so a  *)
(* packet is in the flow's original direction or in reply (rev).  Entries  *)
(* of a flow are a sequence, newest first: an expired entry the sweep has  *)
(* not reached stays behind a new one.  Time is the flag expired, which    *)
(* any time may set and an update clears.  A table is split into shards.   *)
(***************************************************************************)
EXTENDS Integers, Sequences, FiniteSets, SequencesExt

CONSTANTS
  Flows,
  FamilyOf,    \* flow -> "ipv4" or "ipv6"
  ProtoOf,     \* flow -> "TCP", "UDP", "ICMP" or "OTHER"
  ShardOf,     \* flow -> shard of its table
  Packets,     \* [flow, rev, flags, l4]: flags is what the header says, a set (TCP
               \* flags, an ICMP type, ...); l4 is false for a fragment or an
               \* unreadable header
  MaxEntries   \* opt.maxEntries

ASSUME ConntrackStateAssumption ==
  /\ MaxEntries \in Nat \ {0}
  /\ IsFiniteSet(Flows) /\ FamilyOf \in [Flows -> {"ipv4", "ipv6"}]
  /\ \A p \in Packets : p.flow \in Flows /\ p.rev \in BOOLEAN /\ p.l4 \in BOOLEAN

VARIABLES
  chain,   \* entries of each flow, newest first
  total    \* shared->totalEntries

ctVars == <<chain, total>>

CLOSED == 0
SYN_SENT == 1
ESTABLISHED == 2
CLOSING == 3
FIN_WAIT_2 == 4
TIME_WAIT == 5
FIRST == 0
MULTIPLE == 1      \* REPLY of an ICMP entry
BIDIR == 2
REPLIED == 1

InvalidView == [state |-> "INVALID", dir |-> "ANY", create |-> FALSE]
View(state, rev) == [state |-> state, dir |-> IF rev THEN "REPLY" ELSE "ORIG", create |-> FALSE]

\* tcpInvalidFlags, and a header whose lengths do not add up.
tcpInvalid(flags) ==
  \/ "BADLEN" \in flags
  \/ "SYN" \in flags /\ flags \cap {"RST", "FIN"} # {}
  \/ flags \cap {"SYN", "ACK", "RST"} = {}
  \/ "ACK" \notin flags /\ flags \cap {"FIN", "PSH", "URG"} # {}

tcpValidNew(flags) == ~tcpInvalid(flags) /\ ~({"SYN", "ACK"} \subseteq flags)

tcpValidUpdate(flags) == ~tcpInvalid(flags)

\* Only an ICMP request starts a flow; code is a code other than 0.
icmp4ValidNew(flags) == "code" \notin flags /\ flags \cap {"echo", "timestamp", "info"} # {}
icmp6ValidNew(flags) == "code" \notin flags /\ "echo" \in flags

ValidNew(p) ==
  CASE ProtoOf[p.flow] = "TCP" -> tcpValidNew(p.flags)
    [] ProtoOf[p.flow] = "ICMP" ->
         IF FamilyOf[p.flow] = "ipv4" THEN icmp4ValidNew(p.flags) ELSE icmp6ValidNew(p.flags)
    [] OTHER -> TRUE

\* makeKey: a packet with a port 0, or an ICMP message that is neither a request
\* nor an answer, has no flow (echo, timestamp and info are requests).
makeKeyV4(p) ==
  CASE ProtoOf[p.flow] \in {"TCP", "UDP"} -> "port0" \notin p.flags
    [] ProtoOf[p.flow] = "ICMP" ->
         /\ "code" \notin p.flags
         /\ p.flags \cap {"echo", "timestamp", "info", "echoReply", "timestampReply", "infoReply"} # {}
    [] OTHER -> TRUE

makeKeyV6(p) ==
  CASE ProtoOf[p.flow] \in {"TCP", "UDP"} -> "port0" \notin p.flags
    [] ProtoOf[p.flow] = "ICMP" -> "code" \notin p.flags /\ p.flags \cap {"echo", "echoReply"} # {}
    [] OTHER -> TRUE

Keyed(p) == p.l4 /\ IF FamilyOf[p.flow] = "ipv4" THEN makeKeyV4(p) ELSE makeKeyV6(p)

bumpAtLeast(s, target) == IF s < target THEN target ELSE s

\* The TCP branch of updateExisting: src is the peer that sends the packet.
tcpUpdate(e, p) ==
  LET src == IF p.rev THEN e.s1 ELSE e.s0
      dst == IF p.rev THEN e.s0 ELSE e.s1
      src1 == IF "SYN" \in p.flags THEN bumpAtLeast(src, SYN_SENT) ELSE src
      src2 == IF "FIN" \in p.flags THEN bumpAtLeast(src1, CLOSING) ELSE src1
      dst2 == IF "ACK" \notin p.flags THEN dst
              ELSE IF dst = SYN_SENT THEN ESTABLISHED
              ELSE IF dst = CLOSING THEN FIN_WAIT_2 ELSE dst
  IN IF "RST" \in p.flags THEN [e EXCEPT !.s0 = TIME_WAIT, !.s1 = TIME_WAIT, !.expired = FALSE]
     ELSE [e EXCEPT !.s0 = IF p.rev THEN dst2 ELSE src2,
                    !.s1 = IF p.rev THEN src2 ELSE dst2, !.expired = FALSE]

icmpUpdate(e, p) == [e EXCEPT !.s0 = IF p.rev THEN REPLIED ELSE @, !.expired = FALSE]

otherUpdate(e, p) ==
  [e EXCEPT !.s0 = IF p.rev THEN BIDIR ELSE IF @ = FIRST THEN MULTIPLE ELSE @, !.expired = FALSE]

\* updateExisting: the entry after the packet; an invalid TCP packet leaves it.
updateExisting(e, p) ==
  CASE ProtoOf[p.flow] = "TCP" -> IF tcpValidUpdate(p.flags) THEN tcpUpdate(e, p) ELSE e
    [] ProtoOf[p.flow] = "ICMP" -> icmpUpdate(e, p)
    [] OTHER -> otherUpdate(e, p)

\* ... and the view the policy gets: every packet of a TCP entry is ESTABLISHED.
viewOf(e, p) ==
  LET n == updateExisting(e, p)
  IN CASE ProtoOf[p.flow] = "TCP" ->
            IF tcpValidUpdate(p.flags) THEN View("ESTABLISHED", p.rev) ELSE InvalidView
       [] ProtoOf[p.flow] = "ICMP" -> View(IF n.s0 = REPLIED THEN "ESTABLISHED" ELSE "NEW", p.rev)
       [] OTHER -> View(IF n.s0 = BIDIR THEN "ESTABLISHED" ELSE "NEW", p.rev)

\* The walk stops at the newest entry of the flow; an expired one is a miss.
Found(f) == chain[f] # << >> /\ ~chain[f][1].expired

\* A new entry: the direction of the packet that makes it is the original one.
\* by is history (an accepted packet, or telemetry); seen is set once the
\* telemetry session may have exported the entry.
NewEntry(p, by) ==
  [s0 |-> IF ProtoOf[p.flow] = "TCP" THEN SYN_SENT ELSE FIRST, s1 |-> CLOSED,
   rev |-> p.rev, expired |-> FALSE, by |-> by, seen |-> by = "telemetry"]

\* keyEq against key or revKey: the packet's direction in its entry.
Oriented(p) == [p EXCEPT !.rev = (p.rev # chain[p.flow][1].rev)]

InShard(f) == {g \in Flows : FamilyOf[g] = FamilyOf[f] /\ ShardOf[g] = ShardOf[f]}

\* sweepLocked has a budget: it retires the expired entries of some flows.  An
\* entry behind another one is expired (a new one is linked only when the walk
\* found none), so what stays is at most the newest.
Live(q) == IF q # << >> /\ ~q[1].expired THEN <<q[1]>> ELSE << >>
Swept(c, S) == [g \in Flows |-> IF g \in S THEN Live(c[g]) ELSE c[g]]

Entries(c) == Cardinality(UNION {{f} \X DOMAIN c[f] : f \in Flows})

CtInit == chain = [f \in Flows |-> << >>] /\ total = 0
=============================================================================
