-------------------------- MODULE MCPacketDecision --------------------------
(* A TCP flow over IPv4 and a UDP flow over IPv6 of one app, addresses of  *)
(* two bytes of two bits, and rules that meet in subtables and buckets in  *)
(* every way: open, by conntrack state, exact and range port, prefix,      *)
(* would-block.                                                            *)
EXTENDS PacketDecision

CONSTANTS tcp, udp, c1, c2, t1, t2

MCFlows == {tcp, udp}
MCFamilyOf == [f \in MCFlows |-> IF f = tcp THEN "ipv4" ELSE "ipv6"]
MCProtoOf == [f \in MCFlows |-> IF f = tcp THEN "TCP" ELSE "UDP"]
MCShardOf == [f \in MCFlows |-> 0]

Pkt(f, rev, flags, l4) == [flow |-> f, rev |-> rev, flags |-> flags, l4 |-> l4]
Syn == Pkt(tcp, FALSE, {"SYN"}, TRUE)
SynAck == Pkt(tcp, TRUE, {"SYN", "ACK"}, TRUE)
Unreadable == Pkt(tcp, FALSE, {}, FALSE)
Port0 == Pkt(tcp, FALSE, {"SYN", "port0"}, TRUE)
Reply6 == Pkt(udp, TRUE, {}, TRUE)
MCPackets == {Syn, SynAck, Unreadable, Port0, Reply6}

Arrival(p, tele, iface, on) == [pkt |-> p, tele |-> tele, iface |-> iface, on |-> on]
MCArrivals ==
  {Arrival(p, FALSE, FALSE, TRUE) : p \in {Syn, SynAck, Unreadable}}
    \cup {Arrival(p, TRUE, FALSE, TRUE) : p \in {Syn, Reply6}}
    \cup {Arrival(Syn, TRUE, FALSE, FALSE), Arrival(Syn, TRUE, TRUE, TRUE), Arrival(Port0, TRUE, TRUE, TRUE)}

SynOnly == {Arrival(Syn, TRUE, FALSE, TRUE)}

NoEq == [f \in EqSet |-> IF f = "ifindex" THEN 0 ELSE Open]
NoCidr == [s \in Sides |-> Open]
AnyPort == [kind |-> "ANY", lo |-> 0, hi |-> 0]
NoPort == [s \in Sides |-> AnyPort]

Template(family, action, priority, enforce) ==
  [family |-> family, action |-> action, priority |-> priority, enabled |-> TRUE,
   enforce |-> enforce, log |-> ~enforce, eq |-> NoEq, cidr |-> NoCidr, port |-> NoPort]

AllowAll == Template("ipv4", "ALLOW", 1, TRUE)
BlockNew == [Template("ipv4", "BLOCK", 2, TRUE) EXCEPT !.eq["ctState"] = "NEW"]
BlockPort == [Template("ipv4", "BLOCK", 1, TRUE) EXCEPT !.port["dst"] = [kind |-> "EXACT", lo |-> 2, hi |-> 2]]
AllowRange == [Template("ipv4", "ALLOW", 2, TRUE) EXCEPT !.port["dst"] = [kind |-> "RANGE", lo |-> 1, hi |-> 2]]
Would == Template("ipv4", "BLOCK", 3, FALSE)
BlockNet6 == [Template("ipv6", "BLOCK", 2, TRUE) EXCEPT !.cidr["dst"] = [addr |-> 8, prefix |-> 3]]
AllowNet6 == [Template("ipv6", "ALLOW", 3, TRUE) EXCEPT !.cidr["dst"] = [addr |-> 10, prefix |-> 4]]
AllowEst6 == [Template("ipv6", "ALLOW", 1, TRUE) EXCEPT !.eq["ctState"] = "ESTABLISHED"]
BlockNet4 == [Template("ipv4", "BLOCK", 1, TRUE) EXCEPT !.cidr["dst"] = [addr |-> 9, prefix |-> 1]]

Lowest == Template("ipv4", "BLOCK", 0, TRUE)

MCTemplates == {BlockNew}
BadPrefix6 == [Template("ipv6", "ALLOW", 1, TRUE) EXCEPT !.cidr["dst"] = [addr |-> 8, prefix |-> 5]]
MCPayloads == {<< <<c1, BlockNew>>, <<c2, AllowEst6>> >>, << <<c1, BlockNew>>, <<c2, BlockNew>> >>,
               << <<c1, AllowAll>>, <<c2, BadPrefix6>> >>}
Some == {AllowAll, BlockNew, BlockPort, AllowRange, Would, BlockNet4}
MCBusyFiles == {<< <<1, Would>> >>}
MCFiles == MCBusyFiles \cup UNION {[1..n -> {1} \X Some] : n \in 0..2}
                       \cup [1..3 -> {1} \X {AllowAll, BlockPort, AllowRange, BlockNet4}]
                       \cup {<< <<1, Lowest>> >>, << <<1, Would>>, <<1, Lowest>> >>, << <<1, AllowAll>>, <<1, Lowest>> >>}
                       \cup [1..2 -> {1} \X {BlockNet6, AllowEst6, AllowNet6}]
NewBlocked == {<< <<1, BlockNew>> >>}
MCSymmetry == Permutations({t1, t2})

MCFlowKey ==
  [f \in MCFlows |->
    [uid |-> 1, family |-> MCFamilyOf[f], portsAvailable |-> TRUE,
     eq |-> [g \in EqSet |-> IF g = "proto" THEN MCProtoOf[f] ELSE 0],
     ip |-> [s \in Sides |-> IF s = "src" THEN 1 ELSE 9],
     port |-> [s \in Sides |-> IF s = "src" THEN 3 ELSE 2]]]

MCKeys ==
  {[KeyOf(p, TRUE, v) EXCEPT !.ip["dst"] = a] :
     p \in MCPackets, v \in {InvalidView, View("NEW", FALSE), View("ESTABLISHED", TRUE)}, a \in {1, 10, 12}}
=============================================================================
