------------------------------ MODULE MCRouter ------------------------------
(* Instance of Router for TLC: interface 1 is 10.1.0.1/16, interface 2 is   *)
(* 11.0.0.1/8, with a host behind each.                                     *)
EXTENDS Router, TLC

CONSTANTS
  any,               \* 0.0.0.0
  own1, own2,        \* 10.1.0.1, 11.0.0.1
  host1, host2,      \* 10.1.0.9, 11.0.0.9
  host3,             \* 11.0.0.10
  net1, wide1, net2, \* 10.1.0.0, 10.0.0.0, 11.0.0.0
  a, b, c, mac1, mac2

MCIp == {any, own1, own2, host1, host2, host3, net1, wide1, net2}
MCMac == {a, b, c}
MCIfcIp == <<own1, own2>>
MCIfcMac == <<mac1, mac2>>
MCIfcPrefix == <<16, 8>>
MCPrefix == {0, 8, 16, 24, 25}
MCMtu == <<400, Unspecified>>

MCMasked(q, p) ==
  IF q \in {own1, host1, net1} THEN IF p = 8 THEN wide1 ELSE net1
  ELSE IF q \in {own2, host2, host3} THEN net2
  ELSE q

\* A packet to a host behind either interface: with a TTL that is used up, one
\* that fits everywhere, one that is larger than the MTU of interface 1, and one
\* that is too large for an ICMP message.
Pkt(dst, ttl, payload, df) == [dst |-> dst, src |-> a, ttl |-> ttl, payload |-> payload, df |-> df]
MCPacket ==
  {Pkt(host2, 0, 8, FALSE), Pkt(host1, 1, 8, FALSE), Pkt(host2, 1, 8, FALSE),
   Pkt(host2, 2, 400, FALSE), Pkt(host2, 2, 400, TRUE), Pkt(host2, 0, 65474, FALSE)}

Line(sub, target, p, gateway, ifc) ==
  <<Word("route"), Word(sub), Network(target, p), Word("via"), Address(gateway),
    Word("dev"), Name(ifc)>>

\* the two connected routes, which can only be deleted (0.0.0.0 is never in the
\* ARP cache), one to the first network with a longer mask, and a default route
RouteLines ==
  {Line("del", net1, 16, any, 1), Line("del", net2, 8, any, 2), Line("add", net2, 8, any, 2)}
  \union
  UNION {{Line(sub, net1, 24, host1, 1), Line(sub, any, 0, host2, 2)} : sub \in {"add", "del"}}

\* one to the first network with a mask that reaches into the last byte
LongMaskLine == Line("add", net1, 25, host1, 1)

QueryLines == {<<Word("arp"), Address(host1), Name(1)>>, <<Word("arp"), Address(host3), Name(2)>>}

\* lines that end early, have a wrong word, or one too many
OtherLines ==
  {<<>>, <<Word("help")>>, <<Word("arp")>>, <<Word("arp"), Address(host1)>>,
   <<Word("arp"), Name(1), Name(1)>>, <<Word("route")>>, <<Word("route"), Word("list")>>,
   <<Word("route"), Word("add")>>,
   [Line("add", net1, 33, host1, 1) EXCEPT ![7] = Name(2)],
   [Line("add", net1, 24, host1, 1) EXCEPT ![4] = Word("dev")],
   [Line("del", net1, 24, host1, 1) EXCEPT ![7] = Word("eth9")],
   SubSeq(Line("add", net1, 24, host1, 1), 1, 6),
   Append(Line("del", net1, 24, host1, 1), Word("now"))}

MCCommandLines == RouteLines \union QueryLines \union OtherLines
WithLongMask == MCCommandLines \union {LongMaskLine}
MCNeighbour == {host1, host2, host3}
MCDriverIfcs == {NumIfc, NumIfc + 1}
OnlyIfcs == {NumIfc}

\* the bytes of some other variable
MCBeyond == {[ip |-> host1, mac |-> NoMac, ts |-> 0]}

\* the stations that send no packet differ only in name
MacSymmetry == Permutations({b, c})
=============================================================================
