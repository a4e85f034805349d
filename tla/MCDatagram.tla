------------------------------ MODULE MCDatagram ------------------------------
(* Instance of Datagram for TLC: two routers.                               *)
EXTENDS Datagram

\* datagrams that a loop keeps for no, one, two and many hops; with the smallest
\* and the largest sum, an identification that wraps, and "don't fragment"
Hdr(rest, id, frag, ttl) == [rest |-> rest, id |-> id, frag |-> frag, ttl |-> ttl, checksum |-> 0]
MCSource ==
  {Hdr(69, 0, 0, 0), Hdr(MaxRest, 65535, 65535, 1), Hdr(131070, 65535, 0, 2), Hdr(40000, 7, 0, 1),
   Hdr(40000, 7, 0, 20), Hdr(MaxRest, 65535, 64, 255)}

\* at and beyond the largest that can be returned (352), and that fits (380),
\* with two and four fragments
MCPayload == {8, 352, 353, 380, 381, 1480}

\* the smallest MTU, none given, and the smallest and largest that wrap
Mtus(in1, in2, out1, out2) == [ingress |-> <<in1, in2>>, egress |-> <<out1, out2>>]
MCTypedMtus ==
  {Mtus(400, 400, 400, Unspecified), Mtus(Unspecified, 400, Unspecified, Unspecified),
   Mtus(500, 400, 1500, 400), Mtus(65522, 400, Unspecified, Unspecified),
   Mtus(400, 400, 65535, 400)}

MCGarbage == {0, 65535}
MCFlips == {1, 2^15}
=============================================================================
