----------------------------- MODULE FrameSizes -----------------------------
(***************************************************************************)
(* Sizes in the router: the MTU of an interface as its argument gives it,  *)
(* and how a payload is cut by it, at the widths the code computes with.   *)
(***************************************************************************)
EXTENDS Integers

EthernetSize == 14
Ipv4Size == 20
Headers == EthernetSize + Ipv4Size

\* what may be typed behind "=" in the argument of an interface, and its absence
Unspecified == 0
SmallestMtu == 400
LargestMtu == 65535
AcceptedMtu == {Unspecified} \union SmallestMtu..LargestMtu

\* parse_cmd_arg: the MTU with the Ethernet header, in 16 bits
IfcMtu(typed) ==
  IF typed = Unspecified THEN 1500 + EthernetSize ELSE (typed + EthernetSize) % 2^16

\* check_fragmentation compares an int with a size_t: a negative one is larger
\* than any payload
ReachesMtu(mtu, payload) == mtu - Headers \in 0..payload  \* mutant: <= for <
Exceeds(mtu, payload) == mtu - Headers \in 0..(payload - 1)

\* route(): bytes of a fragment, and how many of them there are
FragmentSize(mtu) == mtu - Headers
FragmentCount(mtu, payload) ==
  payload \div FragmentSize(mtu) + (IF payload % FragmentSize(mtu) = 0 THEN 0 ELSE 1)
=============================================================================
