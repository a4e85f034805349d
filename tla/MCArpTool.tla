------------------------------ MODULE MCArpTool ------------------------------
(* Instance of ArpTool for TLC: two interfaces, and four stations for a     *)
(* cache of three slots, so that every case of a reply meets a full cache.  *)
EXTENDS ArpTool, TLC

CONSTANTS ip1, ip2, a, b, c, x, y, z, w

MCIp == {ip1, ip2, a, b, c}
MCMac == {x, y, z, w}
MCIfcIp == <<ip1, ip2>>
MCDriverIfcs == {NumIfc, NumIfc + 1}

\* the second MTU wraps to 18 bytes, less than an ARP message
MCMtu == <<Unspecified, 65540>>

\* zeros, and the bytes of some other variable
MCBeyond == {Blank, [ip |-> ip1, mac |-> NoMac, ifc |-> 1, ts |-> 1]}

StationSymmetry == Permutations({a, b, c}) \union Permutations({x, y, z, w})
=============================================================================
