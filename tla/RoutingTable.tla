----------------------------- MODULE RoutingTable -----------------------------
(***************************************************************************)
(* The routing table of router.c: a linked list, here a sequence whose     *)
(* first element is the node routing_table points to.  It does not exist   *)
(* before the first frame.                                                 *)
(***************************************************************************)
EXTENDS Integers, SequencesExt

CONSTANTS
  NumIfc,       \* interfaces on the command line
  Ip,           \* the IPv4 addresses, of hosts and networks
  Anywhere,     \* 0.0.0.0
  Prefix,       \* the prefix lengths in use
  IfcIp,        \* address of each interface
  IfcPrefix,    \* and the length of its netmask
  Masked(_, _), \* an address and a netmask of a given length, ANDed
  MaxRoutes     \* bound on the nodes of the list

Ifc == 1..NumIfc

ASSUME RoutingAssumption ==
  /\ NumIfc \in Nat \ {0}
  /\ Anywhere \in Ip
  /\ Prefix \subseteq 0..32
  /\ IfcIp \in [Ifc -> Ip]
  /\ IfcPrefix \in [Ifc -> Prefix]
  /\ \A a \in Ip, p \in Prefix : Masked(a, p) \in Ip
  /\ MaxRoutes \in Nat

VARIABLES
  routes,      \* the list, <<>> while routing_table is NULL
  initialised  \* `timer': has init_router been called?

Route == [target : Ip, prefix : Prefix, gateway : Ip, ifc : Ifc, undeletable : BOOLEAN]

\* A netmask as the code compares it: s_addr holds the bytes in network order
\* and is converted to a (little-endian, signed) int.
Byte(p, k) == IF p >= 8 * (k + 1) THEN 255 ELSE IF p <= 8 * k THEN 0 ELSE 256 - 2^(8 * (k + 1) - p)
SignedByte(b) == IF b >= 128 THEN b - 256 ELSE b
MaskValue(p) ==
  Byte(p, 0) + 2^8 * Byte(p, 1) + 2^16 * Byte(p, 2) + 2^24 * SignedByte(Byte(p, 3))

\* lookup_rt: the first route to network n
RoutesTo(list, n) == {k \in DOMAIN list : list[k].target = n}
HasRoute(list, n) == RoutesTo(list, n) # {}
LookupRt(list, n) == list[Min(RoutesTo(list, n))]

\* mutant: the search does not stop
PredecessorLast(list, r) == Max({1} \union RoutesTo(list, r.target))

\* lookup_routing_entry_rt: where the new route r goes.  The search ends at the
\* first route to the same network with a smaller mask; r follows the last one
\* to that network before, or else the first node of the list.
Predecessor(list, r) ==
  LET same == RoutesTo(list, r.target)
      smaller == {k \in same : MaskValue(r.prefix) > MaskValue(list[k].prefix)}
  IN  Max({1} \union {k \in same : \A j \in smaller : k < j})

\* create_entry copies a route but always clears `undeleteable'
CreateEntry(r) == [r EXCEPT !.undeletable = FALSE]

\* mutant: the new node does not take over the rest of the list
AddEntryAndCut(list, r) == Append(SubSeq(list, 1, Predecessor(list, r)), CreateEntry(r))

AddEntry(list, r) == InsertAt(list, Predecessor(list, r) + 1, CreateEntry(r))

\* init_router begins with the connected network of the first interface with the
\* smallest mask, and adds those of the others in their order
ConnectedRoute(p) ==
  [target |-> Masked(IfcIp[p], IfcPrefix[p]), prefix |-> IfcPrefix[p],
   gateway |-> Anywhere, ifc |-> p, undeletable |-> TRUE]

SmallestMask ==
  Min({p \in Ifc : \A q \in Ifc : MaskValue(IfcPrefix[p]) <= MaskValue(IfcPrefix[q])})

Booted[p \in 0..NumIfc] ==
  IF p = 0 THEN <<CreateEntry(ConnectedRoute(SmallestMask))>>
  ELSE IF p = SmallestMask THEN Booted[p - 1]
  ELSE AddEntry(Booted[p - 1], ConnectedRoute(p))

BootRoutes == Booted[NumIfc]

\* lookup_rt_for_del does not look at the interface
Deletable(list, r) ==
  {k \in DOMAIN list :
     /\ list[k].target = r.target
     /\ list[k].prefix = r.prefix
     /\ list[k].gateway = r.gateway
     /\ ~ list[k].undeletable}

\* mutant: the list is also cut when its first node is the one to delete
DeleteAnyEntry(list, r) ==
  IF Deletable(list, r) = {} THEN list ELSE RemoveAt(list, Min(Deletable(list, r)))

\* delete_entry looks for the node before, which the first one does not have
DeleteEntry(list, r) ==
  IF Deletable(list, r) = {} \/ Min(Deletable(list, r)) = 1
  THEN list
  ELSE RemoveAt(list, Min(Deletable(list, r)))
=============================================================================
