----------------------------- MODULE ArpBinding -----------------------------
(***************************************************************************)
(* What the cache of the arp tool promises, without its array: a partial   *)
(* one-to-one association of IP addresses with MAC addresses.  A reply     *)
(* moves a known MAC to its new IP, adds an unknown pair (at the expense   *)
(* of at most one other, and only when full), and leaves an IP that is     *)
(* bound to another MAC alone.                                             *)
(***************************************************************************)
EXTENDS Naturals, FiniteSets

CONSTANTS Ip, Mac, NoMac, NoClaim, Capacity

VARIABLES
  ok,       \* FALSE once the tool's memory is corrupt
  binding,  \* binding[q] is the MAC of address q, or NoMac
  claim,    \* the pair a reply claimed in this step, or NoClaim
  told      \* the MAC printed in this step, or NoMac

vars == <<ok, binding, claim, told>>

Bound == {q \in Ip : binding[q] # NoMac}
OneToOne == \A q, r \in Bound : binding[q] = binding[r] => q = r

Init ==
  /\ ok = TRUE
  /\ binding = [q \in Ip |-> NoMac]
  /\ claim = NoClaim
  /\ told = NoMac

Move(q, m) ==
  /\ \E r \in Ip : binding[r] = m
  /\ binding' = [r \in Ip |-> IF r = q THEN m
                              ELSE IF binding[r] = m THEN NoMac ELSE binding[r]]

\* 02-documentation-ARP.md:134-135 wants the MAC replaced; the code keeps it.
Keep(q, m) ==
  /\ \A r \in Ip : binding[r] # m
  /\ q \in Bound
  /\ UNCHANGED binding

Add(q, m) ==
  /\ \A r \in Ip : binding[r] # m
  /\ q \notin Bound
  /\ Cardinality(Bound) < Capacity
  /\ binding' = [binding EXCEPT ![q] = m]

Replace(q, m) ==
  /\ \A r \in Ip : binding[r] # m
  /\ q \notin Bound
  /\ Cardinality(Bound) >= Capacity
  /\ \E v \in Bound : binding' = [binding EXCEPT ![v] = NoMac, ![q] = m]

Reply(q, m) ==
  /\ ok
  /\ claim' = [ip |-> q, mac |-> m]
  /\ Move(q, m) \/ Keep(q, m) \/ Add(q, m) \/ Replace(q, m)
  /\ told' = NoMac
  /\ UNCHANGED ok

\* a query prints the bound MAC, or nothing when the address is not bound
Query(q) ==
  /\ ok
  /\ told' = binding[q]
  /\ claim' = NoClaim
  /\ UNCHANGED <<ok, binding>>

Idle ==
  /\ told' = NoMac
  /\ claim' = NoClaim
  /\ UNCHANGED <<ok, binding>>

Fail ==
  /\ ok' = FALSE
  /\ told' = NoMac
  /\ claim' = NoClaim
  /\ UNCHANGED binding

Next ==
  \/ \E q \in Ip, m \in Mac : Reply(q, m)
  \/ \E q \in Ip : Query(q)
  \/ Idle
  \/ Fail

Spec == Init /\ [][Next]_vars
=============================================================================
