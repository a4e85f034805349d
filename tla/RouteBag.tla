------------------------------- MODULE RouteBag -------------------------------
(***************************************************************************)
(* What a routing table promises, without its list: it is a bag of routes, *)
(* set up with the connected networks; a route is added or removed alone,  *)
(* and the last one is never removed.                                      *)
(***************************************************************************)
EXTENDS Naturals

CONSTANTS
  Route,     \* all routes
  Connected  \* those of the connected networks

VARIABLES
  up,   \* has the table been set up?
  bag   \* how many times each route is in it

vars == <<up, bag>>

Init ==
  /\ up = FALSE
  /\ bag = [r \in Route |-> 0]

SetUp ==
  /\ ~ up
  /\ up' = TRUE
  /\ bag' = [r \in Route |-> IF r \in Connected THEN 1 ELSE 0]

Add(r) ==
  /\ up
  /\ bag' = [bag EXCEPT ![r] = @ + 1]
  /\ UNCHANGED up

\* Connected routes as well, unlike 03-documentation-router.md:79-80 says.
Remove(r) ==
  /\ up
  /\ bag[r] > 0
  /\ bag[r] > 1 \/ \E s \in Route \ {r} : bag[s] > 0
  /\ bag' = [bag EXCEPT ![r] = @ - 1]
  /\ UNCHANGED up

Next ==
  \/ SetUp
  \/ \E r \in Route : Add(r) \/ Remove(r)

Spec == Init /\ [][Next]_vars
=============================================================================
