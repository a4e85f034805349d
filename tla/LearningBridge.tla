--------------------------- MODULE LearningBridge ---------------------------
(***************************************************************************)
(* What a learning switch promises, without its table: it associates each  *)
(* of at most Capacity stations with the port it was last heard on, and    *)
(* delivers a frame to the port of its destination, or to every port but   *)
(* the ingress when there is none.  From its own addresses it learns       *)
(* nothing; whether it delivers such a frame is left open.                 *)
(***************************************************************************)
EXTENDS Naturals, FiniteSets

CONSTANTS
  Mac, Group,  \* addresses, and those that name groups of stations
  Port,        \* a set of positive numbers
  Capacity,    \* how many stations are remembered
  NoArrival    \* "no frame arrived in this step"

VARIABLES
  up,          \* has the switch been told its own addresses?
  own,         \* those addresses
  fdb,         \* port of each station, 0 if it is not known
  out,         \* copies of the frame written to each port
  arrival      \* the frame that arrived, or NoArrival

vars == <<up, own, fdb, out, arrival>>

Nothing == [p \in Port |-> 0]
Known == {m \in Mac : fdb[m] # 0}

\* Whether the frame is flooded or sent to one port is decided by the
\* association after the source has been learned.
Delivery(f, p, d) ==
  IF d \in Group \/ f[d] = 0
  THEN [q \in Port |-> IF q # p THEN 1 ELSE 0]
  ELSE [q \in Port |-> IF q = f[d] THEN 1 ELSE 0]

Init ==
  /\ up = FALSE
  /\ own = {}
  /\ fdb = [m \in Mac |-> 0]
  /\ out = Nothing
  /\ arrival = NoArrival

Configure ==
  /\ ~ up
  /\ up' \in BOOLEAN
  /\ own' \in SUBSET Mac
  /\ out' = Nothing
  /\ arrival' = NoArrival
  /\ UNCHANGED fdb

Remember(p, s) ==
  \/ s \in own /\ UNCHANGED fdb
  \/ /\ s \notin own
     /\ s \in Known \/ Cardinality(Known) < Capacity
     /\ fdb' = [fdb EXCEPT ![s] = p]
  \/ /\ s \notin own \union Known
     /\ Cardinality(Known) >= Capacity
     /\ \E v \in Known : fdb' = [fdb EXCEPT ![v] = 0, ![s] = p]

Receive(p, s, d) ==
  /\ up
  /\ arrival' = [ifc |-> p, src |-> s, dst |-> d]
  /\ Remember(p, s)
  /\ \/ out' = Delivery(fdb', p, d)
     \/ s \in own /\ out' = Nothing
  /\ UNCHANGED <<up, own>>

Idle ==
  /\ out' = Nothing
  /\ arrival' = NoArrival
  /\ UNCHANGED <<up, own, fdb>>

Next ==
  \/ Configure
  \/ \E p \in Port : \E s, d \in Mac : Receive(p, s, d)
  \/ Idle

Spec == Init /\ [][Next]_vars
=============================================================================
