------------------------------ MODULE MCDriver ------------------------------
(* Instances of DriverChild for TLC; the sizes are in the configurations.   *)
EXTENDS DriverChild, Handlers

\* traffic on interface 1, and two frames to be followed on interface 2
TwoFollowed == {<<1, "plain">>, <<2, "red">>, <<2, "blue">>}
\* traffic on all interfaces but the last, where one frame is to be followed
OneFollowed == {<<p, "plain">> : p \in 1..(NumIfc - 1)} \union {<<NumIfc, "red">>}

Harmless == {"type", "congest"}
Fatal == {"close", "crash", "fail"}

\* Frames to be followed are dropped, passed on, or passed on twice with a text
\* between, as the hub does; everything else is answered with a text.
FewResponses(m) ==
  IF m.tag \in {"red", "blue"}
  THEN {<<>>} \union
       UNION {{<<Frame(q, m.tag)>>, <<Frame(q, m.tag), Text, Frame(q, m.tag)>>} : q \in Ifc \ {m.type}}
  ELSE {<<Text>>}
=============================================================================
