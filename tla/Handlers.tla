------------------------------- MODULE Handlers -------------------------------
(***************************************************************************)
(* What the handlers of two programs without tables write: the hub and the *)
(* frame parser.  Texts that follow each other with no frame between are   *)
(* one text here.                                                          *)
(***************************************************************************)
EXTENDS Pipes

\* handle_mac of both, for every address
TextPerMac == [p \in Ifc |-> Text]

\* handle_control of both, and handle_frame of the parser
OneText == <<Text>>

\* one turn of fwd_frame of the hub.  gifc is never advanced: it is the first
\* interface that the ingress is compared with and that the frame is sent to.
TurnBack(m) ==  \* mutant: the comparison is the wrong way round
  IF m.type = 1 THEN <<Text, Frame(1, m.tag)>> ELSE <<Text>>

Turn(m) == IF m.type = 1 THEN <<Text>> ELSE <<Text, Frame(1, m.tag)>>

\* as many turns as there are interfaces
FwdFrame(m) == FlattenSeq([i \in Ifc |-> Turn(m)])

HubResponses(m) ==
  {CASE m = Macs -> TextPerMac
     [] m.type = 0 /\ m # Macs -> OneText
     [] OTHER -> FwdFrame(m)}

ParserResponses(m) == {IF m = Macs THEN TextPerMac ELSE OneText}
=============================================================================
