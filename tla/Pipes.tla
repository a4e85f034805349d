-------------------------------- MODULE Pipes --------------------------------
(***************************************************************************)
(* What the network driver and its child process share: the format of      *)
(* their messages (struct GLAB_MessageHeader and its payload) and the two  *)
(* pipes.  A message is cut into units, each as large as a reader or       *)
(* writer of a pipe may be left with; a read or write moves whole units.   *)
(*                                                                         *)
(* Frames are anonymous, except for up to one "red" and one later "blue"   *)
(* frame of one interface.  The programs never look at the tag, so what is *)
(* shown for these two holds for any two frames of an interface.           *)
(***************************************************************************)
EXTENDS Naturals, Sequences, SequencesExt

CONSTANTS
  NumIfc,    \* number of network interfaces
  FrameLen,  \* units of a message that holds a frame
  LineLen,   \* units of a message that holds a command line or the MACs
  TextLen,   \* units of a message that holds text to print
  PipeCap,   \* units the kernel keeps in a pipe
  PipeBuf,   \* PIPE_BUF: select() promises this much room, and a write of at
             \* most this much is not split
  BufCap     \* units of `buf' (child) and `bufin' (driver)

Max3(a, b, c) == IF a >= b /\ a >= c THEN a ELSE IF b >= c THEN b ELSE c

ASSUME PipesAssumption ==
  /\ {NumIfc, FrameLen, LineLen, TextLen, PipeCap, PipeBuf, BufCap} \subseteq Nat \ {0}
  /\ PipeBuf <= PipeCap
  /\ LineLen <= PipeCap  \* the MAC addresses fit into an empty pipe: their size has
                         \* 16 bits, and a pipe holds 2^16 bytes
  /\ BufCap >= Max3(FrameLen, LineLen, TextLen)

VARIABLES
  toChild,   \* the pipe child_stdin
  fromChild  \* the pipe child_stdout

Ifc == 1..NumIfc
Tag == {"plain", "red", "blue"}
Frame(p, t) == [type |-> p, tag |-> t]
Macs == [type |-> 0, tag |-> "macs"]
Line == [type |-> 0, tag |-> "line"]
Text == [type |-> 0, tag |-> "text"]
Message == {Frame(p, t) : p \in Ifc, t \in Tag} \union {Macs, Line, Text}

Length(m) == IF m.type # 0 THEN FrameLen ELSE IF m = Text THEN TextLen ELSE LineLen

\* the units of a message
Units(m) == [k \in 1..Length(m) |-> [msg |-> m, part |-> k]]

\* and of several, one after the other
UnitsOfAll(msgs) == FlattenSeq([k \in DOMAIN msgs |-> Units(msgs[k])])

Least(a, b) == IF a <= b THEN a ELSE b
Take(s, n) == SubSeq(s, 1, n)
Drop(s, n) == SubSeq(s, n + 1, Len(s))
Room(pipe) == PipeCap - Len(pipe)

\* how much of the n units left of message m a blocking write() can move now;
\* 0 if it has to wait
Accepted(pipe, m, n) ==
  IF Length(m) <= PipeBuf /\ Room(pipe) < n THEN 0 ELSE Least(n, Room(pipe))

\* how many of the n units in a pipe a read() with room for r may return
Amounts(n, r) == IF n = 0 \/ r = 0 THEN {0} ELSE 1..Least(n, r)

\* the first message of a buffer, once all of it is there
HasMessage(buf) == buf # <<>> /\ Len(buf) >= Length(buf[1].msg)

TagOf(t) == IF t \in {"red", "blue"} THEN <<t>> ELSE <<>>
TagsOfAll(msgs) == FlattenSeq([k \in DOMAIN msgs |-> TagOf(msgs[k].tag)])

\* the tags of the frames a stream of units holds from end to end, in order
Tags(stream) ==
  LET Whole(i) == i >= FrameLen /\ SubSeq(stream, i - FrameLen + 1, i) = Units(stream[i].msg)
  IN  FlattenSeq([i \in DOMAIN stream |-> IF Whole(i) THEN TagOf(stream[i].msg.tag) ELSE <<>>])
=============================================================================
