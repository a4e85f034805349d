------------------------------ MODULE ChildLoop ------------------------------
(***************************************************************************)
(* The process behind the driver, as all programs of the repository are    *)
(* built: loop() of loop.c reassembles messages from stdin and calls the   *)
(* handler of each, and the handlers write messages with write_all() of    *)
(* print.c.  What a handler writes is a parameter (Responses).             *)
(***************************************************************************)
EXTENDS Pipes

CONSTANT
  Responses(_)  \* what the handler of a message may write: a set of sequences
                \* of messages

ASSUME ChildAssumption ==
  \A m \in Message : \A r \in Responses(m) : r \in Seq(Message \ {Macs, Line})

VARIABLES
  alive,     \* is the process running?
  childBuf,  \* buf[0..off-1] of loop()
  haveMac,   \* have_mac
  childOut,  \* what the handler still has to write
  first,     \* the message the MAC addresses were read from, or Text
  seen,      \* tagged frames given to handle_frame, in order
  emitted    \* tagged frames the handlers have begun to write, in order

childVars == <<alive, childBuf, haveMac, childOut, first, seen, emitted>>

ChildInit ==
  /\ alive = TRUE
  /\ childBuf = <<>>
  /\ haveMac = FALSE
  /\ childOut = <<>>
  /\ first = Text
  /\ seen = <<>>
  /\ emitted = <<>>

\* read() into the rest of buf; 0 bytes, for want of space or of a driver that
\* could write more, end the loop
ReadForEver(driverAlive) ==  \* mutant: 0 bytes do not end the loop
  /\ alive
  /\ childOut = <<>>
  /\ ~ HasMessage(childBuf)
  /\ toChild # <<>>
  /\ \E n \in Amounts(Len(toChild), BufCap - Len(childBuf)) :
       /\ childBuf' = childBuf \o Take(toChild, n)
       /\ toChild' = Drop(toChild, n)
  /\ UNCHANGED <<fromChild, alive, haveMac, childOut, first, seen, emitted>>

ChildRead(driverAlive) ==
  /\ alive
  /\ childOut = <<>>
  /\ ~ HasMessage(childBuf)
  /\ toChild # <<>> \/ ~ driverAlive
  /\ \E n \in Amounts(Len(toChild), BufCap - Len(childBuf)) :
       /\ childBuf' = childBuf \o Take(toChild, n)
       /\ toChild' = Drop(toChild, n)
       /\ alive' = (n > 0)
  /\ UNCHANGED <<fromChild, haveMac, childOut, first, seen, emitted>>

\* memmove: what follows the first message m moves to the front
NothingAfter(m) == <<>>  \* mutant: `off' is reset instead
BytesAfter(m) == Drop(childBuf, Length(m))

\* one turn of the inner loop: the first complete message goes to handle_mac,
\* handle_control or handle_frame and leaves the buffer
ChildHandle ==
  /\ alive
  /\ childOut = <<>>
  /\ HasMessage(childBuf)
  /\ LET m == childBuf[1].msg
         macs == m.type = 0 /\ ~ haveMac
     IN  /\ childBuf' = BytesAfter(m)
         /\ haveMac' = (haveMac \/ macs)
         /\ first' = IF macs THEN m ELSE first
         /\ seen' = seen \o TagOf(m.tag)
         /\ \E r \in Responses(m) :
              /\ childOut' = UnitsOfAll(r)
              /\ emitted' = emitted \o TagsOfAll(r)
  /\ UNCHANGED <<toChild, fromChild, alive>>

\* write_all, for one message after the other: blocks while the pipe cannot
\* take what is left, and SIGPIPE ends a process that writes to nobody
MessageLeft == Length(childOut[1].msg) - childOut[1].part + 1

ChildWrite(driverAlive) ==
  /\ alive
  /\ childOut # <<>>
  /\ IF ~ driverAlive
     THEN alive' = FALSE /\ UNCHANGED <<fromChild, childOut>>
     ELSE LET n == Accepted(fromChild, childOut[1].msg, MessageLeft)
          IN  /\ n > 0
              /\ fromChild' = fromChild \o Take(childOut, n)
              /\ childOut' = Drop(childOut, n)
              /\ UNCHANGED alive
  /\ UNCHANGED <<toChild, childBuf, haveMac, first, seen, emitted>>

ChildStep(driverAlive) == ChildRead(driverAlive) \/ ChildHandle \/ ChildWrite(driverAlive)

\* abort() or exit() in a handler or instead of the program (execvp), or a signal
ChildDie ==
  /\ alive
  /\ alive' = FALSE
  /\ UNCHANGED <<toChild, fromChild, childBuf, haveMac, childOut, first, seen, emitted>>
=============================================================================
