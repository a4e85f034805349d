---------------------------- MODULE NetworkDriver ----------------------------
(***************************************************************************)
(* run() of network-driver.c: one thread that waits in select() for the    *)
(* user's terminal, the network interfaces and the two pipes of its child, *)
(* and then serves what became ready in a fixed order.  Every block of the *)
(* loop body is one action; `pc' is the block that comes next.  The file   *)
(* descriptors are as select() left them while the terminal, the network   *)
(* and the child go on.                                                    *)
(***************************************************************************)
EXTENDS Pipes

CONSTANTS
  NicCap,  \* frames the kernel queues on an interface
  CmdCap,  \* command lines that fit into the buffer of cmd_line
  Arrivals, \* the <<interface, tag>> of the frames that may arrive
  Events    \* what else may happen: "type" (the user types lines), "close"
            \* (the user's input ends), "congest" (an interface cannot send
            \* for a while), "crash" (the child ends), "fail" (a system call
            \* of main() fails)

Cmd == 0               \* current_read == &cmd_line
Nobody == NumIfc + 1   \* current_read or current_write == NULL

ASSUME DriverAssumption ==
  /\ NicCap \in Nat \ {0}
  /\ CmdCap \in Nat \ {0}
  /\ Arrivals \subseteq Ifc \X Tag
  /\ \A a, b \in Arrivals : (a[2] # "plain" /\ b[2] # "plain") => a[1] = b[1]
  /\ Events \subseteq {"type", "close", "congest", "crash", "fail"}

VARIABLES
  pc,         \* next step of main() or block of the loop
  opened,     \* interfaces whose socket is open: the first ones
  ready,      \* descriptors set in fds_r and fds_w
  buftun,     \* frame in the buffer of each interface, "none" if it is free
  cmdBuf,     \* command lines in the buffer of cmd_line
  curRead,    \* current_read
  curLeft,    \* its buftun_end: units still to be written
  bufin,      \* bufin[0..bufin_rpos-1]
  curWrite,   \* current_write
  nicIn,      \* frames the kernel holds for each interface
  typed,      \* command lines the user has entered and the driver not read
  open,       \* is the user's input still open?
  issued,     \* tagged frames that have arrived, in order
  delivered   \* tagged frames that were sent, in order

worldVars == <<nicIn, typed, open, issued>>
runVars == <<buftun, cmdBuf, curRead, curLeft, bufin, curWrite>>
driverVars == <<pc, opened, ready, runVars, worldVars, delivered>>

\* file descriptors, and the direction they are watched for
Stdin == <<"stdin", 0>>
ChildIn == <<"child_stdin", 0>>
ChildOut == <<"child_stdout", 0>>
RecvFd(p) == <<"recv", p>>
SendFd(p) == <<"send", p>>
Fd == {Stdin, ChildIn, ChildOut} \union {RecvFd(p) : p \in Ifc} \union {SendFd(p) : p \in Ifc}

DriverInit ==
  /\ pc = "start"
  /\ opened = 0
  /\ ready = {}
  /\ buftun = [p \in Ifc |-> "none"]
  /\ cmdBuf = 0
  /\ curRead = Nobody
  /\ curLeft = 0
  /\ bufin = <<>>
  /\ curWrite = Nobody
  /\ nicIn = [p \in Ifc |-> <<>>]
  /\ typed = 0
  /\ open = TRUE
  /\ issued = <<>>
  /\ delivered = <<>>
-----------------------------------------------------------------------------
(* main(), after the child has been started.  `childAlive' is what the      *)
(* kernel knows of the child.                                               *)

\* init_tun for the next interface
InitTun ==
  /\ pc = "start"
  /\ opened < NumIfc
  /\ opened' = opened + 1
  /\ UNCHANGED <<toChild, fromChild, pc, ready, runVars, worldVars, delivered>>

\* cleanup: the sockets are closed, and the driver ends without its child
CleanUp ==
  /\ pc' = "failed"
  /\ opened' = 0
  /\ UNCHANGED <<toChild, fromChild, ready, runVars, worldVars, delivered>>

InitTunFails ==
  /\ "fail" \in Events
  /\ pc = "start"
  /\ opened < NumIfc
  /\ CleanUp

\* the MAC addresses, before anything else.  SIGPIPE is not ignored yet.
SendNothing(childAlive) ==  \* mutant
  /\ pc = "start"
  /\ opened = NumIfc
  /\ pc' = "privileges"
  /\ UNCHANGED <<toChild, fromChild, opened, ready, runVars, worldVars, delivered>>

SendMacs(childAlive) ==
  /\ pc = "start"
  /\ opened = NumIfc
  /\ IF childAlive
     THEN toChild' = toChild \o Units(Macs) /\ pc' = "privileges"
     ELSE pc' = "killed" /\ UNCHANGED toChild
  /\ UNCHANGED <<fromChild, opened, ready, runVars, worldVars, delivered>>

\* setresuid, and signal
DropPrivileges ==
  /\ pc = "privileges"
  /\ pc' = "select"
  /\ UNCHANGED <<toChild, fromChild, opened, ready, runVars, worldVars, delivered>>

DropPrivilegesFails ==
  /\ "fail" \in Events
  /\ pc = "privileges"
  /\ CleanUp
-----------------------------------------------------------------------------
(* The loop body.                                                           *)

Watched ==
  {fd \in {ChildIn} : curRead # Nobody} \union
  {SendFd(p) : p \in {q \in Ifc : curWrite = q}} \union
  {RecvFd(p) : p \in {q \in Ifc : buftun[q] = "none"}} \union
  {fd \in {ChildOut} : Len(bufin) < BufCap} \union
  {fd \in {Stdin} : cmdBuf < CmdCap}

IsReady(fd, childAlive) ==
  CASE fd = Stdin        -> typed > 0 \/ ~ open
    [] fd = ChildIn      -> Room(toChild) >= PipeBuf \/ ~ childAlive
    [] fd = ChildOut     -> fromChild # <<>> \/ ~ childAlive
    [] fd[1] = "recv"    -> nicIn[fd[2]] # <<>>
    [] fd[1] = "send"    -> TRUE

\* the block that has something to do next, of the first two
BlockOfJob(fds) ==  \* mutant: a job is enough to call write()
  IF Stdin \in fds THEN "stdin" ELSE IF curRead # Nobody THEN "write" ELSE "send"
FirstBlock(fds) == IF Stdin \in fds THEN "stdin" ELSE IF ChildIn \in fds THEN "write" ELSE "send"

Select(childAlive) ==
  /\ pc = "select"
  /\ \E idle \in {{}} \union IF "congest" \in Events THEN {{SendFd(p) : p \in Ifc}} ELSE {} :
       ready' = {fd \in Watched \ idle : IsReady(fd, childAlive)}
  /\ ready' # {}
  /\ pc' = FirstBlock(ready')
  /\ UNCHANGED <<toChild, fromChild, runVars, worldVars, delivered>>

\* `return' from run(): main() then kills the child
Return ==
  /\ pc' = "return"
  /\ ready' = {}
  /\ UNCHANGED <<toChild, fromChild, runVars, worldVars, delivered>>

ReadStdin ==
  /\ pc = "stdin"
  /\ IF typed = 0
     THEN Return
     ELSE /\ ready' = ready \ {Stdin}
          /\ pc' = FirstBlock(ready')
          /\ LET n == Least(typed, CmdCap - cmdBuf)
             IN  cmdBuf' = cmdBuf + n /\ typed' = typed - n
          /\ UNCHANGED <<toChild, fromChild, buftun, curRead, curLeft, bufin, curWrite,
                         nicIn, open, issued, delivered>>

\* the message of the current job
JobMessage == IF curRead = Cmd THEN Line ELSE Frame(curRead, buftun[curRead])

\* the units of it that have not been written
JobLeft == Drop(Units(JobMessage), Length(JobMessage) - curLeft)

\* the job is done: its bytes leave the buffer it was written from
FinishJob ==
  /\ curLeft' = 0
  /\ curRead' = Nobody
  /\ IF curRead = Cmd
     THEN cmdBuf' = cmdBuf - 1 /\ UNCHANGED buftun
     ELSE buftun' = [buftun EXCEPT ![curRead] = "none"] /\ UNCHANGED cmdBuf

\* write() on child_stdin blocks until everything is written; pc stays
WriteChild(childAlive) ==
  /\ pc = "write"
  /\ IF ~ childAlive
     THEN Return
     ELSE LET n == Accepted(toChild, JobMessage, curLeft)
          IN  /\ n > 0
              /\ toChild' = toChild \o Take(JobLeft, n)
              /\ IF n = curLeft
                 THEN FinishJob /\ pc' = "send" /\ ready' = ready \ {ChildIn}
                 ELSE /\ curLeft' = curLeft - n
                      /\ UNCHANGED <<pc, ready, curRead, cmdBuf, buftun>>
              /\ UNCHANGED <<fromChild, bufin, curWrite, worldVars, delivered>>

\* sendto() takes the frame at the front of bufin
SendAndReset ==  \* mutant: what follows the frame is not moved up
  IF SendFd(curWrite) \in ready
  THEN /\ bufin' = <<>>
       /\ delivered' = delivered \o TagOf(bufin[1].msg.tag)
       /\ curWrite' = Nobody
       /\ ready' = ready \ {SendFd(curWrite)}
  ELSE UNCHANGED <<bufin, delivered, curWrite, ready>>

SendFrame ==
  IF SendFd(curWrite) \in ready
  THEN /\ bufin' = Drop(bufin, FrameLen)
       /\ delivered' = delivered \o TagOf(bufin[1].msg.tag)
       /\ curWrite' = Nobody
       /\ ready' = ready \ {SendFd(curWrite)}
  ELSE UNCHANGED <<bufin, delivered, curWrite, ready>>

\* a complete command line is the next job, if there is none
PickAnyLine ==  \* mutant: the result of memchr is not looked at
  IF curRead = Nobody
  THEN curRead' = Cmd /\ curLeft' = LineLen
  ELSE UNCHANGED <<curRead, curLeft>>

PickLine ==
  IF curRead = Nobody /\ cmdBuf > 0
  THEN curRead' = Cmd /\ curLeft' = LineLen
  ELSE UNCHANGED <<curRead, curLeft>>

SendAndPick ==
  /\ pc = "send"
  /\ pc' = "read"
  /\ SendFrame
  /\ PickLine
  /\ UNCHANGED <<toChild, fromChild, buftun, cmdBuf, worldVars>>

\* rbuf_again: complete texts at the front of the buffer are printed
PrintedTexts(buf) ==
  CHOOSE k \in 0..Len(buf) :
    /\ \A i \in 1..k : buf[i].msg = Text
    /\ k > 0 => buf[k].part = TextLen
    /\ ~ (HasMessage(Drop(buf, k)) /\ buf[k + 1].msg = Text)

HandleOneMessage(buf) ==  \* mutant: no second look at the buffer after a text
  IF curWrite # Nobody \/ ~ HasMessage(buf)
  THEN bufin' = buf /\ UNCHANGED curWrite
  ELSE IF buf[1].msg = Text
       THEN bufin' = Drop(buf, TextLen) /\ UNCHANGED curWrite
       ELSE bufin' = buf /\ curWrite' = buf[1].msg.type

\* and a frame after them is to be sent, unless another one still is
HandleBuffer(buf) ==
  IF curWrite # Nobody
  THEN bufin' = buf /\ UNCHANGED curWrite
  ELSE /\ bufin' = Drop(buf, PrintedTexts(buf))
       /\ curWrite' = IF HasMessage(bufin') THEN bufin'[1].msg.type ELSE Nobody

ReadChildForever ==  \* mutant: the end of the stream is not noticed
  /\ pc = "read"
  /\ pc' = "recv"
  /\ ready' = ready \ {ChildOut}
  /\ \E n \in Amounts(IF ChildOut \in ready THEN Len(fromChild) ELSE 0, BufCap - Len(bufin)) :
       /\ HandleBuffer(bufin \o Take(fromChild, n))
       /\ fromChild' = Drop(fromChild, n)
  /\ UNCHANGED <<toChild, buftun, cmdBuf, curRead, curLeft, worldVars, delivered>>

ReadChild ==
  /\ pc = "read"
  /\ IF ChildOut \in ready /\ fromChild = <<>>
     THEN Return
     ELSE /\ pc' = "recv"
          /\ ready' = ready \ {ChildOut}
          /\ \E n \in Amounts(IF ChildOut \in ready THEN Len(fromChild) ELSE 0, BufCap - Len(bufin)) :
               /\ HandleBuffer(bufin \o Take(fromChild, n))
               /\ fromChild' = Drop(fromChild, n)
          /\ UNCHANGED <<toChild, buftun, cmdBuf, curRead, curLeft, worldVars, delivered>>

\* the interfaces with a frame for the child, after the receive
WithFrame == {p \in Ifc : buftun'[p] # "none"}
FirstOf(S) == CHOOSE p \in S : \A q \in S : p <= q

\* the loop over the interfaces: receive into the free buffers, and make the
\* first interface that has a frame the next job, if there is none
ReceiveFrames ==
  /\ pc = "recv"
  /\ pc' = "select"
  /\ ready' = {}
  /\ buftun' = [p \in Ifc |-> IF RecvFd(p) \in ready THEN Head(nicIn[p]) ELSE buftun[p]]
  /\ nicIn' = [p \in Ifc |-> IF RecvFd(p) \in ready THEN Tail(nicIn[p]) ELSE nicIn[p]]
  /\ IF curRead = Nobody /\ WithFrame # {}
     THEN curRead' = FirstOf(WithFrame) /\ curLeft' = FrameLen
     ELSE UNCHANGED <<curRead, curLeft>>
  /\ UNCHANGED <<toChild, fromChild, cmdBuf, bufin, curWrite, typed, open, issued,
                 delivered>>

SetUp(childAlive) ==
  \/ InitTun
  \/ InitTunFails
  \/ SendMacs(childAlive)
  \/ DropPrivileges
  \/ DropPrivilegesFails

Run(childAlive) ==
  /\ \/ Select(childAlive)
     \/ ReadStdin
     \/ WriteChild(childAlive)
     \/ SendAndPick
     \/ ReadChild
     \/ ReceiveFrames
  /\ UNCHANGED opened

DriverStep(childAlive) == SetUp(childAlive) \/ Run(childAlive)
-----------------------------------------------------------------------------
(* The terminal and the network.                                            *)

\* a frame arrives: any plain one, and red before blue
NextTag(t) ==
  \/ t = "plain"
  \/ t = "red" /\ issued = <<>>
  \/ t = "blue" /\ issued = <<"red">>

Arrive(p, t) ==
  /\ <<p, t>> \in Arrivals
  /\ p <= opened
  /\ Len(nicIn[p]) < NicCap
  /\ NextTag(t)
  /\ nicIn' = [nicIn EXCEPT ![p] = Append(@, t)]
  /\ issued' = issued \o TagOf(t)
  /\ UNCHANGED <<toChild, fromChild, pc, opened, ready, runVars, typed, open, delivered>>

TypeLine ==
  /\ "type" \in Events
  /\ open
  /\ typed = 0
  /\ typed' = 1
  /\ UNCHANGED <<toChild, fromChild, pc, opened, ready, runVars, nicIn, open, issued,
                 delivered>>

CloseInput ==
  /\ "close" \in Events
  /\ open
  /\ open' = FALSE
  /\ UNCHANGED <<toChild, fromChild, pc, opened, ready, runVars, nicIn, typed, issued,
                 delivered>>
=============================================================================
