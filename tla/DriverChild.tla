----------------------------- MODULE DriverChild -----------------------------
(***************************************************************************)
(* The driver, its child and the world around them, interleaved.           *)
(***************************************************************************)
EXTENDS ChildLoop, NetworkDriver

vars == <<toChild, fromChild, childVars, driverVars>>

\* kill(chld, SIGKILL) after run() has returned
KillChild ==
  /\ pc = "return"
  /\ pc' = "done"
  /\ alive' = FALSE
  /\ UNCHANGED <<toChild, fromChild, childBuf, haveMac, childOut, first, seen, emitted,
                 opened, ready, runVars, worldVars, delivered>>

\* the driver has ended, in cleanup before the loop, or by SIGPIPE
Gone == pc \in {"failed", "killed"}
Done == pc \in {"done", "failed", "killed"} /\ ~ alive /\ UNCHANGED vars

Init ==
  /\ toChild = <<>>
  /\ fromChild = <<>>
  /\ ChildInit
  /\ DriverInit

Driver == DriverStep(alive) /\ UNCHANGED childVars
Child == ChildStep(~ Gone) /\ UNCHANGED driverVars

\* arrivals on the network
Network ==
  /\ pc # "done" /\ ~ Gone
  /\ \E p \in Ifc, t \in Tag : Arrive(p, t)
  /\ UNCHANGED childVars

User == pc # "done" /\ ~ Gone /\ (TypeLine \/ CloseInput) /\ UNCHANGED childVars
Crash == "crash" \in Events /\ ChildDie /\ UNCHANGED driverVars

Next == Driver \/ Child \/ Network \/ User \/ Crash \/ KillChild \/ Done

Spec == Init /\ [][Next]_vars

\* Both processes run, and a congested link drains; the network and the user
\* owe nothing.
Fairness ==
  /\ WF_vars(Driver)
  /\ WF_vars(Child)
  /\ WF_vars(KillChild)

FairSpec == Spec /\ Fairness
-----------------------------------------------------------------------------
(* Properties                                                              *)

UnitSet == UNION {{[msg |-> m, part |-> k] : k \in 1..Length(m)} : m \in Message}

TypeOK ==
  /\ {toChild, fromChild} \subseteq Seq(UnitSet)
  /\ Len(toChild) <= PipeCap /\ Len(fromChild) <= PipeCap
  /\ {childBuf, childOut, bufin} \subseteq Seq(UnitSet)
  /\ Len(childBuf) <= BufCap /\ Len(bufin) <= BufCap
  /\ pc \in {"start", "privileges", "select", "stdin", "write", "send", "read", "recv", "return",
            "done", "failed", "killed"}
  /\ opened \in 0..NumIfc
  /\ ready \subseteq Fd
  /\ buftun \in [Ifc -> Tag \union {"none"}]
  /\ cmdBuf \in 0..CmdCap
  /\ curRead \in {Cmd, Nobody} \union Ifc
  /\ curWrite \in {Nobody} \union Ifc
  /\ curLeft \in Nat

\* Nothing that arrives on an interface is lost, doubled or overtaken on its
\* way into the handler, over two buffers, a pipe, partial reads and writes
\* and jobs of other interfaces: the tagged frames that arrived are those the
\* handler has seen, followed by those in transit.
TaggedIfc == {a[1] : a \in {b \in Arrivals : b[2] # "plain"}}
TagsAt(p) == TagOf(buftun[p]) \o FlattenSeq([k \in DOMAIN nicIn[p] |-> TagOf(nicIn[p][k])])

InTransitIn ==
  Tags(childBuf \o toChild) \o
  (IF TaggedIfc = {} THEN <<>> ELSE TagsAt(CHOOSE p \in TaggedIfc : TRUE))

InputStream == issued = seen \o InTransitIn

\* The same for what the handlers write, on its way to the interface.
InTransitOut == Tags(bufin \o fromChild \o childOut)

OutputStream == emitted = delivered \o InTransitOut

\* select() never waits with work that only it itself could start: input that
\* was read has become a job, and a complete message of the child is being sent.
NoLostWakeup ==
  pc = "select" =>
    /\ curRead = Nobody => cmdBuf = 0 /\ \A p \in Ifc : buftun[p] = "none"
    /\ curWrite = Nobody => ~ HasMessage(bufin)

\* nprj1.tex:274-278: the first message is the MAC addresses; a command line
\* typed meanwhile is never taken for them, and no frame is handled before.
MacsFirst ==
  /\ haveMac => first = Macs
  /\ seen # <<>> => haveMac

\* network-driver.c:484: the driver writes to the child when the child is ready
\* for reading, so it never waits in write(), where it would not serve the
\* pipe the child may be waiting on.
WriteNeverBlocks ==
  (pc = "write" /\ alive) =>
    Accepted(toChild, JobMessage, curLeft) = curLeft

\* nprj1.tex:281-282: every frame that is received is passed to the program,
\* as long as the two run.
FrameIsHandled ==
  (issued # <<>>) ~> (seen # <<>> \/ ~ alive)

\* With the hub as the program, a frame of another interface than the first
\* leaves again, although each frame makes the hub write more than the pipes
\* and the driver's buffer hold, and neither reads while it waits to write.
FrameIsRepeated ==
  (issued # <<>>) ~> (delivered # <<>> \/ ~ alive)

\* A child that ends, before or after it has got its MAC addresses, is noticed:
\* the driver ends as well.
DriverEndsWithChild == (~ alive) ~> (pc = "done" \/ Gone)

\* And a driver that gives up before the loop, without killing its child, does
\* not leave it behind: the child sees the end of its input or cannot write.
ChildEndsWithDriver == Gone ~> ~ alive
=============================================================================
