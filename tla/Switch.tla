------------------------------- MODULE Switch -------------------------------
(***************************************************************************)
(* The learning switch of switch.c: a process that is told the MAC         *)
(* addresses of its interfaces once and then handles one frame at a time.  *)
(* Each handler of the C program is one action.  A frame is reduced to its *)
(* ingress interface and its two addresses; what a handler writes to       *)
(* stdout is the number of copies it addresses to each interface.          *)
(***************************************************************************)
EXTENDS Naturals

CONSTANTS
  Mac,         \* the MAC addresses
  Group,       \* those with the I/G bit set (broadcast and multicast)
  NicMac,      \* those the machine's own network interfaces may have
  NoMac,       \* the address of a zeroed table slot
  NumIfc,      \* num_ifc: interfaces on the switch's command line
  DriverIfcs,  \* how many interfaces the driver may announce
  TableSize,   \* SWITCHING_TABLE_SIZE
  MaxTime      \* bound on the clock, in seconds

ASSUME SwitchAssumption ==
  /\ NumIfc \in Nat \ {0}
  /\ TableSize \in Nat \ {0}
  /\ MaxTime \in Nat
  /\ DriverIfcs \subseteq Nat
  /\ \A n \in DriverIfcs : n >= NumIfc
  /\ Group \subseteq Mac
  /\ NicMac \subseteq Mac \ Group
  /\ NoMac \notin Mac

VARIABLES
  status,     \* "starting" (no MAC list yet), "running" or "aborted"
  ownMac,     \* gifc[i].mac
  table,      \* switching_table
  numEntries, \* num_table_entries
  now,        \* what time(NULL) returns
  sent,       \* copies the last handler addressed to each interface
  last        \* the frame the last handler got, NoFrame if it was no frame

vars == <<status, ownMac, table, numEntries, now, sent, last>>

Ifc == 1..NumIfc
Slot == 1..TableSize
Entry == [mac : Mac \union {NoMac}, ifc : 0..NumIfc, ts : Nat]
NoFrame == [ifc |-> 0, src |-> NoMac, dst |-> NoMac]
Frame == [ifc : Ifc, src : Mac, dst : Mac]
Silence == [p \in Ifc |-> 0]
-----------------------------------------------------------------------------
(* The helpers of switch.c.  They read a table t of which the first n      *)
(* slots are in use, since parse_frame calls them before and after it      *)
(* learns.                                                                 *)

\* src_is_switch: the address of one of the switch's own interfaces
SrcIsSwitch(m) == \E p \in Ifc : ownMac[p] = m

\* the slots a search for address m would stop at; the code takes the first
MatchesButLast(t, n, m) == {k \in Slot : k < n /\ t[k].mac = m}  \* mutant
Matches(t, n, m) == {k \in Slot : k <= n /\ t[k].mac = m}

FirstMatch(t, n, m) ==
  CHOOSE k \in Matches(t, n, m) : \A j \in Matches(t, n, m) : k <= j

\* the slots whose timestamp is below that of the first slot
NewerThanFirst == {k \in 2..numEntries : table[k].ts > table[1].ts}  \* mutant
OlderThanFirst == {k \in 2..numEntries : table[k].ts < table[1].ts}

\* search_oldest_entry returns v: the loop compares every slot with the
\* first one, whose timestamp it never replaces, and keeps the last hit
IsOldestEntry(v) ==
  \/ v = 1 /\ OlderThanFirst = {}
  \/ v \in OlderThanFirst /\ \A k \in OlderThanFirst : k <= v

\* the entry that add_table_entry and override_table_entry store
NewEntry(p, m) == [mac |-> m, ifc |-> p, ts |-> now]

Unicast(p) == [q \in Ifc |-> IF q = p THEN 1 ELSE 0]

\* send_broadcast: one copy to every interface but the ingress
FloodAll(p) == [q \in Ifc |-> 1]  \* mutant: the ingress is not skipped
Flood(p) == [q \in Ifc |-> IF q # p THEN 1 ELSE 0]

\* get_dst_ifc and the forwarding half of parse_frame
Forward(t, n, p, d) ==
  IF d \in Group \/ Matches(t, n, d) = {}
  THEN Flood(p)
  ELSE Unicast(t[FirstMatch(t, n, d)].ifc)
-----------------------------------------------------------------------------
(* The learning half of parse_frame: lookup, then add or override.         *)

KeepOwn(m) ==
  /\ SrcIsSwitch(m)
  /\ UNCHANGED <<table, numEntries>>

\* mutant: the interface of a known address is not updated
RefreshTimeOnly(p, m) ==
  /\ ~ SrcIsSwitch(m)
  /\ Matches(table, numEntries, m) # {}
  /\ table' = [table EXCEPT ![FirstMatch(table, numEntries, m)].ts = now]
  /\ UNCHANGED numEntries

Refresh(p, m) ==
  /\ ~ SrcIsSwitch(m)
  /\ Matches(table, numEntries, m) # {}
  /\ table' = [table EXCEPT ![FirstMatch(table, numEntries, m)] =
                              [mac |-> @.mac, ifc |-> p, ts |-> now]]
  /\ UNCHANGED numEntries

\* mutant: the result -1 of lookup is taken for "not found"
AddAnyEntry(p, m) ==
  /\ Matches(table, numEntries, m) = {}
  /\ numEntries < TableSize
  /\ table' = [table EXCEPT ![numEntries + 1] = NewEntry(p, m)]
  /\ numEntries' = numEntries + 1

\* mutant: the bound of the table is off by one
AddEntryPastEnd(p, m) ==
  /\ ~ SrcIsSwitch(m)
  /\ Matches(table, numEntries, m) = {}
  /\ numEntries <= TableSize
  /\ table' = [table EXCEPT ![numEntries + 1] = NewEntry(p, m)]
  /\ numEntries' = numEntries + 1

AddEntry(p, m) ==
  /\ ~ SrcIsSwitch(m)
  /\ Matches(table, numEntries, m) = {}
  /\ numEntries < TableSize
  /\ table' = [table EXCEPT ![numEntries + 1] = NewEntry(p, m)]
  /\ numEntries' = numEntries + 1

OverrideEntry(p, m) ==
  /\ ~ SrcIsSwitch(m)
  /\ Matches(table, numEntries, m) = {}
  /\ numEntries >= TableSize
  /\ \E v \in Slot : IsOldestEntry(v) /\ table' = [table EXCEPT ![v] = NewEntry(p, m)]
  /\ UNCHANGED numEntries

Learn(p, m) ==
  \/ KeepOwn(m)
  \/ Refresh(p, m)
  \/ AddEntry(p, m)
  \/ OverrideEntry(p, m)
-----------------------------------------------------------------------------
Init ==
  /\ status = "starting"
  /\ ownMac = [p \in Ifc |-> NoMac]
  /\ table = [k \in Slot |-> [mac |-> NoMac, ifc |-> 0, ts |-> 0]]
  /\ numEntries = 0
  /\ now = 0
  /\ sent = Silence
  /\ last = NoFrame

\* loop() on the first message: handle_mac for every announced address, which
\* aborts at the first one that has no interface on the command line
HandleMac(n, macs) ==
  /\ status = "starting"
  /\ ownMac' = [p \in Ifc |-> macs[p]]
  /\ status' = IF n > NumIfc THEN "aborted" ELSE "running"
  /\ sent' = Silence
  /\ last' = NoFrame
  /\ UNCHANGED <<table, numEntries, now>>

\* handle_frame for a frame with a complete Ethernet header
HandleFrame(p, s, d) ==
  /\ status = "running"
  /\ Learn(p, s)
  /\ sent' = Forward(table', numEntries', p, d)
  /\ last' = [ifc |-> p, src |-> s, dst |-> d]
  /\ UNCHANGED <<status, ownMac, now>>

\* handle_frame for a shorter frame, and handle_control: only text is printed
HandleOther ==
  /\ status = "running"
  /\ sent' = Silence
  /\ last' = NoFrame
  /\ UNCHANGED <<status, ownMac, table, numEntries, now>>

\* a second passes between two handlers
Tick ==
  /\ now < MaxTime
  /\ now' = now + 1
  /\ sent' = Silence
  /\ last' = NoFrame
  /\ UNCHANGED <<status, ownMac, table, numEntries>>

\* abort() ended the process
Aborted == status = "aborted" /\ UNCHANGED vars

Next ==
  \/ \E n \in DriverIfcs : \E macs \in [1..n -> NicMac] : HandleMac(n, macs)
  \/ \E p \in Ifc : \E s, d \in Mac : HandleFrame(p, s, d)
  \/ HandleOther
  \/ Tick
  \/ Aborted

Spec == Init /\ [][Next]_vars
-----------------------------------------------------------------------------
(* Properties                                                              *)

TypeOK ==
  /\ status \in {"starting", "running", "aborted"}
  /\ ownMac \in [Ifc -> Mac \union {NoMac}]
  /\ table \in [Slot -> Entry]
  /\ numEntries \in 0..TableSize
  /\ now \in Nat
  /\ sent \in [Ifc -> {0, 1}]
  /\ last \in Frame \union {NoFrame}

\* An address occupies one slot at most: lookup searches before a slot is
\* added or overridden, so no stale second entry can shadow a move.
UniqueMac ==
  \A j, k \in 1..numEntries : table[j].mac = table[k].mac => j = k

\* The switch never takes one of its own addresses for a station: a frame it
\* sent that is looped back to it must not redirect traffic (src_is_switch).
OwnNeverLearned ==
  \A k \in 1..numEntries : \A p \in Ifc : table[k].mac # ownMac[p]

\* Once a frame from m came in on p, a frame to m goes to p and nowhere else,
\* however full the table is and wherever m was before (re-learning).
SenderReachable ==
  (last # NoFrame /\ ~ SrcIsSwitch(last.src) /\ last.src \notin Group) =>
    \A p \in Ifc : Forward(table, numEntries, p, last.src) = Unicast(last.ifc)

\* The table is an implementation of the learning switch: each address is
\* associated with the interface in the slot a search for it finds.
PortOf(m) ==
  IF Matches(table, numEntries, m) = {}
  THEN 0
  ELSE table[FirstMatch(table, numEntries, m)].ifc

Bridge == INSTANCE LearningBridge WITH
  Port <- Ifc,
  Capacity <- TableSize,
  NoArrival <- NoFrame,
  up <- status = "running",
  own <- {m \in Mac : SrcIsSwitch(m)},
  fdb <- [m \in Mac |-> PortOf(m)],
  out <- sent,
  arrival <- last

\* Table handling, in whatever slots, never shows: what the switch learns and
\* where it sends the frames of stations is what LearningBridge prescribes.  For
\* frames from its own addresses see OwnFramesDismissed.
ImplementsBridge == Bridge!Spec

\* 01-documentation-switch.md:114-115: when the source of a frame is one of the
\* switch's own addresses, no further action is taken (switch.c:141, 160: the
\* frame has to be dismissed).
OwnFramesDismissed == (last # NoFrame /\ SrcIsSwitch(last.src)) => sent = Silence

\* the slots that change owner in this step
Evicted == {k \in 1..numEntries : table'[k].mac # table[k].mac}

\* What override_table_entry does guarantee: unless all entries were used in
\* the same second, the one it gives up is not among the most recent ones.
EvictsNotNewest ==
  [][\A k \in Evicted :
        (\E j \in Slot : table[j].ts # table[k].ts) =>
          \E j \in Slot : table[j].ts > table[k].ts]_vars

\* 01-documentation-switch.md:104-105: after 16 entries the least recently
\* used entry is the one that is replaced.
EvictsLeastRecent ==
  [][\A k \in Evicted : \A j \in 1..numEntries : table[k].ts <= table[j].ts]_vars
=============================================================================
