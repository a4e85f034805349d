---------------------------- MODULE SwitchProofs ----------------------------
(***************************************************************************)
(* Proofs about Switch, for every number of interfaces, size of the table  *)
(* and set of addresses.  The invariants Switch states are not inductive:  *)
(* what a search finds depends on the used slots holding real entries, and *)
(* OwnNeverLearned on the table being empty while the switch is told its   *)
(* addresses.  SwitchInv adds both.                                        *)
(***************************************************************************)
EXTENDS Switch, SharedLemmas, FiniteSetTheorems, TLAPS

\* the used slots hold a station and an interface
SlotsInUse ==
  \A k \in 1..numEntries : table[k].mac \in Mac /\ table[k].ifc \in Ifc

\* the inductive invariant
SwitchInv ==
  /\ TypeOK
  /\ status = "starting" => numEntries = 0
  /\ SlotsInUse
  /\ UniqueMac
  /\ OwnNeverLearned
-----------------------------------------------------------------------------
(* Searching the table                                                     *)

\* lookup and get_dst_ifc return the first slot in use with the address they
\* search for, whenever there is one.
LEMMA FirstMatchFound ==
  ASSUME NEW t, NEW n \in Nat, NEW m, Matches(t, n, m) # {}
  PROVE  /\ FirstMatch(t, n, m) \in Matches(t, n, m)
         /\ \A j \in Matches(t, n, m) : FirstMatch(t, n, m) <= j
<1>1. Matches(t, n, m) \in SUBSET Nat
  BY SwitchAssumption DEF Matches, Slot
<1>2. \E k \in Matches(t, n, m) : \A j \in Matches(t, n, m) : k <= j
  BY <1>1, LeastNumber
<1>. QED BY <1>2 DEF FirstMatch

\* When an address is in one slot only, that is the slot a search returns.
LEMMA OnlyMatchFound ==
  ASSUME NEW t, NEW n \in Nat, NEW m, NEW k \in Matches(t, n, m),
         \A j \in Matches(t, n, m) : j = k
  PROVE  FirstMatch(t, n, m) = k
<1>. QED BY FirstMatchFound
-----------------------------------------------------------------------------
(* The steps of the switch, as the proofs below need them                  *)

\* slot v becomes the entry of address m, and no other slot in use has it
StoresAt(v, p, m) ==
  /\ table' = [table EXCEPT ![v] = NewEntry(p, m)]
  /\ numEntries' \in 0..TableSize
  /\ 1..numEntries' = (1..numEntries) \union {v}
  /\ \A k \in 1..numEntries : k # v => table[k].mac # m
  /\ v \in 1..numEntries => table[v].mac = m \/ numEntries = TableSize

\* What learning a source address does to the table: nothing, for an address
\* of the switch, and otherwise it is stored in one slot: one with that address
\* already, or the next free one, or, in a full table, one it takes over.
LEMMA LearnStep ==
  ASSUME SwitchInv, NEW p \in Ifc, NEW m \in Mac, Learn(p, m)
  PROVE  \/ SrcIsSwitch(m) /\ UNCHANGED <<table, numEntries>>
         \/ ~ SrcIsSwitch(m) /\ \E v \in Slot : StoresAt(v, p, m)
<1>. USE SwitchAssumption DEF SwitchInv, TypeOK, Slot
<1>1. CASE KeepOwn(m)
  BY <1>1 DEF KeepOwn
<1>2. CASE Refresh(p, m)
  <2>. DEFINE v == FirstMatch(table, numEntries, m)
  <2>1. v \in Matches(table, numEntries, m)
    BY <1>2, FirstMatchFound DEF Refresh
  <2>2. v \in Slot /\ v \in 1..numEntries /\ table[v].mac = m
    BY <2>1 DEF Matches
  <2>3. table' = [table EXCEPT ![v] = NewEntry(p, m)]
    BY <1>2, <2>2 DEF Refresh, NewEntry
  <2>4. \A k \in 1..numEntries : k # v => table[k].mac # m
    BY <2>2 DEF UniqueMac
  <2>5. StoresAt(v, p, m)
    BY <1>2, <2>2, <2>3, <2>4 DEF Refresh, StoresAt
  <2>. QED BY <1>2, <2>2, <2>5 DEF Refresh
<1>3. CASE AddEntry(p, m)
  <2>1. PICK v : v = numEntries + 1
    OBVIOUS
  <2>2. /\ ~ SrcIsSwitch(m) /\ Matches(table, numEntries, m) = {} /\ numEntries < TableSize
        /\ table' = [table EXCEPT ![v] = NewEntry(p, m)] /\ numEntries' = v
    BY <1>3, <2>1 DEF AddEntry
  <2>3. v \in Slot /\ v \notin 1..numEntries /\ v \in 0..TableSize
    BY <2>1, <2>2
  <2>4. 1..v = 1..numEntries \union {v}
    BY <2>1
  <2>5. \A k \in 1..numEntries : table[k].mac # m
    BY <2>2 DEF Matches
  <2>6. StoresAt(v, p, m)
    BY <2>2, <2>3, <2>4, <2>5 DEF StoresAt
  <2>. QED BY <2>2, <2>3, <2>6
<1>4. CASE OverrideEntry(p, m)
  <2>1. PICK v \in Slot : table' = [table EXCEPT ![v] = NewEntry(p, m)]
    BY <1>4 DEF OverrideEntry
  <2>2. numEntries = TableSize /\ numEntries' = numEntries
    BY <1>4 DEF OverrideEntry
  <2>3. \A k \in 1..numEntries : table[k].mac # m
    BY <1>4 DEF OverrideEntry, Matches
  <2>4. StoresAt(v, p, m)
    BY <2>1, <2>2, <2>3 DEF StoresAt
  <2>. QED BY <1>4, <2>4 DEF OverrideEntry
<1>. QED BY <1>1, <1>2, <1>3, <1>4 DEF Learn

\* The copies of a frame go to interfaces of the switch, one to each at most.
LEMMA ForwardType ==
  ASSUME NEW t \in [Slot -> Entry], NEW n \in Nat, NEW p \in Ifc, NEW d \in Mac
  PROVE  Forward(t, n, p, d) \in [Ifc -> {0, 1}]
<1>. QED BY DEF Forward, Flood, Unicast
-----------------------------------------------------------------------------
(* The inductive invariant                                                 *)

LEMMA InitInv == Init => SwitchInv
<1>. USE SwitchAssumption DEF Init
<1>1. Init => TypeOK
  BY DEF TypeOK, Slot, Entry, Silence
<1>2. Init => SlotsInUse /\ UniqueMac /\ OwnNeverLearned
  BY DEF SlotsInUse, UniqueMac, OwnNeverLearned
<1>. QED BY <1>1, <1>2 DEF SwitchInv

\* When a slot becomes the entry of a station that no other slot holds, the
\* table still has each station once and none of the switch's own addresses.
LEMMA StoreKeepsTable ==
  ASSUME SwitchInv, NEW p \in Ifc, NEW m \in Mac, NEW v \in Slot,
         StoresAt(v, p, m), ~ SrcIsSwitch(m), UNCHANGED <<ownMac, now>>
  PROVE  /\ table' \in [Slot -> Entry]
         /\ numEntries' \in 0..TableSize
         /\ SlotsInUse'
         /\ UniqueMac'
         /\ OwnNeverLearned'
<1>. USE SwitchAssumption DEF SwitchInv, TypeOK, Slot, StoresAt
<1>1. NewEntry(p, m) \in Entry
  BY DEF NewEntry, Entry, Ifc
<1>2. NewEntry(p, m).mac = m /\ NewEntry(p, m).ifc = p
  BY DEF NewEntry
<1>3. table' \in [Slot -> Entry] /\ table'[v] = NewEntry(p, m)
  BY <1>1
<1>4. \A k \in 1..numEntries' : k # v => k \in 1..numEntries /\ table'[k] = table[k]
  <2>. SUFFICES ASSUME NEW k \in 1..numEntries', k # v
                PROVE  k \in 1..numEntries /\ table'[k] = table[k]
    OBVIOUS
  <2>1. k \in 1..numEntries
    OBVIOUS
  <2>2. k \in Slot
    BY <2>1
  <2>. QED BY <2>1, <2>2
<1>5. SlotsInUse'
  BY <1>2, <1>3, <1>4 DEF SlotsInUse
<1>6. UniqueMac'
  <2>. SUFFICES ASSUME NEW j \in 1..numEntries', NEW k \in 1..numEntries',
                       table'[j].mac = table'[k].mac
                PROVE  j = k
    BY DEF UniqueMac
  <2>1. CASE j # v /\ k # v
    BY <2>1, <1>4 DEF UniqueMac
  <2>2. CASE j = v \/ k = v
    BY <2>2, <1>2, <1>3, <1>4
  <2>. QED BY <2>1, <2>2
<1>7. OwnNeverLearned'
  BY <1>2, <1>3, <1>4 DEF OwnNeverLearned, SrcIsSwitch
<1>. QED BY <1>3, <1>5, <1>6, <1>7

LEMMA HandleMacInv ==
  ASSUME SwitchInv, NEW n \in DriverIfcs, NEW macs \in [1..n -> NicMac],
         HandleMac(n, macs)
  PROVE  SwitchInv'
<1>. USE SwitchAssumption DEF SwitchInv, HandleMac
<1>1. TypeOK'
  <2>1. \A p \in Ifc : p \in 1..n
    BY DEF Ifc
  <2>. QED BY <2>1 DEF TypeOK, Silence
<1>2. numEntries' = 0
  OBVIOUS
<1>3. SlotsInUse' /\ UniqueMac' /\ OwnNeverLearned'
  BY <1>2 DEF SlotsInUse, UniqueMac, OwnNeverLearned
<1>. QED BY <1>1, <1>2, <1>3

LEMMA HandleFrameInv ==
  ASSUME SwitchInv, NEW p \in Ifc, NEW s \in Mac, NEW d \in Mac,
         HandleFrame(p, s, d)
  PROVE  SwitchInv'
<1>. USE SwitchAssumption DEF SwitchInv, HandleFrame
<1>1. /\ table' \in [Slot -> Entry]
      /\ numEntries' \in 0..TableSize
      /\ SlotsInUse'
      /\ UniqueMac'
      /\ OwnNeverLearned'
  <2>1. CASE UNCHANGED <<table, numEntries>>
    BY <2>1 DEF TypeOK, SlotsInUse, UniqueMac, OwnNeverLearned
  <2>2. ASSUME ~ SrcIsSwitch(s), NEW v \in Slot, StoresAt(v, p, s)
        PROVE  <1>1!1 /\ <1>1!2 /\ <1>1!3 /\ <1>1!4 /\ <1>1!5
    BY <2>2, StoreKeepsTable
  <2>. QED BY <2>1, <2>2, LearnStep
<1>2. sent' \in [Ifc -> {0, 1}]
  BY <1>1, ForwardType
<1>3. last' \in Frame
  BY DEF Frame
<1>. QED BY <1>1, <1>2, <1>3 DEF TypeOK

LEMMA NextInv == SwitchInv /\ [Next]_vars => SwitchInv'
<1>. SUFFICES ASSUME SwitchInv, [Next]_vars PROVE SwitchInv'
  OBVIOUS
<1>. USE DEF SwitchInv, TypeOK, SlotsInUse, UniqueMac, OwnNeverLearned
<1>1. ASSUME NEW n \in DriverIfcs, NEW macs \in [1..n -> NicMac], HandleMac(n, macs)
      PROVE  SwitchInv'
  BY <1>1, HandleMacInv
<1>2. ASSUME NEW p \in Ifc, NEW s \in Mac, NEW d \in Mac, HandleFrame(p, s, d)
      PROVE  SwitchInv'
  BY <1>2, HandleFrameInv
<1>3. CASE HandleOther
  BY <1>3 DEF HandleOther, Silence
<1>4. CASE Tick
  BY <1>4 DEF Tick, Silence
<1>5. CASE UNCHANGED vars
  BY <1>5 DEF vars
<1>. QED BY <1>1, <1>2, <1>3, <1>4, <1>5 DEF Next, Aborted

\* The switch's state always satisfies its inductive invariant.
THEOREM Invariance == Spec => []SwitchInv
<1>. QED BY InitInv, NextInv, PTL DEF Spec

\* The table never overflows and holds only well-formed entries, and no frame
\* is written twice to one interface (add_table_entry, send_broadcast).
THEOREM TypeCorrect == Spec => []TypeOK
<1>1. SwitchInv => TypeOK
  BY DEF SwitchInv
<1>. QED BY <1>1, Invariance, PTL

\* No address is ever in two slots of the switching table.
THEOREM EachAddressOnce == Spec => []UniqueMac
<1>1. SwitchInv => UniqueMac
  BY DEF SwitchInv
<1>. QED BY <1>1, Invariance, PTL

\* The switch never learns one of its own addresses, whichever the driver
\* announced (src_is_switch, handle_mac).
THEOREM OwnAddressesNotLearned == Spec => []OwnNeverLearned
<1>1. SwitchInv => OwnNeverLearned
  BY DEF SwitchInv
<1>. QED BY <1>1, Invariance, PTL
-----------------------------------------------------------------------------
(* Where frames to a station that has just been heard go                   *)

\* After slot v became the entry of m, a search for m finds v.
LEMMA StoredIsFound ==
  ASSUME SwitchInv, NEW p \in Ifc, NEW m \in Mac, NEW v \in Slot, StoresAt(v, p, m)
  PROVE  /\ Matches(table', numEntries', m) = {v}
         /\ FirstMatch(table', numEntries', m) = v
         /\ table'[v] = NewEntry(p, m)
<1>. USE SwitchAssumption DEF SwitchInv, TypeOK, Slot, StoresAt
<1>1. table'[v] = NewEntry(p, m)
  OBVIOUS
<1>2. \A k \in 1..numEntries' : k # v => table'[k].mac # m
  <2>. SUFFICES ASSUME NEW k \in 1..numEntries', k # v
                PROVE  table'[k].mac # m
    OBVIOUS
  <2>1. k \in 1..numEntries
    OBVIOUS
  <2>2. k \in Slot
    BY <2>1
  <2>. QED BY <2>1, <2>2
<1>3. v \in 1..numEntries' /\ numEntries' \in Nat
  OBVIOUS
<1>4. Matches(table', numEntries', m) = {v}
  BY <1>1, <1>2, <1>3 DEF Matches, NewEntry
<1>5. FirstMatch(table', numEntries', m) = v
  BY <1>3, <1>4, OnlyMatchFound
<1>. QED BY <1>1, <1>4, <1>5

\* A frame to the station the last frame came from goes to the interface that
\* frame came in on and to no other (parse_frame learns before it forwards).
THEOREM SendersReachable == Spec => []SenderReachable
<1>1. Init => SenderReachable
  BY DEF Init, SenderReachable
<1>2. SwitchInv /\ SenderReachable /\ [Next]_vars => SenderReachable'
  <2>. SUFFICES ASSUME SwitchInv, SenderReachable, [Next]_vars PROVE SenderReachable'
    OBVIOUS
  <2>1. ASSUME NEW p \in Ifc, NEW s \in Mac, NEW d \in Mac, HandleFrame(p, s, d)
        PROVE  SenderReachable'
    <3>1. last'.src = s /\ last'.ifc = p /\ ownMac' = ownMac
      BY <2>1 DEF HandleFrame
    <3>2. SrcIsSwitch(s)' <=> SrcIsSwitch(s)
      BY <3>1 DEF SrcIsSwitch
    <3>3. CASE SrcIsSwitch(s) \/ s \in Group
      BY <3>1, <3>2, <3>3 DEF SenderReachable
    <3>4. CASE ~ SrcIsSwitch(s) /\ s \notin Group
      <4>1. PICK v \in Slot : StoresAt(v, p, s)
        BY <2>1, <3>4, LearnStep DEF HandleFrame
      <4>2. /\ Matches(table', numEntries', s) = {v}
            /\ FirstMatch(table', numEntries', s) = v
            /\ table'[v] = NewEntry(p, s)
        BY <4>1, StoredIsFound
      <4>3. \A q \in Ifc : Forward(table', numEntries', q, s) = Unicast(p)
        BY <3>4, <4>2 DEF Forward, NewEntry
      <4>. QED BY <3>1, <4>3 DEF SenderReachable
    <3>. QED BY <3>3, <3>4
  <2>2. CASE last' = NoFrame
    BY <2>2 DEF SenderReachable
  <2>3. CASE UNCHANGED vars
    BY <2>3 DEF vars, SenderReachable, SrcIsSwitch, Forward, FirstMatch, Matches
  <2>. QED BY <2>1, <2>2, <2>3 DEF Next, HandleMac, HandleOther, Tick, Aborted
<1>. QED BY <1>1, <1>2, Invariance, PTL DEF Spec
-----------------------------------------------------------------------------
(* Which entry a full table gives up                                       *)

\* The entry that a full table replaces is not among the most recent ones,
\* unless all are equally recent (search_oldest_entry, override_table_entry).
THEOREM NewestNotEvicted == Spec => EvictsNotNewest
<1>. DEFINE Step == \A k \in Evicted :
                      (\E j \in Slot : table[j].ts # table[k].ts) =>
                        \E j \in Slot : table[j].ts > table[k].ts
<1>1. SwitchInv /\ [Next]_vars => [Step]_vars
  <2>. SUFFICES ASSUME SwitchInv, Next PROVE Step
    OBVIOUS
  <2>. USE SwitchAssumption DEF SwitchInv, TypeOK, Slot
  <2>1. CASE UNCHANGED table
    BY <2>1 DEF Evicted
  <2>2. ASSUME NEW p \in Ifc, NEW m \in Mac, Refresh(p, m) \/ AddEntry(p, m)
        PROVE  Evicted = {}
    <3>1. CASE Refresh(p, m)
      BY <3>1 DEF Refresh, Evicted
    <3>2. CASE AddEntry(p, m)
      BY <3>2 DEF AddEntry, Evicted
    <3>. QED BY <2>2, <3>1, <3>2
  <2>3. ASSUME NEW p \in Ifc, NEW m \in Mac, OverrideEntry(p, m)
        PROVE  Step
    <3>1. PICK v \in Slot : IsOldestEntry(v) /\ table' = [table EXCEPT ![v] = NewEntry(p, m)]
      BY <2>3 DEF OverrideEntry
    <3>2. numEntries = TableSize
      BY <2>3 DEF OverrideEntry
    <3>3. Evicted \subseteq {v}
      BY <3>1, <3>2 DEF Evicted
    <3>4. \A k \in Slot : table[k].ts \in Nat
      BY DEF Entry
    <3>5. CASE v = 1 /\ OlderThanFirst = {}
      <4>1. \A j \in Slot : j # 1 => table[j].ts >= table[1].ts
        BY <3>2, <3>4, <3>5 DEF OlderThanFirst
      <4>. QED BY <3>3, <3>4, <3>5, <4>1
    <3>6. CASE v \in OlderThanFirst
      BY <3>3, <3>6 DEF OlderThanFirst
    <3>. QED BY <3>1, <3>5, <3>6 DEF IsOldestEntry
  <2>. QED
    BY <2>1, <2>2, <2>3
    DEF Next, HandleMac, HandleFrame, HandleOther, Tick, Aborted, vars, Learn, KeepOwn
<1>. QED BY <1>1, Invariance, PTL DEF Spec, EvictsNotNewest
-----------------------------------------------------------------------------
(* Switch implements LearningBridge: the table, as a search sees it, is the *)
(* association of stations with ports, and it holds as many stations as it  *)
(* has slots in use.                                                        *)

\* the interface that a search for x finds in the first n slots of a table t
PortIn(t, n, x) ==
  IF Matches(t, n, x) = {} THEN 0 ELSE t[FirstMatch(t, n, x)].ifc

\* a table whose first n slots hold different stations
GoodTable(t, n) ==
  /\ n \in 0..TableSize
  /\ \A k \in 1..n : t[k].mac \in Mac /\ t[k].ifc \in Ifc
  /\ \A j, k \in 1..n : t[j].mac = t[k].mac => j = k

\* The table of the switch is always a good one.
LEMMA TableIsGood == SwitchInv => GoodTable(table, numEntries)
<1>. QED BY DEF SwitchInv, TypeOK, SlotsInUse, UniqueMac, GoodTable

\* A search for the station in slot k finds the interface in slot k.
LEMMA PortOfStation ==
  ASSUME NEW t, NEW n, GoodTable(t, n), NEW k \in 1..n
  PROVE  PortIn(t, n, t[k].mac) = t[k].ifc
<1>. USE SwitchAssumption DEF GoodTable
<1>1. Matches(t, n, t[k].mac) = {k}
  BY DEF Matches, Slot
<1>2. n \in Nat
  OBVIOUS
<1>3. FirstMatch(t, n, t[k].mac) = k
  BY <1>1, <1>2, OnlyMatchFound
<1>. QED BY <1>1, <1>3 DEF PortIn

\* A search for a station that is in no slot finds nothing.
LEMMA PortOfStranger ==
  ASSUME NEW t, NEW n, GoodTable(t, n), NEW x, \A k \in 1..n : t[k].mac # x
  PROVE  PortIn(t, n, x) = 0
<1>1. Matches(t, n, x) = {}
  BY SwitchAssumption DEF Matches, GoodTable, Slot
<1>. QED BY <1>1 DEF PortIn

\* The known stations are those in the table, as many as there are slots in use.
LEMMA KnownStations ==
  ASSUME NEW t, NEW n, GoodTable(t, n)
  PROVE  LET Known == {x \in Mac : PortIn(t, n, x) # 0}
         IN  Known = {t[k].mac : k \in 1..n} /\ Cardinality(Known) = n
<1>. DEFINE Known == {x \in Mac : PortIn(t, n, x) # 0}
<1>. USE DEF GoodTable
<1>1. \A k \in 1..n : t[k].mac \in Known
  <2>. SUFFICES ASSUME NEW k \in 1..n PROVE t[k].mac \in Known
    OBVIOUS
  <2>1. PortIn(t, n, t[k].mac) = t[k].ifc
    BY PortOfStation
  <2>. QED BY <2>1, SwitchAssumption DEF Ifc
<1>2. \A x \in Known : \E k \in 1..n : t[k].mac = x
  BY PortOfStranger
<1>3. Known = {t[k].mac : k \in 1..n}
  BY <1>1, <1>2
<1>4. ExistsBijection(1..n, Known)
  <2>. DEFINE f == [k \in 1..n |-> t[k].mac]
  <2>1. f \in [1..n -> Known]
    BY <1>1
  <2>2. \A j, k \in 1..n : f[j] = f[k] => j = k
    OBVIOUS
  <2>3. \A x \in Known : \E k \in 1..n : f[k] = x
    BY <1>2
  <2>4. f \in Bijection(1..n, Known)
    BY <2>1, <2>2, <2>3 DEF Bijection, Injection, Surjection, IsInjective
  <2>. QED BY <2>4 DEF ExistsBijection
<1>5. n \in Nat
  BY SwitchAssumption
<1>6. Cardinality(Known) = n
  BY <1>4, <1>5, FS_CountingElements
<1>. QED BY <1>3, <1>6
-----------------------------------------------------------------------------
(* The refinement                                                          *)

\* The association of stations with ports is what a search in the table finds.
LEMMA PortOfIsSearch ==
  /\ \A m : PortOf(m) = PortIn(table, numEntries, m)
  /\ \A m : PortOf(m)' = PortIn(table', numEntries', m)
<1>. QED BY DEF PortOf, PortIn, Matches, FirstMatch

\* When slot v becomes the entry of m on port p, the port of m is p, a station
\* that slot v held before is forgotten, and no other association changes.
LEMMA StoreChangesPorts ==
  ASSUME SwitchInv, SwitchInv', NEW p \in Ifc, NEW m \in Mac, NEW v \in Slot,
         StoresAt(v, p, m), NEW x \in Mac
  PROVE  PortOf(x)' = IF x = m THEN p
                      ELSE IF v \in 1..numEntries /\ x = table[v].mac THEN 0
                      ELSE PortOf(x)
<1>1. GoodTable(table, numEntries) /\ GoodTable(table', numEntries')
  BY DEF SwitchInv, TypeOK, GoodTable, SlotsInUse, UniqueMac
<1>2. \A k \in 1..numEntries : PortIn(table, numEntries, table[k].mac) = table[k].ifc
  BY <1>1, PortOfStation
<1>3. \A k \in 1..numEntries' : PortIn(table', numEntries', table'[k].mac) = table'[k].ifc
  BY <1>1, PortOfStation
<1>. USE SwitchAssumption DEF SwitchInv, TypeOK, Slot, StoresAt
<1>4. table'[v] = NewEntry(p, m) /\ NewEntry(p, m).mac = m /\ NewEntry(p, m).ifc = p
  BY DEF NewEntry
<1>5. v \in 1..numEntries'
  OBVIOUS
<1>6. ASSUME NEW k \in 1..numEntries, k # v
      PROVE  k \in 1..numEntries' /\ table'[k] = table[k]
  <2>1. k \in 1..numEntries'
    BY <1>6
  <2>2. k \in Slot
    BY <1>6
  <2>. QED BY <1>6, <2>1, <2>2
<1>7. CASE x = m
  BY <1>4, <1>5, <1>7, <1>3, PortOfIsSearch
<1>8. CASE x # m /\ \E k \in 1..numEntries : k # v /\ table[k].mac = x
  <2>1. PICK k \in 1..numEntries : k # v /\ table[k].mac = x
    BY <1>8
  <2>2. PortIn(table, numEntries, x) = table[k].ifc
    BY <1>2, <2>1
  <2>3. PortIn(table', numEntries', x) = table[k].ifc
    BY <1>6, <1>3, <2>1
  <2>4. ~ (v \in 1..numEntries /\ x = table[v].mac)
    BY <1>1, <2>1 DEF GoodTable
  <2>. QED BY <1>8, <2>2, <2>3, <2>4, PortOfIsSearch
<1>9. CASE x # m /\ \A k \in 1..numEntries : k # v => table[k].mac # x
  <2>1. \A k \in 1..numEntries' : table'[k].mac # x
    BY <1>4, <1>6, <1>9
  <2>2. PortIn(table', numEntries', x) = 0
    BY <1>1, <2>1, PortOfStranger
  <2>3. CASE v \in 1..numEntries /\ x = table[v].mac
    BY <1>9, <2>2, <2>3, PortOfIsSearch
  <2>4. CASE ~ (v \in 1..numEntries /\ x = table[v].mac)
    <3>1. \A k \in 1..numEntries : table[k].mac # x
      BY <1>9, <2>4
    <3>2. PortIn(table, numEntries, x) = 0
      BY <1>1, <3>1, PortOfStranger
    <3>. QED BY <1>9, <2>2, <2>4, <3>2, PortOfIsSearch
  <2>. QED BY <2>3, <2>4
<1>. QED BY <1>7, <1>8, <1>9

\* The stations the abstract switch knows are as many as there are slots in use.
LEMMA KnownCount ==
  ASSUME SwitchInv
  PROVE  /\ Bridge!Known = {table[k].mac : k \in 1..numEntries}
         /\ Bridge!Cardinality(Bridge!Known) = numEntries
<1>1. Bridge!Known = {x \in Mac : PortIn(table, numEntries, x) # 0}
  BY PortOfIsSearch DEF Bridge!Known
<1>2. \A S : Bridge!Cardinality(S) = Cardinality(S)
  BY DEF Bridge!Cardinality, Cardinality
<1>. QED BY <1>1, <1>2, TableIsGood, KnownStations

\* The association of stations with ports, as Bridge sees it
fdb == [m \in Mac |-> PortOf(m)]
own == {m \in Mac : SrcIsSwitch(m)}

\* Learning an address in the table is remembering it in the abstract switch.
LEMMA LearnIsRemember ==
  ASSUME SwitchInv, SwitchInv', NEW p \in Ifc, NEW s \in Mac, Learn(p, s)
  PROVE  Bridge!Remember(p, s)
<1>. USE SwitchAssumption
<1>1. CASE SrcIsSwitch(s) /\ UNCHANGED <<table, numEntries>>
  <2>1. \A m : PortOf(m)' = PortOf(m)
    BY <1>1, PortOfIsSearch
  <2>. QED BY <1>1, <2>1 DEF Bridge!Remember
<1>2. ASSUME ~ SrcIsSwitch(s), NEW v \in Slot, StoresAt(v, p, s)
      PROVE  Bridge!Remember(p, s)
  <2>1. CASE v \notin 1..numEntries \/ table[v].mac = s
    <3>1. \A x \in Mac : PortOf(x)' = IF x = s THEN p ELSE PortOf(x)
      BY <1>2, <2>1, StoreChangesPorts
    <3>2. fdb' = [fdb EXCEPT ![s] = p]
      BY <3>1 DEF fdb
    <3>3. s \in Bridge!Known \/ numEntries < TableSize
      <4>1. CASE v \in 1..numEntries
        BY <2>1, <4>1, KnownCount
      <4>2. CASE v \notin 1..numEntries
        BY <4>2 DEF SwitchInv, TypeOK, Slot
      <4>. QED BY <4>1, <4>2
    <3>. QED BY <1>2, <3>2, <3>3, KnownCount DEF Bridge!Remember, fdb
  <2>2. CASE v \in 1..numEntries /\ table[v].mac # s
    <3>1. numEntries = TableSize
      BY <1>2, <2>2 DEF StoresAt
    <3>2. s \notin Bridge!Known
      BY <1>2, <2>2, KnownCount DEF StoresAt
    <3>3. table[v].mac \in Bridge!Known /\ table[v].mac \in Mac
      BY <2>2, KnownCount DEF SwitchInv, SlotsInUse
    <3>4. \A x \in Mac : PortOf(x)' = IF x = s THEN p ELSE IF x = table[v].mac THEN 0 ELSE PortOf(x)
      BY <1>2, <2>2, StoreChangesPorts
    <3>5. fdb' = [fdb EXCEPT ![table[v].mac] = 0, ![s] = p]
      BY <3>3, <3>4 DEF fdb
    <3>6. \E w \in Bridge!Known : fdb' = [fdb EXCEPT ![w] = 0, ![s] = p]
      BY <3>3, <3>5
    <3>7. Bridge!Cardinality(Bridge!Known) >= TableSize
      BY <3>1, KnownCount
    <3>. QED BY <1>2, <3>2, <3>6, <3>7 DEF Bridge!Remember, fdb
  <2>. QED BY <2>1, <2>2
<1>. QED BY <1>1, <1>2, LearnStep

\* What the switch writes is what the abstract switch delivers.
LEMMA ForwardIsDelivery ==
  ASSUME SwitchInv', NEW p \in Ifc, NEW d \in Mac
  PROVE  Forward(table', numEntries', p, d) = Bridge!Delivery(fdb', p, d)
<1>1. fdb'[d] = PortIn(table', numEntries', d)
  BY PortOfIsSearch DEF fdb
<1>2. fdb'[d] = 0 <=> Matches(table', numEntries', d) = {}
  <2>1. CASE Matches(table', numEntries', d) = {}
    BY <1>1, <2>1 DEF PortIn
  <2>2. CASE Matches(table', numEntries', d) # {}
    <3>1. FirstMatch(table', numEntries', d) \in 1..numEntries'
      BY <2>2, FirstMatchFound, SwitchAssumption DEF Matches, SwitchInv, TypeOK, Slot
    <3>2. table'[FirstMatch(table', numEntries', d)].ifc \in Ifc
      BY <3>1 DEF SwitchInv, SlotsInUse
    <3>. QED BY <1>1, <2>2, <3>2 DEF PortIn, Ifc
  <2>. QED BY <2>1, <2>2
<1>3. CASE d \in Group \/ Matches(table', numEntries', d) = {}
  BY <1>2, <1>3 DEF Forward, Flood, Bridge!Delivery
<1>4. CASE d \notin Group /\ Matches(table', numEntries', d) # {}
  BY <1>1, <1>2, <1>4 DEF Forward, Unicast, Bridge!Delivery, PortIn
<1>. QED BY <1>3, <1>4

\* Every step of the switch is one of the abstract switch or changes nothing
\* that it shows.
LEMMA StepIsBridgeStep ==
  ASSUME SwitchInv, SwitchInv', [Next]_vars
  PROVE  [Bridge!Next]_(Bridge!vars)
<1>1. ASSUME NEW n \in DriverIfcs, NEW macs \in [1..n -> NicMac], HandleMac(n, macs)
      PROVE  Bridge!Configure
  <2>1. \A m : PortOf(m)' = PortOf(m)
    BY <1>1, PortOfIsSearch DEF HandleMac
  <2>. QED BY <1>1, <2>1 DEF HandleMac, Bridge!Configure, Bridge!Nothing, Silence
<1>2. ASSUME NEW p \in Ifc, NEW s \in Mac, NEW d \in Mac, HandleFrame(p, s, d)
      PROVE  Bridge!Receive(p, s, d)
  <2>1. Bridge!Remember(p, s)
    BY <1>2, LearnIsRemember DEF HandleFrame
  <2>2. sent' = Bridge!Delivery(fdb', p, d)
    BY <1>2, ForwardIsDelivery DEF HandleFrame
  <2>3. own' = own
    BY <1>2 DEF HandleFrame, own, SrcIsSwitch
  <2>. QED BY <1>2, <2>1, <2>2, <2>3 DEF HandleFrame, Bridge!Receive, fdb, own
<1>3. CASE HandleOther \/ Tick
  <2>1. \A m : PortOf(m)' = PortOf(m)
    BY <1>3, PortOfIsSearch DEF HandleOther, Tick
  <2>2. own' = own
    BY <1>3 DEF HandleOther, Tick, own, SrcIsSwitch
  <2>. QED
    BY <1>3, <2>1, <2>2
    DEF HandleOther, Tick, Bridge!Next, Bridge!Idle, Bridge!Nothing, Silence, own
<1>4. CASE UNCHANGED vars
  <2>1. \A m : PortOf(m)' = PortOf(m)
    BY <1>4, PortOfIsSearch DEF vars
  <2>2. own' = own
    BY <1>4 DEF vars, own, SrcIsSwitch
  <2>. QED BY <1>4, <2>1, <2>2 DEF vars, Bridge!vars, own
<1>. QED BY <1>1, <1>2, <1>3, <1>4 DEF Next, Aborted, Bridge!Next

\* The switching table, whatever its size and the order of its slots, makes
\* switch.c a learning switch: it associates each station with the interface
\* it was last heard on and delivers frames accordingly.
THEOREM SwitchImplementsBridge == Spec => ImplementsBridge
<1>1. Init => Bridge!Init
  <2>1. ASSUME Init PROVE \A m : PortOf(m) = 0
    BY <2>1 DEF Init, PortOf, Matches, Slot
  <2>2. ASSUME Init PROVE \A m \in Mac : ~ SrcIsSwitch(m)
    BY <2>2, SwitchAssumption DEF Init, SrcIsSwitch
  <2>. QED BY <2>1, <2>2 DEF Init, Bridge!Init, Bridge!Nothing, Silence
<1>2. SwitchInv /\ SwitchInv' /\ [Next]_vars => [Bridge!Next]_(Bridge!vars)
  BY StepIsBridgeStep
<1>. QED BY <1>1, <1>2, Invariance, PTL DEF Spec, ImplementsBridge, Bridge!Spec
=============================================================================
