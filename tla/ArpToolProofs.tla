---------------------------- MODULE ArpToolProofs ----------------------------
(***************************************************************************)
(* Proofs about ArpTool, for every size of the cache and every set of      *)
(* addresses and interfaces.  Which slot a loop over the cache ends up     *)
(* with matters to what the code does with it; what makes the cache        *)
(* correct is that there is at most one to end up with.  So TypeOK and     *)
(* UniqueAddresses are inductive together, and neither is without the      *)
(* other.                                                                  *)
(***************************************************************************)
EXTENDS ArpTool, FiniteSetTheorems, TLAPS

\* the inductive invariant
ArpInv == TypeOK /\ UniqueAddresses
-----------------------------------------------------------------------------
(* Searching the cache                                                     *)

\* A loop that keeps the last match, or stops at the first, finds the only one.
LEMMA OnlyMatch ==
  ASSUME NEW S \in SUBSET Slot, NEW k \in S, \A j \in S : j = k
  PROVE  LastOf(S) = k /\ FirstOf(S) = k
<1>1. S = {k}
  OBVIOUS
<1>2. k \in Nat
  BY ArpAssumption DEF Slot
<1>. QED BY <1>1, <1>2 DEF LastOf, FirstOf

\* The slot that holds a MAC address, when there is one.
LEMMA MacSlot ==
  ASSUME ArpInv, NEW m, MacHits(m) # {}
  PROVE  /\ LastOf(MacHits(m)) \in Used
         /\ cache[LastOf(MacHits(m))].mac = m
<1>1. PICK k \in MacHits(m) : TRUE
  OBVIOUS
<1>2. \A j \in MacHits(m) : j = k
  BY <1>1 DEF ArpInv, UniqueAddresses, MacHits
<1>3. LastOf(MacHits(m)) = k
  BY <1>2, OnlyMatch DEF MacHits, Used
<1>. QED BY <1>1, <1>3 DEF MacHits

\* The slot that holds an IP address with another MAC address, when there is one.
LEMMA IpSlot ==
  ASSUME ArpInv, NEW q, NEW m, IpHits(q, m) # {}
  PROVE  /\ LastOf(IpHits(q, m)) \in Used
         /\ cache[LastOf(IpHits(q, m))].ip = q
         /\ cache[LastOf(IpHits(q, m))].mac # m
<1>1. PICK k \in IpHits(q, m) : TRUE
  OBVIOUS
<1>2. \A j \in IpHits(q, m) : j = k
  BY <1>1 DEF ArpInv, UniqueAddresses, IpHits
<1>3. LastOf(IpHits(q, m)) = k
  BY <1>2, OnlyMatch DEF IpHits, Used
<1>. QED BY <1>1, <1>3 DEF IpHits

\* The first slot with an IP address is the only one.
LEMMA FirstIpSlot ==
  ASSUME ArpInv, NEW k \in Used
  PROVE  FirstOf({j \in Used : cache[j].ip = cache[k].ip}) = k
<1>. DEFINE S == {j \in Used : cache[j].ip = cache[k].ip}
<1>1. S \in SUBSET Slot /\ k \in S
  BY DEF Used
<1>2. \A j \in S : j = k
  BY DEF ArpInv, UniqueAddresses
<1>. QED BY <1>1, <1>2, OnlyMatch
-----------------------------------------------------------------------------
(* What a reply does to the cache                                          *)

\* Slot k keeps its MAC address m and gets IP address q, and nothing else changes.
Moved(c, k, q, m) ==
  /\ c \in [Slot -> Entry]
  /\ c[k].ip = q /\ c[k].mac = m
  /\ \A j \in Slot : j # k => c[j] = cache[j]

\* What overwriting three fields of an entry leaves of it.
Overwritten(r, q, p, t) == [r EXCEPT !.ip = q, !.ifc = p, !.ts = t]

LEMMA ChangedEntry ==
  ASSUME NEW r \in Entry, NEW q \in Ip, NEW p \in Ifc, NEW t \in Nat
  PROVE  /\ Overwritten(r, q, p, t) \in Entry
         /\ Overwritten(r, q, p, t).ip = q
         /\ Overwritten(r, q, p, t).mac = r.mac
<1>1. p \in 0..NumIfc
  BY ArpAssumption DEF Ifc
<1>2. PICK e1 \in Entry : e1 = [r EXCEPT !.ip = q]
  <2>1. [r EXCEPT !.ip = q] \in Entry
    BY SMT DEF Entry
  <2>. QED BY <2>1, Zenon
<1>3. PICK e2 \in Entry : e2 = [e1 EXCEPT !.ifc = p]
  <2>1. [e1 EXCEPT !.ifc = p] \in Entry
    BY <1>1, SMT DEF Entry
  <2>. QED BY <2>1, Zenon
<1>4. PICK e3 \in Entry : e3 = [e2 EXCEPT !.ts = t]
  <2>1. [e2 EXCEPT !.ts = t] \in Entry
    BY SMT DEF Entry
  <2>. QED BY <2>1, Zenon
<1>5. e1.ip = q /\ e1.mac = r.mac
  BY <1>2, SMT DEF Entry
<1>6. e2.ip = e1.ip /\ e2.mac = e1.mac
  BY <1>3, SMT DEF Entry
<1>7. e3.ip = e2.ip /\ e3.mac = e2.mac
  BY <1>4, SMT DEF Entry
<1>8. Overwritten(r, q, p, t) = e3
  BY <1>2, <1>3, <1>4, Zenon DEF Overwritten
<1>. QED BY <1>5, <1>6, <1>7, <1>8

LEMMA RetargetMoves ==
  ASSUME ArpInv, NEW k \in Used, NEW q \in Ip, NEW p \in Ifc
  PROVE  Moved(Retarget(k, q, p), k, q, cache[k].mac)
<1>1. k \in Slot
  BY DEF Used
<1>2. cache[k] \in Entry /\ now \in Nat /\ cache \in [Slot -> Entry]
  BY <1>1 DEF ArpInv, TypeOK
<1>3. PICK e : e = Overwritten(cache[k], q, p, now)
  OBVIOUS
<1>4. e \in Entry /\ e.ip = q /\ e.mac = cache[k].mac
  BY <1>2, <1>3, ChangedEntry
<1>5. Retarget(k, q, p) = [cache EXCEPT ![k] = e]
  BY <1>1, <1>2, <1>3, Zenon DEF Retarget, Overwritten
<1>. QED BY <1>1, <1>2, <1>4, <1>5 DEF Moved

\* The slot a new entry is written to: the next free one, or, when there is
\* none, any one.
StoresNew(k, q, m) ==
  /\ cache' \in [Slot -> Entry]
  /\ cache'[k].ip = q /\ cache'[k].mac = m
  /\ \A j \in Slot : j # k => cache'[j] = cache[j]
  /\ size' = size + 1
  /\ \/ size < CacheSize /\ k = size + 1
     \/ size = CacheSize /\ Used = Slot

LEMMA NewStores ==
  ASSUME ArpInv, InBounds, NEW q \in Ip, NEW m \in Mac, NEW p \in Ifc, NewInCache(q, m, p)
  PROVE  \E k \in Slot :
           /\ StoresNew(k, q, m)
           /\ size = CacheSize => IsOldestEntry(k)
<1>. USE ArpAssumption DEF ArpInv, TypeOK, Slot, Ifc
<1>. DEFINE e == [ip |-> q, mac |-> m, ifc |-> p, ts |-> now]
<1>1. e \in Entry /\ e.ip = q /\ e.mac = m
  BY DEF Entry
<1>. HIDE DEF e
<1>2. PICK k \in Slot :
        /\ IF size < CacheSize THEN k = size + 1 ELSE IsOldestEntry(k)
        /\ cache' = [cache EXCEPT ![k] = e]
  BY DEF NewInCache, e
<1>3. size' = size + 1 /\ size \in Nat /\ CacheSize \in Nat
  BY DEF NewInCache
<1>4. size < CacheSize \/ (size = CacheSize /\ Used = Slot)
  BY <1>3 DEF InBounds, Used
<1>5. cache' \in [Slot -> Entry]
  BY <1>1, <1>2
<1>. QED BY <1>1, <1>2, <1>3, <1>4, <1>5 DEF StoresNew

\* "fill up gap": the slots in use before the gap stay, those after it move up.
LEMMA ShiftDownMoves ==
  ASSUME ArpInv, InBounds, NEW c \in [Slot -> Entry], NEW k \in Used, NEW beyond \in Beyond,
         cache' = ShiftDown(c, k, beyond), size' = size - 1
  PROVE  /\ cache' \in [Slot -> Entry]
         /\ \A j \in Used' : IF j < k THEN j \in Used /\ cache'[j] = c[j]
                             ELSE j + 1 \in Used /\ cache'[j] = c[j + 1]
<1>. USE ArpAssumption DEF ArpInv, TypeOK, Slot, Used, InBounds
<1>1. size \in Nat /\ CacheSize \in Nat /\ k \in Nat /\ k <= size
  OBVIOUS
<1>2. beyond \in Entry
  BY ArpAssumption
<1>3. \A j \in Slot : j < CacheSize => j + 1 \in Slot
  BY <1>1
<1>4. cache' \in [Slot -> Entry]
  BY <1>1, <1>2, <1>3 DEF ShiftDown
<1>5. ASSUME NEW j \in Used'
      PROVE  IF j < k THEN j \in Used /\ cache'[j] = c[j]
             ELSE j + 1 \in Used /\ cache'[j] = c[j + 1]
  BY <1>1, <1>3 DEF ShiftDown
<1>. QED BY <1>4, <1>5
-----------------------------------------------------------------------------
(* The inductive invariant                                                 *)

\* the part of it that is about the cache
CacheInv ==
  /\ cache \in [Slot -> Entry]
  /\ \A k \in Used : cache[k].ip \in Ip /\ cache[k].mac \in Mac
  /\ size \in 0..(CacheSize + 1)
  /\ UniqueAddresses

\* A MAC address that is known moves to its new IP address, whose old entry, if
\* there is one, is removed.
LEMMA BothInCacheInv ==
  ASSUME ArpInv, InBounds, NEW q \in Ip, NEW m \in Mac, NEW p \in Ifc, BothInCache(q, m, p)
  PROVE  CacheInv'
<1>. DEFINE a == LastOf(MacHits(m))
            b == LastOf(IpHits(q, m))
            c == Retarget(a, q, p)
<1>1. a \in Used /\ cache[a].mac = m
  BY MacSlot DEF BothInCache
<1>2. b \in Used /\ cache[b].ip = q /\ cache[b].mac # m
  BY IpSlot DEF BothInCache
<1>3. Moved(c, a, q, m)
  BY <1>1, RetargetMoves
<1>4. PICK beyond \in Beyond : cache' = ShiftDown(c, b, beyond) /\ size' = size - 1
  BY DEF BothInCache
<1>. HIDE DEF a, b, c
<1>5. c \in [Slot -> Entry]
  BY <1>3 DEF Moved
<1>6. /\ cache' \in [Slot -> Entry]
      /\ \A j \in Used' : IF j < b THEN j \in Used /\ cache'[j] = c[j]
                          ELSE j + 1 \in Used /\ cache'[j] = c[j + 1]
  BY <1>2, <1>4, <1>5, ShiftDownMoves
<1>7. \A j \in Used' : j \in Nat
  BY ArpAssumption DEF Used, Slot
<1>8. b \in Nat
  BY <1>2, ArpAssumption DEF Used, Slot
<1>9. ASSUME NEW j \in Used
      PROVE  /\ c[j].ip \in Ip /\ c[j].mac \in Mac
             /\ \A i \in Used : (i # b /\ j # b /\ (c[i].ip = c[j].ip \/ c[i].mac = c[j].mac)) => i = j
  BY <1>1, <1>2, <1>3 DEF Moved, ArpInv, TypeOK, UniqueAddresses, Used
<1>10. \A k \in Used' : cache'[k].ip \in Ip /\ cache'[k].mac \in Mac
  BY <1>6, <1>9
<1>11. UniqueAddresses'
  <2>. SUFFICES ASSUME NEW i \in Used', NEW j \in Used',
                       cache'[i].ip = cache'[j].ip \/ cache'[i].mac = cache'[j].mac
                PROVE  i = j
    BY DEF UniqueAddresses
  <2>. DEFINE from(k) == IF k < b THEN k ELSE k + 1
  <2>1. \A k \in Used' : from(k) \in Used /\ from(k) # b /\ cache'[k] = c[from(k)]
    BY <1>6, <1>7, <1>8
  <2>2. from(i) = from(j)
    BY <2>1, <1>9
  <2>. QED BY <2>2, <1>7, <1>8
<1>12. size' \in 0..(CacheSize + 1)
  BY <1>1, <1>4, ArpAssumption DEF ArpInv, TypeOK, Used, Slot
<1>. QED BY <1>6, <1>10, <1>11, <1>12 DEF CacheInv

\* An address that is known alone keeps its slot.
LEMMA OneInCacheInv ==
  ASSUME ArpInv, InBounds, NEW q \in Ip, NEW m \in Mac, NEW p \in Ifc,
         MacInCache(q, m, p) \/ IpInCache(q, m, p)
  PROVE  CacheInv'
<1>1. PICK k \in Used :
        /\ cache' = Retarget(k, q, p)
        /\ \A j \in Used : j # k => cache[j].ip # q
  <2>1. CASE MacInCache(q, m, p)
    <3>1. cache[LastOf(MacHits(m))].mac = m /\ LastOf(MacHits(m)) \in Used
      BY <2>1, MacSlot DEF MacInCache
    <3>2. \A j \in Used : cache[j].mac # m => cache[j].ip # q
      BY <2>1 DEF MacInCache, IpHits
    <3>. QED BY <2>1, <3>1, <3>2 DEF MacInCache, ArpInv, UniqueAddresses
  <2>2. CASE IpInCache(q, m, p)
    <3>1. cache[LastOf(IpHits(q, m))].ip = q /\ LastOf(IpHits(q, m)) \in Used
      BY <2>2, IpSlot DEF IpInCache
    <3>. QED BY <2>2, <3>1 DEF IpInCache, ArpInv, UniqueAddresses
  <2>. QED BY <2>1, <2>2
<1>2. Moved(cache', k, q, cache[k].mac)
  BY <1>1, RetargetMoves
<1>3. size' = size
  BY DEF MacInCache, IpInCache
<1>4. Used' = Used /\ Used \subseteq Slot
  BY <1>3 DEF Used
<1>. QED
  BY <1>1, <1>2, <1>3, <1>4 DEF CacheInv, Moved, ArpInv, TypeOK, UniqueAddresses

\* A pair of which nothing is known gets a slot.
LEMMA NewInCacheInv ==
  ASSUME ArpInv, InBounds, NEW q \in Ip, NEW m \in Mac, NEW p \in Ifc, NewInCache(q, m, p)
  PROVE  CacheInv'
<1>1. PICK k \in Slot : StoresNew(k, q, m)
  BY NewStores
<1>2. \A j \in Used : cache[j].mac # m /\ cache[j].ip # q
  BY DEF NewInCache, MacHits, IpHits
<1>3. \A j \in Used' : j # k => j \in Used /\ cache'[j] = cache[j]
  BY <1>1, ArpAssumption DEF StoresNew, Used, Slot, ArpInv, TypeOK
<1>4. \A j \in Used' : cache'[j].ip \in Ip /\ cache'[j].mac \in Mac
  BY <1>1, <1>3 DEF StoresNew, ArpInv, TypeOK
<1>5. UniqueAddresses'
  BY <1>1, <1>2, <1>3 DEF StoresNew, ArpInv, UniqueAddresses
<1>6. cache' \in [Slot -> Entry] /\ size' \in 0..(CacheSize + 1)
  BY <1>1, ArpAssumption DEF StoresNew, ArpInv, TypeOK
<1>. QED BY <1>4, <1>5, <1>6 DEF CacheInv

LEMMA LearnReplyInv ==
  ASSUME ArpInv, NEW p \in Ifc, NEW q \in Ip, NEW target \in Ip, NEW m \in Mac,
         LearnReply(p, q, m, target)
  PROVE  ArpInv'
<1>1. CacheInv'
  BY BothInCacheInv, OneInCacheInv, NewInCacheInv DEF LearnReply
<1>2. NoOutput \in Output
  BY ArpAssumption DEF NoOutput, Output, Message
<1>3. claim' \in Claim
  BY DEF LearnReply, Claim
<1>. QED BY <1>1, <1>2, <1>3 DEF CacheInv, ArpInv, TypeOK, LearnReply

\* A handler that only writes leaves the invariant alone.
LEMMA OnlyOutputInv ==
  ASSUME ArpInv, UNCHANGED <<cache, size>>, out' \in Output, now' \in Nat,
         claim' = NoClaim \/ UNCHANGED claim,
         status' \in {"starting", "running", "aborted", "undefined"}
  PROVE  ArpInv'
<1>. QED BY DEF ArpInv, TypeOK, UniqueAddresses, Used

\* What the handlers write is well formed.
LEMMA OutputType ==
  /\ NoOutput \in Output
  /\ \A p \in Ifc, n \in 0..NumIfc : Message("reply", p, n) \in Output
  /\ \A p \in Ifc : Message("query", p, 1) \in Output /\ 1 \in 0..NumIfc
  /\ Message("table", 0, 1) \in Output
  /\ \A m \in Mac : Told(m) \in Output
<1>. QED BY ArpAssumption DEF NoOutput, Output, Message, Told, Ifc

\* The copies of a message are written, or the process ends in the attempt.
LEMMA SendEffect ==
  ASSUME NEW kind \in {"reply", "query"}, NEW p \in Ifc, NEW n \in 0..NumIfc, Send(kind, p, n)
  PROVE  /\ out' \in Output
         /\ out'.mac = NoMac
         /\ status' = status \/ status' = "aborted"
<1>1. Message(kind, p, n) \in Output
  BY ArpAssumption DEF Output, Message, Ifc
<1>2. NoOutput.mac = NoMac /\ Message(kind, p, n).mac = NoMac
  BY DEF NoOutput, Message
<1>. QED BY <1>1, <1>2, OutputType DEF Send

\* At most every interface answers a request.
LEMMA AnswerCount ==
  ASSUME NEW target
  PROVE  Cardinality({i \in Ifc : IfcIp[i] = target}) \in 0..NumIfc
<1>. DEFINE S == {i \in Ifc : IfcIp[i] = target}
<1>1. IsFiniteSet(Ifc) /\ Cardinality(Ifc) = NumIfc
  BY FS_Interval, ArpAssumption DEF Ifc
<1>2. IsFiniteSet(S) /\ Cardinality(S) <= NumIfc
  BY <1>1, FS_Subset
<1>. QED BY <1>2, FS_CardinalityType, ArpAssumption

LEMMA InitInv == Init => ArpInv
<1>. SUFFICES ASSUME Init PROVE ArpInv
  OBVIOUS
<1>. USE ArpAssumption DEF Init
<1>1. Blank \in Entry
  BY DEF Blank, Entry
<1>2. Used = {}
  BY DEF Used, Slot
<1>3. cache \in [Slot -> Entry]
  BY <1>1
<1>. QED BY <1>2, <1>3, OutputType DEF ArpInv, TypeOK, UniqueAddresses

LEMMA NextInv == ArpInv /\ [Next]_vars => ArpInv'
<1>. SUFFICES ASSUME ArpInv, [Next]_vars PROVE ArpInv'
  OBVIOUS
<1>1. ASSUME NEW p \in Ifc, NEW q \in Ip, NEW target \in Ip, NEW m \in Mac,
             LearnReply(p, q, m, target)
      PROVE  ArpInv'
  BY <1>1, LearnReplyInv
<1>2. ASSUME NEW p \in Ifc, NEW target \in Ip, HandleRequest(p, target)
      PROVE  ArpInv'
  <2>1. PICK n \in 0..NumIfc : Send("reply", p, n)
    BY <1>2, AnswerCount DEF HandleRequest
  <2>2. out' \in Output /\ (status' = status \/ status' = "aborted")
    BY <2>1, SendEffect
  <2>. QED BY <1>2, <2>2, OnlyOutputInv DEF HandleRequest, ArpInv, TypeOK
<1>3. ASSUME NEW q \in Ip, NEW p \in Ifc, CommandArpIp(q, p)
      PROVE  ArpInv'
  <2>1. CASE PrintMac(q)
    <3>1. PICK k \in Used : cache[k].ip = q
      BY <2>1 DEF PrintMac
    <3>2. FirstOf({j \in Used : cache[j].ip = q}) = k
      BY <3>1, FirstIpSlot
    <3>3. out' = Told(cache[k].mac) /\ cache[k].mac \in Mac
      BY <2>1, <3>1, <3>2 DEF PrintMac, ArpInv, TypeOK
    <3>4. out' \in Output
      BY <3>3, OutputType
    <3>. QED BY <1>3, <2>1, <3>4, OnlyOutputInv DEF CommandArpIp, PrintMac, ArpInv, TypeOK
  <2>2. CASE SendQuery(q, p)
    <3>1. out' \in Output /\ (status' = status \/ status' = "aborted")
      BY <2>2, OutputType, SendEffect DEF SendQuery
    <3>. QED BY <1>3, <3>1, OnlyOutputInv DEF CommandArpIp, ArpInv, TypeOK
  <2>. QED BY <1>3, <2>1, <2>2 DEF CommandArpIp
<1>4. ASSUME NEW p \in Ifc, NEW q \in Ip, NEW target \in Ip, IgnoreReply(p, q, target)
      PROVE  ArpInv'
  BY <1>4, OnlyOutputInv, OutputType DEF IgnoreReply, ArpInv, TypeOK
<1>5. ASSUME NEW n \in DriverIfcs, HandleMac(n)
      PROVE  ArpInv'
  BY <1>5, OnlyOutputInv DEF HandleMac, ArpInv, TypeOK
<1>6. CASE CommandArp
  BY <1>6, OnlyOutputInv, OutputType DEF CommandArp, ArpInv, TypeOK
<1>7. CASE HandleOther
  BY <1>7, OnlyOutputInv, OutputType DEF HandleOther, ArpInv, TypeOK
<1>8. CASE ReadPastEnd
  BY <1>8, OnlyOutputInv, OutputType DEF ReadPastEnd, ArpInv, TypeOK
<1>9. CASE MalformedInput
  BY <1>9, OnlyOutputInv, OutputType DEF MalformedInput, ArpInv, TypeOK
<1>10. CASE Tick
  <2>1. now' \in Nat
    BY <1>10, ArpAssumption DEF Tick, ArpInv, TypeOK
  <2>. QED BY <1>10, <2>1, OnlyOutputInv, OutputType DEF Tick, ArpInv, TypeOK
<1>11. CASE UNCHANGED vars
  BY <1>11, OnlyOutputInv DEF vars, ArpInv, TypeOK
<1>. QED
  BY <1>1, <1>2, <1>3, <1>4, <1>5, <1>6, <1>7, <1>8, <1>9, <1>10, <1>11 DEF Next, Ended

LEMMA InvHolds == Spec => []ArpInv
<1>. QED BY InitInv, NextInv, PTL DEF Spec

\* The entries the counter counts are complete, and it passes the end of the
\* array by one at most (lookup_and_add).
THEOREM TypeCorrect == Spec => []TypeOK
<1>1. ArpInv => TypeOK
  BY DEF ArpInv
<1>. QED BY <1>1, InvHolds, PTL

\* No address is ever in two entries of the cache, whichever of the four cases
\* the replies take (lookup_and_add).
THEOREM EachAddressOnce == Spec => []UniqueAddresses
<1>1. ArpInv => UniqueAddresses
  BY DEF ArpInv
<1>. QED BY <1>1, InvHolds, PTL
-----------------------------------------------------------------------------
(* Which entry a full cache gives up                                       *)

\* A new address never takes the slot of one of the most recent entries, unless
\* all are equally recent (search_oldest_entry).
THEOREM NewestNotEvicted == Spec => EvictsNotNewest
<1>. DEFINE Step == \A k \in Used :
                      (/\ \A j \in Slot : j <= size' => cache'[j].mac # cache[k].mac
                       /\ size' > size
                       /\ \E j \in Used : cache[j].ts # cache[k].ts)
                      => \E j \in Used : cache[j].ts > cache[k].ts
<1>1. ArpInv /\ [Next]_vars => [Step]_vars
  <2>. SUFFICES ASSUME ArpInv, Next, NEW k \in Used,
                       \A j \in Slot : j <= size' => cache'[j].mac # cache[k].mac,
                       size' > size,
                       \E j \in Used : cache[j].ts # cache[k].ts
                PROVE  \E j \in Used : cache[j].ts > cache[k].ts
    OBVIOUS
  <2>. USE ArpAssumption DEF Slot
  <2>1. size \in Nat /\ CacheSize \in Nat /\ \A j \in Used : j \in Slot /\ cache[j].ts \in Nat
    BY DEF ArpInv, TypeOK, Entry, Used
  <2>2. PICK p \in Ifc, q \in Ip, m \in Mac : InBounds /\ NewInCache(q, m, p)
    <3>1. PICK p \in Ifc, q \in Ip, target \in Ip, m \in Mac : LearnReply(p, q, m, target)
      <4>1. size' # size
        BY <2>1
      <4>. QED BY <4>1, Zenon
           DEF Next, HandleMac, IgnoreReply, HandleRequest, CommandArpIp, CommandArp,
               HandleOther, ReadPastEnd, MalformedInput, Tick, Ended, vars
    <3>2. ~ BothInCache(q, m, p) /\ ~ MacInCache(q, m, p) /\ ~ IpInCache(q, m, p)
      BY <2>1 DEF BothInCache, MacInCache, IpInCache
    <3>. QED BY <3>1, <3>2 DEF LearnReply
  <2>3. PICK v \in Slot : StoresNew(v, q, m) /\ (size = CacheSize => IsOldestEntry(v))
    BY <2>2, NewStores
  <2>4. k = v
    <3>1. k <= size' /\ k \in Slot
      BY <2>1, <2>3 DEF Used, StoresNew
    <3>. QED BY <2>3, <3>1 DEF StoresNew
  <2>5. IsOldestEntry(k)
    BY <2>1, <2>3, <2>4 DEF StoresNew, Used
  <2>6. CASE k \in OlderThanFirst
    <3>1. 1 \in Used
      BY <2>1, <2>6 DEF OlderThanFirst, Used
    <3>. QED BY <2>1, <2>6, <3>1 DEF OlderThanFirst
  <2>7. CASE k = 1 /\ OlderThanFirst = {}
    BY <2>1, <2>7 DEF OlderThanFirst
  <2>. QED BY <2>5, <2>6, <2>7 DEF IsOldestEntry
<1>. QED BY <1>1, InvHolds, PTL DEF Spec, EvictsNotNewest
-----------------------------------------------------------------------------
(* The cache as an association of addresses                                *)

\* An IP address in use is bound to the MAC address beside it.
LEMMA BindingOfSlot ==
  ArpInv => \A k \in Used : BindingOf(cache[k].ip) = cache[k].mac
<1>. SUFFICES ASSUME ArpInv, NEW k \in Used
              PROVE  BindingOf(cache[k].ip) = cache[k].mac
  OBVIOUS
<1>1. FirstOf({j \in Used : cache[j].ip = cache[k].ip}) = k
  BY FirstIpSlot
<1>. QED BY <1>1 DEF BindingOf

\* An IP address that is in no slot in use is bound to nothing.
LEMMA BindingOfNone ==
  \A q : (\A k \in Used : cache[k].ip # q) => BindingOf(q) = NoMac
<1>. QED BY DEF BindingOf

\* Is the pair in one of the slots in use?
InCache(q, m) == \E k \in Used : cache[k].ip = q /\ cache[k].mac = m

\* An address is bound to a MAC address, if any, and when a slot holds the two.
BindingsMatch ==
  \A q \in Ip :
    /\ BindingOf(q) \in Mac \union {NoMac}
    /\ \A m \in Mac : BindingOf(q) = m <=> InCache(q, m)

LEMMA BoundTo == ArpInv => BindingsMatch
<1>. SUFFICES ASSUME ArpInv, NEW q \in Ip
              PROVE  /\ BindingOf(q) \in Mac \union {NoMac}
                     /\ \A m \in Mac : BindingOf(q) = m <=> InCache(q, m)
  BY DEF BindingsMatch
<1>1. CASE \E k \in Used : cache[k].ip = q
  BY <1>1, BindingOfSlot DEF ArpInv, TypeOK, InCache
<1>2. CASE \A k \in Used : cache[k].ip # q
  BY <1>2, BindingOfNone, ArpAssumption DEF InCache
<1>. QED BY <1>1, <1>2

LEMMA NextBoundTo == ArpInv' => BindingsMatch'
<1>. QED BY BoundTo, PTL

\* As long as the counter is inside the array it counts the bound addresses.
LEMMA BoundCount ==
  ASSUME ArpInv, InBounds
  PROVE  Cardinality({q \in Ip : BindingOf(q) # NoMac}) = size
<1>. DEFINE Bound == {q \in Ip : BindingOf(q) # NoMac}
            f == [k \in 1..size |-> cache[k].ip]
<1>1. size \in Nat /\ Used = 1..size
  BY ArpAssumption DEF ArpInv, TypeOK, InBounds, Used, Slot
<1>2. \A k \in Used : cache[k].ip \in Bound
  <2>. SUFFICES ASSUME NEW k \in Used PROVE cache[k].ip \in Bound
    OBVIOUS
  <2>1. cache[k].ip \in Ip /\ cache[k].mac # NoMac
    BY ArpAssumption DEF ArpInv, TypeOK
  <2>. QED BY <2>1, BindingOfSlot
<1>3. \A q \in Bound : \E k \in Used : cache[k].ip = q
  BY BindingOfNone
<1>4. f \in [1..size -> Bound]
  BY <1>1, <1>2
<1>5. \A j, k \in 1..size : f[j] = f[k] => j = k
  BY <1>1 DEF ArpInv, UniqueAddresses
<1>6. \A q \in Bound : \E k \in 1..size : f[k] = q
  BY <1>1, <1>3
<1>7. f \in Bijection(1..size, Bound)
  <2>. HIDE DEF f, Bound
  <2>. QED BY <1>4, <1>5, <1>6 DEF Bijection, Injection, Surjection, IsInjective
<1>8. ExistsBijection(1..size, Bound)
  BY <1>7, Zenon DEF ExistsBijection
<1>. QED BY <1>1, <1>8, FS_CountingElements
-----------------------------------------------------------------------------
(* The refinement                                                          *)

\* The pairs in the slots after a step say what every address is then bound to.
LEMMA NextBinding ==
  ASSUME ArpInv', NEW q \in Ip, NEW v \in Mac \union {NoMac},
         \A m \in Mac : InCache(q, m)' <=> m = v
  PROVE  BindingOf(q)' = v
<1>1. /\ BindingOf(q)' \in Mac \union {NoMac}
      /\ \A m \in Mac : BindingOf(q)' = m <=> InCache(q, m)'
  BY NextBoundTo DEF BindingsMatch
<1>. QED BY <1>1

\* A reply of a known MAC address moves the pair.
LEMMA MovedPairs ==
  ASSUME ArpInv, InBounds, NEW q \in Ip, NEW m \in Mac, NEW p \in Ifc,
         BothInCache(q, m, p) \/ MacInCache(q, m, p),
         NEW r \in Ip, NEW x \in Mac
  PROVE  InCache(r, x)' <=> IF r = q THEN x = m ELSE x # m /\ InCache(r, x)
<1>. DEFINE a == LastOf(MacHits(m))
            c == Retarget(a, q, p)
<1>1. a \in Used /\ cache[a].mac = m
  BY MacSlot DEF BothInCache, MacInCache
<1>2. c \in [Slot -> Entry] /\ c[a].ip = q /\ c[a].mac = m /\ \A j \in Used : j # a => c[j] = cache[j]
  BY <1>1, RetargetMoves DEF Moved, Used
<1>3. \A j \in Used : j # a => c[j].mac # m
  BY <1>1, <1>2 DEF ArpInv, UniqueAddresses
<1>4. CASE MacInCache(q, m, p)
  <2>1. cache' = c /\ Used' = Used
    BY <1>4 DEF MacInCache, Used
  <2>2. \A j \in Used : j # a => c[j].ip # q
    BY <1>2, <1>3, <1>4 DEF MacInCache, IpHits
  <2>3. InCache(r, x)' <=> \E j \in Used : c[j].ip = r /\ c[j].mac = x
    BY <2>1 DEF InCache
  <2>. HIDE DEF a, c
  <2>. QED BY <1>1, <1>2, <1>3, <2>2, <2>3 DEF InCache
<1>5. CASE BothInCache(q, m, p)
  <2>. DEFINE b == LastOf(IpHits(q, m))
  <2>1. b \in Used /\ cache[b].ip = q /\ cache[b].mac # m
    BY <1>5, IpSlot DEF BothInCache
  <2>2. PICK beyond \in Beyond : cache' = ShiftDown(c, b, beyond) /\ size' = size - 1
    BY <1>5 DEF BothInCache
  <2>. HIDE DEF a, b, c
  <2>3. \A j \in Used' : IF j < b THEN j \in Used /\ cache'[j] = c[j]
                         ELSE j + 1 \in Used /\ cache'[j] = c[j + 1]
    BY <1>2, <2>1, <2>2, ShiftDownMoves
  <2>4. \A j \in Used : j \in Nat /\ (j # b => IF j < b THEN j \in Used' ELSE j - 1 \in Used')
    BY <2>1, <2>2, ArpAssumption DEF Used, Slot, ArpInv, TypeOK
  <2>5. \A j \in Used' : j \in Nat
    BY ArpAssumption DEF Used, Slot
  <2>6. \A j \in Used : j # b => \E k \in Used' : cache'[k] = c[j]
    <3>. SUFFICES ASSUME NEW j \in Used, j # b PROVE \E k \in Used' : cache'[k] = c[j]
      OBVIOUS
    <3>1. CASE j < b
      BY <3>1, <2>3, <2>4
    <3>2. CASE ~ (j < b)
      <4>1. j - 1 \in Used' /\ ~ (j - 1 < b) /\ (j - 1) + 1 = j
        BY <3>2, <2>1, <2>4
      <4>. QED BY <4>1, <2>3
    <3>. QED BY <3>1, <3>2
  <2>7. \A j \in Used' : \E k \in Used : k # b /\ cache'[j] = c[k]
    <3>. SUFFICES ASSUME NEW j \in Used' PROVE \E k \in Used : k # b /\ cache'[j] = c[k]
      OBVIOUS
    <3>1. CASE j < b
      BY <3>1, <2>1, <2>3, <2>4, <2>5
    <3>2. CASE ~ (j < b)
      BY <3>2, <2>1, <2>3, <2>4, <2>5
    <3>. QED BY <3>1, <3>2
  <2>8. InCache(r, x)' <=> \E j \in Used : j # b /\ c[j].ip = r /\ c[j].mac = x
    <3>1. InCache(r, x)' <=> \E j \in Used' : cache'[j].ip = r /\ cache'[j].mac = x
      BY DEF InCache
    <3>. QED BY <3>1, <2>6, <2>7
  <2>9. \A j \in Used : j # a /\ j # b => c[j].ip # q
    BY <1>2, <2>1 DEF ArpInv, UniqueAddresses
  <2>10. a # b
    BY <1>1, <2>1
  <2>. QED BY <1>1, <1>2, <1>3, <2>1, <2>8, <2>9, <2>10 DEF InCache
<1>. QED BY <1>4, <1>5

\* A reply of which only the IP address is known changes no pair.
LEMMA KeptPairs ==
  ASSUME ArpInv, InBounds, NEW q \in Ip, NEW m \in Mac, NEW p \in Ifc, IpInCache(q, m, p),
         NEW r \in Ip, NEW x \in Mac
  PROVE  InCache(r, x)' <=> InCache(r, x)
<1>. DEFINE a == LastOf(IpHits(q, m))
<1>1. a \in Used /\ cache[a].ip = q
  BY IpSlot DEF IpInCache
<1>2. Moved(cache', a, q, cache[a].mac)
  BY <1>1, RetargetMoves DEF IpInCache
<1>3. Used' = Used /\ Used \subseteq Slot
  BY DEF IpInCache, Used
<1>4. InCache(r, x)' <=> \E j \in Used : cache'[j].ip = r /\ cache'[j].mac = x
  BY <1>3 DEF InCache
<1>. HIDE DEF a
<1>. QED BY <1>1, <1>2, <1>3, <1>4 DEF Moved, InCache

\* A new pair joins the others, or takes the place of one.
LEMMA AddedPairs ==
  ASSUME ArpInv, NEW q \in Ip, NEW m \in Mac, NEW k \in Slot, StoresNew(k, q, m),
         NEW r \in Ip, NEW x \in Mac
  PROVE  InCache(r, x)' <=> \/ r = q /\ x = m
                            \/ InCache(r, x) /\ (size = CacheSize => r # cache[k].ip)
<1>1. k \in Used' /\ \A j \in Used' : j # k => j \in Used /\ cache'[j] = cache[j]
  BY ArpAssumption DEF StoresNew, Used, Slot, ArpInv, TypeOK
<1>2. \A j \in Used : j # k => j \in Used' /\ cache'[j] = cache[j]
  BY ArpAssumption DEF StoresNew, Used, Slot, ArpInv, TypeOK
<1>3. k \in Used <=> size = CacheSize
  BY ArpAssumption DEF StoresNew, Used, Slot, ArpInv, TypeOK
<1>4. cache'[k].ip = q /\ cache'[k].mac = m
  BY DEF StoresNew
<1>5. InCache(r, x)' <=> \E j \in Used' : cache'[j].ip = r /\ cache'[j].mac = x
  BY DEF InCache
<1>. QED BY <1>1, <1>2, <1>3, <1>4, <1>5 DEF InCache, ArpInv, UniqueAddresses

\* Each of the four cases of a reply is one of the abstract cache.
LEMMA ReplyIsReply ==
  ASSUME ArpInv, ArpInv', NEW p \in Ifc, NEW q \in Ip, NEW target \in Ip, NEW m \in Mac,
         LearnReply(p, q, m, target)
  PROVE  Binding!Reply(q, m)
<1>. DEFINE bnd == [r \in Ip |-> BindingOf(r)]
<1>1. \A r \in Ip : /\ BindingOf(r) \in Mac \union {NoMac}
                    /\ \A x \in Mac : BindingOf(r) = x <=> InCache(r, x)
  BY BoundTo DEF BindingsMatch
<1>2. NoMac \notin Mac
  BY ArpAssumption
<1>3. InBounds
  BY DEF LearnReply
<1>4. CASE BothInCache(q, m, p) \/ MacInCache(q, m, p)
  <2>1. \E r \in Ip : BindingOf(r) = m
    <3>1. PICK k \in Used : cache[k].mac = m
      BY <1>4 DEF BothInCache, MacInCache, MacHits
    <3>. QED BY <3>1, BindingOfSlot DEF ArpInv, TypeOK
  <2>2. \A r \in Ip : BindingOf(r)' = IF r = q THEN m
                                      ELSE IF BindingOf(r) = m THEN NoMac ELSE BindingOf(r)
    <3>. SUFFICES ASSUME NEW r \in Ip
                  PROVE  BindingOf(r)' = IF r = q THEN m
                                         ELSE IF BindingOf(r) = m THEN NoMac ELSE BindingOf(r)
      OBVIOUS
    <3>. DEFINE v == IF r = q THEN m ELSE IF BindingOf(r) = m THEN NoMac ELSE BindingOf(r)
    <3>1. v \in Mac \union {NoMac}
      BY <1>1
    <3>2. \A x \in Mac : InCache(r, x)' <=> IF r = q THEN x = m ELSE x # m /\ InCache(r, x)
      BY <1>3, <1>4, MovedPairs
    <3>3. \A x \in Mac : InCache(r, x)' <=> x = v
      BY <1>1, <1>2, <3>2
    <3>. HIDE DEF v
    <3>4. BindingOf(r)' = v
      BY <3>1, <3>3, NextBinding
    <3>. QED BY <3>4 DEF v
  <2>3. Binding!Move(q, m)
    BY <2>1, <2>2 DEF Binding!Move
  <2>. QED BY <2>3 DEF LearnReply, Binding!Reply, NoOutput, Message
<1>5. CASE IpInCache(q, m, p)
  <2>1. \A r \in Ip : BindingOf(r) # m
    BY <1>1, <1>5 DEF InCache, IpInCache, MacHits
  <2>2. BindingOf(q) # NoMac
    <3>1. PICK k \in Used : cache[k].ip = q
      BY <1>5 DEF IpInCache, IpHits
    <3>. QED BY <1>2, <3>1, BindingOfSlot DEF ArpInv, TypeOK
  <2>3. \A r \in Ip : BindingOf(r)' = BindingOf(r)
    <3>. SUFFICES ASSUME NEW r \in Ip PROVE BindingOf(r)' = BindingOf(r)
      OBVIOUS
    <3>1. \A x \in Mac : InCache(r, x)' <=> x = BindingOf(r)
      BY <1>1, <1>3, <1>5, KeptPairs
    <3>2. PICK v \in Mac \union {NoMac} : v = BindingOf(r)
      BY <1>1
    <3>. QED BY <3>1, <3>2, NextBinding
  <2>4. Binding!Keep(q, m)
    BY <2>1, <2>2, <2>3 DEF Binding!Keep, Binding!Bound
  <2>. QED BY <2>4 DEF LearnReply, Binding!Reply, NoOutput, Message
<1>6. CASE NewInCache(q, m, p)
  <2>1. \A r \in Ip : BindingOf(r) # m
    BY <1>1, <1>6 DEF InCache, NewInCache, MacHits
  <2>2. \A k \in Used : cache[k].ip # q
    BY <1>6 DEF NewInCache, MacHits, IpHits
  <2>3. BindingOf(q) = NoMac
    BY <2>2, BindingOfNone
  <2>4. PICK k \in Slot : StoresNew(k, q, m)
    BY <1>3, <1>6, NewStores
  <2>5. \A r \in Ip, x \in Mac :
          InCache(r, x)' <=> \/ r = q /\ x = m
                             \/ InCache(r, x) /\ (size = CacheSize => r # cache[k].ip)
    BY <2>4, AddedPairs
  <2>6. \A x \in Mac : ~ InCache(q, x)
    BY <2>2 DEF InCache
  <2>7. BindingOf(q)' = m
    BY <2>5, <2>6, NextBinding
  <2>8. ASSUME NEW r \in Ip, r # q
        PROVE  BindingOf(r)' = IF size = CacheSize /\ r = cache[k].ip THEN NoMac ELSE BindingOf(r)
    <3>. DEFINE v == IF size = CacheSize /\ r = cache[k].ip THEN NoMac ELSE BindingOf(r)
    <3>1. v \in Mac \union {NoMac}
      BY <1>1
    <3>2. \A x \in Mac : InCache(r, x)' <=> x = v
      BY <1>1, <1>2, <2>5, <2>8
    <3>. HIDE DEF v
    <3>3. BindingOf(r)' = v
      BY <3>1, <3>2, NextBinding
    <3>. QED BY <3>3 DEF v
  <2>9. Binding!Bound = {r \in Ip : BindingOf(r) # NoMac}
    BY DEF Binding!Bound
  <2>10. Binding!Cardinality(Binding!Bound) = size
    <3>1. \A S : Binding!Cardinality(S) = Cardinality(S)
      BY DEF Binding!Cardinality, Cardinality
    <3>. QED BY <1>3, <2>9, <3>1, BoundCount
  <2>11. size \in Nat /\ CacheSize \in Nat
    BY ArpAssumption DEF ArpInv, TypeOK
  <2>12. CASE size < CacheSize
    <3>1. bnd' = [bnd EXCEPT ![q] = m]
      <4>1. \A r \in Ip : BindingOf(r)' = IF r = q THEN m ELSE BindingOf(r)
        BY <2>7, <2>8, <2>11, <2>12
      <4>. QED BY <4>1
    <3>2. Binding!Add(q, m)
      BY <2>1, <2>3, <2>9, <2>10, <2>12, <3>1 DEF Binding!Add
    <3>. QED BY <3>2 DEF LearnReply, Binding!Reply, NoOutput, Message
  <2>13. CASE size = CacheSize
    <3>1. k \in Used
      BY <2>4, <2>13, <2>11 DEF StoresNew
    <3>2. cache[k].ip \in Ip /\ cache[k].ip \in Binding!Bound /\ cache[k].ip # q
      BY <1>2, <2>2, <2>9, <3>1, BindingOfSlot DEF ArpInv, TypeOK
    <3>3. bnd' = [bnd EXCEPT ![cache[k].ip] = NoMac, ![q] = m]
      <4>1. PICK v \in Ip : v = cache[k].ip
        BY <3>2
      <4>2. \A r \in Ip : BindingOf(r)' = IF r = q THEN m ELSE IF r = v THEN NoMac ELSE BindingOf(r)
        BY <2>7, <2>8, <2>13, <4>1
      <4>3. bnd' = [bnd EXCEPT ![v] = NoMac, ![q] = m]
        BY <3>2, <4>1, <4>2
      <4>. QED BY <4>1, <4>3
    <3>4. Binding!Replace(q, m)
      <4>1. \E v \in Binding!Bound : bnd' = [bnd EXCEPT ![v] = NoMac, ![q] = m]
        BY <3>2, <3>3
      <4>. QED BY <2>1, <2>3, <2>9, <2>10, <2>11, <2>13, <4>1 DEF Binding!Replace
    <3>. QED BY <3>4 DEF LearnReply, Binding!Reply, NoOutput, Message
  <2>. QED BY <1>3, <2>11, <2>12, <2>13 DEF InBounds
<1>. QED BY <1>4, <1>5, <1>6 DEF LearnReply

\* What an "arp IP IFC" command prints is what the address is bound to.
LEMMA CommandIsQuery ==
  ASSUME ArpInv, NEW q \in Ip, NEW p \in Ifc, CommandArpIp(q, p)
  PROVE  Binding!Query(q)
<1>1. out'.mac = BindingOf(q) /\ (status' = status \/ status' = "aborted")
  <2>1. CASE PrintMac(q)
    BY <2>1 DEF PrintMac, Told, BindingOf
  <2>2. CASE SendQuery(q, p)
    <3>1. out'.mac = NoMac /\ (status' = status \/ status' = "aborted")
      BY <2>2, OutputType, SendEffect DEF SendQuery
    <3>. QED BY <2>2, <3>1, BindingOfNone DEF SendQuery
  <2>. QED BY <2>1, <2>2 DEF CommandArpIp
<1>2. \A r \in Ip : BindingOf(r)' = BindingOf(r)
  BY DEF CommandArpIp, BindingOf, Used
<1>. QED BY <1>1, <1>2 DEF CommandArpIp, Binding!Query

\* Every step of the tool is one of the abstract cache or changes nothing that
\* it shows.
LEMMA StepIsBindingStep ==
  ASSUME ArpInv, ArpInv', [Next]_vars
  PROVE  [Binding!Next]_(Binding!vars)
<1>1. ASSUME UNCHANGED <<cache, size>>
      PROVE  \A r \in Ip : BindingOf(r)' = BindingOf(r)
  BY <1>1 DEF BindingOf, Used
<1>2. ASSUME NEW p \in Ifc, NEW q \in Ip, NEW target \in Ip, NEW m \in Mac,
             LearnReply(p, q, m, target)
      PROVE  Binding!Reply(q, m)
  BY <1>2, ReplyIsReply
<1>3. ASSUME NEW q \in Ip, NEW p \in Ifc, CommandArpIp(q, p)
      PROVE  Binding!Query(q)
  BY <1>3, CommandIsQuery
<1>4. ASSUME UNCHANGED <<cache, size>>, claim' = NoClaim, out'.mac = NoMac,
             (status # "undefined")' = (status # "undefined")
      PROVE  Binding!Idle
  BY <1>1, <1>4 DEF Binding!Idle
<1>5. ASSUME NEW p \in Ifc, NEW q \in Ip, NEW target \in Ip, IgnoreReply(p, q, target)
      PROVE  Binding!Idle
  BY <1>4, <1>5 DEF IgnoreReply, NoOutput, Message
<1>6. ASSUME NEW p \in Ifc, NEW target \in Ip, HandleRequest(p, target)
      PROVE  Binding!Idle
  <2>1. PICK n \in 0..NumIfc : Send("reply", p, n)
    BY <1>6, AnswerCount DEF HandleRequest
  <2>2. out'.mac = NoMac /\ (status' = status \/ status' = "aborted")
    BY <2>1, SendEffect
  <2>. QED BY <1>4, <1>6, <2>2 DEF HandleRequest
<1>7. CASE CommandArp \/ HandleOther \/ Tick
  <2>1. Binding!Idle
    BY <1>4, <1>7 DEF CommandArp, HandleOther, Tick, NoOutput, Message
  <2>. QED BY <2>1 DEF Binding!Next
<1>8. CASE ReadPastEnd \/ MalformedInput
  <2>1. Binding!Fail
    BY <1>1, <1>8 DEF ReadPastEnd, MalformedInput, Binding!Fail, NoOutput, Message
  <2>. QED BY <2>1 DEF Binding!Next
<1>9. CASE (\E n \in DriverIfcs : HandleMac(n)) \/ UNCHANGED vars
  <2>1. UNCHANGED <<cache, size, claim, out>> /\ (status # "undefined")' = (status # "undefined")
    BY <1>9 DEF HandleMac, vars
  <2>. QED BY <1>1, <2>1 DEF Binding!vars
<1>. QED
  BY <1>2, <1>3, <1>5, <1>6, <1>7, <1>8, <1>9 DEF Next, Ended, Binding!Next

\* Slots, counter and gaps together make the cache of arp.c a one-to-one
\* association of IP addresses with MAC addresses, which replies change one pair
\* at a time and commands read, until memory is corrupt (lookup_and_add).
THEOREM CacheImplementsBinding == Spec => ImplementsBinding
<1>1. Init => Binding!Init
  <2>. SUFFICES ASSUME Init PROVE Binding!Init
    OBVIOUS
  <2>1. Used = {}
    BY ArpAssumption DEF Init, Used, Slot
  <2>2. \A q \in Ip : BindingOf(q) = NoMac
    BY <2>1, BindingOfNone
  <2>. QED BY <2>2 DEF Init, Binding!Init, NoOutput, Message
<1>2. ArpInv /\ ArpInv' /\ [Next]_vars => [Binding!Next]_(Binding!vars)
  BY StepIsBindingStep
<1>. QED BY <1>1, <1>2, InvHolds, PTL DEF Spec, ImplementsBinding, Binding!Spec
=============================================================================
