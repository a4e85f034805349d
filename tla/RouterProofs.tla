----------------------------- MODULE RouterProofs -----------------------------
(***************************************************************************)
(* Proofs about Router, for every number of interfaces, every set of       *)
(* addresses and packets, every size of the ARP cache and everything that  *)
(* may be typed.  The invariant relates the two tables: as long as the     *)
(* list of routes does not exist, the ARP cache is empty, so no route can  *)
(* be added to it.                                                         *)
(***************************************************************************)
EXTENDS Router, RoutingTableProofs

\* The parts of the inductive invariant.  What is written fits, and goes to
\* somebody.
OutputOK == \A k \in DOMAIN out : out[k] \in Written /\ out[k].size <= Mtu[out[k].ifc]

\* a list of routes, once there is one
IsTable(list) ==
  /\ list \in Seq(Route)
  /\ list # <<>>
  /\ Len(list) <= Max({MaxRoutes, NumIfc})
  /\ \A k \in DOMAIN list : list[k] \in AllRoutes
  /\ Sorted(list)

TableOK ==
  /\ initialised \in BOOLEAN
  /\ IF initialised THEN IsTable(routes) ELSE routes = <<>>

CacheOK ==
  /\ cache \in [Slot -> ArpEntry]
  /\ size \in 0..(CacheSize + 1)
  /\ now \in 0..MaxTime
  /\ UniqueAddresses
RouterInv ==
  /\ TableOK
  /\ CacheOK
  /\ ~ initialised => size = 0
  /\ OutputOK
  /\ status \in {"starting", "running", "aborted", "undefined"}
-----------------------------------------------------------------------------
(* The ARP cache                                                           *)

\* A loop that keeps the last hit finds the only one.
LEMMA OnlyHit ==
  ASSUME NEW S \in SUBSET Slot, NEW k \in S, \A j \in S : j = k
  PROVE  Max(S) = k
<1>1. S \in SUBSET Nat /\ S # {} /\ k \in Nat
  BY RouterArpAssumption DEF Slot
<1>2. \A j \in S : j <= k
  BY <1>1
<1>3. Max(S) \in S
  BY <1>1, <1>2, MaxOf
<1>. QED BY <1>3

\* the slot with a MAC address, and the one with an IP address, if there is one
LEMMA MacHit ==
  ASSUME CacheOK, NEW m, MacHits(m) # {}
  PROVE  Max(MacHits(m)) \in MacHits(m)
<1>1. PICK k \in MacHits(m) : TRUE
  OBVIOUS
<1>2. MacHits(m) \in SUBSET Slot /\ \A j \in MacHits(m) : j = k
  BY <1>1 DEF CacheOK, UniqueAddresses, MacHits, Used
<1>. QED BY <1>1, <1>2, OnlyHit

LEMMA IpHit ==
  ASSUME CacheOK, NEW q, NEW m, IpHits(q, m) # {}
  PROVE  Max(IpHits(q, m)) \in IpHits(q, m)
<1>1. PICK k \in IpHits(q, m) : TRUE
  OBVIOUS
<1>2. IpHits(q, m) \in SUBSET Slot /\ \A j \in IpHits(q, m) : j = k
  BY <1>1 DEF CacheOK, UniqueAddresses, IpHits, Used
<1>. QED BY <1>1, <1>2, OnlyHit

\* What lookup_ipv4_inARP finds, it finds in an entry in use.
LEMMA Resolved ==
  ASSUME CacheOK, NEW q, LookupArp(q) # NoMac
  PROVE  LookupArp(q) \in Mac /\ size # 0
<1>1. SlotsOf(q) # {}
  BY DEF LookupArp
<1>2. SlotsOf(q) \in SUBSET Nat /\ SlotsOf(q) \subseteq Used
  BY RouterArpAssumption DEF SlotsOf, Used, Slot
<1>3. Min(SlotsOf(q)) \in Used
  BY <1>1, <1>2, MinOf
<1>4. PICK k \in Used : LookupArp(q) = cache[k].mac
  BY <1>1, <1>3 DEF LookupArp
<1>5. k \in Slot /\ k <= size
  BY DEF Used
<1>6. cache[k].mac \in Mac \union {NoMac}
  BY <1>5 DEF CacheOK, ArpEntry
<1>7. size # 0
  BY <1>5, RouterArpAssumption DEF CacheOK, Slot
<1>. QED BY <1>4, <1>6, <1>7

\* An entry that takes over an IP address, or a MAC address, and the time.
Readdressed(e, q, t) == [e EXCEPT !.ip = q, !.ts = t]
Rehosted(e, m, t) == [e EXCEPT !.mac = m, !.ts = t]

LEMMA Restamped ==
  ASSUME NEW e \in ArpEntry, NEW t \in 0..MaxTime
  PROVE  \E f \in ArpEntry : f = [e EXCEPT !.ts = t] /\ f.ip = e.ip /\ f.mac = e.mac
<1>1. PICK f : f = [e EXCEPT !.ts = t]
  OBVIOUS
<1>2. f \in ArpEntry
  BY <1>1, SMT DEF ArpEntry
<1>3. f.ip = e.ip /\ f.mac = e.mac
  BY <1>1, SMT DEF ArpEntry
<1>. QED BY <1>1, <1>2, <1>3

LEMMA ReaddressedEntry ==
  ASSUME NEW e \in ArpEntry, NEW q \in Ip, NEW t \in 0..MaxTime
  PROVE  /\ Readdressed(e, q, t) \in ArpEntry
         /\ Readdressed(e, q, t).ip = q
         /\ Readdressed(e, q, t).mac = e.mac
<1>1. PICK f : f = [e EXCEPT !.ip = q]
  OBVIOUS
<1>2. f \in ArpEntry
  BY <1>1, SMT DEF ArpEntry
<1>3. f.ip = q /\ f.mac = e.mac
  BY <1>1, SMT DEF ArpEntry
<1>4. PICK g \in ArpEntry : g = [f EXCEPT !.ts = t] /\ g.ip = f.ip /\ g.mac = f.mac
  BY <1>2, Restamped, Zenon
<1>5. Readdressed(e, q, t) = g
  BY <1>1, <1>4, Zenon DEF Readdressed
<1>. QED BY <1>3, <1>4, <1>5

LEMMA RehostedEntry ==
  ASSUME NEW e \in ArpEntry, NEW m \in Mac, NEW t \in 0..MaxTime
  PROVE  /\ Rehosted(e, m, t) \in ArpEntry
         /\ Rehosted(e, m, t).ip = e.ip
         /\ Rehosted(e, m, t).mac = m
<1>1. PICK f : f = [e EXCEPT !.mac = m]
  OBVIOUS
<1>2. f \in ArpEntry
  BY <1>1, SMT DEF ArpEntry
<1>3. f.ip = e.ip /\ f.mac = m
  BY <1>1, SMT DEF ArpEntry
<1>4. PICK g \in ArpEntry : g = [f EXCEPT !.ts = t] /\ g.ip = f.ip /\ g.mac = f.mac
  BY <1>2, Restamped, Zenon
<1>5. Rehosted(e, m, t) = g
  BY <1>1, <1>4, Zenon DEF Rehosted
<1>. QED BY <1>3, <1>4, <1>5

\* Slot k of the cache c holds the pair (q, m); the others are as they were.
Rewritten(c, k, q, m) ==
  /\ c \in [Slot -> ArpEntry]
  /\ c[k].ip = q /\ c[k].mac = m
  /\ \A j \in Slot : j # k => c[j] = cache[j]

LEMMA WithIpRewrites ==
  ASSUME CacheOK, NEW k \in Slot, NEW q \in Ip
  PROVE  Rewritten(WithIp(k, q), k, q, cache[k].mac)
<1>1. cache[k] \in ArpEntry /\ now \in 0..MaxTime /\ cache \in [Slot -> ArpEntry]
  BY DEF CacheOK
<1>2. PICK e : e = Readdressed(cache[k], q, now)
  OBVIOUS
<1>3. e \in ArpEntry /\ e.ip = q /\ e.mac = cache[k].mac
  BY <1>1, <1>2, ReaddressedEntry
<1>4. WithIp(k, q) = [cache EXCEPT ![k] = e]
  BY <1>1, <1>2, Zenon DEF WithIp, Readdressed
<1>. QED BY <1>1, <1>3, <1>4 DEF Rewritten

LEMMA WithMacRewrites ==
  ASSUME CacheOK, NEW k \in Slot, NEW m \in Mac
  PROVE  Rewritten(WithMac(k, m), k, cache[k].ip, m)
<1>1. cache[k] \in ArpEntry /\ now \in 0..MaxTime /\ cache \in [Slot -> ArpEntry]
  BY DEF CacheOK
<1>2. PICK e : e = Rehosted(cache[k], m, now)
  OBVIOUS
<1>3. e \in ArpEntry /\ e.ip = cache[k].ip /\ e.mac = m
  BY <1>1, <1>2, RehostedEntry
<1>4. WithMac(k, m) = [cache EXCEPT ![k] = e]
  BY <1>1, <1>2, Zenon DEF WithMac, Rehosted
<1>. QED BY <1>1, <1>3, <1>4 DEF Rewritten

\* "fill up gap": no two slots in use after it come from the same one before.
LEMMA GapFilled ==
  ASSUME CacheOK, InBounds, NEW c \in [Slot -> ArpEntry], NEW b \in Used,
         \A i, j \in Used :
           (i # b /\ j # b /\ (c[i].ip = c[j].ip \/ c[i].mac = c[j].mac)) => i = j,
         NEW beyond \in Beyond, cache' = ShiftDown(c, b, beyond), size' = size - 1, now' = now
  PROVE  CacheOK'
<1>. USE RouterArpAssumption DEF CacheOK, Slot
<1>1. size \in Nat /\ CacheSize \in Nat /\ size <= CacheSize /\ b \in Nat /\ 1 <= b /\ b <= size
  BY DEF InBounds, Used
<1>2. Used = 1..size /\ Used' = 1..(size - 1)
  BY <1>1 DEF Used
<1>3. beyond \in ArpEntry /\ \A j \in Slot : j < CacheSize => j + 1 \in Slot
  BY <1>1
<1>4. cache' \in [Slot -> ArpEntry]
  BY <1>1, <1>3 DEF ShiftDown
<1>. DEFINE from(k) == IF k < b THEN k ELSE k + 1
<1>5. \A k \in Used' : from(k) \in Used /\ from(k) # b /\ cache'[k] = c[from(k)]
  BY <1>1, <1>2 DEF ShiftDown
<1>6. \A i, j \in Used' : from(i) = from(j) => i = j
  BY <1>1, <1>2
<1>. HIDE DEF from
<1>7. UniqueAddresses'
  BY <1>5, <1>6 DEF UniqueAddresses
<1>. QED BY <1>1, <1>4, <1>7

\* Every case of learn_arp keeps each address in one entry.
LEMMA LearnArpKeeps ==
  ASSUME CacheOK, InBounds, NEW q \in Ip, NEW m \in Mac, LearnArp(q, m), now' = now
  PROVE  CacheOK'
<1>. DEFINE a == Max(MacHits(m))
            b == Max(IpHits(q, m))
<1>1. Used \subseteq Slot /\ (size' = size => Used' = Used)
  BY DEF Used
<1>2. MacHits(m) # {} => a \in Used /\ cache[a].mac = m
  BY MacHit DEF MacHits
<1>3. IpHits(q, m) # {} => b \in Used /\ cache[b].ip = q /\ cache[b].mac # m
  BY IpHit DEF IpHits
<1>4. MacHits(m) = {} => \A j \in Used : cache[j].mac # m
  BY DEF MacHits
<1>5. IpHits(q, m) = {} => \A j \in Used : cache[j].mac # m => cache[j].ip # q
  BY DEF IpHits
<1>6. CASE MacHits(m) # {} /\ IpHits(q, m) # {}
  <2>1. PICK c : c = WithIp(a, q)
    OBVIOUS
  <2>2. PICK beyond \in Beyond : cache' = ShiftDown(c, b, beyond) /\ size' = size - 1
    BY <1>6, <2>1 DEF LearnArp
  <2>3. Rewritten(c, a, q, m)
    BY <1>1, <1>2, <1>6, <2>1, WithIpRewrites
  <2>. HIDE DEF a, b
  <2>4. \A i, j \in Used :
          (i # b /\ j # b /\ (c[i].ip = c[j].ip \/ c[i].mac = c[j].mac)) => i = j
    BY <1>1, <1>2, <1>3, <1>6, <2>3 DEF Rewritten, CacheOK, UniqueAddresses
  <2>. QED BY <1>3, <1>6, <2>2, <2>3, <2>4, GapFilled DEF Rewritten
<1>7. CASE MacHits(m) # {} /\ IpHits(q, m) = {}
  <2>1. cache' = WithIp(a, q) /\ size' = size
    BY <1>7 DEF LearnArp
  <2>2. Rewritten(cache', a, q, m)
    BY <1>1, <1>2, <1>7, <2>1, WithIpRewrites
  <2>. HIDE DEF a, b
  <2>3. UniqueAddresses'
    BY <1>1, <1>2, <1>5, <1>7, <2>1, <2>2 DEF Rewritten, CacheOK, UniqueAddresses
  <2>. QED BY <2>1, <2>2, <2>3 DEF Rewritten, CacheOK
<1>8. CASE MacHits(m) = {} /\ IpHits(q, m) # {}
  <2>1. cache' = WithMac(b, m) /\ size' = size
    BY <1>8 DEF LearnArp
  <2>2. Rewritten(cache', b, q, m)
    BY <1>1, <1>3, <1>8, <2>1, WithMacRewrites
  <2>. HIDE DEF a, b
  <2>3. UniqueAddresses'
    BY <1>1, <1>3, <1>4, <1>8, <2>1, <2>2 DEF Rewritten, CacheOK, UniqueAddresses
  <2>. QED BY <2>1, <2>2, <2>3 DEF Rewritten, CacheOK
<1>9. CASE MacHits(m) = {} /\ IpHits(q, m) = {}
  <2>1. NewEntry(q, m)
    BY <1>9 DEF LearnArp
  <2>. DEFINE e == [ip |-> q, mac |-> m, ts |-> now]
  <2>2. e \in ArpEntry /\ e.ip = q /\ e.mac = m
    BY DEF ArpEntry, CacheOK
  <2>. HIDE DEF e
  <2>3. PICK k \in Slot :
          /\ IF size < CacheSize THEN k = size + 1 ELSE IsOldestEntry(k)
          /\ cache' = [cache EXCEPT ![k] = e]
    BY <2>1 DEF NewEntry, e
  <2>4. size' = size + 1 /\ size \in Nat /\ CacheSize \in Nat /\ size <= CacheSize
    BY <2>1, RouterArpAssumption DEF NewEntry, CacheOK, InBounds
  <2>5. Rewritten(cache', k, q, m)
    BY <2>2, <2>3 DEF Rewritten, CacheOK
  <2>6. \A j \in Used' : j # k => j \in Used /\ cache'[j] = cache[j]
    BY <2>3, <2>4, <2>5 DEF Rewritten, Used, Slot
  <2>7. UniqueAddresses'
    BY <1>4, <1>5, <1>9, <2>5, <2>6 DEF Rewritten, CacheOK, UniqueAddresses
  <2>. QED BY <2>4, <2>5, <2>7 DEF Rewritten, CacheOK
<1>. QED BY <1>6, <1>7, <1>8, <1>9
-----------------------------------------------------------------------------
(* What the handlers write                                                 *)

LEMMA MtuType == \A p \in Ifc : Mtu[p] \in Int
<1>1. \A p \in Ifc : TypedMtu[p] \in AcceptedMtu
  BY RouterAssumption
<1>2. \A p \in Ifc : IfcMtu(TypedMtu[p]) \in Int
  BY <1>1, MtuRange
<1>. QED BY <1>2 DEF Mtu

Recipient == Mac \union {IfcMac[q] : q \in Ifc} \union {AnyMac}

LEMMA MessageType ==
  ASSUME NEW kind \in Kind, NEW p \in Ifc, NEW to \in Recipient, NEW ttl \in 0..255, NEW n \in Nat
  PROVE  Message(kind, p, to, ttl, n) \in Written
<1>. QED BY DEF Message, Written, Recipient

\* forward_to lets nothing pass that is too large.
LEMMA EmitFits ==
  ASSUME NEW n \in Nat, NEW s, DOMAIN s = 1..n, \A k \in 1..n : s[k] \in Written, Emit(s)
  PROVE  OutputOK' /\ status' \in {status, "aborted", "undefined"}
<1>. DEFINE tooLarge == {k \in 1..n : s[k].size > Mtu[s[k].ifc]}
<1>1. \A k \in 1..n : s[k].size \in Nat /\ s[k].ifc \in Ifc /\ Mtu[s[k].ifc] \in Int
  BY MtuType DEF Written
<1>2. CASE tooLarge = {}
  <2>1. out' = s /\ status' = status
    BY <1>2 DEF Emit
  <2>2. \A k \in 1..n : s[k].size <= Mtu[s[k].ifc]
    BY <1>1, <1>2
  <2>. QED BY <2>1, <2>2 DEF OutputOK, Mtu
<1>3. CASE tooLarge # {}
  <2>1. PICK m : m = Min(tooLarge)
    OBVIOUS
  <2>2. m \in 1..n /\ \A k \in tooLarge : m <= k
    <3>1. tooLarge \in SUBSET Nat /\ tooLarge \subseteq 1..n
      OBVIOUS
    <3>. HIDE DEF tooLarge
    <3>. QED BY <1>3, <2>1, <3>1, MinOf
  <2>3. out' = SubSeq(s, 1, m - 1) /\ status' \in {"aborted", "undefined"}
    BY <1>3, <2>1 DEF Emit
  <2>4. /\ out' \in Seq(Written) /\ Len(out') = m - 1
        /\ \A k \in 1..(m - 1) : out'[k] = s[k]
    <3>1. \A k \in 1..(m - 1) : s[k] \in Written
      BY <2>2
    <3>2. m - 1 \in Int /\ m - 1 >= 0
      BY <2>2
    <3>. QED BY <2>3, <3>1, <3>2, SubSeqProperties
  <2>5. DOMAIN out' = 1..(m - 1)
    BY <2>4, LenProperties
  <2>6. \A k \in 1..(m - 1) : s[k] \in Written /\ s[k].size <= Mtu[s[k].ifc]
    <3>1. \A k \in 1..(m - 1) : k \in 1..n /\ k \notin tooLarge
      BY <2>2
    <3>. QED BY <1>1, <3>1
  <2>. QED BY <2>3, <2>4, <2>5, <2>6 DEF OutputOK, Mtu
<1>. QED BY <1>2, <1>3

\* one message, or two
LEMMA EmitNone == ASSUME Emit(<<>>) PROVE OutputOK' /\ status' = status
<1>. QED BY DEF Emit, OutputOK

LEMMA EmitOne ==
  ASSUME NEW x \in Written, Emit(<<x>>)
  PROVE  OutputOK' /\ status' \in {status, "aborted", "undefined"}
<1>1. PICK s : s = <<x>>
  OBVIOUS
<1>2. DOMAIN s = 1..1 /\ \A k \in 1..1 : s[k] \in Written
  BY <1>1
<1>3. Emit(s)
  BY <1>1
<1>. QED BY <1>2, <1>3, EmitFits

LEMMA EmitTwo ==
  ASSUME NEW x \in Written, NEW y \in Written, Emit(<<x, y>>)
  PROVE  OutputOK' /\ status' \in {status, "aborted", "undefined"}
<1>1. PICK s : s = <<x, y>>
  OBVIOUS
<1>2. DOMAIN s = 1..2 /\ \A k \in 1..2 : s[k] \in Written
  BY <1>1
<1>3. Emit(s)
  BY <1>1
<1>. QED BY <1>2, <1>3, EmitFits

LEMMA NoOutput == ASSUME out' = <<>> PROVE OutputOK'
<1>. QED BY DEF OutputOK
-----------------------------------------------------------------------------
(* The list of routes                                                      *)

LEMMA RouteLimit ==
  /\ MaxRoutes \in Nat /\ NumIfc \in Nat /\ Max({MaxRoutes, NumIfc}) \in Nat
  /\ MaxRoutes <= Max({MaxRoutes, NumIfc})
  /\ NumIfc <= Max({MaxRoutes, NumIfc})
<1>1. MaxRoutes \in Nat /\ NumIfc \in Nat
  BY RoutingAssumption
<1>. DEFINE S == {MaxRoutes, NumIfc}
<1>2. S \in SUBSET Nat /\ S # {} /\ \A k \in S : k <= MaxRoutes + NumIfc
  BY <1>1
<1>3. Max(S) \in S /\ \A k \in S : k <= Max(S)
  <2>. HIDE DEF S
  <2>1. MaxRoutes + NumIfc \in Nat
    BY <1>1
  <2>. QED BY <1>2, <2>1, MaxOf
<1>. QED BY <1>1, <1>3

LEMMA ConnectedAre == ConnectedRoutes = {Boot(p) : p \in Ifc}
<1>. QED BY DEF ConnectedRoutes, Cleared, Boot

LEMMA BootIsTable == IsTable(BootRoutes)
<1>1. \A k \in DOMAIN BootRoutes : BootRoutes[k] \in AllRoutes
  BY BootTable, ConnectedAre DEF AllRoutes
<1>2. Len(BootRoutes) <= Max({MaxRoutes, NumIfc})
  BY BootTable, RouteLimit
<1>. QED BY <1>1, <1>2, BootTable DEF IsTable

LEMMA AddIsTable ==
  ASSUME NEW l, IsTable(l), NEW r \in Route, CreateEntry(r) \in AllRoutes, Len(l) < MaxRoutes
  PROVE  IsTable(AddEntry(l, r)) /\ AddEntry(l, r)[1] = l[1]
<1>1. l \in Seq(Route) /\ l # <<>>
  BY DEF IsTable
<1>2. PICK t \in Seq(Route) : Added(t, l, r) /\ t # <<>> /\ t[1] = l[1]
  BY <1>1, AddedEntry
<1>3. t = AddEntry(l, r) /\ IsInserted(t, l, Predecessor(l, r) + 1, CreateEntry(r))
  BY <1>2 DEF Added
<1>4. Len(l) \in Nat /\ DOMAIN l = 1..Len(l) /\ DOMAIN t = 1..Len(t)
  BY <1>1, LenProperties
<1>5. Len(t) <= Max({MaxRoutes, NumIfc})
  <2>1. Len(t) = Len(l) + 1
    BY <1>3 DEF IsInserted
  <2>. QED BY <1>4, <2>1, RouteLimit
<1>6. \A k \in DOMAIN t : t[k] \in AllRoutes
  <2>1. PICK i : i = Predecessor(l, r) + 1
    OBVIOUS
  <2>2. i \in 1..(Len(l) + 1)
    <3>1. Predecessor(l, r) \in 1..Len(l)
      BY <1>1, PredecessorInList, Zenon
    <3>. QED BY <1>4, <2>1, <3>1
  <2>3. \A k \in DOMAIN t : t[k] = CreateEntry(r) \/ \E j \in DOMAIN l : t[k] = l[j]
    BY <1>3, <1>4, <2>1, <2>2 DEF IsInserted
  <2>. QED BY <2>3 DEF IsTable
<1>7. Sorted(t)
  BY <1>1, <1>2, AddKeepsOrder DEF IsTable, Sorted
<1>. QED BY <1>2, <1>3, <1>5, <1>6, <1>7, Zenon DEF IsTable

LEMMA DeleteIsTable ==
  ASSUME NEW l, IsTable(l), NEW r \in Route
  PROVE  IsTable(DeleteEntry(l, r)) /\ DeleteEntry(l, r)[1] = l[1]
<1>1. l \in Seq(Route) /\ l # <<>>
  BY DEF IsTable
<1>2. CASE DeleteEntry(l, r) = l
  BY <1>2
<1>3. ASSUME NEW t \in Seq(Route), NEW i \in 2..Len(l),
             t = DeleteEntry(l, r), Deleted(t, l, r, i), t # <<>>, t[1] = l[1]
      PROVE  IsTable(t)
  <2>1. Len(l) \in Nat /\ DOMAIN l = 1..Len(l) /\ DOMAIN t = 1..Len(t)
    BY <1>1, LenProperties
  <2>2. IsRemoved(t, l, i)
    BY <1>3 DEF Deleted
  <2>3. Len(t) = Len(l) - 1 /\ \A k \in DOMAIN t : \E j \in DOMAIN l : t[k] = l[j]
    BY <2>1, <2>2 DEF IsRemoved
  <2>4. Len(t) <= Max({MaxRoutes, NumIfc})
    BY <2>1, <2>3, RouteLimit DEF IsTable
  <2>5. Sorted(t)
    BY <1>1, <1>3, <2>2, DeleteKeepsOrder DEF IsTable, Sorted
  <2>. QED BY <1>3, <2>3, <2>4, <2>5 DEF IsTable
<1>. QED BY <1>1, <1>2, <1>3, DeletedEntry, Zenon

\* parse_frame: the first frame sets up the table, every later one leaves it alone.
LEMMA FirstFrameKeeps ==
  ASSUME TableOK, FirstFrame
  PROVE  TableOK' /\ initialised' = TRUE /\ IsTable(routes')
<1>1. IsTable(routes')
  BY BootIsTable DEF TableOK, FirstFrame
<1>. QED BY <1>1 DEF TableOK, FirstFrame, IsTable

\* What lookup_rt finds is a route.
LEMMA LookedUp ==
  ASSUME NEW l \in Seq(Route), NEW n, HasRoute(l, n)
  PROVE  LookupRt(l, n) \in Route
<1>1. DOMAIN l = 1..Len(l) /\ Len(l) \in Nat
  BY LenProperties
<1>2. RoutesTo(l, n) \in SUBSET Nat /\ RoutesTo(l, n) # {} /\ RoutesTo(l, n) \subseteq 1..Len(l)
  BY <1>1 DEF RoutesTo, HasRoute
<1>3. Min(RoutesTo(l, n)) \in 1..Len(l)
  BY <1>2, MinOf
<1>. QED BY <1>3, ElementOfSeq DEF LookupRt
-----------------------------------------------------------------------------
(* The lines that are typed                                                *)

\* What is behind "route add" or "route del".
LEMMA TailOfTail ==
  ASSUME NEW S, NEW c \in Seq(S), c # <<>>, Tail(c) # <<>>
  PROVE  Tail(Tail(c)) = AfterTwo(c)
<1>1. Tail(c) = SubSeq(c, 2, Len(c)) /\ Tail(c) \in Seq(S)
  BY TailIsSubSeq, HeadTailProperties
<1>2. Len(c) \in Nat /\ Len(c) >= 1
  BY LenProperties, EmptySeq
<1>3. Len(Tail(c)) = Len(c) - 1 /\ Len(Tail(c)) >= 1
  BY <1>1, <1>2, HeadTailProperties, EmptySeq
<1>4. Tail(Tail(c)) = SubSeq(Tail(c), 2, Len(c) - 1)
  BY <1>1, <1>3, TailIsSubSeq
<1>5. \A i \in 1..(Len(c) - 1) : Tail(c)[i] = c[i + 1]
  BY <1>3, HeadTailProperties
<1>6. \A i \in 2..(Len(c) - 1) : Tail(c)[i] \in S
  BY <1>1, <1>3, ElementOfSeq
<1>7. \A i \in 3..Len(c) : c[i] \in S
  BY <1>2, ElementOfSeq
<1>. DEFINE u == SubSeq(Tail(c), 2, Len(c) - 1)
            v == SubSeq(c, 3, Len(c))
<1>8. /\ u \in Seq(S)
      /\ Len(u) = IF 2 <= Len(c) - 1 THEN (Len(c) - 1) - 2 + 1 ELSE 0
      /\ \A i \in 1..((Len(c) - 1) - 2 + 1) : u[i] = Tail(c)[2 + i - 1]
  <2>1. Len(c) - 1 \in Int
    BY <1>2
  <2>. QED BY <1>6, <2>1, SubSeqProperties
<1>9. /\ v \in Seq(S)
      /\ Len(v) = IF 3 <= Len(c) THEN Len(c) - 3 + 1 ELSE 0
      /\ \A i \in 1..(Len(c) - 3 + 1) : v[i] = c[3 + i - 1]
  BY <1>2, <1>7, SubSeqProperties
<1>. HIDE DEF u, v
<1>10. Len(u) = Len(v)
  BY <1>2, <1>8, <1>9
<1>11. \A i \in 1..Len(u) : u[i] = v[i]
  BY <1>2, <1>5, <1>8, <1>9
<1>12. u = v
  BY <1>8, <1>9, <1>10, <1>11, SeqEqual
<1>. QED BY <1>4, <1>12, Zenon DEF AfterTwo, u, v
-----------------------------------------------------------------------------
(* The handlers                                                            *)

LEMMA CacheStays == ASSUME CacheOK, UNCHANGED arpVars PROVE CacheOK'
<1>. QED BY DEF CacheOK, arpVars, UniqueAddresses, Used

LEMMA PacketFields ==
  ASSUME NEW pkt \in Packet
  PROVE  pkt.dst \in Ip /\ pkt.src \in Mac /\ pkt.ttl \in 0..255 /\ pkt.payload \in Nat
<1>. QED BY RouterAssumption

\* the route that decides a packet's way is one of the list
LEMMA NextRouteType ==
  ASSUME routes' \in Seq(Route), NEW p, NEW pkt, HasNextHop(p, pkt)
  PROVE  NextRoute(p, pkt).ifc \in Ifc
<1>1. NextRoute(p, pkt) \in Route
  BY LookedUp DEF NextRoute, HasNextHop
<1>. QED BY <1>1 DEF Route

LEMMA IcmpType ==
  ASSUME NEW kind \in Kind, NEW p \in Ifc, NEW to \in Recipient, NEW pkt \in Packet
  PROVE  Icmp(kind, p, to, pkt) \in Written
<1>1. pkt.payload + IcmpOverhead \in Nat
  BY PacketFields DEF IcmpOverhead, EthernetSize, Ipv4Size
<1>. QED BY <1>1, MessageType DEF Icmp

LEMMA QueryType == ASSUME NEW p \in Ifc PROVE Query(p) \in Written
<1>1. ArpSize \in Nat /\ "query" \in Kind /\ AnyMac \in Recipient
  BY DEF ArpSize, EthernetSize, Kind, Recipient
<1>. QED BY <1>1, MessageType DEF Query

LEMMA ForwardedType ==
  ASSUME CacheOK, routes' \in Seq(Route), NEW p \in Ifc, NEW pkt \in Packet, NextHopKnown(p, pkt)
  PROVE  ForwardPacket(p, pkt) \in Written
<1>1. NextRoute(p, pkt).ifc \in Ifc
  BY NextRouteType DEF NextHopKnown
<1>2. LookupArp(NextHop(p, pkt)) \in Recipient
  BY Resolved DEF NextHopKnown, Recipient
<1>3. pkt.ttl - 1 \in 0..255 /\ pkt.payload + Headers \in Nat
  BY PacketFields DEF NextHopKnown, Headers, EthernetSize, Ipv4Size
<1>4. "packet" \in Kind
  BY DEF Kind
<1>. QED BY <1>1, <1>2, <1>3, <1>4, MessageType DEF ForwardPacket

LEMMA FragmentsType ==
  ASSUME routes' \in Seq(Route), NEW p \in Ifc, NEW pkt \in Packet, Fragmented(p, pkt)
  PROVE  OutputOK' /\ status' \in {status, "aborted", "undefined"}
<1>1. pkt.ttl \in 0..255 /\ pkt.payload \in Nat
  BY PacketFields
<1>2. TypedMtu[p] \in AcceptedMtu /\ Mtu[p] = IfcMtu(TypedMtu[p])
  BY RouterAssumption DEF Mtu
<1>3. Exceeds(IfcMtu(TypedMtu[p]), pkt.payload)
  BY <1>2 DEF Fragmented, Fits
<1>4. FragmentSize(Mtu[p]) \in Int /\ 1 <= FragmentSize(Mtu[p])
  BY <1>1, <1>2, <1>3, FragmentIsSmaller
<1>5. PICK n : n = FragmentCount(Mtu[p], pkt.payload)
  OBVIOUS
<1>6. n \in Nat
  <2>1. ASSUME NEW d \in Int, 1 <= d, NEW m \in Nat
        PROVE  m \div d \in Nat
    BY <2>1, SMT
  <2>2. pkt.payload \div FragmentSize(Mtu[p]) \in Nat
    BY <1>1, <1>4, <2>1
  <2>. QED BY <1>5, <2>2 DEF FragmentCount
<1>. DEFINE s == [j \in 1..n |->
                    Message("fragment", NextRoute(p, pkt).ifc, AnyMac, (pkt.ttl - j) % 256,
                            Headers + FragmentSize(Mtu[p]))]
<1>7. Emit(s)
  BY <1>5, Zenon DEF Fragmented
<1>8. NextRoute(p, pkt).ifc \in Ifc
  BY NextRouteType DEF Fragmented, NextHopKnown
<1>9. \A k \in 1..n : s[k] \in Written
  <2>1. Headers + FragmentSize(Mtu[p]) \in Nat
    BY <1>4 DEF Headers, EthernetSize, Ipv4Size
  <2>2. \A k \in 1..n : (pkt.ttl - k) % 256 \in 0..255
    <3>1. \A z \in Int : z % 256 \in 0..255
      BY SMT
    <3>2. \A k \in 1..n : pkt.ttl - k \in Int
      <4>1. PICK t \in 0..255 : t = pkt.ttl
        BY <1>1
      <4>2. \A k \in 1..n : t - k \in Int
        BY <1>6
      <4>. QED BY <4>1, <4>2
    <3>. QED BY <3>1, <3>2, Zenon
  <2>3. "fragment" \in Kind /\ AnyMac \in Recipient
    BY DEF Kind, Recipient
  <2>. QED BY <1>8, <2>1, <2>2, <2>3, MessageType
<1>10. DOMAIN s = 1..n
  OBVIOUS
<1>. HIDE DEF s
<1>. QED BY <1>6, <1>7, <1>9, <1>10, EmitFits

\* What a step does to the list of routes: nothing, or it is set up, or a route
\* that was typed is added, or one is deleted.
TableStep ==
  \/ UNCHANGED tableVars
  \/ FirstFrame
  \/ /\ initialised
     /\ UNCHANGED initialised
     /\ \E r \in Route :
          \/ /\ CreateEntry(r) \in AllRoutes
             /\ Len(routes) < MaxRoutes
             /\ routes' = AddEntry(routes, r)
          \/ routes' = DeleteEntry(routes, r)

LEMMA TableStepKeeps ==
  ASSUME TableOK, TableStep
  PROVE  TableOK'
<1>1. CASE UNCHANGED tableVars
  BY <1>1 DEF TableOK, tableVars
<1>2. CASE FirstFrame
  BY <1>2, FirstFrameKeeps
<1>3. ASSUME initialised, UNCHANGED initialised, NEW r \in Route,
             CreateEntry(r) \in AllRoutes, Len(routes) < MaxRoutes, routes' = AddEntry(routes, r)
      PROVE  TableOK'
  <2>1. IsTable(AddEntry(routes, r))
    BY <1>3, AddIsTable DEF TableOK
  <2>. QED BY <1>3, <2>1 DEF TableOK, IsTable
<1>4. ASSUME initialised, UNCHANGED initialised, NEW r \in Route, routes' = DeleteEntry(routes, r)
      PROVE  TableOK'
  <2>1. IsTable(DeleteEntry(routes, r))
    BY <1>4, DeleteIsTable DEF TableOK
  <2>. QED BY <1>4, <2>1 DEF TableOK, IsTable
<1>. QED BY <1>1, <1>2, <1>3, <1>4 DEF TableStep

Wrote == OutputOK' /\ status' \in {"starting", "running", "aborted", "undefined"}

LEMMA Ipv4Writes ==
  ASSUME RouterInv, NEW p \in Ifc, NEW pkt \in Packet, HandleIpv4(p, pkt)
  PROVE  Wrote
<1>. DEFINE Done == OutputOK' /\ status' \in {status, "aborted", "undefined"}
<1>1. routes' \in Seq(Route)
  BY FirstFrameKeeps DEF RouterInv, HandleIpv4, IsTable
<1>2. CacheOK
  BY DEF RouterInv
<1>3. /\ pkt.src \in Recipient
      /\ IcmpKind \subseteq Kind /\ {"exceeded", "noroute", "nohost", "toolarge"} \subseteq IcmpKind
      /\ \A q \in Ifc : IfcMac[q] \in Recipient
  BY PacketFields DEF Recipient, Kind, IcmpKind
<1>4. CASE TtlExceeded(p, pkt)
  <2>1. Icmp("exceeded", p, pkt.src, pkt) \in Written
    BY <1>3, IcmpType
  <2>2. Done
    BY <1>4, <2>1, EmitOne DEF TtlExceeded
  <2>. QED BY <2>2 DEF Wrote, RouterInv
<1>5. CASE NetworkUnreachable(p, pkt)
  <2>1. Icmp("noroute", p, pkt.src, pkt) \in Written
    BY <1>3, IcmpType
  <2>2. Done
    BY <1>5, <2>1, EmitOne DEF NetworkUnreachable
  <2>. QED BY <2>2 DEF Wrote, RouterInv
<1>6. CASE HostUnreachable(p, pkt)
  <2>1. NextRoute(p, pkt).ifc \in Ifc
    BY <1>1, <1>6, NextRouteType DEF HostUnreachable
  <2>2. Icmp("nohost", p, IfcMac[NextRoute(p, pkt).ifc], pkt) \in Written
    BY <1>3, <2>1, IcmpType
  <2>3. Done
    BY <1>6, <2>2, QueryType, EmitTwo DEF HostUnreachable
  <2>. QED BY <2>3 DEF Wrote, RouterInv
<1>7. CASE Forward(p, pkt)
  <2>1. ForwardPacket(p, pkt) \in Written
    BY <1>1, <1>2, <1>7, ForwardedType DEF Forward
  <2>2. Done
    BY <1>7, <2>1, EmitOne DEF Forward
  <2>. QED BY <2>2 DEF Wrote, RouterInv
<1>8. CASE FragmentationNeeded(p, pkt)
  <2>1. ForwardPacket(p, pkt) \in Written
    BY <1>1, <1>2, <1>8, ForwardedType DEF FragmentationNeeded
  <2>2. NextRoute(p, pkt).ifc \in Ifc
    BY <1>1, <1>8, NextRouteType DEF FragmentationNeeded, NextHopKnown
  <2>3. Icmp("toolarge", p, IfcMac[NextRoute(p, pkt).ifc], pkt) \in Written
    BY <1>3, <2>2, IcmpType
  <2>4. Done
    BY <1>8, <2>1, <2>3, EmitTwo DEF FragmentationNeeded
  <2>. QED BY <2>4 DEF Wrote, RouterInv
<1>9. CASE Fragmented(p, pkt)
  <2>1. Done
    BY <1>1, <1>9, FragmentsType
  <2>. QED BY <2>1 DEF Wrote, RouterInv
<1>. QED BY <1>4, <1>5, <1>6, <1>7, <1>8, <1>9 DEF HandleIpv4

LEMMA ArpRequestWrites ==
  ASSUME RouterInv, NEW p \in Ifc, NEW target, NEW m \in Mac, HandleArpRequest(p, target, m)
  PROVE  Wrote
<1>1. PICK n : n = Cardinality({i \in Ifc : IfcIp[i] = target})
  OBVIOUS
<1>2. n \in Nat
  <2>1. IsFiniteSet(Ifc)
    BY FS_Interval, RoutingAssumption DEF Ifc
  <2>2. IsFiniteSet({i \in Ifc : IfcIp[i] = target})
    BY <2>1, FS_Subset
  <2>. QED BY <1>1, <2>2, FS_CardinalityType
<1>. DEFINE s == [k \in 1..n |-> Message("reply", p, m, 0, ArpSize)]
<1>3. Emit(s)
  BY <1>1, Zenon DEF HandleArpRequest
<1>4. Message("reply", p, m, 0, ArpSize) \in Written
  <2>1. "reply" \in Kind /\ m \in Recipient /\ 0 \in 0..255 /\ ArpSize \in Nat
    BY DEF Kind, Recipient, ArpSize, EthernetSize
  <2>. QED BY <2>1, MessageType
<1>5. DOMAIN s = 1..n /\ \A k \in 1..n : s[k] \in Written
  BY <1>4
<1>. HIDE DEF s
<1>6. OutputOK' /\ status' \in {status, "aborted", "undefined"}
  BY <1>2, <1>3, <1>5, EmitFits
<1>. QED BY <1>6 DEF Wrote, RouterInv

\* a line that begins with "route add" or "route del" and goes on as it should
LEMMA RouteLine ==
  ASSUME NEW c \in CommandLines, c # <<>>,
         Subcommand(Tail(c)) \in {Word("add"), Word("del")}, IsRoute(Tail(Tail(c)))
  PROVE  /\ ParseRoute(Tail(Tail(c))) \in Route
         /\ CreateEntry(ParseRoute(Tail(Tail(c)))) \in AllRoutes
<1>1. c \in Seq(ToSet(c))
  BY RouterAssumption
<1>2. Tail(c) # <<>>
  BY DEF Subcommand, Word
<1>3. Tail(Tail(c)) = AfterTwo(c)
  BY <1>1, <1>2, TailOfTail
<1>4. ParseRoute(AfterTwo(c)) \in Route /\ ParseRoute(AfterTwo(c)) \in TypedRoutes
  BY <1>3, RouterAssumption, Zenon DEF TypedRoutes
<1>5. CreateEntry(ParseRoute(AfterTwo(c))) \in AllRoutes
  BY <1>4, Zenon DEF AllRoutes, Cleared
<1>. QED BY <1>3, <1>4, <1>5

LEMMA ControlSteps ==
  ASSUME RouterInv, NEW c \in CommandLines, HandleControl(c)
  PROVE  Wrote /\ TableStep
<1>1. c \in Seq(ToSet(c)) /\ \A k \in DOMAIN c : IsName(c[k]) => c[k][2] \in Ifc
  BY RouterAssumption
<1>2. ASSUME OnlyText PROVE Wrote /\ TableStep
  BY <1>2, EmitNone DEF OnlyText, Wrote, RouterInv, TableStep, tableVars, HandleControl
<1>3. CASE c # <<>> /\ c[1] = Word("arp")
  <2>1. ProcessCmdArp(Tail(c)) /\ UNCHANGED initialised
    BY <1>3 DEF HandleControl
  <2>. DEFINE t == Tail(c)
  <2>2. CASE IsQuery(t) /\ Emit(<<Query(t[2][2])>>) /\ UNCHANGED routes
    <3>1. t[2] = c[3] /\ 3 \in DOMAIN c
      <4>1. Len(t) = Len(c) - 1 /\ \A i \in 1..Len(t) : t[i] = c[i + 1]
        BY <1>1, <1>3, HeadTailProperties
      <4>2. Len(c) \in Nat /\ DOMAIN c = 1..Len(c)
        BY <1>1, LenProperties
      <4>3. Len(t) >= 2
        BY <2>2 DEF IsQuery
      <4>. QED BY <4>1, <4>2, <4>3
    <3>2. t[2][2] \in Ifc
      BY <1>1, <2>2, <3>1 DEF IsQuery
    <3>3. Emit(<<Query(t[2][2])>>)
      BY <2>2, Zenon
    <3>4. OutputOK' /\ status' \in {status, "aborted", "undefined"}
      BY <3>2, <3>3, QueryType, EmitOne
    <3>. QED BY <2>1, <2>2, <3>4 DEF Wrote, RouterInv, TableStep, tableVars
  <2>. QED BY <1>2, <2>1, <2>2 DEF ProcessCmdArp
<1>4. CASE c # <<>> /\ c[1] = Word("route")
  <2>. DEFINE r == ParseRoute(Tail(Tail(c)))
  <2>1. ProcessCmdRoute(Tail(c)) /\ UNCHANGED initialised
    BY <1>4 DEF HandleControl, Word
  <2>2. \/ Undefined
        \/ /\ Subcommand(Tail(c)) = Word("add") /\ IsRoute(Tail(Tail(c)))
           /\ RouteAdd(r)
        \/ /\ Subcommand(Tail(c)) = Word("del") /\ IsRoute(Tail(Tail(c)))
           /\ RouteDel(r)
        \/ OnlyText
    <3>. HIDE DEF r
    <3>. QED BY <2>1 DEF ProcessCmdRoute, r
  <2>3. CASE Undefined
    BY <2>1, <2>3, NoOutput DEF Undefined, Wrote, TableStep, tableVars
  <2>4. CASE Subcommand(Tail(c)) = Word("add") /\ IsRoute(Tail(Tail(c))) /\ RouteAdd(r)
    <3>1. r \in Route /\ CreateEntry(r) \in AllRoutes
      BY <1>4, <2>4, RouteLine
    <3>. HIDE DEF r
    <3>2. initialised /\ routes # <<>>
      BY <2>4, Resolved DEF RouteAdd, RouterInv, TableOK, IsTable
    <3>3. Len(routes) < MaxRoutes /\ routes' = AddEntry(routes, r) /\ status' = status /\ out' = <<>>
      BY <2>4, <3>2 DEF RouteAdd
    <3>4. OutputOK'
      BY <3>3, NoOutput
    <3>. QED BY <2>1, <3>1, <3>2, <3>3, <3>4 DEF Wrote, RouterInv, TableStep
  <2>5. CASE Subcommand(Tail(c)) = Word("del") /\ IsRoute(Tail(Tail(c))) /\ RouteDel(r)
    <3>1. r \in Route
      BY <1>4, <2>5, RouteLine
    <3>. HIDE DEF r
    <3>2. routes' = DeleteEntry(routes, r) /\ OutputOK' /\ status' = status
      BY <2>5, EmitNone DEF RouteDel
    <3>3. CASE initialised
      BY <2>1, <3>1, <3>2, <3>3 DEF Wrote, RouterInv, TableStep
    <3>4. CASE ~ initialised
      <4>1. routes = <<>>
        BY <3>4 DEF RouterInv, TableOK
      <4>2. Deletable(routes, r) = {}
        BY <4>1 DEF Deletable
      <4>3. routes' = routes
        BY <3>2, <4>2 DEF DeleteEntry
      <4>. QED BY <2>1, <3>2, <4>3 DEF Wrote, RouterInv, TableStep, tableVars
    <3>. QED BY <3>3, <3>4
  <2>. QED BY <1>2, <2>2, <2>3, <2>4, <2>5
<1>. QED BY <1>2, <1>3, <1>4 DEF HandleControl
-----------------------------------------------------------------------------
(* The inductive invariant                                                 *)

LEMMA InitInv == Init => RouterInv
<1>. SUFFICES ASSUME Init PROVE RouterInv
  OBVIOUS
<1>1. Blank \in ArpEntry
  BY RoutingAssumption, RouterArpAssumption DEF Blank, ArpEntry
<1>2. Used = {}
  BY RouterArpAssumption DEF Init, Used, Slot
<1>3. CacheOK
  BY <1>1, <1>2, RouterArpAssumption DEF Init, CacheOK, UniqueAddresses
<1>4. TableOK
  BY DEF Init, TableOK
<1>5. OutputOK
  BY DEF Init, OutputOK
<1>. QED BY <1>3, <1>4, <1>5 DEF Init, RouterInv

\* everything that a step does
Outcome == Wrote /\ TableStep /\ CacheOK' /\ (~ initialised' => size' = 0)

LEMMA NextSteps ==
  ASSUME RouterInv, [Next]_vars
  PROVE  Outcome
<1>. USE DEF RouterInv, Outcome
<1>1. ASSUME NEW p \in Ifc, NEW pkt \in Packet, HandleIpv4(p, pkt)
      PROVE  Outcome
  <2>1. FirstFrame /\ UNCHANGED arpVars
    BY <1>1 DEF HandleIpv4
  <2>. QED BY <1>1, <2>1, Ipv4Writes, CacheStays DEF TableStep, FirstFrame
<1>2. ASSUME NEW p \in Ifc, NEW target, NEW m \in Mac, HandleArpRequest(p, target, m)
      PROVE  Outcome
  <2>1. FirstFrame /\ UNCHANGED arpVars
    BY <1>2 DEF HandleArpRequest, ArpFirstFrame
  <2>. QED BY <1>2, <2>1, ArpRequestWrites, CacheStays DEF TableStep, FirstFrame
<1>3. ASSUME NEW p \in Ifc, NEW q \in Neighbour, NEW m \in Mac, HandleArpReply(p, q, m)
      PROVE  Outcome
  <2>1. FirstFrame /\ LearnArp(q, m) /\ InBounds /\ now' = now /\ Emit(<<>>)
    BY <1>3 DEF HandleArpReply, ArpFirstFrame
  <2>2. q \in Ip
    BY RouterAssumption
  <2>3. CacheOK'
    BY <2>1, <2>2, LearnArpKeeps
  <2>4. Wrote
    BY <2>1, EmitNone DEF Wrote
  <2>. QED BY <2>1, <2>3, <2>4 DEF TableStep, FirstFrame
<1>4. CASE HandleOtherFrame
  <2>1. FirstFrame /\ UNCHANGED arpVars /\ Emit(<<>>)
    BY <1>4 DEF HandleOtherFrame
  <2>2. Wrote
    BY <2>1, EmitNone DEF Wrote
  <2>. QED BY <2>1, <2>2, CacheStays DEF TableStep, FirstFrame
<1>5. ASSUME NEW c \in CommandLines, HandleControl(c)
      PROVE  Outcome
  <2>1. UNCHANGED <<initialised, arpVars>>
    BY <1>5 DEF HandleControl
  <2>. QED BY <1>5, <2>1, ControlSteps, CacheStays DEF arpVars
<1>6. ASSUME NEW n \in DriverIfcs, HandleMac(n)
      PROVE  Outcome
  <2>1. UNCHANGED <<tableVars, arpVars>> /\ out' = <<>> /\ status' \in {"aborted", "running"}
    BY <1>6 DEF HandleMac
  <2>2. Wrote
    BY <2>1, NoOutput DEF Wrote
  <2>. QED BY <2>1, <2>2, CacheStays DEF TableStep, tableVars, arpVars
<1>7. CASE ReadPastEnd
  <2>1. UNCHANGED <<tableVars, arpVars>> /\ out' = <<>> /\ status' = "undefined"
    BY <1>7 DEF ReadPastEnd, Undefined, tableVars
  <2>2. Wrote
    BY <2>1, NoOutput DEF Wrote
  <2>. QED BY <2>1, <2>2, CacheStays DEF TableStep, tableVars, arpVars
<1>8. CASE Tick
  <2>1. UNCHANGED <<tableVars, cache, size, status>> /\ out' = <<>> /\ now' \in 0..MaxTime
    BY <1>8, RouterArpAssumption DEF Tick, CacheOK
  <2>2. CacheOK'
    BY <2>1 DEF CacheOK, UniqueAddresses, Used
  <2>3. Wrote
    BY <2>1, NoOutput DEF Wrote
  <2>. QED BY <2>1, <2>2, <2>3 DEF TableStep, tableVars
<1>9. CASE UNCHANGED vars
  <2>1. UNCHANGED <<tableVars, arpVars>> /\ out' = out /\ status' = status
    BY <1>9 DEF vars
  <2>2. Wrote
    BY <2>1 DEF Wrote, OutputOK, Mtu
  <2>. QED BY <2>1, <2>2, CacheStays DEF TableStep, tableVars, arpVars
<1>. HIDE DEF Outcome, RouterInv
<1>10. CASE Frame
  BY <1>1, <1>2, <1>3, <1>4, <1>10, Zenon DEF Frame
<1>11. CASE Next
  BY <1>5, <1>6, <1>7, <1>8, <1>9, <1>10, <1>11, Zenon DEF Next, Command, Ended
<1>. QED BY <1>9, <1>11

LEMMA NextInv == RouterInv /\ [Next]_vars => RouterInv'
<1>. SUFFICES ASSUME RouterInv, [Next]_vars PROVE RouterInv'
  OBVIOUS
<1>1. Wrote /\ TableStep /\ CacheOK' /\ (~ initialised' => size' = 0)
  BY NextSteps DEF Outcome
<1>2. TableOK'
  BY <1>1, TableStepKeeps DEF RouterInv
<1>. QED BY <1>1, <1>2 DEF RouterInv, Wrote

LEMMA InvHolds == Spec => []RouterInv
<1>. QED BY InitInv, NextInv, PTL DEF Spec

\* Every table and every frame of the router is what its type says, and no frame
\* that it writes is larger than the MTU of its interface (forward_to).
THEOREM TypeCorrect == Spec => []TypeOK
<1>1. RouterInv => TypeOK
  <2>. SUFFICES ASSUME RouterInv PROVE TypeOK
    OBVIOUS
  <2>1. routes \in Seq(Route) /\ Len(routes) <= Max({MaxRoutes, NumIfc})
    <3>1. CASE initialised
      BY <3>1 DEF RouterInv, TableOK, IsTable
    <3>2. CASE ~ initialised
      BY <3>2, RouteLimit, EmptySeq DEF RouterInv, TableOK
    <3>. QED BY <3>1, <3>2 DEF RouterInv, TableOK
  <2>. QED BY <2>1 DEF TypeOK, RouterInv, TableOK, CacheOK, OutputOK
<1>. QED BY <1>1, InvHolds, PTL

\* A route that is typed before the first frame never gets to the NULL pointer
\* (process_cmd_route_add, add_entry).
THEOREM NoRouteBeforeTheTable == Spec => []NeverCrashes
<1>1. RouterInv => NeverCrashes
  BY DEF RouterInv, NeverCrashes
<1>. QED BY <1>1, InvHolds, PTL

\* No address is ever in two entries of the ARP cache (learn_arp).
THEOREM EachAddressOnce == Spec => []UniqueAddresses
<1>1. RouterInv => UniqueAddresses
  BY DEF RouterInv, CacheOK
<1>. QED BY <1>1, InvHolds, PTL

\* Of two routes to one network, but perhaps that of the first node, whose masks
\* both reach into the last byte or both do not, lookup_rt finds the longer prefix
\* first: the ints the masks are compared as are then in the order of the prefixes
\* (lookup_routing_entry_rt).
THEOREM LookupFindsLargestMask == Spec => []LargestMaskFirst
<1>1. RouterInv => LargestMaskFirst
  <2>. SUFFICES ASSUME RouterInv, routes # <<>>, NEW n \in Ip, n # routes[1].target,
                       NEW j \in RoutesTo(routes, n), NEW k \in RoutesTo(routes, n), j < k,
                       Comparable(routes[j].prefix, routes[k].prefix)
                PROVE  routes[j].prefix >= routes[k].prefix
    BY DEF LargestMaskFirst, Ordered
  <2>1. routes \in Seq(Route) /\ Sorted(routes)
    BY DEF RouterInv, TableOK, IsTable
  <2>2. MaskValue(routes[j].prefix) >= MaskValue(routes[k].prefix)
    BY <2>1 DEF Sorted, InOrder
  <2>3. routes[j] \in Route /\ routes[k] \in Route
    BY <2>1, ElementOfSeq, LenProperties DEF RoutesTo
  <2>4. PICK p \in 0..32, q \in 0..32 : p = routes[j].prefix /\ q = routes[k].prefix
    BY <2>3, RouteFields
  <2>5. ~ (MaskValue(p) < MaskValue(q))
    <3>1. PICK u \in Int, v \in Int : u = MaskValue(p) /\ v = MaskValue(q)
      BY MaskRange, Zenon
    <3>2. u >= v
      BY <2>2, <2>4, <3>1, Zenon
    <3>3. ~ (u < v)
      BY <3>2, SMT
    <3>. QED BY <3>1, <3>3, Zenon
  <2>6. ~ (p < q)
    BY <2>4, <2>5, LongerIsLarger DEF Comparable
  <2>. QED BY <2>4, <2>6
<1>. QED BY <1>1, InvHolds, PTL
-----------------------------------------------------------------------------
(* The first node                                                          *)

\* Once there is a list, every step leaves it its first node (add_entry,
\* delete_entry).
THEOREM FirstRouteRemains == Spec => FirstRouteStays
<1>. DEFINE Step == initialised => routes' # <<>> /\ routes'[1] = routes[1]
<1>1. RouterInv /\ [Next]_vars => Step
  <2>. SUFFICES ASSUME RouterInv, [Next]_vars, initialised
                PROVE  routes' # <<>> /\ routes'[1] = routes[1]
    OBVIOUS
  <2>1. IsTable(routes) /\ routes # <<>>
    BY DEF RouterInv, TableOK, IsTable
  <2>2. TableStep
    BY NextSteps DEF Outcome
  <2>3. CASE routes' = routes
    BY <2>1, <2>3
  <2>4. ASSUME NEW r \in Route, CreateEntry(r) \in AllRoutes, Len(routes) < MaxRoutes,
               routes' = AddEntry(routes, r)
        PROVE  routes' # <<>> /\ routes'[1] = routes[1]
    BY <2>1, <2>4, AddIsTable DEF IsTable
  <2>5. ASSUME NEW r \in Route, routes' = DeleteEntry(routes, r)
        PROVE  routes' # <<>> /\ routes'[1] = routes[1]
    BY <2>1, <2>5, DeleteIsTable DEF IsTable
  <2>. QED BY <2>2, <2>3, <2>4, <2>5 DEF TableStep, FirstFrame, tableVars
<1>. QED BY <1>1, InvHolds, PTL DEF Spec, FirstRouteStays
-----------------------------------------------------------------------------
(* The list as a bag                                                       *)

\* An element of a list is in it at least once.
LEMMA CountPositive ==
  ASSUME NEW S, NEW s \in Seq(S), NEW k \in DOMAIN s
  PROVE  Count(s, s[k]) \in Nat /\ Count(s, s[k]) > 0
<1>. DEFINE P == {j \in DOMAIN s : s[j] = s[k]}
<1>1. IsFiniteSet(P) /\ Count(s, s[k]) \in Nat
  BY Positions
<1>2. P # {}
  OBVIOUS
<1>3. Cardinality(P) # 0
  <2>. HIDE DEF P
  <2>. QED BY <1>1, <1>2, FS_EmptySet
<1>4. Count(s, s[k]) = Cardinality(P)
  BY DEF Count
<1>. QED BY <1>1, <1>3, <1>4

\* what the refinement mapping takes the list for
Bag == [r \in AllRoutes |-> Count(routes, r)]

LEMMA BagOfList ==
  Bag = [r \in AllRoutes |-> Cardinality({k \in DOMAIN routes : routes[k] = r})]
<1>. QED BY DEF Bag, Count

LEMMA InitIsEmptyBag == Init => Table!Init
<1>. SUFFICES ASSUME Init PROVE Table!Init
  OBVIOUS
<1>1. \A r \in AllRoutes : {k \in DOMAIN routes : routes[k] = r} = {}
  BY DEF Init
<1>2. Cardinality({}) = 0
  BY FS_EmptySet
<1>3. \A r \in AllRoutes : Cardinality({k \in DOMAIN routes : routes[k] = r}) = 0
  BY <1>1, <1>2
<1>. QED BY <1>3 DEF Table!Init, Init

\* Setting up the list sets up the bag,
LEMMA SetUpIsSetUp ==
  ASSUME TableOK, FirstFrame, ~ initialised
  PROVE  Table!SetUp
<1>1. routes' = BootRoutes /\ initialised' = TRUE
  BY DEF FirstFrame
<1>2. \A r \in AllRoutes : Count(BootRoutes, r) = IF r \in ConnectedRoutes THEN 1 ELSE 0
  BY BootTable, ConnectedAre
<1>3. Bag' = [r \in AllRoutes |-> IF r \in ConnectedRoutes THEN 1 ELSE 0]
  BY <1>1, <1>2 DEF Bag
<1>. QED BY <1>1, <1>3 DEF Table!SetUp, Bag, Count

\* inserting a node adds its route alone,
LEMMA AddIsAdd ==
  ASSUME IsTable(routes), initialised, UNCHANGED initialised, NEW r \in Route,
         CreateEntry(r) \in AllRoutes, routes' = AddEntry(routes, r)
  PROVE  Table!Add(CreateEntry(r))
<1>1. routes \in Seq(Route) /\ routes # <<>>
  BY DEF IsTable
<1>2. PICK e \in AllRoutes : e = CreateEntry(r)
  OBVIOUS
<1>3. \A q \in AllRoutes :
        Count(routes', q) = IF q = e THEN Count(routes, q) + 1 ELSE Count(routes, q)
  BY <1>1, <1>2, AddCounts
<1>4. Bag' = [Bag EXCEPT ![e] = @ + 1]
  BY <1>3 DEF Bag
<1>5. Table!Add(e)
  BY <1>4 DEF Table!Add, Bag, Count
<1>. QED BY <1>2, <1>5

\* and taking out a node that is not the first removes its route, but not as the
\* last.
LEMMA DeleteIsRemove ==
  ASSUME IsTable(routes), initialised, UNCHANGED initialised, NEW r \in Route,
         routes' = DeleteEntry(routes, r), routes' # routes
  PROVE  \E e \in AllRoutes : Table!Remove(e)
<1>1. routes \in Seq(Route) /\ routes # <<>>
  BY DEF IsTable
<1>2. PICK t \in Seq(Route), i \in 2..Len(routes) :
        t = routes' /\ Deleted(t, routes, r, i) /\ t # <<>> /\ t[1] = routes[1]
  BY <1>1, DeletedEntry
<1>3. /\ Len(routes) \in Nat /\ DOMAIN routes = 1..Len(routes)
      /\ Len(t) \in Nat /\ Len(t) >= 1 /\ DOMAIN t = 1..Len(t)
  BY <1>1, <1>2, LenProperties, EmptySeq
<1>4. PICK e \in AllRoutes : e = routes[i]
  BY <1>3 DEF IsTable
<1>5. \A q : Count(t, q) = IF q = e THEN Count(routes, q) - 1 ELSE Count(routes, q)
  BY <1>1, <1>2, <1>3, <1>4, CountRemoved DEF Deleted
<1>6. Count(routes, e) \in Nat /\ Count(routes, e) > 0
  BY <1>1, <1>3, <1>4, CountPositive
<1>7. Count(routes, e) > 1 \/ \E q \in AllRoutes \ {e} : Count(routes, q) > 0
  <2>1. routes[1] \in AllRoutes /\ 1 \in DOMAIN routes /\ 1 \in DOMAIN t
    BY <1>3 DEF IsTable
  <2>2. CASE routes[1] = e
    <3>1. Count(t, e) \in Nat /\ Count(t, e) > 0
      BY <1>2, <2>1, <2>2, CountPositive
    <3>. QED BY <1>5, <1>6, <3>1
  <2>3. CASE routes[1] # e
    <3>1. Count(routes, routes[1]) > 0
      BY <1>1, <2>1, CountPositive
    <3>. QED BY <2>1, <2>3, <3>1
  <2>. QED BY <2>2, <2>3
<1>8. Bag' = [Bag EXCEPT ![e] = @ - 1]
  BY <1>2, <1>5 DEF Bag
<1>9. Bag[e] > 0 /\ (Bag[e] > 1 \/ \E q \in AllRoutes \ {e} : Bag[q] > 0)
  BY <1>6, <1>7 DEF Bag
<1>10. Table!Remove(e)
  BY <1>8, <1>9, BagOfList, Zenon DEF Table!Remove, Bag, Count
<1>. QED BY <1>10

LEMMA StepIsBagStep ==
  ASSUME RouterInv, [Next]_vars
  PROVE  [Table!Next]_(Table!vars)
<1>1. TableOK /\ TableStep
  BY NextSteps DEF RouterInv, Outcome
<1>2. CASE UNCHANGED tableVars
  <2>1. initialised' = initialised /\ Bag' = Bag
    BY <1>2 DEF tableVars, Bag
  <2>2. UNCHANGED Table!vars
    BY <2>1, Zenon DEF Table!vars, Bag, Count
  <2>. QED BY <2>2
<1>3. CASE FirstFrame /\ ~ initialised
  BY <1>1, <1>3, SetUpIsSetUp DEF Table!Next
<1>4. CASE FirstFrame /\ initialised
  BY <1>1, <1>2, <1>4 DEF FirstFrame, tableVars, TableOK
<1>5. ASSUME initialised, UNCHANGED initialised, NEW r \in Route,
             CreateEntry(r) \in AllRoutes, routes' = AddEntry(routes, r)
      PROVE  Table!Next
  BY <1>1, <1>5, AddIsAdd DEF TableOK, Table!Next
<1>6. ASSUME initialised, UNCHANGED initialised, NEW r \in Route, routes' = DeleteEntry(routes, r),
             routes' # routes
      PROVE  Table!Next
  BY <1>1, <1>6, DeleteIsRemove DEF TableOK, Table!Next
<1>. QED BY <1>1, <1>2, <1>3, <1>4, <1>5, <1>6 DEF TableStep, tableVars

\* The linked list is a bag of routes: a command adds or takes out one route and
\* loses, doubles or changes no other, and never the last one (add_entry,
\* delete_entry, init_router).
THEOREM ListImplementsRouteBag == Spec => ImplementsRouteBag
<1>. QED BY InitIsEmptyBag, StepIsBagStep, InvHolds, PTL DEF Spec, ImplementsRouteBag, Table!Spec
=============================================================================
