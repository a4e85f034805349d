------------------------------- MODULE ArpTool -------------------------------
(***************************************************************************)
(* The arp tool of arp.c: it answers ARP requests for the addresses of its *)
(* interfaces, keeps a cache of the ARP replies sent to them, and runs the *)
(* user's "arp" commands.  One action per handler; an ARP message is       *)
(* reduced to its operation and the addresses the handlers read.           *)
(*                                                                         *)
(* arpCacheSize can pass the end of the array.  A step that would then     *)
(* read or write behind it has no defined outcome in C: it sets status to  *)
(* "undefined", from where nothing is claimed any more.                    *)
(***************************************************************************)
EXTENDS FrameSizes, FiniteSets

CONSTANTS
  Ip, Mac,    \* addresses
  NoIp,       \* the IP address of a zeroed slot
  NoMac,      \* the MAC address of a zeroed slot
  NumIfc,     \* interfaces on the command line
  IfcIp,      \* their addresses, from the command line
  TypedMtu,   \* and MTUs
  DriverIfcs, \* how many interfaces the driver may announce
  CacheSize,  \* ARP_CACHE_SIZE
  Beyond,     \* what the memory behind arpCache may be, read as an entry
  MaxTime     \* bound on the clock

VARIABLES
  status,  \* "starting", "running", "aborted" or "undefined"
  cache,   \* arpCache
  size,    \* arpCacheSize
  now,     \* what time(NULL) returns
  claim,   \* the pair of the reply just taken into account, or NoClaim
  out      \* what the last handler wrote

vars == <<status, cache, size, now, claim, out>>

Ifc == 1..NumIfc
Slot == 1..CacheSize
Entry == [ip : Ip \union {NoIp}, mac : Mac \union {NoMac}, ifc : 0..NumIfc, ts : Nat]

ASSUME ArpAssumption ==
  /\ NumIfc \in Nat \ {0}
  /\ CacheSize \in Nat \ {0}
  /\ MaxTime \in Nat
  /\ IfcIp \in [Ifc -> Ip]
  /\ TypedMtu \in [Ifc -> Nat]
  /\ \A p \in Ifc : TypedMtu[p] = Unspecified \/ TypedMtu[p] >= SmallestMtu
  /\ DriverIfcs \subseteq Nat
  /\ \A n \in DriverIfcs : n >= NumIfc
  /\ Beyond \subseteq Entry
  /\ Beyond # {}
  /\ NoIp \notin Ip
  /\ NoMac \notin Mac

Blank == [ip |-> NoIp, mac |-> NoMac, ifc |-> 0, ts |-> 0]

NoClaim == [ip |-> NoIp, mac |-> NoMac]
Claim == [ip : Ip, mac : Mac]

\* Output: copies of an ARP reply or request on an interface, or a printed MAC
Message(kind, p, n) == [kind |-> kind, ifc |-> p, copies |-> n, mac |-> NoMac]
Told(m) == [kind |-> "told", ifc |-> 0, copies |-> 1, mac |-> m]
NoOutput == Message("none", 0, 0)
Output ==
  [kind : {"none", "reply", "query", "told", "table"}, ifc : 0..NumIfc,
   copies : 0..NumIfc, mac : Mac \union {NoMac}]

\* bytes of an ARP message, and of the largest frame of an interface
ArpSize == EthernetSize + 28
Mtu == [p \in Ifc |-> IfcMtu(TypedMtu[p])]

\* forward_to for n copies: the first that is larger than the interface allows
\* ends the process.  No MTU that is typed is so small, but one that wraps is.
Send(kind, p, n) ==
  IF n > 0 /\ ArpSize > Mtu[p]
  THEN status' = "aborted" /\ out' = NoOutput
  ELSE /\ out' = IF n = 0 THEN NoOutput ELSE Message(kind, p, n)
       /\ UNCHANGED status
-----------------------------------------------------------------------------
\* the used slots that lie inside the array
Used == {k \in Slot : k <= size}

\* does a loop over all arpCacheSize entries stay inside the array?
InBounds == size <= CacheSize

LastOf(S) == CHOOSE k \in S : \A j \in S : j <= k
FirstOf(S) == CHOOSE k \in S : \A j \in S : k <= j

\* MAC_inCache and IP_inCache: the `continue' keeps a slot that matches the
\* MAC from counting as a match of the IP
MacHits(m) == {k \in Used : cache[k].mac = m}
IpHitsAnywhere(q, m) == {k \in Used : cache[k].ip = q}  \* mutant: no `continue'
IpHits(q, m) == {k \in Used : cache[k].mac # m /\ cache[k].ip = q}

\* search_oldest_entry: the last slot older than the first, whose timestamp
\* the loop never replaces
NewerThanFirst == {k \in Used : cache[k].ts > cache[1].ts}  \* mutant
OlderThanFirst == {k \in Used : cache[k].ts < cache[1].ts}
IsOldestEntry(v) ==
  \/ v = 1 /\ OlderThanFirst = {}
  \/ v \in OlderThanFirst /\ \A k \in OlderThanFirst : k <= v

\* "fill up gap": every used slot from k on takes over its successor, which for
\* the last slot of the array is what lies behind it.
ShiftDown(c, k, beyond) ==
  [j \in Slot |-> IF j \notin k..size THEN c[j]
                  ELSE IF j < CacheSize THEN c[j + 1] ELSE beyond]
-----------------------------------------------------------------------------
(* The four cases of lookup_and_add for a reply (q, m) received on p.      *)

Retarget(k, q, p) ==
  [cache EXCEPT ![k].ip = q, ![k].ifc = p, ![k].ts = now]

\* mutant: the slot that held the IP is not removed
BothKeepGap(q, m, p) ==
  /\ MacHits(m) # {}
  /\ IpHits(q, m) # {}
  /\ cache' = Retarget(LastOf(MacHits(m)), q, p)
  /\ UNCHANGED size

BothKeepSize(q, m, p) ==  \* mutant: the slots move up, the counter stays
  /\ MacHits(m) # {}
  /\ IpHits(q, m) # {}
  /\ \E beyond \in Beyond :
       cache' = ShiftDown(Retarget(LastOf(MacHits(m)), q, p), LastOf(IpHits(q, m)), beyond)
  /\ UNCHANGED size

BothInCache(q, m, p) ==
  /\ MacHits(m) # {}
  /\ IpHits(q, m) # {}
  /\ \E beyond \in Beyond :
       cache' = ShiftDown(Retarget(LastOf(MacHits(m)), q, p), LastOf(IpHits(q, m)), beyond)
  /\ size' = size - 1

MacInCache(q, m, p) ==
  /\ MacHits(m) # {}
  /\ IpHits(q, m) = {}
  /\ cache' = Retarget(LastOf(MacHits(m)), q, p)
  /\ UNCHANGED size

\* the code stores the sender's IP again, and not its MAC
IpInCache(q, m, p) ==
  /\ MacHits(m) = {}
  /\ IpHits(q, m) # {}
  /\ cache' = Retarget(LastOf(IpHits(q, m)), q, p)
  /\ UNCHANGED size

\* the counter grows even when an old entry made room
NewInCache(q, m, p) ==
  /\ MacHits(m) = {}
  /\ IpHits(q, m) = {}
  /\ \E k \in Slot :
       /\ IF size < CacheSize THEN k = size + 1 ELSE IsOldestEntry(k)
       /\ cache' = [cache EXCEPT ![k] = [ip |-> q, mac |-> m, ifc |-> p, ts |-> now]]
  /\ size' = size + 1
-----------------------------------------------------------------------------
Init ==
  /\ status = "starting"
  /\ cache = [k \in Slot |-> Blank]
  /\ size = 0
  /\ now = 0
  /\ claim = NoClaim
  /\ out = NoOutput

\* the first message: handle_mac for the MAC address of every interface, which
\* aborts at the first one that is not on the command line
HandleMac(n) ==
  /\ status = "starting"
  /\ status' = IF n > NumIfc THEN "aborted" ELSE "running"
  /\ UNCHANGED <<cache, size, now, claim, out>>

\* Is the reply taken into account: not ours, and meant for this interface?
MeantForUs(p, q, target) == q # IfcIp[p] /\ target = IfcIp[p]

\* parse_frame and lookup_and_add for an ARP reply: sender (q, m)
LearnReply(p, q, m, target) ==
  /\ status = "running"
  /\ MeantForUs(p, q, target)
  /\ InBounds
  /\ \/ BothInCache(q, m, p)
     \/ MacInCache(q, m, p)
     \/ IpInCache(q, m, p)
     \/ NewInCache(q, m, p)
  /\ claim' = [ip |-> q, mac |-> m]
  /\ out' = NoOutput
  /\ UNCHANGED <<status, now>>

IgnoreReply(p, q, target) ==
  /\ status = "running"
  /\ ~ MeantForUs(p, q, target)
  /\ claim' = NoClaim
  /\ out' = NoOutput
  /\ UNCHANGED <<status, cache, size, now>>

\* parse_frame and send_response: one answer, made from the ingress interface,
\* for each interface that has the requested address
HandleRequest(p, target) ==
  /\ status = "running"
  /\ Send("reply", p, Cardinality({i \in Ifc : IfcIp[i] = target}))
  /\ claim' = NoClaim
  /\ UNCHANGED <<cache, size, now>>

\* "arp IP IFC": print the first matching entry, else broadcast a request
PrintMac(q) ==
  /\ \E k \in Used : cache[k].ip = q
  /\ out' = Told(cache[FirstOf({k \in Used : cache[k].ip = q})].mac)
  /\ UNCHANGED status

SendQuery(q, p) ==
  /\ \A k \in Used : cache[k].ip # q
  /\ InBounds
  /\ Send("query", p, 1)

CommandArpIp(q, p) ==
  /\ status = "running"
  /\ PrintMac(q) \/ SendQuery(q, p)
  /\ claim' = NoClaim
  /\ UNCHANGED <<cache, size, now>>

\* "arp": print_arp_cache
CommandArp ==
  /\ status = "running"
  /\ InBounds
  /\ out' = Message("table", 0, 1)
  /\ claim' = NoClaim
  /\ UNCHANGED <<status, cache, size, now>>

\* a frame or command that is answered on stderr only
HandleOther ==
  /\ status = "running"
  /\ claim' = NoClaim
  /\ out' = NoOutput
  /\ UNCHANGED <<status, cache, size, now>>

\* The next loop over the cache leaves the array.  So does the one that fills a
\* gap in a full cache: the other outcome of reading one element too far.
GapAtTheEnd ==
  /\ size = CacheSize
  /\ \E q \in Ip, m \in Mac : MacHits(m) # {} /\ IpHits(q, m) # {}

ReadPastEnd ==
  /\ status = "running"
  /\ ~ InBounds \/ GapAtTheEnd
  /\ status' = "undefined"
  /\ claim' = NoClaim
  /\ out' = NoOutput
  /\ UNCHANGED <<cache, size, now>>

\* An ARP frame of more than 42 bytes is copied over the end of arpRequest, and
\* a command without a word calls strcasecmp(NULL).  (A shorter ARP frame leaves
\* fields unset: any values, so one of the actions above.)
MalformedInput ==
  /\ status = "running"
  /\ status' = "undefined"
  /\ claim' = NoClaim
  /\ out' = NoOutput
  /\ UNCHANGED <<cache, size, now>>

Tick ==
  /\ now < MaxTime
  /\ now' = now + 1
  /\ claim' = NoClaim
  /\ out' = NoOutput
  /\ UNCHANGED <<status, cache, size>>

\* abort(), or anything at all
Ended == status \in {"aborted", "undefined"} /\ UNCHANGED vars

Next ==
  \/ \E n \in DriverIfcs : HandleMac(n)
  \/ \E p \in Ifc, q, target \in Ip, m \in Mac : LearnReply(p, q, m, target)
  \/ \E p \in Ifc, q, target \in Ip : IgnoreReply(p, q, target)
  \/ \E p \in Ifc, target \in Ip : HandleRequest(p, target)
  \/ \E q \in Ip, p \in Ifc : CommandArpIp(q, p)
  \/ CommandArp
  \/ HandleOther
  \/ ReadPastEnd
  \/ MalformedInput
  \/ Tick
  \/ Ended

Spec == Init /\ [][Next]_vars
-----------------------------------------------------------------------------
(* Properties                                                              *)

\* The entries that count are complete.  The size can exceed the array by one:
\* see SizeBounded.
TypeOK ==
  /\ status \in {"starting", "running", "aborted", "undefined"}
  /\ cache \in [Slot -> Entry]
  /\ \A k \in Used : cache[k].ip \in Ip /\ cache[k].mac \in Mac
  /\ size \in 0..(CacheSize + 1)
  /\ now \in Nat
  /\ claim \in Claim \union {NoClaim}
  /\ out \in Output

\* 02-documentation-ARP.md:112-113: a MAC address and an IP address are unique
\* within the table, whichever of the four cases a reply takes.
UniqueAddresses ==
  \A j, k \in Used :
    cache[j].ip = cache[k].ip \/ cache[j].mac = cache[k].mac => j = k

\* An address the user asks about again is never answered from an entry that
\* some reply moved away: what the slots and the counter amount to is the
\* one-to-one association of ArpBinding.
BindingOf(q) ==
  IF \E k \in Used : cache[k].ip = q
  THEN cache[FirstOf({k \in Used : cache[k].ip = q})].mac
  ELSE NoMac

Binding == INSTANCE ArpBinding WITH
  Capacity <- CacheSize,
  ok <- status # "undefined",
  binding <- [q \in Ip |-> BindingOf(q)],
  told <- out.mac

ImplementsBinding == Binding!Spec

\* A new address makes room at the expense of an entry that is not among the
\* most recent ones, unless all have the same age (search_oldest_entry).
EvictsNotNewest ==
  [][\A k \in Used :
       (/\ \A j \in Slot : j <= size' => cache'[j].mac # cache[k].mac
        /\ size' > size
        /\ \E j \in Used : cache[j].ts # cache[k].ts)
       => \E j \in Used : cache[j].ts > cache[k].ts]_vars

\* 02-documentation-ARP.md:109: the table can contain up to 10 entries.
SizeBounded == size <= CacheSize
=============================================================================
