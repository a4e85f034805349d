------------------------------ MODULE RouterArp ------------------------------
(***************************************************************************)
(* The ARP cache inside router.c.  It is a copy of the one in arp.c, with  *)
(* one difference: when only the IP address of a reply is known, its entry *)
(* takes over the MAC address.  The interface that an entry also records   *)
(* is only printed, and left out.                                          *)
(***************************************************************************)
EXTENDS RoutingTable, FiniteSets

CONSTANTS
  Mac,        \* the MAC addresses of other stations
  NoMac,      \* NULL_ADDRESS
  CacheSize,  \* ARP_CACHE_SIZE
  Beyond,     \* what the memory behind arpCache may be, read as an entry
  MaxTime     \* bound on the clock

VARIABLES
  cache,  \* arpCache
  size,   \* arpCacheSize
  now     \* what time(NULL) returns

Slot == 1..CacheSize
Blank == [ip |-> Anywhere, mac |-> NoMac, ts |-> 0]
ArpEntry == [ip : Ip, mac : Mac \union {NoMac}, ts : 0..MaxTime]

ASSUME RouterArpAssumption ==
  /\ NoMac \notin Mac
  /\ CacheSize \in Nat \ {0}
  /\ MaxTime \in Nat
  /\ Beyond \subseteq ArpEntry
  /\ Beyond # {}

\* the entries in use, and whether a loop over all of them stays in the array
Used == {k \in Slot : k <= size}
InBounds == size <= CacheSize

\* lookup_ipv4_inARP, and ipv4_lookup
SlotsOf(q) == {k \in Used : cache[k].ip = q}
LookupArp(q) == IF SlotsOf(q) = {} THEN NoMac ELSE cache[Min(SlotsOf(q))].mac

\* they stop at the entry they look for, so they leave an array that is overfull
\* only when it is not there
Unresolved(q) == LookupArp(q) = NoMac /\ InBounds

\* MAC_inCache and IP_inCache
MacHits(m) == {k \in Used : cache[k].mac = m}
IpHits(q, m) == {k \in Used : cache[k].mac # m /\ cache[k].ip = q}

\* search_oldest_entry: the last slot older than the first
IsOldestEntry(v) ==
  LET older == {k \in Used : cache[k].ts < cache[1].ts}
  IN  v = Max({1} \union older)

\* slot k gets a new address and is the most recent one
WithIp(k, q) == [cache EXCEPT ![k].ip = q, ![k].ts = now]
WithMac(k, m) == [cache EXCEPT ![k].mac = m, ![k].ts = now]

\* "fill up gap": every used slot from k on takes over its successor, which for
\* the last slot of the array is what lies behind it.
ShiftDown(c, k, beyond) ==
  [j \in Slot |-> IF j \notin k..size THEN c[j]
                  ELSE IF j < CacheSize THEN c[j + 1] ELSE beyond]

\* learn_arp for a reply of (q, m)
NewEntry(q, m) ==
  /\ \E k \in Slot :
       /\ IF size < CacheSize THEN k = size + 1 ELSE IsOldestEntry(k)
       /\ cache' = [cache EXCEPT ![k] = [ip |-> q, mac |-> m, ts |-> now]]
  /\ size' = size + 1

LearnArpByIp(q, m) ==  \* mutant: the MAC address is not looked for
  IF SlotsOf(q) = {}
  THEN NewEntry(q, m)
  ELSE cache' = WithMac(Max(SlotsOf(q)), m) /\ UNCHANGED size

LearnArp(q, m) ==
  LET macSlots == MacHits(m)
      ipSlots == IpHits(q, m)
  IN  CASE macSlots # {} /\ ipSlots # {} ->
             /\ \E beyond \in Beyond :
                  cache' = ShiftDown(WithIp(Max(macSlots), q), Max(ipSlots), beyond)
             /\ size' = size - 1
        [] macSlots # {} /\ ipSlots = {} ->
             /\ cache' = WithIp(Max(macSlots), q)
             /\ UNCHANGED size
        [] macSlots = {} /\ ipSlots # {} ->
             /\ cache' = WithMac(Max(ipSlots), m)
             /\ UNCHANGED size
        [] OTHER -> NewEntry(q, m)
=============================================================================
