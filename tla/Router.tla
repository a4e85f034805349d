-------------------------------- MODULE Router --------------------------------
(***************************************************************************)
(* The router of router.c: it handles IPv4 packets and ARP messages of its *)
(* interfaces and the user's "arp" and "route" commands.  One action per   *)
(* handler, or per outcome of route(); a packet is reduced to what decides *)
(* its fate.                                                               *)
(***************************************************************************)
EXTENDS RouterArp, CommandLine, FrameSizes

CONSTANTS
  IfcMac,     \* MAC address of each interface, as the driver announces them
  DriverIfcs, \* how many interfaces the driver may announce
  TypedMtu,   \* the MTU each interface was given on the command line
  Packet,     \* IPv4 packets that may arrive
  Neighbour,  \* addresses of other stations that take part in ARP
  CommandLines, \* what the user may type, cut into words
  AnyMac      \* "to nobody in particular": broadcast, or bytes never set

\* the words behind "route add" or "route del"
AfterTwo(words) == SubSeq(words, 3, Len(words))

ASSUME RouterAssumption ==
  /\ DriverIfcs \subseteq Nat
  /\ \A n \in DriverIfcs : n >= NumIfc
  /\ TypedMtu \in [Ifc -> AcceptedMtu]
  /\ Packet \subseteq [dst : Ip, src : Mac, ttl : 0..255, payload : Nat, df : BOOLEAN]
  /\ Neighbour \subseteq Ip
  /\ \A c \in CommandLines :
       /\ c \in Seq(ToSet(c))
       /\ \A k \in DOMAIN c : IsName(c[k]) => c[k][2] \in Ifc
       /\ IsRoute(AfterTwo(c)) => ParseRoute(AfterTwo(c)) \in Route

VARIABLES
  status,  \* "starting", "running", "aborted", "crashed" (the list was used
           \* before there was one) or "undefined" (an array was left, or a
           \* function of the C library was given NULL)
  out      \* the frames the last handler wrote, in order

tableVars == <<routes, initialised>>
arpVars == <<cache, size, now>>
vars == <<tableVars, arpVars, status, out>>

\* bytes of the largest frame of each interface
Mtu == [p \in Ifc |-> IfcMtu(TypedMtu[p])]

\* what an ICMP error adds to the payload it returns, and the size of ARP messages
IcmpOverhead == EthernetSize + Ipv4Size + 8 + Ipv4Size
ArpSize == EthernetSize + 28

\* bytes of frame_buff, in which send_ICMP_message builds its frame
FrameBuffer == 2^16 - 1

Message(kind, p, to, ttl, n) == [kind |-> kind, ifc |-> p, to |-> to, ttl |-> ttl, size |-> n]
IcmpKind == {"exceeded", "noroute", "nohost", "toolarge"}
Kind == IcmpKind \union {"query", "reply", "packet", "fragment"}
Written ==
  [kind : Kind, ifc : Ifc, to : Mac \union {IfcMac[q] : q \in Ifc} \union {AnyMac},
   ttl : 0..255, size : Nat]

\* an ICMP message that is copied over the end of frame_buff
Overruns(message) == message.kind \in IcmpKind /\ message.size > FrameBuffer

\* forward_to, called for each message: the first one that is larger than its
\* interface allows ends the process, if building it has not done so
EmitAll(messages) == out' = messages /\ UNCHANGED status  \* mutant: no check

Emit(messages) ==
  LET tooLarge == {k \in DOMAIN messages : messages[k].size > Mtu[messages[k].ifc]}
  IN  IF tooLarge = {}
      THEN out' = messages /\ UNCHANGED status
      ELSE /\ out' = SubSeq(messages, 1, Min(tooLarge) - 1)
           /\ \/ status' = "aborted"
              \/ Overruns(messages[Min(tooLarge)]) /\ status' = "undefined"

\* send_ICMP_message returns the whole packet to `to'
Icmp(kind, p, to, pkt) == Message(kind, p, to, 64, pkt.payload + IcmpOverhead)
Query(p) == Message("query", p, AnyMac, 0, ArpSize)
-----------------------------------------------------------------------------
\* the start of parse_frame: the first frame of all sets up the table
FirstFrame ==
  /\ initialised' = TRUE
  /\ routes' = IF initialised THEN routes ELSE BootRoutes

\* mutant: only an IPv4 frame sets up the table
FirstFrameIfIpv4 == UNCHANGED tableVars

\* route(): the network of the destination is computed with the netmask of the
\* ingress interface p.  The route is the first one to that network, or else
\* the first one to 0.0.0.0, "none" if there is neither.
NetOf(p, pkt) == Masked(pkt.dst, IfcPrefix[p])
HasNextHop(p, pkt) == HasRoute(routes', NetOf(p, pkt)) \/ HasRoute(routes', Anywhere)
NextRoute(p, pkt) ==
  LookupRt(routes', IF HasRoute(routes', NetOf(p, pkt)) THEN NetOf(p, pkt) ELSE Anywhere)

\* the address to resolve: an on-link destination itself
NextHop(p, pkt) ==
  IF HasRoute(routes', NetOf(p, pkt)) /\ NextRoute(p, pkt).gateway = Anywhere
  THEN pkt.dst
  ELSE NextRoute(p, pkt).gateway

TtlExceeded(p, pkt) ==
  /\ pkt.ttl < 1
  /\ Emit(<<Icmp("exceeded", p, pkt.src, pkt)>>)

NetworkUnreachable(p, pkt) ==
  /\ pkt.ttl >= 1
  /\ ~ HasNextHop(p, pkt)
  /\ Emit(<<Icmp("noroute", p, pkt.src, pkt)>>)

\* The query goes out on the ingress interface and is not waited for.  By then
\* the Ethernet source is that of the egress interface, which the ICMP message
\* is returned to.
HostUnreachable(p, pkt) ==
  /\ pkt.ttl >= 1
  /\ HasNextHop(p, pkt)
  /\ Unresolved(NextHop(p, pkt))
  /\ Emit(<<Query(p), Icmp("nohost", p, IfcMac[NextRoute(p, pkt).ifc], pkt)>>)

NextHopKnown(p, pkt) ==
  /\ pkt.ttl >= 1
  /\ HasNextHop(p, pkt)
  /\ LookupArp(NextHop(p, pkt)) # NoMac

\* what fits is judged by the MTU of the ingress interface
Fits(p, pkt) == ~ Exceeds(Mtu[p], pkt.payload)

ForwardPacket(p, pkt) ==
  Message("packet", NextRoute(p, pkt).ifc, LookupArp(NextHop(p, pkt)), pkt.ttl - 1,
          pkt.payload + Headers)

Forward(p, pkt) ==
  /\ NextHopKnown(p, pkt)
  /\ Fits(p, pkt)
  /\ Emit(<<ForwardPacket(p, pkt)>>)

\* check_fragmentation reports it, and route() goes on as if it fitted
FragmentationNeeded(p, pkt) ==
  /\ NextHopKnown(p, pkt)
  /\ ~ Fits(p, pkt)
  /\ pkt.df
  /\ Emit(<<Icmp("toolarge", p, IfcMac[NextRoute(p, pkt).ifc], pkt), ForwardPacket(p, pkt)>>)

\* Every fragment has the size of a full one and a TTL of one less than the one
\* before (a uint8_t).  The Ethernet header and the payload are copied from the
\* addresses of the pointers to them, so the destination may be anything.
Fragmented(p, pkt) ==
  /\ NextHopKnown(p, pkt)
  /\ ~ Fits(p, pkt)
  /\ ~ pkt.df
  /\ Emit([j \in 1..FragmentCount(Mtu[p], pkt.payload) |->
             Message("fragment", NextRoute(p, pkt).ifc, AnyMac, (pkt.ttl - j) % 256,
                     Headers + FragmentSize(Mtu[p]))])

HandleIpv4(p, pkt) ==
  /\ status = "running"
  /\ FirstFrame
  /\ \/ TtlExceeded(p, pkt)
     \/ NetworkUnreachable(p, pkt)
     \/ HostUnreachable(p, pkt)
     \/ Forward(p, pkt)
     \/ FragmentationNeeded(p, pkt)
     \/ Fragmented(p, pkt)
  /\ UNCHANGED arpVars
-----------------------------------------------------------------------------
\* the part of parse_frame before handle_arp
ArpFirstFrame == FirstFrame

\* handle_arp_request: an answer for each interface with the address asked for
HandleArpRequest(p, target, m) ==
  /\ status = "running"
  /\ ArpFirstFrame
  /\ Emit([k \in 1..Cardinality({i \in Ifc : IfcIp[i] = target}) |->
             Message("reply", p, m, 0, ArpSize)])
  /\ UNCHANGED arpVars

\* lookup_and_add_ARP for a reply that is meant for p and not its own
HandleArpReply(p, q, m) ==
  /\ status = "running"
  /\ q # IfcIp[p]
  /\ InBounds
  /\ ArpFirstFrame
  /\ LearnArp(q, m)
  /\ Emit(<<>>)
  /\ UNCHANGED now

\* a frame that is malformed, of another kind, with a bad checksum, or a
\* request or reply that is meant for somebody else
HandleOtherFrame ==
  /\ status = "running"
  /\ FirstFrame
  /\ Emit(<<>>)
  /\ UNCHANGED arpVars
-----------------------------------------------------------------------------
\* handle_mac for every announced address
HandleMac(n) ==
  /\ status = "starting"
  /\ status' = IF n > NumIfc THEN "aborted" ELSE "running"
  /\ out' = <<>>
  /\ UNCHANGED <<tableVars, arpVars>>

\* "route add": the gateway has to be in the ARP cache.  add_entry would follow
\* a NULL pointer in a list that does not exist yet.
RouteAdd(r) ==
  /\ Len(routes) < MaxRoutes
  /\ LookupArp(r.gateway) # NoMac
  /\ IF routes = <<>>
     THEN status' = "crashed" /\ UNCHANGED routes
     ELSE routes' = AddEntry(routes, r) /\ UNCHANGED status
  /\ out' = <<>>

RouteDel(r) ==
  /\ routes' = DeleteEntry(routes, r)
  /\ Emit(<<>>)

\* text for the user, or for stderr
OnlyText == Emit(<<>>) /\ UNCHANGED routes

Undefined == status' = "undefined" /\ out' = <<>> /\ UNCHANGED routes

ProcessCmdRoute(words) ==
  LET r == ParseRoute(Tail(words))
  IN  CASE Subcommand(words) \in {Word("add"), Word("del")} /\ LacksName(Tail(words)) -> Undefined
        [] Subcommand(words) = Word("add") /\ IsRoute(Tail(words)) ->
             RouteAdd(r) \/ (Unresolved(r.gateway) /\ OnlyText)
        [] Subcommand(words) = Word("del") /\ IsRoute(Tail(words)) -> RouteDel(r)
        [] OTHER -> OnlyText

\* "arp IP IFC": a query unless the address is known.  "arp" prints the cache.
ProcessCmdArp(words) ==
  \/ /\ IsQuery(words)
     /\ Unresolved(words[1][2])
     /\ Emit(<<Query(words[2][2])>>)
     /\ UNCHANGED routes
  \/ /\ IsQuery(words) => LookupArp(words[1][2]) # NoMac
     /\ words = <<>> => InBounds
     /\ OnlyText

HandleControl(words) ==
  /\ status = "running"
  /\ IF words # <<>> /\ words[1] = Word("arp") THEN ProcessCmdArp(Tail(words))
     ELSE IF words # <<>> /\ words[1] = Word("route") THEN ProcessCmdRoute(Tail(words))
     ELSE OnlyText
  /\ UNCHANGED <<initialised, arpVars>>

\* The next loop over the cache leaves the array.  So does the one that fills a
\* gap in a full cache: the other outcome of reading one element too far.
GapAtTheEnd ==
  /\ size = CacheSize
  /\ \E q \in Neighbour, m \in Mac : MacHits(m) # {} /\ IpHits(q, m) # {}

ReadPastEnd ==
  /\ status = "running"
  /\ ~ InBounds \/ GapAtTheEnd
  /\ Undefined
  /\ UNCHANGED <<initialised, arpVars>>

Tick ==
  /\ now < MaxTime
  /\ now' = now + 1
  /\ out' = <<>>
  /\ UNCHANGED <<tableVars, cache, size, status>>

Ended == status \notin {"starting", "running"} /\ UNCHANGED vars
-----------------------------------------------------------------------------
Init ==
  /\ routes = <<>>
  /\ initialised = FALSE
  /\ cache = [k \in Slot |-> Blank]
  /\ size = 0
  /\ now = 0
  /\ status = "starting"
  /\ out = <<>>

Frame ==
  \/ \E p \in Ifc, pkt \in Packet : HandleIpv4(p, pkt)
  \/ \E p, i \in Ifc, m \in Mac : HandleArpRequest(p, IfcIp[i], m)
  \/ \E p \in Ifc, q \in Neighbour, m \in Mac : HandleArpReply(p, q, m)
  \/ HandleOtherFrame

Command == \E words \in CommandLines : HandleControl(words)

Next ==
  \/ \E n \in DriverIfcs : HandleMac(n)
  \/ Frame
  \/ Command
  \/ ReadPastEnd
  \/ Tick
  \/ Ended

Spec == Init /\ [][Next]_vars
-----------------------------------------------------------------------------
(* Properties                                                              *)

\* No frame is larger than its interface allows.  The size of the cache exceeds
\* the array by one when a full one has replaced an entry (router.c:975), where
\* 03-documentation-router.md:370 says up to 10 entries; the next loop over the
\* cache then reads behind it.
TypeOK ==
  /\ status \in {"starting", "running", "aborted", "crashed", "undefined"}
  /\ routes \in Seq(Route)
  /\ Len(routes) <= Max({MaxRoutes, NumIfc})
  /\ initialised \in BOOLEAN
  /\ cache \in [Slot -> ArpEntry]
  /\ size \in 0..(CacheSize + 1)
  /\ now \in 0..MaxTime
  /\ \A k \in DOMAIN out : out[k] \in Written /\ out[k].size <= Mtu[out[k].ifc]

\* A route can be added before any frame has set up the list, which is then a
\* NULL pointer; but not with success: its gateway has to be in the ARP cache,
\* and only a frame puts it there.
NeverCrashes == status # "crashed"

\* Of two routes to one network, lookup_rt finds the one with the longer prefix
\* first, whatever was added and deleted: as long as both masks reach into the
\* last byte, which holds the sign of the int they are compared as, or neither
\* does (see OrderedByMask).  It need not be so for the network of the first
\* node, before which add_entry puts nothing.
Comparable(p, q) == (p <= 24) = (q <= 24)

Ordered(n) ==
  \A j, k \in RoutesTo(routes, n) :
    (j < k /\ Comparable(routes[j].prefix, routes[k].prefix))
    => routes[j].prefix >= routes[k].prefix

LargestMaskFirst == \A n \in Ip : (routes # <<>> /\ n # routes[1].target) => Ordered(n)

\* router.c:624-629: the routes to one network are ordered by the size of their
\* masks.  The comment says ascending, the code has them descend: let it be
\* either.
Ascending(n) ==
  \A j, k \in RoutesTo(routes, n) : j < k => routes[j].prefix <= routes[k].prefix
Descending(n) ==
  \A j, k \in RoutesTo(routes, n) : j < k => routes[j].prefix >= routes[k].prefix

OrderedByMask ==
  \A n \in Ip : (routes # <<>> /\ n # routes[1].target) => Ascending(n) \/ Descending(n)

\* A MAC address and an IP address are in one entry each, whichever case of
\* learn_arp a reply takes.
UniqueAddresses ==
  \A j, k \in Used :
    cache[j].ip = cache[k].ip \/ cache[j].mac = cache[k].mac => j = k

\* Once there is a list, it keeps its first node, which routing_table is never
\* made to point away from (delete_entry, add_entry).
FirstRouteStays ==
  [][initialised => routes' # <<>> /\ routes'[1] = routes[1]]_vars

\* Inserting and deleting in the linked list never loses, doubles or changes
\* another route.
Cleared(S) == {CreateEntry(r) : r \in S}
ConnectedRoutes == Cleared({ConnectedRoute(p) : p \in Ifc})
TypedRoutes ==
  {ParseRoute(AfterTwo(c)) : c \in {w \in CommandLines : IsRoute(AfterTwo(w))}}
AllRoutes == Cleared(TypedRoutes) \union ConnectedRoutes

Table == INSTANCE RouteBag WITH
  Route <- AllRoutes,
  Connected <- ConnectedRoutes,
  up <- initialised,
  bag <- [r \in AllRoutes |-> Cardinality({k \in DOMAIN routes : routes[k] = r})]

ImplementsRouteBag == Table!Spec

\* The assertion in forward_to (router.c:407-408): no handler makes a frame that
\* is larger than its interface allows.
FramesFit == status # "aborted"
=============================================================================
