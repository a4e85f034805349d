------------------------------- MODULE Datagram -------------------------------
(***************************************************************************)
(* What route() of router.c does to the IPv4 header and the size of a      *)
(* datagram, followed through routers whose tables form a loop.  When it   *)
(* is cut, any one of its fragments is followed.  Next hops and addresses  *)
(* are the subject of module Router, and taken as known here.              *)
(***************************************************************************)
EXTENDS Checksum, FrameSizes

CONSTANTS
  NumRouters,  \* routers in the loop
  TypedMtus,   \* the MTUs the routers may have been given: pairs of functions,
               \* for the interfaces datagrams come from and go to
  Source,      \* headers, without checksum, of the datagrams that may be sent
  Payload,     \* and their sizes
  Garbage,     \* what a local variable may hold that is not initialised
  Flips        \* by how much damage to a bit of a word may change it

Router == 1..NumRouters
Nowhere == 0

ASSUME DatagramAssumption ==
  /\ NumRouters \in Nat \ {0}
  /\ TypedMtus \subseteq [ingress : [Router -> AcceptedMtu], egress : [Router -> AcceptedMtu]]
  /\ Source \subseteq Header
  /\ Payload \subseteq Nat
  /\ Garbage \subseteq Word16
  /\ Flips \subseteq {d \in Nat \ {0} : d < MaxWord}

VARIABLES
  typed,    \* the MTUs in use
  up,       \* the routers that have not aborted
  at,       \* the router the datagram has been sent to, or Nowhere
  header,   \* its header
  size,     \* bytes of its payload
  damaged,  \* has the header been changed on a link?
  outcome   \* what has become of the datagram

vars == <<typed, up, at, header, size, damaged, outcome>>

Outcome == {"none", "sent", "damaged", "forwarded", "fragmented", "answered", "dropped", "aborted"}

Ingress(r) == IfcMtu(typed.ingress[r])
Egress(r) == IfcMtu(typed.egress[r])
NextRouter(r) == (r % NumRouters) + 1

\* ntohs and htons, and the bit check_fragmentation tests in network order
Swapped(w) == ((w % 256) * 256) + (w \div 256)
DontFragment(h) == (h.frag \div 2^6) % 2 = 1

\* send_ICMP_message returns the datagram with its header, as a frame
IcmpFrameAndHeader(n) == n + Ipv4Size + Headers + 8 + Ipv4Size  \* mutant: the options, too
IcmpFrame(n) == n + Headers + 8 + Ipv4Size

-----------------------------------------------------------------------------
(* The ends of route().                                                     *)

Blank == [rest |-> 0, id |-> 0, frag |-> 0, ttl |-> 0, checksum |-> 0]

\* the datagram is no more, and forgotten
Gone(what) ==
  /\ at' = Nowhere
  /\ header' = Blank
  /\ size' = 0
  /\ damaged' = FALSE
  /\ outcome' = what

\* forward_to: a frame larger than the MTU ends the router
Abort(r) == up' = up \ {r} /\ Gone("aborted")

BadChecksum ==
  /\ Crc16(header) # 0
  /\ Gone("dropped")
  /\ UNCHANGED up

\* an ICMP error goes back through the ingress
Answer(r) ==
  IF IcmpFrame(size) > Ingress(r) THEN Abort(r) ELSE Gone("answered") /\ UNCHANGED up

TtlExceeded(r) == Crc16(header) = 0 /\ header.ttl < 1 /\ Answer(r)

Unchecked == header.ttl >= 1  \* mutant: a wrong checksum is only reported
MayPass == Crc16(header) = 0 /\ header.ttl >= 1

\* no route, or no next hop: the user may have deleted either
Unreachable(r) == MayPass /\ Answer(r)

\* a datagram that fits leaves as it came, with a new TTL and checksum
ForgetTtl(h) == Sealed(h)  \* mutant
LowerTtl(h) == Sealed([h EXCEPT !.ttl = @ - 1])

Forward(r) ==
  /\ MayPass
  /\ ~ Exceeds(Ingress(r), size)
  /\ IF size + Headers > Egress(r)
     THEN Abort(r)
     ELSE /\ header' = LowerTtl(header)
          /\ at' = NextRouter(r)
          /\ outcome' = "forwarded"
          /\ UNCHANGED <<up, size, damaged>>

\* It is too large and must not be cut: the answer is too large as well.
FragmentationNeeded(r) ==
  /\ MayPass
  /\ Exceeds(Ingress(r), size)
  /\ DontFragment(header)
  /\ Abort(r)

\* fragmentation_info of fragment k of n.  The variable it is built in is never
\* initialised, and keeps the fields of the fragment before: before is unknown.
FragInfo(before, k, n, each) ==
  LET bit13 == (before \div 2^13) % 2
      marked == IF k = n THEN before - (2^13 * bit13) ELSE before + (2^13 * (1 - bit13))
  IN  Swapped((marked + ((k - 1) * (each \div 8))) % 2^16)

\* Fragment k: identification, TTL and checksum are those of the fragment before,
\* raised, lowered and computed anew.
WideTtl(h, k, info) ==  \* mutant: a TTL of more than 8 bits
  Sealed([h EXCEPT !.id = (@ + k) % 2^16, !.frag = info, !.ttl = (@ - k) % 2^16])
FragmentHeader(h, k, info) ==
  Sealed([h EXCEPT !.id = (@ + k) % 2^16, !.frag = info, !.ttl = (@ - k) % 2^8])

\* All fragments are full frames.  Their Ethernet header is not set, so that the
\* next router takes one for IPv4 or for something else.
Fragmented(r) ==
  /\ MayPass
  /\ Exceeds(Ingress(r), size)
  /\ ~ DontFragment(header)
  /\ LET each == FragmentSize(Ingress(r))
         n == FragmentCount(Ingress(r), size)
     IN  IF Headers + each > Egress(r)
         THEN Abort(r)
         ELSE \E k \in 1..n, g \in Garbage, to \in {NextRouter(r), Nowhere} :
                /\ header' = FragmentHeader(header, k, FragInfo(g, k, n, each))
                /\ size' = each
                /\ at' = to
                /\ outcome' = "fragmented"
                /\ UNCHANGED <<up, damaged>>

Route ==
  /\ at \in up
  /\ \/ BadChecksum
     \/ TtlExceeded(at)
     \/ Unreachable(at)
     \/ Forward(at)
     \/ FragmentationNeeded(at)
     \/ Fragmented(at)
  /\ UNCHANGED typed

\* nobody reads what is sent to a router that has aborted
Unread ==
  /\ at \in Router \ up
  /\ Gone("dropped")
  /\ UNCHANGED <<typed, up>>
-----------------------------------------------------------------------------
(* The source of the datagrams and the links.                               *)

Send(h, n, r) ==
  /\ at = Nowhere
  /\ header' = Sealed(h)
  /\ size' = n
  /\ at' = r
  /\ damaged' = FALSE
  /\ outcome' = "sent"
  /\ UNCHANGED <<typed, up>>

\* one bit of the header flips, in a word or in one of the others that are summed
Changes == Flips \union {- d : d \in Flips}

Damage(field, d) ==
  /\ at # Nowhere
  /\ ~ damaged
  /\ header' = [header EXCEPT ![field] = @ + d]
  /\ header' \in Header
  /\ damaged' = TRUE
  /\ outcome' = "damaged"
  /\ UNCHANGED <<typed, up, at, size>>

Init ==
  /\ typed \in TypedMtus
  /\ up = Router
  /\ at = Nowhere
  /\ header = Blank
  /\ size = 0
  /\ damaged = FALSE
  /\ outcome = "none"

Next ==
  \/ \E h \in Source, n \in Payload, r \in Router : Send(h, n, r)
  \/ \E field \in DOMAIN header, d \in Changes : Damage(field, d)
  \/ Route
  \/ Unread

Spec == Init /\ [][Next]_vars

\* The routers take what arrives; nobody has to send or to damage anything.
FairSpec == Spec /\ WF_vars(Route \/ Unread)
-----------------------------------------------------------------------------
(* Properties                                                              *)

TypeOK ==
  /\ typed \in TypedMtus
  /\ up \subseteq Router
  /\ at \in Router \union {Nowhere}
  /\ header \in Header
  /\ size \in Nat
  /\ damaged \in BOOLEAN
  /\ outcome \in Outcome

\* 03-documentation-router.md:220: whatever a router has changed in a header,
\* of a whole datagram or of any of its fragments, the next router finds the
\* checksum right.
ChecksumRight == (at # Nowhere /\ ~ damaged) => Crc16(header) = 0

\* 03-documentation-router.md:162: a datagram with one wrong bit in its header,
\* the checksum included, is forwarded by no router.
DamageStops == [][damaged /\ at # Nowhere => at' = Nowhere]_vars

\* A fragment has less payload than what was cut, and some: fragments are not
\* cut for ever, and nothing is divided by zero, although an MTU is an unsigned
\* 16-bit number that wraps and may be less than the headers.
FragmentsShrink == [][outcome' = "fragmented" => size' \in 1..(size - 1)]_vars

\* A router ends only by a datagram that leaves fewer bytes of some MTU than the
\* headers of an ICMP error take (Ethernet, ICMP and twice IPv4): smaller ones are
\* safe in whatever pieces, whoever forwards, cuts or returns them.
SmallOnesAreSafe ==
  [][up' # up => \E r \in Router : size > Ingress(r) - 62 \/ size > Egress(r) - 62]_vars

\* A loop of routes does not keep a datagram for ever: the TTL is lowered by one
\* per fragment and may wrap to 255, but only as often as there is something to
\* cut.
LoopEnds == (at # Nowhere) ~> (at = Nowhere)
=============================================================================
