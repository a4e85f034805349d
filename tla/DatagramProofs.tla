---------------------------- MODULE DatagramProofs ----------------------------
(***************************************************************************)
(* Proofs about Datagram, for any number of routers, MTUs, datagrams and   *)
(* damage.  The checksums are right because every header a router sends is *)
(* sealed, and damage is stopped because a damaged header is wrong when it *)
(* arrives: that is the third part of the inductive invariant.             *)
(***************************************************************************)
EXTENDS Datagram, ChecksumProofs, SharedLemmas

\* a datagram damaged on a link is one the next router refuses
DamageShows == (at # Nowhere /\ damaged) => Crc16(header) # 0

DatagramInv == TypeOK /\ ChecksumRight /\ DamageShows
-----------------------------------------------------------------------------
(* Fields                                                                   *)

\* htons returns 16 bits.
LEMMA SwappedIsWord ==
  ASSUME NEW w \in Int, 0 <= w, w < 65536
  PROVE  Swapped(w) \in Word16
<1>1. /\ w % 256 \in Int /\ 0 <= w % 256 /\ w % 256 <= 255
      /\ w \div 256 \in Int /\ 0 <= w \div 256 /\ w \div 256 <= 255
  BY SMT
<1>2. /\ Swapped(w) \in Int
      /\ 0 <= Swapped(w) /\ Swapped(w) <= 65535
  BY <1>1, SMT DEF Swapped
<1>. QED BY <1>2, InWord16, SMT

LEMMA FragInfoIsWord ==
  ASSUME NEW before \in Int, NEW k \in Int, NEW n, NEW each \in Int
  PROVE  FragInfo(before, k, n, each) \in Word16
<1>. DEFINE bit13 == (before \div 2^13) % 2
            marked == IF k = n THEN before - (2^13 * bit13) ELSE before + (2^13 * (1 - bit13))
            sum == marked + ((k - 1) * (each \div 8))
<1>1. bit13 \in Int
  BY Powers, SMT
<1>2. marked \in Int
  BY <1>1, Powers, SMT
<1>3. each \div 8 \in Int
  BY SMT
<1>4. sum \in Int
  BY <1>2, <1>3, SMT
<1>5. FragInfo(before, k, n, each) = Swapped(sum % 65536)
  BY Powers, SMT DEF FragInfo
<1>. HIDE DEF sum
<1>6. sum % 65536 \in Int /\ 0 <= sum % 65536 /\ sum % 65536 < 65536
  BY <1>4, SMT
<1>. QED BY <1>5, <1>6, SwappedIsWord, SMT

\* The headers a router sends are headers, and right.
LEMMA LowerTtlIsRight ==
  ASSUME NEW h \in Header, h.ttl >= 1
  PROVE  LowerTtl(h) \in Header /\ Crc16(LowerTtl(h)) = 0
<1>1. h.ttl \in 0..255
  BY SMT DEF Header, Byte8
<1>2. h.ttl - 1 \in Byte8
  BY <1>1, SMT DEF Byte8
<1>3. [h EXCEPT !.ttl = @ - 1] \in Header
  BY <1>2, SMT DEF Header
<1>. QED BY <1>3, SealedIsRight DEF LowerTtl

LEMMA ChangedHeader ==
  ASSUME NEW h \in Header, NEW id \in Word16, NEW info \in Word16, NEW ttl \in Byte8
  PROVE  [h EXCEPT !.id = id, !.frag = info, !.ttl = ttl] \in Header
<1>1. PICK g \in Header : g = [h EXCEPT !.id = id]
  <2>1. [h EXCEPT !.id = id] \in Header
    BY SMT DEF Header
  <2>. QED BY <2>1, Zenon
<1>2. PICK f \in Header : f = [g EXCEPT !.frag = info]
  <2>1. [g EXCEPT !.frag = info] \in Header
    BY SMT DEF Header
  <2>. QED BY <2>1, Zenon
<1>3. [f EXCEPT !.ttl = ttl] \in Header
  BY SMT DEF Header
<1>4. [h EXCEPT !.id = id, !.frag = info, !.ttl = ttl] = [f EXCEPT !.ttl = ttl]
  BY <1>1, <1>2, SMT DEF Header
<1>. QED BY <1>3, <1>4

LEMMA FragmentHeaderIsRight ==
  ASSUME NEW h \in Header, NEW k \in Int, NEW info \in Word16
  PROVE  FragmentHeader(h, k, info) \in Header /\ Crc16(FragmentHeader(h, k, info)) = 0
<1>1. h.id \in Int /\ h.ttl \in Int
  BY HeaderFields, SMT
<1>2. (h.id + k) % 65536 \in Word16
  <2>1. PICK i \in Int : i = (h.id + k) % 65536 /\ 0 <= i /\ i <= 65535
    BY <1>1, SMT
  <2>. QED BY <2>1, InWord16, SMT
<1>3. (h.ttl - k) % 256 \in Byte8
  BY <1>1, SMT DEF Byte8
<1>4. PICK id \in Word16, ttl \in Byte8 : id = (h.id + k) % 65536 /\ ttl = (h.ttl - k) % 256
  BY <1>2, <1>3, SMT
<1>5. FragmentHeader(h, k, info) = Sealed([h EXCEPT !.id = id, !.frag = info, !.ttl = ttl])
  BY <1>4, Powers, SMT DEF FragmentHeader
<1>6. [h EXCEPT !.id = id, !.frag = info, !.ttl = ttl] \in Header
  BY ChangedHeader, Zenon
<1>7. /\ Sealed([h EXCEPT !.id = id, !.frag = info, !.ttl = ttl]) \in Header
      /\ Crc16(Sealed([h EXCEPT !.id = id, !.frag = info, !.ttl = ttl])) = 0
  BY <1>6, SealedIsRight, Zenon
<1>. QED BY <1>5, <1>7, Zenon
-----------------------------------------------------------------------------
(* The invariant                                                            *)

LEMMA BlankIsHeader == Blank \in Header
<1>1. 0 \in Word16
  BY InWord16, SMT
<1>2. 0 \in Byte8
  BY SMT DEF Byte8
<1>3. 0 \in 0..MaxRest
  <2>1. MaxRest \in Int /\ 0 <= MaxRest
    BY SMT DEF MaxRest
  <2>. QED BY <2>1, InRange, SMT
<1>. QED BY <1>1, <1>2, <1>3, SMT DEF Blank, Header

LEMMA InitInv == Init => DatagramInv
<1>. SUFFICES ASSUME Init PROVE DatagramInv
  OBVIOUS
<1>1. TypeOK
  <2>1. header \in Header /\ size \in Nat
    BY BlankIsHeader, SMT DEF Init
  <2>2. damaged \in BOOLEAN /\ outcome \in Outcome
    BY Zenon DEF Init, Outcome
  <2>3. typed \in TypedMtus /\ up \subseteq Router /\ at \in Router \union {Nowhere}
    BY Zenon DEF Init
  <2>. QED BY <2>1, <2>2, <2>3, Zenon DEF TypeOK
<1>. QED BY <1>1, Zenon DEF Init, DatagramInv, ChecksumRight, DamageShows

\* Nothing has to be shown of a datagram that is gone.
LEMMA GoneInv ==
  ASSUME TypeOK, typed' = typed, up' \subseteq up, NEW what \in Outcome, Gone(what)
  PROVE  DatagramInv'
<1>1. TypeOK'
  <2>1. header' \in Header /\ size' \in Nat
    BY BlankIsHeader, SMT DEF Gone
  <2>2. damaged' \in BOOLEAN /\ outcome' \in Outcome /\ at' \in Router \union {Nowhere}
    BY Zenon DEF Gone
  <2>3. typed' \in TypedMtus /\ up' \subseteq Router
    BY Zenon DEF TypeOK
  <2>. QED BY <2>1, <2>2, <2>3, Zenon DEF TypeOK
<1>. QED BY <1>1, Zenon DEF Gone, DatagramInv, ChecksumRight, DamageShows

\* A datagram that has been sent is a header that is right.
LEMMA SentInv ==
  ASSUME TypeOK, typed' = typed, up' = up, at' \in Router \union {Nowhere},
         header' \in Header, Crc16(header') = 0, size' \in Nat, damaged' = FALSE,
         outcome' \in Outcome
  PROVE  DatagramInv'
<1>1. TypeOK'
  BY DEF TypeOK
<1>2. Crc16(header)' = Crc16(header')
  BY DEF Crc16, Crc16Finish, Crc16Step
<1>. QED BY <1>1, <1>2 DEF DatagramInv, ChecksumRight, DamageShows

\* A router that answers keeps running, or ends; the datagram is gone.
LEMMA AnswerInv ==
  ASSUME TypeOK, typed' = typed, NEW r, Answer(r)
  PROVE  DatagramInv'
<1>1. CASE Abort(r)
  <2>1. up' \subseteq up /\ Gone("aborted")
    BY <1>1 DEF Abort
  <2>. QED BY <2>1, GoneInv DEF Outcome
<1>2. CASE Gone("answered") /\ up' = up
  BY <1>2, GoneInv DEF Outcome
<1>. QED BY <1>1, <1>2 DEF Answer

LEMMA AbortInv ==
  ASSUME TypeOK, typed' = typed, NEW r, Abort(r)
  PROVE  DatagramInv'
<1>1. up' \subseteq up /\ Gone("aborted")
  BY DEF Abort
<1>. QED BY <1>1, GoneInv DEF Outcome
-----------------------------------------------------------------------------
(* The steps                                                                *)

\* the MTUs a router may have
LEMMA Mtus ==
  ASSUME TypeOK, NEW r \in Router
  PROVE  typed.ingress[r] \in AcceptedMtu /\ typed.egress[r] \in AcceptedMtu
<1>1. typed \in [ingress : [Router -> AcceptedMtu], egress : [Router -> AcceptedMtu]]
  BY DatagramAssumption, Zenon DEF TypeOK
<1>. QED BY <1>1, SMT

LEMMA NextRouterIsRouter ==
  ASSUME NEW r \in Router
  PROVE  NextRouter(r) \in Router
<1>1. NumRouters \in Nat /\ NumRouters > 0
  <2>1. NumRouters \in Nat \ {0}
    BY DatagramAssumption, Zenon
  <2>. QED BY <2>1, SMT
<1>2. r \in Int
  BY SMT DEF Router
<1>3. r % NumRouters \in 0..(NumRouters - 1)
  BY <1>1, <1>2, SMT
<1>. QED BY <1>1, <1>3, SMT DEF NextRouter, Router

\* A datagram that may pass has a header that is right, so that it is not one
\* that was damaged.
LEMMA PassedIsIntact ==
  ASSUME DatagramInv, at \in Router, MayPass
  PROVE  damaged = FALSE /\ header \in Header /\ header.ttl >= 1 /\ size \in Nat
<1>1. at # Nowhere
  BY SMT DEF Router, Nowhere
<1>2. Crc16(header) = 0 /\ header.ttl >= 1
  BY Zenon DEF MayPass
<1>3. ~ damaged
  BY <1>1, <1>2, Zenon DEF DatagramInv, DamageShows
<1>. QED BY <1>2, <1>3, Zenon DEF DatagramInv, TypeOK

LEMMA ForwardInv ==
  ASSUME DatagramInv, typed' = typed, at \in Router, Forward(at)
  PROVE  DatagramInv'
<1>1. TypeOK
  BY Zenon DEF DatagramInv
<1>2. CASE Abort(at)
  BY <1>1, <1>2, AbortInv, Zenon
<1>3. CASE /\ header' = LowerTtl(header) /\ at' = NextRouter(at) /\ outcome' = "forwarded"
           /\ up' = up /\ size' = size /\ damaged' = damaged
  <2>1. damaged = FALSE /\ header \in Header /\ header.ttl >= 1 /\ size \in Nat
    BY PassedIsIntact, Zenon DEF Forward
  <2>2. header' \in Header /\ Crc16(header') = 0
    BY <1>3, <2>1, LowerTtlIsRight, Zenon
  <2>3. at' \in Router
    BY <1>3, NextRouterIsRouter, Zenon
  <2>4. outcome' \in Outcome
    BY <1>3, Zenon DEF Outcome
  <2>. QED BY <1>1, <1>3, <2>1, <2>2, <2>3, <2>4, SentInv, Zenon
<1>. QED BY <1>2, <1>3, Zenon DEF Forward

\* what Fragmented does when it does not end the router
LEMMA FragmentedDoes ==
  ASSUME NEW r, Fragmented(r), ~ Abort(r)
  PROVE  /\ MayPass
         /\ Exceeds(Ingress(r), size)
         /\ size' = FragmentSize(Ingress(r))
         /\ \E k \in 1..FragmentCount(Ingress(r), size), g \in Garbage :
              header' = FragmentHeader(header, k,
                FragInfo(g, k, FragmentCount(Ingress(r), size), FragmentSize(Ingress(r))))
         /\ at' \in {NextRouter(r), Nowhere}
         /\ outcome' = "fragmented"
         /\ up' = up /\ damaged' = damaged
<1>. QED BY Zenon DEF Fragmented

LEMMA FragmentedShrinks ==
  ASSUME TypeOK, at \in Router, Fragmented(at), ~ Abort(at)
  PROVE  size' \in Nat /\ 1 <= size' /\ size' < size
<1>1. size \in Int
  BY SMT DEF TypeOK
<1>2. Exceeds(IfcMtu(typed.ingress[at]), size) /\ size' = FragmentSize(IfcMtu(typed.ingress[at]))
  BY FragmentedDoes, Zenon DEF Ingress
<1>3. typed.ingress[at] \in AcceptedMtu
  BY Mtus, Zenon
<1>4. /\ FragmentSize(IfcMtu(typed.ingress[at])) \in Int
      /\ 1 <= FragmentSize(IfcMtu(typed.ingress[at]))
      /\ FragmentSize(IfcMtu(typed.ingress[at])) < size
  BY <1>1, <1>2, <1>3, FragmentIsSmaller, Zenon
<1>. QED BY <1>2, <1>4, SMT

LEMMA FragmentedInv ==
  ASSUME DatagramInv, typed' = typed, at \in Router, Fragmented(at)
  PROVE  DatagramInv'
<1>1. TypeOK
  BY Zenon DEF DatagramInv
<1>2. CASE Abort(at)
  BY <1>1, <1>2, AbortInv, Zenon
<1>3. CASE ~ Abort(at)
  <2>1. damaged = FALSE /\ header \in Header /\ header.ttl >= 1 /\ size \in Nat
    BY <1>3, FragmentedDoes, PassedIsIntact, Zenon
  <2>2. size' \in Nat
    BY <1>1, <1>3, FragmentedShrinks, Zenon
  <2>3. header' \in Header /\ Crc16(header') = 0
    <3>1. PICK k \in 1..FragmentCount(Ingress(at), size), g \in Garbage :
            header' = FragmentHeader(header, k,
              FragInfo(g, k, FragmentCount(Ingress(at), size), FragmentSize(Ingress(at))))
      BY <1>3, FragmentedDoes, Zenon
    <3>2. k \in Int /\ FragmentSize(Ingress(at)) \in Int
      BY <1>1, <1>3, <2>2, FragmentedDoes, SMT
    <3>3. g \in Int
      <4>1. g \in Word16
        BY DatagramAssumption, Zenon
      <4>. QED BY <4>1, InWord16, SMT
    <3>4. FragInfo(g, k, FragmentCount(Ingress(at), size), FragmentSize(Ingress(at))) \in Word16
      BY <3>2, <3>3, FragInfoIsWord, Zenon
    <3>. QED BY <2>1, <3>1, <3>2, <3>4, FragmentHeaderIsRight, Zenon
  <2>4. at' \in Router \union {Nowhere}
    BY <1>3, FragmentedDoes, NextRouterIsRouter, Zenon
  <2>5. outcome' \in Outcome /\ up' = up /\ damaged' = FALSE
    BY <1>3, <2>1, FragmentedDoes, Zenon DEF Outcome
  <2>. QED BY <1>1, <2>2, <2>3, <2>4, <2>5, SentInv, Zenon
<1>. QED BY <1>2, <1>3

LEMMA RouteInv ==
  ASSUME DatagramInv, Route
  PROVE  DatagramInv'
<1>1. TypeOK /\ typed' = typed
  BY Zenon DEF DatagramInv, Route
<1>2. at \in Router
  BY <1>1, Zenon DEF Route, TypeOK
<1>3. CASE BadChecksum
  <2>1. up' = up /\ Gone("dropped")
    BY <1>3, Zenon DEF BadChecksum
  <2>. QED BY <1>1, <2>1, GoneInv, Zenon DEF Outcome
<1>4. CASE TtlExceeded(at) \/ Unreachable(at)
  <2>1. Answer(at)
    BY <1>4, Zenon DEF TtlExceeded, Unreachable
  <2>. QED BY <1>1, <2>1, AnswerInv, Zenon
<1>5. CASE Forward(at)
  BY <1>1, <1>2, <1>5, ForwardInv, Zenon
<1>6. CASE FragmentationNeeded(at)
  <2>1. Abort(at)
    BY <1>6, Zenon DEF FragmentationNeeded
  <2>. QED BY <1>1, <2>1, AbortInv, Zenon
<1>7. CASE Fragmented(at)
  BY <1>1, <1>2, <1>7, FragmentedInv, Zenon
<1>. QED BY <1>3, <1>4, <1>5, <1>6, <1>7, Zenon DEF Route

LEMMA UnreadInv ==
  ASSUME DatagramInv, Unread
  PROVE  DatagramInv'
<1>1. TypeOK /\ typed' = typed /\ up' = up /\ Gone("dropped")
  BY Zenon DEF DatagramInv, Unread
<1>. QED BY <1>1, GoneInv, Zenon DEF Outcome

LEMMA SendInv ==
  ASSUME DatagramInv, NEW h \in Source, NEW n \in Payload, NEW r \in Router, Send(h, n, r)
  PROVE  DatagramInv'
<1>1. TypeOK /\ typed' = typed /\ up' = up /\ at' = r /\ size' = n /\ damaged' = FALSE
      /\ header' = Sealed(h) /\ outcome' = "sent"
  BY Zenon DEF DatagramInv, Send
<1>2. h \in Header /\ n \in Nat
  BY DatagramAssumption, Zenon
<1>3. header' \in Header /\ Crc16(header') = 0
  BY <1>1, <1>2, SealedIsRight, Zenon
<1>. QED BY <1>1, <1>2, <1>3, SentInv, Zenon DEF Outcome

\* A damaged header was right before, and is wrong now.
LEMMA DamageInv ==
  ASSUME DatagramInv, NEW field \in DOMAIN header, NEW d \in Changes, Damage(field, d)
  PROVE  DatagramInv'
<1>1. TypeOK /\ Crc16(header) = 0 /\ header \in Header
  BY Zenon DEF DatagramInv, TypeOK, ChecksumRight, Damage
<1>2. d \in Int /\ d # 0 /\ - MaxWord < d /\ d < MaxWord
  <2>1. PICK f \in Flips : d = f \/ d = - f
    BY SMT DEF Changes
  <2>2. f \in Nat \ {0} /\ f < MaxWord
    BY DatagramAssumption, Zenon
  <2>3. MaxWord \in Int
    BY SMT DEF MaxWord
  <2>. QED BY <2>1, <2>2, <2>3, SMT
<1>3. header' \in Header /\ header' = [header EXCEPT ![field] = @ + d]
  BY Zenon DEF Damage
<1>4. Crc16(header') # 0
  BY <1>1, <1>2, <1>3, DamageIsSeen, Zenon
<1>5. damaged' = TRUE /\ outcome' \in Outcome /\ UNCHANGED <<typed, up, at, size>>
  BY Zenon DEF Damage, Outcome
<1>6. TypeOK'
  BY <1>1, <1>3, <1>5, Zenon DEF TypeOK
<1>7. Crc16(header)' = Crc16(header')
  BY SMT DEF Crc16, Crc16Finish, Crc16Step
<1>. QED BY <1>4, <1>5, <1>6, <1>7, Zenon DEF DatagramInv, ChecksumRight, DamageShows

LEMMA StutterInv ==
  ASSUME DatagramInv, UNCHANGED vars
  PROVE  DatagramInv'
<1>1. /\ typed' = typed /\ up' = up /\ at' = at /\ header' = header /\ size' = size
      /\ damaged' = damaged /\ outcome' = outcome
  BY DEF vars
<1>. QED BY <1>1, Zenon DEF DatagramInv, TypeOK, ChecksumRight, DamageShows, Crc16, Crc16Step

LEMMA NextInv == DatagramInv /\ [Next]_vars => DatagramInv'
<1>. SUFFICES ASSUME DatagramInv, [Next]_vars
              PROVE  DatagramInv'
  BY Zenon
<1>1. CASE \E h \in Source, n \in Payload, r \in Router : Send(h, n, r)
  BY <1>1, SendInv, Zenon
<1>2. CASE \E field \in DOMAIN header, d \in Changes : Damage(field, d)
  BY <1>2, DamageInv, Zenon
<1>3. CASE Route
  BY <1>3, RouteInv, Zenon
<1>4. CASE Unread
  BY <1>4, UnreadInv, Zenon
<1>5. CASE UNCHANGED vars
  BY <1>5, StutterInv, Zenon
<1>. QED BY <1>1, <1>2, <1>3, <1>4, <1>5, Zenon DEF Next
-----------------------------------------------------------------------------
(* The theorems                                                             *)

LEMMA InvHolds == Spec => []DatagramInv
<1>. QED BY InitInv, NextInv, PTL DEF Spec

\* The variables keep their types: a header its 16 and 8 bits, whatever is added
\* to its identification and offset and taken from its TTL.
THEOREM TypeCorrect == Spec => []TypeOK
<1>1. DatagramInv => TypeOK
  BY Zenon DEF DatagramInv
<1>. QED BY <1>1, InvHolds, PTL

\* The header of a whole datagram and of every fragment, through any number of
\* routers, arrives with a checksum that is right.
THEOREM ChecksumsAreRight == Spec => []ChecksumRight
<1>1. DatagramInv => ChecksumRight
  BY Zenon DEF DatagramInv
<1>. QED BY <1>1, InvHolds, PTL

\* No router forwards, cuts or answers a damaged header: the step after the
\* damage is the last.
THEOREM DamageIsStopped == Spec => DamageStops
<1>1. DatagramInv /\ [Next]_vars => [damaged /\ at # Nowhere => at' = Nowhere]_vars
  <2>. SUFFICES ASSUME DatagramInv, Next, damaged, at # Nowhere
                PROVE  at' = Nowhere
    BY Zenon
  <2>1. Crc16(header) # 0
    BY Zenon DEF DatagramInv, DamageShows
  <2>2. CASE \E h \in Source, n \in Payload, r \in Router : Send(h, n, r)
    BY <2>2, Zenon DEF Send
  <2>3. CASE \E field \in DOMAIN header, d \in Changes : Damage(field, d)
    BY <2>3, Zenon DEF Damage
  <2>4. CASE Route
    BY <2>1, <2>4, Zenon DEF Route, BadChecksum, TtlExceeded, Unreachable, Forward,
       FragmentationNeeded, Fragmented, MayPass, Gone
  <2>5. CASE Unread
    BY <2>5, Zenon DEF Unread, Gone
  <2>. QED BY <2>2, <2>3, <2>4, <2>5, Zenon DEF Next
<1>. QED BY <1>1, InvHolds, PTL DEF Spec, DamageStops

\* A fragment is smaller than what was cut and not empty, for every MTU the
\* arguments may name, those that wrap in 16 bits included.
THEOREM FragmentsAreSmaller == Spec => FragmentsShrink
<1>1. DatagramInv /\ [Next]_vars => [outcome' = "fragmented" => size' \in 1..(size - 1)]_vars
  <2>. SUFFICES ASSUME DatagramInv, Next, outcome' = "fragmented"
                PROVE  size' \in 1..(size - 1)
    BY Zenon
  <2>1. TypeOK
    BY Zenon DEF DatagramInv
  <2>2. ASSUME NEW r, Abort(r)
        PROVE  FALSE
    BY <2>2, Zenon DEF Abort, Gone
  <2>3. Route /\ Fragmented(at)
    BY <2>2, Zenon DEF Next, Send, Damage, Unread, Route, BadChecksum, TtlExceeded, Unreachable,
       Answer, Forward, FragmentationNeeded, Gone
  <2>4. at \in Router
    BY <2>1, <2>3, Zenon DEF Route, TypeOK
  <2>5. ~ Abort(at)
    BY <2>2, Zenon
  <2>6. size' \in Nat /\ 1 <= size' /\ size' < size
    BY <2>1, <2>3, <2>4, <2>5, FragmentedShrinks, Zenon
  <2>7. size \in Nat
    BY <2>1, Zenon DEF TypeOK
  <2>. QED BY <2>6, <2>7, SMT
<1>. QED BY <1>1, InvHolds, PTL DEF Spec, FragmentsShrink

\* A router ends only by a datagram that is larger than what an ICMP error can
\* return through every interface of the loop.
THEOREM SmallDatagramsAreSafe == Spec => SmallOnesAreSafe
<1>1. DatagramInv /\ [Next]_vars =>
        [up' # up => \E r \in Router : size > Ingress(r) - 62 \/ size > Egress(r) - 62]_vars
  <2>. SUFFICES ASSUME DatagramInv, Next, up' # up
                PROVE  \E r \in Router : size > Ingress(r) - 62 \/ size > Egress(r) - 62
    BY Zenon
  <2>1. TypeOK
    BY Zenon DEF DatagramInv
  <2>2. Route
    BY Zenon DEF Next, Send, Damage, Unread
  <2>3. at \in Router
    BY <2>1, <2>2, Zenon DEF Route, TypeOK
  <2>4. size \in Int /\ Ingress(at) \in Int /\ Egress(at) \in Int
    <3>1. typed.ingress[at] \in AcceptedMtu /\ typed.egress[at] \in AcceptedMtu
      BY <2>1, <2>3, Mtus, Zenon
    <3>2. Ingress(at) \in Int /\ Egress(at) \in Int
      BY <3>1, MtuRange, SMT DEF Ingress, Egress
    <3>. QED BY <2>1, <3>2, SMT DEF TypeOK
  <2>5. Headers = 34 /\ IcmpFrame(size) = size + 62
    BY <2>4, SMT DEF Headers, EthernetSize, Ipv4Size, IcmpFrame
  <2>6. ~ BadChecksum
    BY Zenon DEF BadChecksum
  <2>7. CASE TtlExceeded(at) \/ Unreachable(at)
    <3>1. IcmpFrame(size) > Ingress(at)
      BY <2>7, Zenon DEF TtlExceeded, Unreachable, Answer
    <3>2. size > Ingress(at) - 62
      BY <2>4, <2>5, <3>1, SMT
    <3>. QED BY <2>3, <3>2, Zenon
  <2>8. CASE Forward(at)
    <3>1. size + Headers > Egress(at)
      BY <2>8, Zenon DEF Forward
    <3>2. size > Egress(at) - 62
      BY <2>4, <2>5, <3>1, SMT
    <3>. QED BY <2>3, <3>2, Zenon
  <2>9. CASE FragmentationNeeded(at) \/ Fragmented(at)
    <3>1. Exceeds(Ingress(at), size)
      BY <2>9, Zenon DEF FragmentationNeeded, Fragmented
    <3>2. Ingress(at) - 34 \in 0..(size - 1)
      BY <2>5, <3>1, SMT DEF Exceeds
    <3>3. size > Ingress(at) - 62
      BY <2>4, <3>2, SMT
    <3>. QED BY <2>3, <3>3, Zenon
  <2>. QED BY <2>2, <2>6, <2>7, <2>8, <2>9, Zenon DEF Route
<1>. QED BY <1>1, InvHolds, PTL DEF Spec, SmallOnesAreSafe
=============================================================================
