---------------------------- MODULE ChecksumProofs ----------------------------
(***************************************************************************)
(* What the checksum of an IPv4 header shows: it is right when it has just *)
(* been computed, and wrong after any one word has changed by less than    *)
(* 65535.  Both rest on one fact: finish() of a sum 65536 q + r is zero    *)
(* just when q + r = 65535, for the small q a header can sum up to.        *)
(***************************************************************************)
EXTENDS Checksum, TLAPS

\* What it means to be in a range.
LEMMA InRange ==
  ASSUME NEW m \in Int, NEW n
  PROVE  n \in 0..m <=> n \in Int /\ 0 <= n /\ n <= m
<1>. QED BY SMT

LEMMA InWord16 ==
  ASSUME NEW w
  PROVE  w \in Word16 <=> w \in Int /\ 0 <= w /\ w <= 65535
<1>1. MaxWord \in Int
  BY SMT DEF MaxWord
<1>2. w \in Word16 <=> w \in Int /\ 0 <= w /\ w <= MaxWord
  BY <1>1, InRange, Zenon DEF Word16
<1>3. MaxWord = 65535
  BY SMT DEF MaxWord
<1>. QED BY <1>2, <1>3, SMT

\* Every sum has an upper and a lower half.
LEMMA Halves ==
  ASSUME NEW s \in Int, 0 <= s
  PROVE  \E q, r \in Int : 0 <= q /\ 0 <= r /\ r < 65536 /\ s = (65536 * q) + r
<1>1. /\ s \div 65536 \in Int /\ 0 <= s \div 65536
      /\ s % 65536 \in Int /\ 0 <= s % 65536 /\ s % 65536 < 65536
      /\ s = (65536 * (s \div 65536)) + (s % 65536)
  BY SMT
<1>. QED BY <1>1, SMT

\* They are what the shift and the mask of the code return.
LEMMA HalvesAre ==
  ASSUME NEW q \in Int, NEW r \in Int, 0 <= r, r < 65536
  PROVE  /\ ((65536 * q) + r) \div 65536 = q
         /\ ((65536 * q) + r) % 65536 = r
<1>1. ((65536 * q) + r) \div 65536 = q
  BY SMT
<1>2. ((65536 * q) + r) % 65536 = r
  BY SMT
<1>. QED BY <1>1, <1>2, SMT

\* crc16_finish when adding the halves carries nothing
LEMMA FinishNoCarry ==
  ASSUME NEW q \in Int, NEW r \in Int, 0 <= q, 0 <= r, q + r < 65536
  PROVE  Crc16Finish((65536 * q) + r) = 65535 - (q + r)
<1>1. /\ ((65536 * q) + r) \div 65536 = q
      /\ ((65536 * q) + r) % 65536 = r
  BY HalvesAre, SMT
<1>2. (q + r) \div 65536 = 0 /\ (q + r) % 65536 = q + r
  BY SMT
<1>. QED BY <1>1, <1>2, SMT DEF Crc16Finish

\* and when it carries one, which is added as well
LEMMA FinishCarry ==
  ASSUME NEW q \in Int, NEW r \in Int, 0 <= q, q <= 20, r < 65536, q + r >= 65536
  PROVE  Crc16Finish((65536 * q) + r) = 131070 - (q + r)
<1>1. /\ ((65536 * q) + r) \div 65536 = q
      /\ ((65536 * q) + r) % 65536 = r
  BY HalvesAre, SMT
<1>2. (q + r) \div 65536 = 1
  BY SMT
<1>3. (q + r + 1) % 65536 = q + r - 65535
  BY SMT
<1>. QED BY <1>1, <1>2, <1>3, SMT DEF Crc16Finish

\* The result is a word.
LEMMA FinishIsWord ==
  ASSUME NEW s \in Int, 0 <= s
  PROVE  Crc16Finish(s) \in Int /\ 0 <= Crc16Finish(s) /\ Crc16Finish(s) <= 65535
<1>. DEFINE folded == (s \div 65536) + (s % 65536)
            total == folded + (folded \div 65536)
<1>1. folded \in Int
  BY SMT
<1>2. total \in Int
  BY <1>1, SMT
<1>3. Crc16Finish(s) = 65535 - (total % 65536)
  BY SMT DEF Crc16Finish
<1>. HIDE DEF total
<1>4. total % 65536 \in Int /\ 0 <= total % 65536 /\ total % 65536 < 65536
  BY <1>2, SMT
<1>. QED BY <1>3, <1>4, SMT

\* Once its checksum is added, a sum finishes with zero.
LEMMA SumWithChecksum ==
  ASSUME NEW s \in Int, 0 <= s, s <= 655350
  PROVE  Crc16Finish(s + Crc16Finish(s)) = 0
<1>1. PICK q \in Int, r \in Int : 0 <= q /\ 0 <= r /\ r < 65536 /\ s = (65536 * q) + r
  BY Halves, SMT
<1>2. q <= 10
  BY <1>1, SMT
<1>3. \A p \in Int, u \in Int : 0 <= p /\ 0 <= u /\ p + u = 65535 =>
        Crc16Finish((65536 * p) + u) = 0
  <2>1. SUFFICES ASSUME NEW p \in Int, NEW u \in Int, 0 <= p, 0 <= u, p + u = 65535
                 PROVE  Crc16Finish((65536 * p) + u) = 0
    BY SMT
  <2>2. Crc16Finish((65536 * p) + u) = 65535 - (p + u)
    BY <2>1, FinishNoCarry, SMT
  <2>. QED BY <2>1, <2>2, SMT
<1>4. CASE q + r < 65536
  <2>1. Crc16Finish(s) = 65535 - (q + r)
    BY <1>1, <1>4, FinishNoCarry, SMT
  <2>2. PICK u \in Int : u = 65535 - q
    BY SMT
  <2>3. s + Crc16Finish(s) = (65536 * q) + u
    BY <1>1, <2>1, <2>2, SMT
  <2>4. 0 <= u /\ q + u = 65535
    BY <1>2, <2>2, SMT
  <2>5. Crc16Finish((65536 * q) + u) = 0
    BY <1>1, <1>3, <2>4, SMT
  <2>. QED BY <2>3, <2>5, SMT
<1>5. CASE q + r >= 65536
  <2>1. Crc16Finish(s) = 131070 - (q + r)
    BY <1>1, <1>2, <1>5, FinishCarry, SMT
  <2>2. PICK p \in Int, u \in Int : p = q + 1 /\ u = 65534 - q
    BY SMT
  <2>3. s + Crc16Finish(s) = (65536 * p) + u
    BY <1>1, <2>1, <2>2, SMT
  <2>4. 0 <= p /\ 0 <= u /\ p + u = 65535
    BY <1>1, <1>2, <2>2, SMT
  <2>5. Crc16Finish((65536 * p) + u) = 0
    BY <1>3, <2>4, SMT
  <2>. QED BY <2>3, <2>5, SMT
<1>. QED BY <1>4, <1>5, <1>1, SMT

\* A sum that finishes with zero is a multiple of 65535.
LEMMA SumThatIsRight ==
  ASSUME NEW s \in Int, 0 <= s, s <= 655350, Crc16Finish(s) = 0
  PROVE  \E q \in Int : s = 65535 * q
<1>1. PICK q \in Int, r \in Int : 0 <= q /\ 0 <= r /\ r < 65536 /\ s = (65536 * q) + r
  BY Halves, SMT
<1>2. q <= 10
  BY <1>1, SMT
<1>3. q + r < 65536
  <2>1. SUFFICES ASSUME q + r >= 65536
                 PROVE  FALSE
    BY <1>1, SMT
  <2>2. Crc16Finish(s) = 131070 - (q + r)
    BY <1>1, <1>2, <2>1, FinishCarry, SMT
  <2>. QED BY <1>1, <1>2, <2>2, SMT
<1>4. q + r = 65535
  <2>1. Crc16Finish(s) = 65535 - (q + r)
    BY <1>1, <1>3, FinishNoCarry, SMT
  <2>. QED BY <1>1, <2>1, SMT
<1>5. q + 1 \in Int /\ s = 65535 * (q + 1)
  BY <1>1, <1>4, SMT
<1>. QED BY <1>5, SMT

\* Two different sums that finish with zero are at least 65535 apart.
LEMMA SumWithDamage ==
  ASSUME NEW s \in Int, 0 <= s, s <= 655350, Crc16Finish(s) = 0,
         NEW t \in Int, 0 <= t, t <= 655350, Crc16Finish(t) = 0,
         t # s
  PROVE  t - s >= 65535 \/ s - t >= 65535
<1>1. PICK q \in Int : s = 65535 * q
  BY SumThatIsRight, SMT
<1>2. PICK p \in Int : t = 65535 * p
  BY SumThatIsRight, SMT
<1>. QED BY <1>1, <1>2, SMT
-----------------------------------------------------------------------------
(* Headers                                                                  *)

\* The fields of a header, and its sum.
LEMMA HeaderFields ==
  ASSUME NEW h \in Header
  PROVE  /\ h.rest \in Int /\ 0 <= h.rest /\ h.rest <= 458490
         /\ h.id \in Int /\ 0 <= h.id /\ h.id <= 65535
         /\ h.frag \in Int /\ 0 <= h.frag /\ h.frag <= 65535
         /\ h.ttl \in Int /\ 0 <= h.ttl /\ h.ttl <= 255
         /\ h.checksum \in Int /\ 0 <= h.checksum /\ h.checksum <= 65535
<1>1. MaxRest = 458490
  BY SMT DEF MaxRest
<1>2. h.rest \in 0..MaxRest /\ h.id \in Word16 /\ h.frag \in Word16 /\ h.ttl \in Byte8
      /\ h.checksum \in Word16
  BY SMT DEF Header
<1>3. MaxRest \in Int
  BY <1>1, SMT
<1>4. h.rest \in Int /\ 0 <= h.rest /\ h.rest <= MaxRest
  BY <1>2, <1>3, InRange, Zenon
<1>5. /\ h.id \in Int /\ 0 <= h.id /\ h.id <= 65535
      /\ h.frag \in Int /\ 0 <= h.frag /\ h.frag <= 65535
      /\ h.checksum \in Int /\ 0 <= h.checksum /\ h.checksum <= 65535
  BY <1>2, InWord16, SMT
<1>6. h.ttl \in Int /\ 0 <= h.ttl /\ h.ttl <= 255
  BY <1>2, SMT DEF Byte8
<1>. QED BY <1>1, <1>4, <1>5, <1>6, SMT

LEMMA HeaderSum ==
  ASSUME NEW h \in Header
  PROVE  Crc16Step(h) \in Int /\ 0 <= Crc16Step(h) /\ Crc16Step(h) <= 655350
<1>. QED BY HeaderFields, SMT DEF Crc16Step

\* A header is a header with any checksum.
LEMMA OtherChecksum ==
  ASSUME NEW h \in Header, NEW c \in Word16
  PROVE  /\ [h EXCEPT !.checksum = c] \in Header
         /\ Crc16Step([h EXCEPT !.checksum = c]) = h.rest + h.id + h.frag + h.ttl + c
<1>. DEFINE g == [h EXCEPT !.checksum = c]
<1>1. g \in Header
  BY SMT DEF Header
<1>2. g.rest = h.rest /\ g.id = h.id /\ g.frag = h.frag /\ g.ttl = h.ttl /\ g.checksum = c
  BY SMT DEF Header
<1>3. Crc16Step(g) = g.rest + g.id + g.frag + g.ttl + g.checksum
  BY SMT DEF Crc16Step
<1>. HIDE DEF g
<1>4. Crc16Step(g) = h.rest + h.id + h.frag + h.ttl + c
  BY <1>2, <1>3, SMT
<1>. QED BY <1>1, <1>4, SMT DEF g

\* Clearing the checksum of a header and computing it anew makes the checksum of
\* the whole zero, as route() does whenever it has changed a header.
THEOREM SealedIsRight ==
  ASSUME NEW h \in Header
  PROVE  Sealed(h) \in Header /\ Crc16(Sealed(h)) = 0
<1>. DEFINE s == h.rest + h.id + h.frag + h.ttl
<1>1. s \in Int /\ 0 <= s /\ s <= 655350
  BY HeaderFields, SMT
<1>2. 0 \in Word16
  BY InWord16, SMT
<1>3. Crc16Step([h EXCEPT !.checksum = 0]) = s + 0
  BY <1>2, OtherChecksum, SMT
<1>4. Crc16Step([h EXCEPT !.checksum = 0]) = s
  BY <1>1, <1>3, SMT
<1>5. Sealed(h) = [h EXCEPT !.checksum = Crc16Finish(s)]
  BY <1>4, SMT DEF Sealed, Crc16
<1>6. Crc16Finish(s) \in Word16
  <2>1. Crc16Finish(s) \in Int /\ 0 <= Crc16Finish(s) /\ Crc16Finish(s) <= 65535
    BY <1>1, FinishIsWord, SMT
  <2>. QED BY <2>1, InWord16, SMT
<1>7. Sealed(h) \in Header /\ Crc16Step(Sealed(h)) = s + Crc16Finish(s)
  BY <1>5, <1>6, OtherChecksum, SMT
<1>8. Crc16Finish(s + Crc16Finish(s)) = 0
  BY <1>1, SumWithChecksum, SMT
<1>. QED BY <1>7, <1>8, SMT DEF Crc16

\* A header one word of which has changed by less than 65535 is never right when
\* it was right before: route() notices every wrong bit.
THEOREM DamageIsSeen ==
  ASSUME NEW h \in Header, Crc16(h) = 0,
         NEW field \in DOMAIN h, NEW d \in Int, d # 0, - MaxWord < d, d < MaxWord,
         [h EXCEPT ![field] = @ + d] \in Header
  PROVE  Crc16([h EXCEPT ![field] = @ + d]) # 0
<1>. DEFINE g == [h EXCEPT ![field] = @ + d]
<1>1. field \in {"rest", "id", "frag", "ttl", "checksum"}
  BY SMT DEF Header
<1>. DEFINE total(x) == x.rest + x.id + x.frag + x.ttl + x.checksum
<1>2. Crc16Step(g) = total(g) /\ Crc16Step(h) = total(h)
  BY Zenon DEF Crc16Step
<1>3. h.rest \in Int /\ h.id \in Int /\ h.frag \in Int /\ h.ttl \in Int /\ h.checksum \in Int
  BY HeaderFields, SMT
<1>4. total(g) = total(h) + d
  <2>1. CASE field = "rest"
    <3>1. /\ g.rest = h.rest + d /\ g.id = h.id /\ g.frag = h.frag /\ g.ttl = h.ttl
          /\ g.checksum = h.checksum
      BY <2>1, SMT DEF Header
    <3>. QED BY <3>1, <1>3, SMT
  <2>2. CASE field = "id"
    <3>1. /\ g.rest = h.rest /\ g.id = h.id + d /\ g.frag = h.frag /\ g.ttl = h.ttl
          /\ g.checksum = h.checksum
      BY <2>2, SMT DEF Header
    <3>. QED BY <3>1, <1>3, SMT
  <2>3. CASE field = "frag"
    <3>1. /\ g.rest = h.rest /\ g.id = h.id /\ g.frag = h.frag + d /\ g.ttl = h.ttl
          /\ g.checksum = h.checksum
      BY <2>3, SMT DEF Header
    <3>. QED BY <3>1, <1>3, SMT
  <2>4. CASE field = "ttl"
    <3>1. /\ g.rest = h.rest /\ g.id = h.id /\ g.frag = h.frag /\ g.ttl = h.ttl + d
          /\ g.checksum = h.checksum
      BY <2>4, SMT DEF Header
    <3>. QED BY <3>1, <1>3, SMT
  <2>5. CASE field = "checksum"
    <3>1. /\ g.rest = h.rest /\ g.id = h.id /\ g.frag = h.frag /\ g.ttl = h.ttl
          /\ g.checksum = h.checksum + d
      BY <2>5, SMT DEF Header
    <3>. QED BY <3>1, <1>3, SMT
  <2>. QED BY <1>1, <2>1, <2>2, <2>3, <2>4, <2>5, SMT
<1>5. /\ Crc16Step(h) \in Int /\ 0 <= Crc16Step(h) /\ Crc16Step(h) <= 655350
      /\ Crc16Step(g) \in Int /\ 0 <= Crc16Step(g) /\ Crc16Step(g) <= 655350
  BY HeaderSum, SMT
<1>6. SUFFICES ASSUME Crc16Finish(Crc16Step(g)) = 0
               PROVE  FALSE
  BY SMT DEF Crc16
<1>7. Crc16Finish(Crc16Step(h)) = 0
  BY SMT DEF Crc16
<1>8. Crc16Step(g) # Crc16Step(h)
  BY <1>2, <1>4, <1>5, SMT
<1>9. \/ Crc16Step(g) - Crc16Step(h) >= 65535
      \/ Crc16Step(h) - Crc16Step(g) >= 65535
  BY <1>5, <1>6, <1>7, <1>8, SumWithDamage, SMT
<1>10. MaxWord = 65535
  BY SMT DEF MaxWord
<1>. QED BY <1>2, <1>4, <1>5, <1>9, <1>10, SMT
=============================================================================
