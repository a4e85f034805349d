-------------------------- MODULE RoutingTableProofs --------------------------
(***************************************************************************)
(* What add_entry, delete_entry and init_router make of the list of        *)
(* routes, for every list.                                                 *)
(***************************************************************************)
EXTENDS RoutingTable, SharedLemmas, SequenceTheorems, FiniteSetTheorems
-----------------------------------------------------------------------------
(* Lists                                                                   *)

\* The least and the greatest element of a set of numbers.
LEMMA MinOf ==
  ASSUME NEW S \in SUBSET Nat, S # {}
  PROVE  Min(S) \in S /\ \A k \in S : Min(S) <= k
<1>1. \E k \in S : \A j \in S : k <= j
  BY LeastNumber
<1>. QED BY <1>1, Zenon DEF Min

LEMMA MaxOf ==
  ASSUME NEW S \in SUBSET Nat, S # {}, NEW b \in Nat, \A k \in S : k <= b
  PROVE  Max(S) \in S /\ \A k \in S : k <= Max(S)
<1>1. PICK k \in S : \A j \in S : j <= k
  BY GreatestNumber
<1>2. \E m \in S : \A j \in S : m >= j
  BY <1>1
<1>3. Max(S) \in S /\ \A j \in S : Max(S) >= j
  BY <1>2, Zenon DEF Max
<1>. QED BY <1>3

\* A list with e inserted as its i-th element.
IsInserted(t, s, i, e) ==
  /\ Len(t) = Len(s) + 1
  /\ \A k \in 1..(Len(s) + 1) : t[k] = IF k < i THEN s[k] ELSE IF k = i THEN e ELSE s[k - 1]

LEMMA Inserted ==
  ASSUME NEW S, NEW s \in Seq(S), NEW i \in 1..(Len(s) + 1), NEW e \in S
  PROVE  \E t \in Seq(S) : t = InsertAt(s, i, e) /\ IsInserted(t, s, i, e)
<1>. DEFINE a == SubSeq(s, 1, i - 1)
            b == SubSeq(s, i, Len(s))
<1>1. Len(s) \in Nat /\ \A k \in 1..Len(s) : s[k] \in S
  BY ElementOfSeq, LenProperties
<1>2. a \in Seq(S) /\ Len(a) = i - 1 /\ \A k \in 1..(i - 1) : a[k] = s[k]
  <2>1. \A k \in 1..(i - 1) : s[k] \in S
    BY <1>1
  <2>2. i - 1 \in Int
    OBVIOUS
  <2>. QED BY <2>1, <2>2, SubSeqProperties
<1>3. b \in Seq(S) /\ Len(b) = Len(s) - i + 1 /\ \A k \in 1..(Len(s) - i + 1) : b[k] = s[k + i - 1]
  <2>1. \A k \in i..Len(s) : s[k] \in S
    BY <1>1
  <2>. QED BY <1>1, <2>1, SubSeqProperties
<1>4. <<e>> \in Seq(S) /\ Len(<<e>>) = 1 /\ <<e>>[1] = e
  OBVIOUS
<1>. HIDE DEF a, b
<1>5. PICK c \in Seq(S) :
      /\ c = a \o <<e>>
      /\ Len(c) = i
      /\ \A k \in 1..(i - 1) : c[k] = s[k]
      /\ c[i] = e
  <2>1. PICK c \in Seq(S) : IsJoined(c, a, <<e>>)
    BY <1>2, <1>4, Joined, Zenon
  <2>2. Len(c) = i /\ c[i] = e
    <3>1. Len(a) + 1 = i /\ 1 \in 1..Len(<<e>>)
      BY <1>2, <1>4
    <3>. QED BY <1>4, <2>1, <3>1 DEF IsJoined
  <2>. QED BY <1>2, <2>1, <2>2 DEF IsJoined
<1>6. PICK d \in Seq(S) : IsJoined(d, c, b)
  BY <1>3, <1>5, Joined, Zenon
<1>7. InsertAt(s, i, e) = d
  BY <1>5, <1>6, Zenon DEF IsJoined, InsertAt, a, b
<1>8. ASSUME NEW k \in 1..(Len(s) + 1)
      PROVE  d[k] = IF k < i THEN s[k] ELSE IF k = i THEN e ELSE s[k - 1]
  <2>1. CASE k <= i
    BY <1>5, <1>6, <2>1 DEF IsJoined
  <2>2. CASE k > i
    <3>1. k - i \in 1..(Len(s) - i + 1) /\ (k - i) + i - 1 = k - 1 /\ i + (k - i) = k
      BY <1>1, <2>2
    <3>2. d[i + (k - i)] = b[k - i] /\ b[k - i] = s[(k - i) + i - 1]
      BY <1>3, <1>5, <1>6, <3>1 DEF IsJoined
    <3>. QED BY <2>2, <3>1, <3>2
  <2>. QED BY <2>1, <2>2
<1>9. Len(d) = Len(s) + 1
  BY <1>1, <1>3, <1>5, <1>6 DEF IsJoined
<1>. QED BY <1>6, <1>7, <1>8, <1>9 DEF IsInserted

\* A list without its i-th element.
IsRemoved(t, s, i) ==
  /\ Len(t) = Len(s) - 1
  /\ \A k \in 1..(Len(s) - 1) : t[k] = IF k < i THEN s[k] ELSE s[k + 1]

LEMMA Removed ==
  ASSUME NEW S, NEW s \in Seq(S), NEW i \in 1..Len(s)
  PROVE  \E t \in Seq(S) : t = RemoveAt(s, i) /\ IsRemoved(t, s, i)
<1>. DEFINE a == SubSeq(s, 1, i - 1)
            b == SubSeq(s, i + 1, Len(s))
<1>1. Len(s) \in Nat /\ \A k \in 1..Len(s) : s[k] \in S
  BY ElementOfSeq, LenProperties
<1>2. a \in Seq(S) /\ Len(a) = i - 1 /\ \A k \in 1..(i - 1) : a[k] = s[k]
  <2>1. \A k \in 1..(i - 1) : s[k] \in S
    BY <1>1
  <2>2. i - 1 \in Int
    OBVIOUS
  <2>. QED BY <2>1, <2>2, SubSeqProperties
<1>3. b \in Seq(S) /\ Len(b) = Len(s) - i /\ \A k \in 1..(Len(s) - i) : b[k] = s[k + i]
  <2>1. \A k \in (i + 1)..Len(s) : s[k] \in S
    BY <1>1
  <2>2. /\ b \in Seq(S)
        /\ Len(b) = IF i + 1 <= Len(s) THEN Len(s) - (i + 1) + 1 ELSE 0
        /\ \A k \in 1..(Len(s) - (i + 1) + 1) : b[k] = s[(i + 1) + k - 1]
    BY <1>1, <2>1, SubSeqProperties
  <2>. HIDE DEF b
  <2>. QED BY <1>1, <2>2
<1>. HIDE DEF a, b
<1>4. PICK d \in Seq(S) : IsJoined(d, a, b)
  BY <1>2, <1>3, Joined, Zenon
<1>5. RemoveAt(s, i) = d
  BY <1>4, Zenon DEF IsJoined, RemoveAt, a, b
<1>6. ASSUME NEW k \in 1..(Len(s) - 1)
      PROVE  d[k] = IF k < i THEN s[k] ELSE s[k + 1]
  <2>1. CASE k < i
    BY <1>1, <1>2, <1>4, <2>1 DEF IsJoined
  <2>2. CASE k >= i
    <3>1. k - (i - 1) \in 1..(Len(s) - i) /\ (k - (i - 1)) + i = k + 1 /\ (i - 1) + (k - (i - 1)) = k
      BY <1>1, <2>2
    <3>2. d[(i - 1) + (k - (i - 1))] = b[k - (i - 1)] /\ b[k - (i - 1)] = s[(k - (i - 1)) + i]
      BY <1>2, <1>3, <1>4, <3>1 DEF IsJoined
    <3>. QED BY <2>2, <3>1, <3>2
  <2>. QED BY <2>1, <2>2
<1>7. Len(d) = Len(s) - 1
  BY <1>1, <1>2, <1>3, <1>4 DEF IsJoined
<1>. QED BY <1>4, <1>5, <1>6, <1>7 DEF IsRemoved

\* How many times r is in list s.
Count(s, r) == Cardinality({k \in DOMAIN s : s[k] = r})

LEMMA Positions ==
  ASSUME NEW S, NEW s \in Seq(S), NEW r
  PROVE  /\ IsFiniteSet({k \in DOMAIN s : s[k] = r})
         /\ Count(s, r) \in Nat
<1>1. Len(s) \in Nat /\ DOMAIN s = 1..Len(s)
  BY LenProperties
<1>2. IsFiniteSet(1..Len(s))
  BY <1>1, FS_Interval
<1>3. IsFiniteSet({k \in DOMAIN s : s[k] = r})
  BY <1>1, <1>2, FS_Subset
<1>. QED BY <1>3, FS_CardinalityType DEF Count

\* The positions of r that insertion moves are as many as they were.
LEMMA CountInserted ==
  ASSUME NEW S, NEW s \in Seq(S), NEW i \in 1..(Len(s) + 1), NEW e \in S, NEW r
  PROVE  Count(InsertAt(s, i, e), r) = IF r = e THEN Count(s, r) + 1 ELSE Count(s, r)
<1>1. Len(s) \in Nat /\ DOMAIN s = 1..Len(s)
  BY LenProperties
<1>2. PICK t \in Seq(S) : t = InsertAt(s, i, e) /\ IsInserted(t, s, i, e)
  BY Inserted, Zenon
<1>3. DOMAIN t = 1..(Len(s) + 1)
  BY <1>2, LenProperties DEF IsInserted
<1>. DEFINE P == {k \in DOMAIN s : s[k] = r}
            Q == {k \in DOMAIN t : t[k] = r}
            f == [k \in P |-> IF k < i THEN k ELSE k + 1]
<1>4. f \in Bijection(P, Q \ {i})
  <2>1. f \in [P -> Q \ {i}]
    BY <1>1, <1>2, <1>3 DEF IsInserted
  <2>2. \A j, k \in P : f[j] = f[k] => j = k
    BY <1>1
  <2>3. ASSUME NEW m \in Q \ {i} PROVE \E k \in P : f[k] = m
    <3>1. CASE m < i
      <4>1. m \in P /\ f[m] = m
        BY <1>1, <1>2, <1>3, <3>1 DEF IsInserted
      <4>. QED BY <4>1
    <3>2. CASE m > i
      <4>1. m - 1 \in P /\ f[m - 1] = m
        BY <1>1, <1>2, <1>3, <3>2 DEF IsInserted
      <4>. QED BY <4>1
    <3>. QED BY <1>1, <1>3, <3>1, <3>2
  <2>. HIDE DEF f, P, Q
  <2>. QED BY <2>1, <2>2, <2>3 DEF Bijection, Injection, Surjection, IsInjective
<1>5. IsFiniteSet(Q \ {i}) /\ Cardinality(Q \ {i}) = Cardinality(P)
  <2>1. IsFiniteSet(P)
    BY Positions
  <2>2. ExistsBijection(P, Q \ {i})
    <3>. HIDE DEF f, P, Q
    <3>. QED BY <1>4 DEF ExistsBijection
  <2>. HIDE DEF P, Q
  <2>. QED BY <2>1, <2>2, FS_Bijection
<1>6. Count(t, r) = Cardinality(Q) /\ Count(s, r) = Cardinality(P)
  BY DEF Count
<1>7. CASE r = e
  <2>1. Q = (Q \ {i}) \cup {i}
    BY <1>1, <1>2, <1>3, <1>7 DEF IsInserted
  <2>2. i \notin Q \ {i}
    OBVIOUS
  <2>. HIDE DEF P, Q
  <2>3. Cardinality((Q \ {i}) \cup {i}) = Cardinality(Q \ {i}) + 1
    BY <1>5, <2>2, FS_AddElement
  <2>. QED BY <1>2, <1>5, <1>6, <1>7, <2>1, <2>3
<1>8. CASE r # e
  <2>1. Q = Q \ {i}
    BY <1>1, <1>2, <1>3, <1>8 DEF IsInserted
  <2>. HIDE DEF P, Q
  <2>. QED BY <1>2, <1>5, <1>6, <1>8, <2>1
<1>. QED BY <1>7, <1>8

\* What removing its i-th element leaves of a list is what the list was before
\* that element was inserted.
LEMMA CountRemoved ==
  ASSUME NEW S, NEW s \in Seq(S), NEW i \in 1..Len(s), NEW r
  PROVE  Count(RemoveAt(s, i), r) = IF r = s[i] THEN Count(s, r) - 1 ELSE Count(s, r)
<1>1. Len(s) \in Nat /\ s[i] \in S
  BY LenProperties, ElementOfSeq
<1>2. PICK t \in Seq(S) : t = RemoveAt(s, i) /\ IsRemoved(t, s, i)
  BY Removed, Zenon
<1>3. i \in 1..(Len(t) + 1)
  BY <1>1, <1>2 DEF IsRemoved
<1>4. PICK u \in Seq(S) : u = InsertAt(t, i, s[i]) /\ IsInserted(u, t, i, s[i])
  BY <1>1, <1>3, Inserted, Zenon
<1>5. Len(u) = Len(s) /\ \A k \in 1..Len(s) : u[k] = s[k]
  BY <1>1, <1>2, <1>4 DEF IsInserted, IsRemoved
<1>6. u = s
  BY <1>5, SeqEqual
<1>7. Count(u, r) = IF r = s[i] THEN Count(t, r) + 1 ELSE Count(t, r)
  BY <1>1, <1>3, <1>4, CountInserted
<1>8. Count(t, r) \in Nat
  BY Positions
<1>. QED BY <1>2, <1>6, <1>7, <1>8
-----------------------------------------------------------------------------
(* Netmasks                                                                *)

\* The byte with its first n bits set, and how many bits of the byte behind the
\* first lo bits a prefix sets.
Filled == [n \in 0..8 |-> 256 - 2^(8 - n)]
Bits(p, lo) == IF p <= lo THEN 0 ELSE IF p >= lo + 8 THEN 8 ELSE p - lo

LEMMA FilledGrows ==
  /\ \A n \in 0..8 : Filled[n] \in 0..255 /\ (n > 0 => Filled[n] >= 128)
  /\ \A m, n \in 0..8 : m < n => Filled[m] < Filled[n]
  /\ Filled[0] = 0 /\ Filled[8] = 255
<1>1. /\ 2^(8 - 0) = 256 /\ 2^(8 - 1) = 128 /\ 2^(8 - 2) = 64 /\ 2^(8 - 3) = 32 /\ 2^(8 - 4) = 16
      /\ 2^(8 - 5) = 8 /\ 2^(8 - 6) = 4 /\ 2^(8 - 7) = 2 /\ 2^(8 - 8) = 1
  BY SMT
<1>2. /\ Filled[0] = 0 /\ Filled[1] = 128 /\ Filled[2] = 192 /\ Filled[3] = 224
      /\ Filled[4] = 240 /\ Filled[5] = 248 /\ Filled[6] = 252 /\ Filled[7] = 254
      /\ Filled[8] = 255
  BY <1>1 DEF Filled
<1>. QED BY <1>2

LEMMA ByteFilled ==
  ASSUME NEW p \in 0..32, NEW k \in 0..3, NEW lo \in Nat, lo = 8 * k
  PROVE  Bits(p, lo) \in 0..8 /\ Byte(p, k) = Filled[Bits(p, lo)]
<1>1. 8 * (k + 1) = lo + 8
  OBVIOUS
<1>2. Byte(p, k) = IF p >= lo + 8 THEN 255 ELSE IF p <= lo THEN 0 ELSE 256 - 2^(lo + 8 - p)
  BY <1>1 DEF Byte
<1>3. CASE p <= lo
  <2>1. Bits(p, lo) = 0 /\ Byte(p, k) = 0
    BY <1>2, <1>3 DEF Bits
  <2>. QED BY <2>1, FilledGrows
<1>4. CASE p >= lo + 8
  <2>1. Bits(p, lo) = 8 /\ Byte(p, k) = 255
    BY <1>2, <1>4 DEF Bits
  <2>. QED BY <2>1, FilledGrows
<1>5. CASE lo < p /\ p < lo + 8
  <2>1. PICK n \in 0..8 : n = p - lo /\ Bits(p, lo) = n
    BY <1>5 DEF Bits
  <2>2. 8 - n = lo + 8 - p
    BY <2>1
  <2>3. ~ (p >= lo + 8) /\ ~ (p <= lo)
    BY <1>5
  <2>4. Byte(p, k) = 256 - 2^(8 - n)
    BY <1>2, <2>2, <2>3, Zenon
  <2>5. Filled[n] = 256 - 2^(8 - n)
    BY Zenon DEF Filled
  <2>. QED BY <2>1, <2>4, <2>5, Zenon
<1>. QED BY <1>3, <1>4, <1>5

LEMMA ByteRange ==
  ASSUME NEW p \in 0..32, NEW k \in 0..3
  PROVE  Byte(p, k) \in 0..255
<1>1. PICK lo \in Nat : lo = 8 * k
  OBVIOUS
<1>2. PICK n \in 0..8 : Byte(p, k) = Filled[n]
  BY <1>1, ByteFilled, Zenon
<1>. QED BY <1>2, FilledGrows

\* The order of netmasks is one of integers of 32 bits.
Lowest == -2147483648

LEMMA MaskRange ==
  ASSUME NEW p \in 0..32
  PROVE  MaskValue(p) \in Int /\ Lowest \in Int /\ Lowest <= MaskValue(p)
<1>1. Byte(p, 0) \in 0..255 /\ Byte(p, 1) \in 0..255 /\ Byte(p, 2) \in 0..255 /\ Byte(p, 3) \in 0..255
  BY ByteRange, SMT
<1>2. SignedByte(Byte(p, 3)) \in -128..127
  BY <1>1, SMT DEF SignedByte
<1>3. 2^8 = 256 /\ 2^16 = 65536 /\ 2^24 = 16777216
  BY SMT
<1>4. PICK a, b, c, d : a = Byte(p, 0) /\ b = Byte(p, 1) /\ c = Byte(p, 2) /\ d = SignedByte(Byte(p, 3))
  OBVIOUS
<1>5. PICK v : v = MaskValue(p)
  OBVIOUS
<1>6. v = a + 2^8 * b + 2^16 * c + 2^24 * d
  BY <1>4, <1>5, Zenon DEF MaskValue
<1>7. v = a + 256 * b + 65536 * c + 16777216 * d
  BY <1>3, <1>6, SMT
<1>8. a \in 0..255 /\ b \in 0..255 /\ c \in 0..255 /\ d \in -128..127
  BY <1>1, <1>2, <1>4
<1>9. v \in Int /\ Lowest \in Int /\ Lowest <= v
  BY <1>7, <1>8, SMT DEF Lowest
<1>. QED BY <1>5, <1>9, Zenon

\* Of a shorter prefix p and a longer one q, x and y are the bytes behind the first
\* lo bits: none is less than for the shorter one, and the one in which that ends
\* is more.
Grows(p, q, lo, x, y) ==
  /\ x <= y
  /\ lo < q /\ p < lo + 8 => x < y
  /\ lo < p => x >= 128 /\ y >= 128
  /\ q <= lo => x = 0 /\ y = 0

LEMMA ByteGrows ==
  ASSUME NEW p \in 0..32, NEW q \in 0..32, p < q, NEW k \in 0..3, NEW lo \in Nat, lo = 8 * k
  PROVE  \E x, y \in 0..255 : x = Byte(p, k) /\ y = Byte(q, k) /\ Grows(p, q, lo, x, y)
<1>1. PICK m \in 0..8 : m = Bits(p, lo) /\ Byte(p, k) = Filled[m]
  BY ByteFilled, Zenon
<1>2. PICK n \in 0..8 : n = Bits(q, lo) /\ Byte(q, k) = Filled[n]
  BY ByteFilled, Zenon
<1>3. /\ m <= n
      /\ lo < q /\ p < lo + 8 => m < n
      /\ lo < p => m > 0 /\ n > 0
      /\ q <= lo => m = 0 /\ n = 0
  BY <1>1, <1>2 DEF Bits
<1>4. PICK x \in 0..255 : x = Filled[m] /\ (m > 0 => x >= 128)
  <2>1. Filled[m] \in 0..255 /\ (m > 0 => Filled[m] >= 128)
    BY FilledGrows, Zenon
  <2>. QED BY <2>1, Zenon
<1>5. PICK y \in 0..255 : y = Filled[n] /\ (n > 0 => y >= 128)
  <2>1. Filled[n] \in 0..255 /\ (n > 0 => Filled[n] >= 128)
    BY FilledGrows, Zenon
  <2>. QED BY <2>1, Zenon
<1>6. m < n => x < y
  BY <1>4, <1>5, FilledGrows
<1>7. m = n => x = y
  BY <1>4, <1>5
<1>8. m = 0 => x = 0
  BY <1>4, FilledGrows
<1>9. Grows(p, q, lo, x, y)
  BY <1>3, <1>4, <1>5, <1>6, <1>7, <1>8 DEF Grows
<1>. QED BY <1>1, <1>2, <1>4, <1>5, <1>9, Zenon

\* Masks that both reach into the last byte, or both do not, compare as their
\* prefixes do.
LEMMA LongerIsLarger ==
  ASSUME NEW p \in 0..32, NEW q \in 0..32, p < q, (p <= 24) = (q <= 24)
  PROVE  MaskValue(p) < MaskValue(q)
<1>1. \A k \in 0..3, lo \in Nat : lo = 8 * k =>
        \E x, y \in 0..255 : x = Byte(p, k) /\ y = Byte(q, k) /\ Grows(p, q, lo, x, y)
  BY ByteGrows
<1>2. /\ \E x, y \in 0..255 : x = Byte(p, 0) /\ y = Byte(q, 0) /\ Grows(p, q, 0, x, y)
      /\ \E x, y \in 0..255 : x = Byte(p, 1) /\ y = Byte(q, 1) /\ Grows(p, q, 8, x, y)
      /\ \E x, y \in 0..255 : x = Byte(p, 2) /\ y = Byte(q, 2) /\ Grows(p, q, 16, x, y)
      /\ \E x, y \in 0..255 : x = Byte(p, 3) /\ y = Byte(q, 3) /\ Grows(p, q, 24, x, y)
  <2>1. 0 \in 0..3 /\ 0 \in Nat /\ 0 = 8 * 0
    BY SMT
  <2>2. 1 \in 0..3 /\ 8 \in Nat /\ 8 = 8 * 1
    BY SMT
  <2>3. 2 \in 0..3 /\ 16 \in Nat /\ 16 = 8 * 2
    BY SMT
  <2>4. 3 \in 0..3 /\ 24 \in Nat /\ 24 = 8 * 3
    BY SMT
  <2>5. \E x, y \in 0..255 : x = Byte(p, 0) /\ y = Byte(q, 0) /\ Grows(p, q, 0, x, y)
    BY <1>1, <2>1, Zenon
  <2>6. \E x, y \in 0..255 : x = Byte(p, 1) /\ y = Byte(q, 1) /\ Grows(p, q, 8, x, y)
    BY <1>1, <2>2, Zenon
  <2>7. \E x, y \in 0..255 : x = Byte(p, 2) /\ y = Byte(q, 2) /\ Grows(p, q, 16, x, y)
    BY <1>1, <2>3, Zenon
  <2>8. \E x, y \in 0..255 : x = Byte(p, 3) /\ y = Byte(q, 3) /\ Grows(p, q, 24, x, y)
    BY <1>1, <2>4, Zenon
  <2>. QED BY <2>5, <2>6, <2>7, <2>8, Zenon
<1>3. PICK a \in 0..255, w \in 0..255 : a = Byte(p, 0) /\ w = Byte(q, 0) /\ Grows(p, q, 0, a, w)
  BY <1>2, Zenon
<1>4. PICK b \in 0..255, x \in 0..255 : b = Byte(p, 1) /\ x = Byte(q, 1) /\ Grows(p, q, 8, b, x)
  BY <1>2, Zenon
<1>5. PICK c \in 0..255, y \in 0..255 : c = Byte(p, 2) /\ y = Byte(q, 2) /\ Grows(p, q, 16, c, y)
  BY <1>2, Zenon
<1>6. PICK d \in 0..255, z \in 0..255 : d = Byte(p, 3) /\ z = Byte(q, 3) /\ Grows(p, q, 24, d, z)
  BY <1>2, Zenon
<1>7. PICK s, t \in Int : s = SignedByte(d) /\ t = SignedByte(z) /\ s <= t /\ (d < z => s < t)
  <2>1. CASE q <= 24
    <3>1. d = 0 /\ z = 0
      BY <1>6, <2>1 DEF Grows
    <3>. QED BY <3>1 DEF SignedByte
  <2>2. CASE q > 24
    <3>1. d >= 128 /\ z >= 128 /\ d <= z
      BY <1>6, <2>2 DEF Grows
    <3>. QED BY <3>1 DEF SignedByte
  <2>. QED BY <2>1, <2>2
<1>8. a < w \/ b < x \/ c < y \/ s < t
  <2>1. a < w \/ b < x \/ c < y \/ d < z
    BY <1>3, <1>4, <1>5, <1>6 DEF Grows
  <2>. QED BY <1>7, <2>1
<1>9. PICK u, v : u = MaskValue(p) /\ v = MaskValue(q)
  OBVIOUS
<1>10. u = a + 2^8 * b + 2^16 * c + 2^24 * s /\ v = w + 2^8 * x + 2^16 * y + 2^24 * t
  BY <1>3, <1>4, <1>5, <1>6, <1>7, <1>9, Zenon DEF MaskValue
<1>11. 2^8 = 256 /\ 2^16 = 65536 /\ 2^24 = 16777216
  BY SMT
<1>12. /\ u = a + 256 * b + 65536 * c + 16777216 * s
       /\ v = w + 256 * x + 65536 * y + 16777216 * t
  BY <1>10, <1>11, SMT
<1>13. /\ a \in Int /\ b \in Int /\ c \in Int /\ w \in Int /\ x \in Int /\ y \in Int
       /\ a <= w /\ b <= x /\ c <= y
  BY <1>3, <1>4, <1>5 DEF Grows
<1>14. u < v
  BY <1>7, <1>8, <1>12, <1>13, SMT
<1>. QED BY <1>9, <1>14

LEMMA SmallestMaskExists == SmallestMask \in Ifc
<1>. DEFINE V(p) == MaskValue(IfcPrefix[p]) - Lowest
            S == {V(p) : p \in Ifc}
            A == {p \in Ifc : \A q \in Ifc : MaskValue(IfcPrefix[p]) <= MaskValue(IfcPrefix[q])}
<1>1. \A p \in Ifc : IfcPrefix[p] \in 0..32
  BY RoutingAssumption
<1>2. \A p \in Ifc : MaskValue(IfcPrefix[p]) \in Int /\ Lowest \in Int /\ V(p) \in Nat
  BY <1>1, MaskRange
<1>3. S \in SUBSET Nat /\ S # {}
  <2>1. 1 \in Ifc
    BY RoutingAssumption DEF Ifc
  <2>. HIDE DEF V
  <2>. QED BY <1>2, <2>1
<1>4. PICK v \in S : \A j \in S : v <= j
  <2>. HIDE DEF S
  <2>. QED BY <1>3, LeastNumber
<1>5. PICK p \in Ifc : v = V(p)
  <2>. HIDE DEF V
  <2>. QED BY <1>4
<1>6. \A q \in Ifc : V(p) <= V(q)
  <2>. HIDE DEF V
  <2>. QED BY <1>4, <1>5
<1>7. p \in A
  BY <1>2, <1>6
<1>8. A \in SUBSET Nat /\ A # {} /\ A \subseteq Ifc
  BY <1>7 DEF Ifc
<1>9. Min(A) \in A
  <2>. HIDE DEF A
  <2>. QED BY <1>8, MinOf
<1>. QED BY <1>8, <1>9, Zenon DEF SmallestMask
-----------------------------------------------------------------------------
(* Adding and deleting routes                                              *)

LEMMA RouteFields ==
  ASSUME NEW r \in Route
  PROVE  /\ r.target \in Ip
         /\ r.prefix \in 0..32
         /\ MaskValue(r.prefix) \in Int
<1>1. r.target \in Ip /\ r.prefix \in 0..32
  BY RoutingAssumption DEF Route
<1>. QED BY <1>1, MaskRange

\* create_entry copies all but `undeleteable'.
LEMMA Created ==
  ASSUME NEW r \in Route
  PROVE  /\ CreateEntry(r) \in Route
         /\ CreateEntry(r).target = r.target
         /\ CreateEntry(r).prefix = r.prefix
         /\ CreateEntry(r).gateway = r.gateway
         /\ CreateEntry(r).ifc = r.ifc
         /\ CreateEntry(r).undeletable = FALSE
<1>1. PICK b \in BOOLEAN : b = FALSE
  OBVIOUS
<1>2. PICK e : e = CreateEntry(r)
  OBVIOUS
<1>3. e = [r EXCEPT !.undeletable = b]
  BY <1>1, <1>2, Zenon DEF CreateEntry
<1>4. e \in Route
  BY <1>3, SMT DEF Route
<1>5. /\ e.target = r.target /\ e.prefix = r.prefix /\ e.gateway = r.gateway
      /\ e.ifc = r.ifc /\ e.undeletable = b
  BY <1>3, SMT DEF Route
<1>. QED BY <1>1, <1>2, <1>4, <1>5, Zenon

\* the routes to the same network with a smaller mask
Smaller(list, r) ==
  {k \in RoutesTo(list, r.target) : MaskValue(r.prefix) > MaskValue(list[k].prefix)}

\* where lookup_routing_entry_rt stops
LEMMA PredecessorInList ==
  ASSUME NEW list \in Seq(Route), list # <<>>, NEW r \in Route
  PROVE  /\ Predecessor(list, r) \in 1..Len(list)
         /\ Predecessor(list, r) = 1 \/ \A j \in Smaller(list, r) : Predecessor(list, r) < j
         /\ \A k \in RoutesTo(list, r.target) :
              (\A j \in Smaller(list, r) : k < j) => k <= Predecessor(list, r)
<1>1. Len(list) \in Nat /\ Len(list) >= 1 /\ DOMAIN list = 1..Len(list)
  BY LenProperties, EmptySeq
<1>. DEFINE before == {k \in RoutesTo(list, r.target) : \A j \in Smaller(list, r) : k < j}
            S == {1} \union before
<1>2. S \in SUBSET Nat /\ S # {} /\ \A k \in S : k \in 1..Len(list)
  BY <1>1 DEF RoutesTo
<1>3. Max(S) \in S /\ \A k \in S : k <= Max(S)
  <2>. HIDE DEF S
  <2>1. \A k \in S : k <= Len(list)
    BY <1>1, <1>2
  <2>. QED BY <1>1, <1>2, <2>1, MaxOf
<1>4. Predecessor(list, r) = Max(S)
  BY Zenon DEF Predecessor, Smaller
<1>5. PICK m : m = Max(S)
  OBVIOUS
<1>6. m \in S /\ \A k \in before : k <= m
  BY <1>3, <1>5
<1>. QED BY <1>2, <1>4, <1>5, <1>6

\* what add_entry makes of a list
Added(t, list, r) ==
  /\ t = AddEntry(list, r)
  /\ IsInserted(t, list, Predecessor(list, r) + 1, CreateEntry(r))

LEMMA AddedEntry ==
  ASSUME NEW list \in Seq(Route), list # <<>>, NEW r \in Route
  PROVE  \E t \in Seq(Route) : Added(t, list, r) /\ t # <<>> /\ t[1] = list[1]
<1>. DEFINE i == Predecessor(list, r) + 1
<1>1. Len(list) \in Nat /\ Len(list) >= 1
  BY LenProperties, EmptySeq
<1>2. i \in 1..(Len(list) + 1) /\ i > 1
  BY <1>1, PredecessorInList
<1>. HIDE DEF i
<1>3. PICK t \in Seq(Route) : t = InsertAt(list, i, CreateEntry(r)) /\ IsInserted(t, list, i, CreateEntry(r))
  BY <1>2, Created, Inserted, Zenon
<1>4. Added(t, list, r)
  BY <1>3, Zenon DEF Added, AddEntry, i
<1>5. Len(t) >= 1 /\ t[1] = list[1]
  BY <1>1, <1>2, <1>3 DEF IsInserted
<1>6. t # <<>>
  BY <1>5, EmptySeq
<1>. QED BY <1>4, <1>5, <1>6

\* add_entry puts exactly one more copy of the route into the list.
LEMMA AddCounts ==
  ASSUME NEW list \in Seq(Route), list # <<>>, NEW r \in Route, NEW q
  PROVE  Count(AddEntry(list, r), q) =
           IF q = CreateEntry(r) THEN Count(list, q) + 1 ELSE Count(list, q)
<1>1. Len(list) \in Nat /\ Predecessor(list, r) + 1 \in 1..(Len(list) + 1)
  BY LenProperties, PredecessorInList
<1>2. CreateEntry(r) \in Route
  BY Created
<1>3. PICK i, e : i = Predecessor(list, r) + 1 /\ e = CreateEntry(r)
  OBVIOUS
<1>4. Count(InsertAt(list, i, e), q) = IF q = e THEN Count(list, q) + 1 ELSE Count(list, q)
  BY <1>1, <1>2, <1>3, CountInserted
<1>. QED BY <1>3, <1>4, Zenon DEF AddEntry

\* The masks of the routes to network n descend; and those of every network but
\* that of the first node.
InOrder(list, n) ==
  \A j, k \in RoutesTo(list, n) :
    j < k => MaskValue(list[j].prefix) >= MaskValue(list[k].prefix)

Sorted(list) == \A n \in Ip : n # list[1].target => InOrder(list, n)

LEMMA AddKeepsOrder ==
  ASSUME NEW list \in Seq(Route), list # <<>>, NEW r \in Route, NEW t \in Seq(Route),
         Added(t, list, r), NEW n \in Ip, n # list[1].target, InOrder(list, n)
  PROVE  InOrder(t, n)
<1>. DEFINE i == Predecessor(list, r) + 1
            new == CreateEntry(r)
            V(e) == MaskValue(e.prefix)
<1>1. Len(list) \in Nat /\ Len(list) >= 1 /\ DOMAIN list = 1..Len(list)
  BY LenProperties, EmptySeq
<1>2. i \in 2..(Len(list) + 1)
  BY <1>1, PredecessorInList
<1>3. /\ DOMAIN t = 1..(Len(list) + 1)
      /\ \A k \in 1..(Len(list) + 1) : t[k] = IF k < i THEN list[k] ELSE IF k = i THEN new ELSE list[k - 1]
  BY LenProperties, Zenon DEF Added, IsInserted
<1>4. new.target = r.target /\ V(new) = V(r)
  BY Created
<1>5. \A k \in 1..Len(list) : V(list[k]) \in Int
  BY RouteFields, ElementOfSeq
<1>6. V(r) \in Int
  BY RouteFields
<1>. HIDE DEF V, new, i
<1>7. \A j, k \in 1..Len(list) :
        (list[j].target = n /\ list[k].target = n /\ j < k) => V(list[j]) >= V(list[k])
  BY <1>1 DEF InOrder, RoutesTo, V
\* of the routes to n, those before the new one do not have a smaller mask,
\* and those after it not a larger one
<1>8. ASSUME r.target = n, NEW k \in 1..Len(list), list[k].target = n, k < i
      PROVE  V(list[k]) >= V(r)
  <2>1. k # 1
    BY <1>8
  <2>2. \A j \in Smaller(list, r) : i - 1 < j
    <3>1. Predecessor(list, r) = i - 1 /\ i - 1 # 1
      BY <1>1, <1>2, <1>8, <2>1, PredecessorInList DEF i
    <3>. QED BY <3>1, PredecessorInList, Zenon
  <2>3. k \notin Smaller(list, r)
    BY <1>2, <1>8, <2>2
  <2>4. k \in RoutesTo(list, r.target)
    BY <1>1, <1>8 DEF RoutesTo
  <2>. QED BY <1>5, <1>6, <2>3, <2>4 DEF Smaller, V
<1>9. ASSUME r.target = n, NEW k \in 1..Len(list), list[k].target = n, k >= i
      PROVE  V(r) >= V(list[k])
  <2>1. k \in RoutesTo(list, r.target)
    BY <1>1, <1>9 DEF RoutesTo
  <2>2. ~ (k <= i - 1)
    BY <1>2, <1>9
  <2>3. PICK j \in Smaller(list, r) : ~ (k < j)
    BY <2>1, <2>2, PredecessorInList DEF i
  <2>4. j \in 1..Len(list) /\ list[j].target = n /\ V(r) > V(list[j])
    BY <1>1, <1>9 DEF Smaller, RoutesTo, V
  <2>5. V(list[j]) >= V(list[k])
    BY <1>5, <1>7, <1>9, <2>3, <2>4
  <2>. QED BY <1>5, <1>6, <2>4, <2>5
<1>10. ASSUME NEW j \in DOMAIN t, NEW k \in DOMAIN t, t[j].target = n, t[k].target = n, j < k
       PROVE  V(t[j]) >= V(t[k])
  <2>1. CASE k < i
    BY <1>1, <1>2, <1>3, <1>7, <1>10, <2>1
  <2>2. CASE k = i
    BY <1>1, <1>2, <1>3, <1>4, <1>8, <1>10, <2>2
  <2>3. CASE j < i /\ k > i
    BY <1>1, <1>2, <1>3, <1>7, <1>10, <2>3
  <2>4. CASE j = i
    <3>1. PICK m \in 1..Len(list) : m = k - 1 /\ m >= i
      BY <1>1, <1>2, <1>3, <1>10, <2>4
    <3>2. t[j] = new /\ t[k] = list[m]
      BY <1>1, <1>2, <1>3, <1>10, <2>4, <3>1
    <3>3. V(r) >= V(list[m])
      BY <1>4, <1>9, <1>10, <3>1, <3>2
    <3>. QED BY <1>4, <3>2, <3>3
  <2>5. CASE j > i
    BY <1>1, <1>2, <1>3, <1>7, <1>10, <2>5
  <2>. QED BY <1>2, <1>3, <1>10, <2>1, <2>2, <2>3, <2>4, <2>5
<1>. QED BY <1>10 DEF InOrder, RoutesTo, V

\* delete_entry leaves the list as it is, or takes out a node that is not the
\* first.
Deleted(t, list, r, i) ==
  /\ i \in Deletable(list, r)
  /\ i # 1
  /\ t = RemoveAt(list, i)
  /\ IsRemoved(t, list, i)

LEMMA DeletedEntry ==
  ASSUME NEW list \in Seq(Route), list # <<>>, NEW r \in Route
  PROVE  \/ DeleteEntry(list, r) = list
         \/ \E t \in Seq(Route), i \in 2..Len(list) :
              /\ t = DeleteEntry(list, r)
              /\ Deleted(t, list, r, i)
              /\ t # <<>>
              /\ t[1] = list[1]
<1>1. Len(list) \in Nat /\ Len(list) >= 1 /\ DOMAIN list = 1..Len(list)
  BY LenProperties, EmptySeq
<1>. DEFINE i == Min(Deletable(list, r))
<1>2. CASE ~ (Deletable(list, r) = {} \/ i = 1)
  <2>1. Deletable(list, r) \in SUBSET Nat /\ Deletable(list, r) \subseteq 1..Len(list)
    BY <1>1 DEF Deletable
  <2>2. i \in Deletable(list, r)
    BY <1>2, <2>1, MinOf
  <2>3. i \in 2..Len(list)
    BY <1>1, <1>2, <2>1, <2>2
  <2>. HIDE DEF i
  <2>4. PICK t \in Seq(Route) : t = RemoveAt(list, i) /\ IsRemoved(t, list, i)
    <3>1. i \in 1..Len(list)
      BY <1>1, <2>3
    <3>. QED BY <3>1, Removed, Zenon
  <2>5. t = DeleteEntry(list, r)
    BY <1>2, <2>4, Zenon DEF DeleteEntry, i
  <2>6. Len(t) >= 1 /\ t[1] = list[1]
    BY <1>1, <2>3, <2>4 DEF IsRemoved
  <2>7. t # <<>>
    BY <2>6, EmptySeq
  <2>. QED BY <1>2, <2>2, <2>3, <2>4, <2>5, <2>6, <2>7 DEF Deleted
<1>. QED BY <1>2, Zenon DEF DeleteEntry

LEMMA DeleteKeepsOrder ==
  ASSUME NEW list \in Seq(Route), NEW t \in Seq(Route), NEW i \in 2..Len(list), IsRemoved(t, list, i),
         NEW n \in Ip, InOrder(list, n)
  PROVE  InOrder(t, n)
<1>1. Len(list) \in Nat /\ DOMAIN list = 1..Len(list)
  BY LenProperties
<1>2. /\ DOMAIN t = 1..(Len(list) - 1)
      /\ \A k \in 1..(Len(list) - 1) : t[k] = IF k < i THEN list[k] ELSE list[k + 1]
  BY LenProperties, Zenon DEF IsRemoved
<1>3. ASSUME NEW j \in DOMAIN t, NEW k \in DOMAIN t, t[j].target = n, t[k].target = n, j < k
      PROVE  MaskValue(t[j].prefix) >= MaskValue(t[k].prefix)
  <2>1. \E a, b \in 1..Len(list) : a < b /\ t[j] = list[a] /\ t[k] = list[b]
    <3>1. CASE k < i
      BY <1>1, <1>2, <1>3, <3>1
    <3>2. CASE j < i /\ k >= i
      <4>1. j \in 1..Len(list) /\ k + 1 \in 1..Len(list) /\ j < k + 1
        BY <1>1, <1>2, <1>3, <3>2
      <4>. QED BY <1>2, <1>3, <3>2, <4>1
    <3>3. CASE j >= i
      <4>1. j + 1 \in 1..Len(list) /\ k + 1 \in 1..Len(list) /\ j + 1 < k + 1 /\ ~ (j < i) /\ ~ (k < i)
        BY <1>1, <1>2, <1>3, <3>3
      <4>. QED BY <1>2, <1>3, <3>3, <4>1
    <3>. QED BY <1>1, <1>2, <1>3, <3>1, <3>2, <3>3
  <2>. QED BY <1>1, <1>3, <2>1 DEF InOrder, RoutesTo
<1>. QED BY <1>3 DEF InOrder, RoutesTo
-----------------------------------------------------------------------------
(* init_router                                                             *)

BootStep(g, p) ==
  IF p = 0 THEN <<CreateEntry(ConnectedRoute(SmallestMask))>>
  ELSE IF p = SmallestMask THEN g[p - 1]
  ELSE AddEntry(g[p - 1], ConnectedRoute(p))

\* A recursive function exists: there is no least interface up to which it does
\* not.
LEMMA BootedExists == \E g : g = [p \in 0..NumIfc |-> BootStep(g, p)]
<1>. DEFINE S == {n \in 0..NumIfc : ~ \E g : g = [p \in 0..n |-> BootStep(g, p)]}
<1>1. NumIfc \in Nat
  BY RoutingAssumption
<1>2. ASSUME S # {}
      PROVE  FALSE
  <2>1. PICK n \in S : \A j \in S : n <= j
    <3>1. S \in SUBSET Nat
      BY <1>1
    <3>. HIDE DEF S
    <3>. QED BY <1>2, <3>1, LeastNumber
  <2>2. n \in 0..NumIfc /\ ~ \E g : g = [p \in 0..n |-> BootStep(g, p)]
    OBVIOUS
  <2>3. CASE n = 0
    <3>. DEFINE h == [p \in 0..n |-> <<CreateEntry(ConnectedRoute(SmallestMask))>>]
    <3>1. \A p \in 0..n : BootStep(h, p) = <<CreateEntry(ConnectedRoute(SmallestMask))>>
      BY <2>3 DEF BootStep
    <3>2. h = [p \in 0..n |-> BootStep(h, p)]
      <4>. HIDE DEF BootStep
      <4>. QED BY <3>1
    <3>. HIDE DEF h
    <3>. QED BY <2>2, <3>2
  <2>4. CASE n # 0
    <3>1. n - 1 \in 0..NumIfc /\ ~ (n <= n - 1) /\ 0..(n - 1) \subseteq 0..n /\ n \in 0..n
      BY <1>1, <2>2, <2>4
    <3>2. PICK g : g = [p \in 0..(n - 1) |-> BootStep(g, p)]
      BY <2>1, <3>1
    <3>. DEFINE h == [p \in 0..n |-> IF p = n THEN BootStep(g, n) ELSE g[p]]
    <3>3. \A p \in 0..n : p # n => p \in 0..(n - 1)
      BY <2>2
    <3>4. \A p \in 0..n : p # 0 => p - 1 \in 0..n /\ p - 1 # n
      BY <2>2
    <3>5. ASSUME NEW p \in 0..n
          PROVE  BootStep(h, p) = BootStep(g, p)
      <4>1. p # 0 => h[p - 1] = g[p - 1]
        BY <3>4
      <4>. HIDE DEF h
      <4>. QED BY <4>1 DEF BootStep
    <3>6. \A p \in 0..n : h[p] = BootStep(h, p)
      <4>1. \A p \in 0..(n - 1) : g[p] = BootStep(g, p)
        <5>. HIDE DEF h, S
        <5>. QED BY <3>2, Zenon
      <4>2. \A p \in 0..n : h[p] = BootStep(g, p)
        BY <3>3, <4>1
      <4>. QED BY <3>5, <4>2
    <3>7. h = [p \in 0..n |-> BootStep(h, p)]
      <4>1. h = [p \in 0..n |-> h[p]]
        OBVIOUS
      <4>. HIDE DEF h, S
      <4>. QED BY <3>6, <4>1
    <3>. HIDE DEF h, S
    <3>. QED BY <2>2, <3>7
  <2>. QED BY <2>3, <2>4
<1>3. NumIfc \in 0..NumIfc
  BY <1>1
<1>. QED BY <1>2, <1>3

LEMMA BootedIs ==
  ASSUME NEW p \in 0..NumIfc
  PROVE  Booted[p] = BootStep(Booted, p)
<1>1. Booted = CHOOSE g : g = [q \in 0..NumIfc |-> BootStep(g, q)]
  BY Zenon DEF Booted, BootStep
<1>2. Booted = [q \in 0..NumIfc |-> BootStep(Booted, q)]
  BY <1>1, BootedExists, Zenon
<1>. QED BY <1>2, Zenon

\* the route that init_router makes for interface p
Boot(p) == CreateEntry(ConnectedRoute(p))

LEMMA BootFields ==
  ASSUME NEW p \in Ifc
  PROVE  /\ ConnectedRoute(p) \in Route
         /\ Boot(p) \in Route
         /\ Boot(p).ifc = p
<1>1. PICK b \in BOOLEAN : b = TRUE
  OBVIOUS
<1>2. PICK t, n : t = Masked(IfcIp[p], IfcPrefix[p]) /\ n = IfcPrefix[p]
  OBVIOUS
<1>3. t \in Ip /\ n \in Prefix /\ Anywhere \in Ip
  BY <1>2, RoutingAssumption
<1>4. PICK r : r = [target |-> t, prefix |-> n, gateway |-> Anywhere, ifc |-> p, undeletable |-> b]
  OBVIOUS
<1>5. r \in Route /\ r.ifc = p
  BY <1>3, <1>4 DEF Route
<1>6. r = ConnectedRoute(p)
  BY <1>1, <1>2, <1>4, Zenon DEF ConnectedRoute
<1>. QED BY <1>5, <1>6, Created DEF Boot

\* the interfaces whose networks are in the table after the loop's step p
Entered(p) == {q \in Ifc : q = SmallestMask \/ q <= p}
BootSet(p) == {Boot(q) : q \in Entered(p)}

BootedTable(p) ==
  /\ Booted[p] \in Seq(Route)
  /\ Booted[p] # <<>>
  /\ Len(Booted[p]) = IF p < SmallestMask THEN p + 1 ELSE p
  /\ \A k \in DOMAIN Booted[p] : Booted[p][k] \in BootSet(p)
  /\ Sorted(Booted[p])
  /\ \A r : Count(Booted[p], r) = IF r \in BootSet(p) THEN 1 ELSE 0

LEMMA BootedFirst == BootedTable(0)
<1>1. SmallestMask \in Ifc /\ NumIfc \in Nat
  BY SmallestMaskExists, RoutingAssumption
<1>2. PICK b \in Route : b = Boot(SmallestMask)
  BY <1>1, BootFields
<1>3. Booted[0] = <<b>>
  <2>1. 0 \in 0..NumIfc
    BY <1>1
  <2>2. Booted[0] = BootStep(Booted, 0)
    BY <2>1, BootedIs
  <2>. QED BY <1>2, <2>2, Zenon DEF BootStep, Boot
<1>4. PICK l : l = <<b>>
  OBVIOUS
<1>5. l \in Seq(Route) /\ l # <<>> /\ Len(l) = 1 /\ DOMAIN l = {1} /\ l[1] = b
  BY <1>4
<1>6. BootSet(0) = {b}
  <2>1. Entered(0) = {SmallestMask}
    BY <1>1 DEF Entered, Ifc
  <2>. QED BY <1>2, <2>1 DEF BootSet
<1>7. ASSUME NEW n \in Ip, n # l[1].target
      PROVE  InOrder(l, n)
  BY <1>5, <1>7 DEF InOrder, RoutesTo
<1>8. ASSUME NEW r
      PROVE  Count(l, r) = IF r = b THEN 1 ELSE 0
  <2>1. CASE r = b
    <3>1. {k \in DOMAIN l : l[k] = r} = {1}
      BY <1>5, <2>1
    <3>. QED BY <2>1, <3>1, FS_Singleton, Zenon DEF Count
  <2>2. CASE r # b
    <3>1. {k \in DOMAIN l : l[k] = r} = {}
      BY <1>5, <2>2
    <3>. QED BY <2>2, <3>1, FS_EmptySet, Zenon DEF Count
  <2>. QED BY <2>1, <2>2
<1>9. 0 < SmallestMask /\ 0 + 1 = 1
  BY <1>1 DEF Ifc
<1>10. Booted[0] = l
  BY <1>3, <1>4
<1>. QED BY <1>5, <1>6, <1>7, <1>8, <1>9, <1>10, Zenon DEF BootedTable, Sorted

LEMMA BootedNext ==
  ASSUME NEW p \in Ifc, BootedTable(p - 1)
  PROVE  BootedTable(p)
<1>1. /\ SmallestMask \in Nat /\ NumIfc \in Nat /\ p \in Nat /\ p - 1 \in Nat
      /\ p \in 0..NumIfc /\ p # 0
  BY SmallestMaskExists, RoutingAssumption DEF Ifc
<1>2. Booted[p] = IF p = SmallestMask THEN Booted[p - 1] ELSE AddEntry(Booted[p - 1], ConnectedRoute(p))
  BY <1>1, BootedIs, Zenon DEF BootStep
<1>3. PICK l \in Seq(Route) : l = Booted[p - 1]
  BY DEF BootedTable
<1>4. /\ l # <<>>
      /\ Len(l) = IF p - 1 < SmallestMask THEN (p - 1) + 1 ELSE p - 1
      /\ \A k \in DOMAIN l : l[k] \in BootSet(p - 1)
      /\ Sorted(l)
      /\ \A r : Count(l, r) = IF r \in BootSet(p - 1) THEN 1 ELSE 0
  BY <1>3, Zenon DEF BootedTable
<1>5. CASE p = SmallestMask
  <2>1. Entered(p) = Entered(p - 1)
    BY <1>1, <1>5 DEF Entered, Ifc
  <2>2. BootSet(p) = BootSet(p - 1)
    BY <2>1 DEF BootSet
  <2>3. Len(l) = IF p < SmallestMask THEN p + 1 ELSE p
    BY <1>1, <1>4, <1>5
  <2>4. Booted[p] = l
    BY <1>2, <1>3, <1>5
  <2>. QED BY <1>4, <2>2, <2>3, <2>4, Zenon DEF BootedTable
<1>6. CASE p # SmallestMask
  <2>. DEFINE c == ConnectedRoute(p)
  <2>1. c \in Route /\ Boot(p) = CreateEntry(c) /\ Boot(p) \in Route
    BY BootFields DEF Boot
  <2>2. Entered(p) = Entered(p - 1) \union {p} /\ p \notin Entered(p - 1)
    BY <1>1, <1>6 DEF Entered, Ifc
  <2>3. BootSet(p) = BootSet(p - 1) \union {Boot(p)}
    BY <2>2 DEF BootSet
  <2>4. Boot(p) \notin BootSet(p - 1)
    <3>1. \A q \in Ifc : Boot(q).ifc = q
      BY BootFields
    <3>. QED BY <2>2, <3>1 DEF BootSet, Entered
  <2>. HIDE DEF c
  <2>5. PICK t \in Seq(Route) : Added(t, l, c) /\ t # <<>> /\ t[1] = l[1]
    BY <1>4, <2>1, AddedEntry
  <2>6. Booted[p] = t
    BY <1>2, <1>3, <1>6, <2>5, Zenon DEF Added, c
  <2>7. Len(l) \in Nat /\ DOMAIN l = 1..Len(l) /\ DOMAIN t = 1..Len(t)
    BY LenProperties
  <2>8. Len(t) = IF p < SmallestMask THEN p + 1 ELSE p
    BY <1>1, <1>4, <1>6, <2>5 DEF Added, IsInserted
  <2>9. ASSUME NEW k \in DOMAIN t
        PROVE  t[k] \in BootSet(p)
    <3>. DEFINE i == Predecessor(l, c) + 1
    <3>1. i \in 1..(Len(l) + 1)
      <4>1. Predecessor(l, c) \in 1..Len(l)
        BY <1>4, <2>1, PredecessorInList, Zenon
      <4>. QED BY <2>7, <4>1
    <3>. HIDE DEF i
    <3>2. Len(t) = Len(l) + 1 /\ t[k] = IF k < i THEN l[k] ELSE IF k = i THEN CreateEntry(c) ELSE l[k - 1]
      BY <2>5, <2>7 DEF Added, IsInserted, i
    <3>3. t[k] = Boot(p) \/ \E j \in DOMAIN l : t[k] = l[j]
      BY <2>1, <2>7, <3>1, <3>2
    <3>. QED BY <1>4, <2>3, <3>3
  <2>10. Sorted(t)
    BY <1>4, <2>1, <2>5, AddKeepsOrder DEF Sorted
  <2>11. ASSUME NEW r
         PROVE  Count(t, r) = IF r \in BootSet(p) THEN 1 ELSE 0
    <3>1. Count(t, r) = IF r = Boot(p) THEN Count(l, r) + 1 ELSE Count(l, r)
      BY <1>4, <2>1, <2>5, AddCounts DEF Added
    <3>2. Count(l, r) = IF r \in BootSet(p - 1) THEN 1 ELSE 0
      BY <1>4
    <3>. QED BY <2>3, <2>4, <3>1, <3>2
  <2>. QED BY <2>5, <2>6, <2>8, <2>9, <2>10, <2>11, Zenon DEF BootedTable
<1>. QED BY <1>5, <1>6

LEMMA BootedTables ==
  ASSUME NEW p \in 0..NumIfc
  PROVE  BootedTable(p)
<1>. DEFINE S == {n \in 0..NumIfc : ~ BootedTable(n)}
<1>1. NumIfc \in Nat
  BY RoutingAssumption
<1>2. ASSUME S # {}
      PROVE  FALSE
  <2>1. PICK n \in S : \A j \in S : n <= j
    <3>1. S \in SUBSET Nat
      BY <1>1
    <3>. HIDE DEF S
    <3>. QED BY <1>2, <3>1, LeastNumber
  <2>2. n # 0
    BY BootedFirst
  <2>3. n \in Ifc /\ n - 1 \in 0..NumIfc /\ ~ (n <= n - 1)
    BY <1>1, <2>2 DEF Ifc
  <2>4. BootedTable(n - 1)
    BY <2>1, <2>3
  <2>5. BootedTable(n)
    <3>. HIDE DEF S
    <3>. QED BY <2>3, <2>4, BootedNext
  <2>. QED BY <2>5
<1>. QED BY <1>2

\* The table that init_router sets up: the network of each interface is in it
\* once, and nothing else.
LEMMA BootTable ==
  /\ BootRoutes \in Seq(Route)
  /\ BootRoutes # <<>>
  /\ Len(BootRoutes) = NumIfc
  /\ \A k \in DOMAIN BootRoutes : BootRoutes[k] \in {Boot(q) : q \in Ifc}
  /\ Sorted(BootRoutes)
  /\ \A r : Count(BootRoutes, r) = IF r \in {Boot(q) : q \in Ifc} THEN 1 ELSE 0
<1>1. NumIfc \in Nat /\ SmallestMask \in Ifc /\ NumIfc \in 0..NumIfc
  BY RoutingAssumption, SmallestMaskExists
<1>2. ~ (NumIfc < SmallestMask) /\ Entered(NumIfc) = Ifc
  BY <1>1 DEF Ifc, Entered
<1>3. BootSet(NumIfc) = {Boot(q) : q \in Ifc}
  BY <1>2 DEF BootSet
<1>4. BootedTable(NumIfc)
  BY <1>1, BootedTables
<1>. QED BY <1>2, <1>3, <1>4, Zenon DEF BootedTable, BootRoutes
=============================================================================
