----------------------------- MODULE SharedLemmas -----------------------------
(***************************************************************************)
(* Facts that the proofs of several components need: sets of numbers have  *)
(* least and greatest elements, what the elements of joined sequences are, *)
(* and what the sizes of frames can be.                                    *)
(***************************************************************************)
EXTENDS FrameSizes, SequencesExt, WellFoundedInduction, SequenceTheorems, TLAPS

\* A set of numbers that is not empty has a least element.
LEMMA LeastNumber ==
  ASSUME NEW S \in SUBSET Nat, S # {}
  PROVE  \E k \in S : \A j \in S : k <= j
<1>1. PICK k \in S : \A j \in S : ~ (<<j, k>> \in OpToRel(<, Nat))
  BY NatLessThanWellFounded, WFMin, Zenon
<1>2. \A i, j \in Nat : i < j => <<i, j>> \in OpToRel(<, Nat)
  BY Zenon DEF OpToRel
<1>3. \A j \in S : ~ (j < k)
  BY <1>1, <1>2, Zenon
<1>. QED BY <1>3

\* And one with an upper bound has a greatest.
LEMMA GreatestNumber ==
  ASSUME NEW S \in SUBSET Nat, S # {}, NEW b \in Nat, \A k \in S : k <= b
  PROVE  \E k \in S : \A j \in S : j <= k
<1>. DEFINE T == {n \in Nat : \E k \in S : n = b - k}
<1>1. T \in SUBSET Nat /\ T # {}
  <2>1. PICK k \in S : TRUE
    OBVIOUS
  <2>2. b - k \in T
    BY <2>1
  <2>. QED BY <2>2
<1>2. PICK n \in T : \A m \in T : n <= m
  <2>. HIDE DEF T
  <2>. QED BY <1>1, LeastNumber
<1>3. PICK k \in S : n = b - k
  BY <1>2
<1>4. ASSUME NEW j \in S PROVE j <= k
  <2>1. b - j \in T
    OBVIOUS
  <2>. QED BY <1>2, <1>3, <2>1
<1>. QED BY <1>4
-----------------------------------------------------------------------------
(* Sequences                                                               *)

\* Two sequences, one after the other.
IsJoined(u, s, t) ==
  /\ u = s \o t
  /\ Len(u) = Len(s) + Len(t)
  /\ \A k \in 1..Len(s) : u[k] = s[k]
  /\ \A k \in 1..Len(t) : u[Len(s) + k] = t[k]

LEMMA Joined ==
  ASSUME NEW S, NEW s \in Seq(S), NEW t \in Seq(S)
  PROVE  \E u \in Seq(S) : IsJoined(u, s, t)
<1>1. Len(s) \in Nat /\ Len(t) \in Nat
  BY LenProperties
<1>2. PICK u : u = s \o t
  OBVIOUS
<1>3. /\ u \in Seq(S)
      /\ Len(u) = Len(s) + Len(t)
      /\ \A i \in 1..(Len(s) + Len(t)) : u[i] = IF i <= Len(s) THEN s[i] ELSE t[i - Len(s)]
  BY <1>2, ConcatProperties, Zenon
<1>4. \A k \in 1..Len(s) : u[k] = s[k]
  BY <1>1, <1>3
<1>5. \A k \in 1..Len(t) : u[Len(s) + k] = t[k]
  BY <1>1, <1>3
<1>. QED BY <1>2, <1>3, <1>4, <1>5 DEF IsJoined

\* Three sequences can be joined in either order.
Regroups(a, b, c) == (a \o b) \o c = a \o (b \o c)

LEMMA Regrouped ==
  ASSUME NEW S
  PROVE  \A a, b, c \in Seq(S) : Regroups(a, b, c)
<1>. QED BY ConcatAssociative DEF Regroups

LEMMA OneElement ==
  ASSUME NEW S, NEW e \in S
  PROVE  \E s \in Seq(S) : s = <<e>> /\ Len(s) = 1 /\ s[1] = e
<1>1. <<e>> \in Seq(S)
  OBVIOUS
<1>2. Len(<<e>>) = 1 /\ <<e>>[1] = e
  OBVIOUS
<1>. QED BY <1>1, <1>2, Zenon
-----------------------------------------------------------------------------
(* The elements of a sequence of sequences, joined (FlattenSeq)            *)

JoinStep(g, q, i) == IF i = 1 THEN q[i] ELSE g[i - 1] \o q[i]

\* The recursive function exists: there is no least length up to which it does not.
LEMMA JoinsExist ==
  ASSUME NEW q, NEW len \in Nat
  PROVE  \E g : g = [i \in 1..len |-> JoinStep(g, q, i)]
<1>. DEFINE S == {n \in 0..len : ~ \E g : g = [i \in 1..n |-> JoinStep(g, q, i)]}
<1>1. ASSUME S # {}
      PROVE  FALSE
  <2>1. PICK n \in S : \A j \in S : n <= j
    <3>1. S \in SUBSET Nat
      OBVIOUS
    <3>. HIDE DEF S
    <3>. QED BY <1>1, <3>1, LeastNumber
  <2>2. n \in 0..len /\ ~ \E g : g = [i \in 1..n |-> JoinStep(g, q, i)]
    OBVIOUS
  <2>3. CASE n = 0
    <3>. DEFINE h == [i \in 1..n |-> q[i]]
    <3>1. \A i : i \notin 1..n
      BY <2>3
    <3>2. h = [i \in 1..n |-> JoinStep(h, q, i)]
      BY <3>1, Zenon
    <3>. HIDE DEF h
    <3>. QED BY <2>2, <3>2
  <2>4. CASE n # 0
    <3>1. n - 1 \in 0..len /\ ~ (n <= n - 1)
      BY <2>2, <2>4
    <3>2. PICK g : g = [i \in 1..(n - 1) |-> JoinStep(g, q, i)]
      BY <2>1, <3>1
    <3>. DEFINE h == [i \in 1..n |-> IF i = n THEN JoinStep(g, q, n) ELSE g[i]]
    <3>3. \A i \in 1..n : i # n => i \in 1..(n - 1)
      BY <2>2
    <3>4. \A i \in 1..n : i # 1 => i - 1 \in 1..n /\ i - 1 # n
      BY <2>2
    <3>5. ASSUME NEW i \in 1..n
          PROVE  JoinStep(h, q, i) = JoinStep(g, q, i)
      <4>1. i # 1 => h[i - 1] = g[i - 1]
        BY <3>4
      <4>. HIDE DEF h
      <4>. QED BY <4>1, Zenon DEF JoinStep
    <3>6. \A i \in 1..n : h[i] = JoinStep(h, q, i)
      <4>1. \A i \in 1..(n - 1) : g[i] = JoinStep(g, q, i)
        <5>. HIDE DEF h, S
        <5>. QED BY <3>2, Zenon
      <4>2. \A i \in 1..n : h[i] = JoinStep(g, q, i)
        BY <3>3, <4>1, Zenon
      <4>. HIDE DEF h, S
      <4>. QED BY <3>5, <4>2, Zenon
    <3>7. h = [i \in 1..n |-> JoinStep(h, q, i)]
      <4>1. h = [i \in 1..n |-> h[i]]
        OBVIOUS
      <4>. HIDE DEF h, S
      <4>. QED BY <3>6, <4>1, Zenon
    <3>. HIDE DEF h, S
    <3>. QED BY <2>2, <3>7
  <2>. QED BY <2>3, <2>4
<1>2. len \in 0..len
  OBVIOUS
<1>. QED BY <1>1, <1>2

\* the first i elements of q, joined
Joins(q) == CHOOSE g : g = [i \in 1..Len(q) |-> JoinStep(g, q, i)]

LEMMA FlattenIs ==
  ASSUME NEW q, Len(q) \in Nat
  PROVE  /\ Len(q) = 0 => FlattenSeq(q) = q
         /\ Len(q) # 0 => FlattenSeq(q) = Joins(q)[Len(q)]
         /\ \A i \in 1..Len(q) : Joins(q)[i] = JoinStep(Joins(q), q, i)
<1>1. Len(q) = 0 => FlattenSeq(q) = q
  BY Zenon DEF FlattenSeq
<1>2. Len(q) # 0 => FlattenSeq(q) = Joins(q)[Len(q)]
  BY Zenon DEF FlattenSeq, Joins, JoinStep
<1>3. Joins(q) = [i \in 1..Len(q) |-> JoinStep(Joins(q), q, i)]
  BY JoinsExist, Zenon DEF Joins
<1>. QED BY <1>1, <1>2, <1>3, Zenon

\* the first i elements of q, joined
JoinsTo(q, i) == IF i = 0 THEN <<>> ELSE Joins(q)[i]

LEMMA JoinsToIs ==
  ASSUME NEW S, NEW q \in Seq(Seq(S))
  PROVE  /\ JoinsTo(q, 0) = <<>>
         /\ \A i \in 1..Len(q) : JoinsTo(q, i) = JoinsTo(q, i - 1) \o q[i]
         /\ \A i \in 0..Len(q) : JoinsTo(q, i) \in Seq(S)
         /\ FlattenSeq(q) = JoinsTo(q, Len(q))
<1>1. Len(q) \in Nat /\ \A i \in 1..Len(q) : q[i] \in Seq(S)
  BY LenProperties, ElementOfSeq
<1>2. JoinsTo(q, 0) = <<>>
  BY DEF JoinsTo
<1>3. ASSUME NEW i \in 1..Len(q)
      PROVE  JoinsTo(q, i) = JoinsTo(q, i - 1) \o q[i]
  <2>1. Joins(q)[i] = JoinStep(Joins(q), q, i) /\ i # 0
    BY <1>1, FlattenIs
  <2>2. CASE i = 1
    <3>1. i - 1 = 0
      BY <2>2
    <3>2. <<>> \o q[i] = q[i]
      BY <1>1, ConcatEmptySeq
    <3>. QED BY <1>2, <2>1, <2>2, <3>1, <3>2 DEF JoinStep, JoinsTo
  <2>3. CASE i # 1
    <3>1. i - 1 # 0
      BY <2>3
    <3>. QED BY <2>1, <2>3, <3>1, Zenon DEF JoinStep, JoinsTo
  <2>. QED BY <2>2, <2>3
<1>4. \A i \in 0..Len(q) : JoinsTo(q, i) \in Seq(S)
  <2>. DEFINE bad == {i \in 0..Len(q) : JoinsTo(q, i) \notin Seq(S)}
  <2>1. ASSUME bad # {}
        PROVE  FALSE
    <3>1. PICK i \in bad : \A j \in bad : i <= j
      <4>1. bad \in SUBSET Nat
        OBVIOUS
      <4>. HIDE DEF bad
      <4>. QED BY <2>1, <4>1, LeastNumber
    <3>2. i \in 0..Len(q) /\ JoinsTo(q, i) \notin Seq(S)
      OBVIOUS
    <3>3. CASE i = 0
      BY <1>2, <3>2, <3>3, EmptySeq
    <3>4. CASE i # 0
      <4>1. i - 1 \in 0..Len(q) /\ i \in 1..Len(q) /\ ~ (i <= i - 1)
        BY <1>1, <3>2, <3>4
      <4>2. JoinsTo(q, i - 1) \in Seq(S)
        BY <3>1, <4>1
      <4>3. JoinsTo(q, i - 1) \o q[i] \in Seq(S)
        BY <1>1, <4>1, <4>2, ConcatProperties
      <4>. QED BY <1>3, <3>2, <4>1, <4>3
    <3>. QED BY <3>3, <3>4
  <2>. QED BY <2>1
<1>5. FlattenSeq(q) = JoinsTo(q, Len(q))
  <2>1. CASE Len(q) = 0
    <3>1. FlattenSeq(q) = q /\ q = <<>>
      BY <1>1, <2>1, FlattenIs, EmptySeq
    <3>. QED BY <1>2, <2>1, <3>1
  <2>2. CASE Len(q) # 0
    BY <1>1, <2>2, FlattenIs DEF JoinsTo
  <2>. QED BY <2>1, <2>2
<1>. QED BY <1>2, <1>3, <1>4, <1>5

LEMMA FlattenJoined ==
  ASSUME NEW S, NEW q \in Seq(Seq(S)), NEW r \in Seq(Seq(S))
  PROVE  FlattenSeq(q \o r) = FlattenSeq(q) \o FlattenSeq(r)
<1>1. Len(q) \in Nat /\ Len(r) \in Nat
  BY LenProperties
<1>2. PICK w \in Seq(Seq(S)) : IsJoined(w, q, r)
  BY Joined
<1>3. /\ w = q \o r /\ Len(w) = Len(q) + Len(r)
      /\ \A k \in 1..Len(q) : w[k] = q[k]
      /\ \A k \in 1..Len(r) : w[Len(q) + k] = r[k]
  BY <1>2 DEF IsJoined
<1>4. \A i \in 0..Len(q) : JoinsTo(w, i) = JoinsTo(q, i)
  <2>. DEFINE bad == {i \in 0..Len(q) : JoinsTo(w, i) # JoinsTo(q, i)}
  <2>1. ASSUME bad # {}
        PROVE  FALSE
    <3>1. PICK i \in bad : \A j \in bad : i <= j
      <4>1. bad \in SUBSET Nat
        OBVIOUS
      <4>. HIDE DEF bad
      <4>. QED BY <2>1, <4>1, LeastNumber
    <3>2. i \in 0..Len(q) /\ JoinsTo(w, i) # JoinsTo(q, i)
      OBVIOUS
    <3>3. CASE i = 0
      BY <3>2, <3>3, JoinsToIs
    <3>4. CASE i # 0
      <4>1. /\ i - 1 \in 0..Len(q) /\ i \in 1..Len(q) /\ i \in 1..Len(w) /\ ~ (i <= i - 1)
        BY <1>1, <1>3, <3>2, <3>4
      <4>2. JoinsTo(w, i - 1) = JoinsTo(q, i - 1)
        BY <3>1, <4>1
      <4>3. JoinsTo(w, i) = JoinsTo(w, i - 1) \o w[i]
        BY <4>1, JoinsToIs
      <4>4. JoinsTo(q, i) = JoinsTo(q, i - 1) \o q[i]
        BY <4>1, JoinsToIs
      <4>. QED BY <1>3, <3>2, <4>1, <4>2, <4>3, <4>4
    <3>. QED BY <3>3, <3>4
  <2>. QED BY <2>1
<1>5. PICK f \in Seq(S) : f = FlattenSeq(q)
  <2>1. Len(q) \in 0..Len(q)
    BY <1>1
  <2>. QED BY <2>1, JoinsToIs
<1>6. \A j \in 0..Len(r) : JoinsTo(w, Len(q) + j) = f \o JoinsTo(r, j)
  <2>. DEFINE bad == {j \in 0..Len(r) : JoinsTo(w, Len(q) + j) # f \o JoinsTo(r, j)}
  <2>1. ASSUME bad # {}
        PROVE  FALSE
    <3>1. PICK j \in bad : \A k \in bad : j <= k
      <4>1. bad \in SUBSET Nat
        OBVIOUS
      <4>. HIDE DEF bad
      <4>. QED BY <2>1, <4>1, LeastNumber
    <3>2. j \in 0..Len(r) /\ JoinsTo(w, Len(q) + j) # f \o JoinsTo(r, j)
      OBVIOUS
    <3>3. CASE j = 0
      <4>1. Len(q) + j = Len(q) /\ Len(q) \in 0..Len(q)
        BY <1>1, <3>3
      <4>2. JoinsTo(w, Len(q)) = f
        BY <1>4, <1>5, <4>1, JoinsToIs
      <4>3. f \o JoinsTo(r, j) = f
        BY <3>3, JoinsToIs, ConcatEmptySeq
      <4>. QED BY <3>2, <4>1, <4>2, <4>3
    <3>4. CASE j # 0
      <4>1. /\ j - 1 \in 0..Len(r) /\ j \in 1..Len(r) /\ ~ (j <= j - 1)
            /\ Len(q) + j \in 1..Len(w) /\ (Len(q) + j) - 1 = Len(q) + (j - 1)
        BY <1>1, <1>3, <3>2, <3>4
      <4>2. JoinsTo(w, Len(q) + (j - 1)) = f \o JoinsTo(r, j - 1)
        BY <3>1, <4>1
      <4>3. JoinsTo(w, Len(q) + j) = JoinsTo(w, (Len(q) + j) - 1) \o w[Len(q) + j]
        BY <4>1, JoinsToIs
      <4>4. JoinsTo(r, j) = JoinsTo(r, j - 1) \o r[j] /\ JoinsTo(r, j - 1) \in Seq(S)
        BY <4>1, JoinsToIs
      <4>5. r[j] \in Seq(S)
        BY <4>1, ElementOfSeq
      <4>6. Regroups(f, JoinsTo(r, j - 1), r[j])
        BY <1>5, <4>4, <4>5, Regrouped
      <4>7. w[Len(q) + j] = r[j]
        BY <1>3, <4>1
      <4>8. JoinsTo(w, Len(q) + j) = f \o JoinsTo(r, j)
        BY <4>1, <4>2, <4>3, <4>4, <4>6, <4>7, Zenon DEF Regroups
      <4>. QED BY <3>2, <4>8
    <3>. QED BY <3>3, <3>4
  <2>. QED BY <2>1
<1>7. JoinsTo(w, Len(w)) = f \o JoinsTo(r, Len(r))
  <2>1. Len(r) \in 0..Len(r)
    BY <1>1
  <2>. QED BY <1>3, <1>6, <2>1
<1>. QED BY <1>3, <1>5, <1>7, JoinsToIs

\* what f maps the elements of s to, joined
Each(f, s) == [i \in 1..Len(s) |-> f[s[i]]]
Mapped(f, s) == FlattenSeq(Each(f, s))

IsEach(e, f, s) ==
  /\ e = Each(f, s)
  /\ Len(e) = Len(s)
  /\ \A i \in 1..Len(s) : e[i] = f[s[i]]

LEMMA EachIs ==
  ASSUME NEW D, NEW S, NEW f \in [D -> Seq(S)], NEW s \in Seq(D)
  PROVE  \E e \in Seq(Seq(S)) : IsEach(e, f, s)
<1>1. Len(s) \in Nat /\ \A i \in 1..Len(s) : f[s[i]] \in Seq(S)
  BY LenProperties, ElementOfSeq
<1>2. PICK n \in Nat : n = Len(s)
  BY <1>1
<1>3. PICK e : e = [i \in 1..n |-> f[s[i]]]
  OBVIOUS
<1>4. e \in [1..n -> Seq(S)]
  BY <1>1, <1>2, <1>3, Zenon
<1>5. e \in Seq(Seq(S)) /\ Len(e) = n
  BY <1>4
<1>6. e = Each(f, s) /\ \A i \in 1..n : e[i] = f[s[i]]
  BY <1>2, <1>3, Zenon DEF Each
<1>. QED BY <1>2, <1>5, <1>6 DEF IsEach

LEMMA MappedIs ==
  ASSUME NEW D, NEW S, NEW f \in [D -> Seq(S)], NEW s \in Seq(D)
  PROVE  Mapped(f, s) \in Seq(S)
<1>1. PICK e \in Seq(Seq(S)) : IsEach(e, f, s)
  BY EachIs
<1>2. Len(e) \in 0..Len(e)
  BY LenProperties
<1>3. JoinsTo(e, Len(e)) \in Seq(S) /\ FlattenSeq(e) = JoinsTo(e, Len(e))
  BY <1>2, JoinsToIs
<1>4. Mapped(f, s) = FlattenSeq(e)
  BY <1>1, Zenon DEF Mapped, IsEach
<1>. QED BY <1>3, <1>4

LEMMA MappedJoined ==
  ASSUME NEW D, NEW S, NEW f \in [D -> Seq(S)], NEW s \in Seq(D), NEW t \in Seq(D)
  PROVE  Mapped(f, s \o t) = Mapped(f, s) \o Mapped(f, t)
<1>1. PICK u \in Seq(D) : IsJoined(u, s, t)
  BY Joined
<1>2. Len(s) \in Nat /\ Len(t) \in Nat
  BY LenProperties
<1>3. PICK a \in Seq(Seq(S)) : IsEach(a, f, s)
  BY EachIs
<1>4. PICK b \in Seq(Seq(S)) : IsEach(b, f, t)
  BY EachIs
<1>5. PICK c \in Seq(Seq(S)) : IsEach(c, f, u)
  BY EachIs
<1>6. PICK d \in Seq(Seq(S)) : IsJoined(d, a, b)
  BY Joined
<1>7. Len(c) = Len(d) /\ Len(c) = Len(s) + Len(t)
  BY <1>1, <1>3, <1>4, <1>5, <1>6 DEF IsJoined, IsEach
<1>8. ASSUME NEW i \in 1..Len(c)
      PROVE  c[i] = d[i]
  <2>1. CASE i <= Len(s)
    <3>1. i \in 1..Len(s) /\ i \in 1..Len(u) /\ i \in 1..Len(a)
      BY <1>2, <1>3, <1>5, <2>1 DEF IsEach
    <3>2. u[i] = s[i] /\ d[i] = a[i]
      BY <1>1, <1>6, <3>1 DEF IsJoined
    <3>. QED BY <1>3, <1>5, <3>1, <3>2 DEF IsEach
  <2>2. CASE i > Len(s)
    <3>1. PICK k \in 1..Len(t) : i = Len(s) + k
      <4>1. i - Len(s) \in 1..Len(t) /\ i = Len(s) + (i - Len(s))
        BY <1>2, <1>7, <2>2
      <4>. QED BY <4>1
    <3>2. u[i] = t[k] /\ d[i] = b[k]
      BY <1>1, <1>3, <1>4, <1>6, <3>1 DEF IsJoined, IsEach
    <3>. QED BY <1>4, <1>5, <3>1, <3>2 DEF IsEach
  <2>. QED BY <1>2, <1>7, <2>1, <2>2
<1>9. c = d
  BY <1>7, <1>8, SeqEqual
<1>10. FlattenSeq(a \o b) = FlattenSeq(a) \o FlattenSeq(b)
  BY FlattenJoined
<1>11. u = s \o t /\ d = a \o b
  BY <1>1, <1>6 DEF IsJoined
<1>. QED BY <1>3, <1>4, <1>5, <1>9, <1>10, <1>11, Zenon DEF Mapped, IsEach

\* When all but the last element are mapped to nothing, the last one is all there is.
OnlyLast(f, s) == Len(s) # 0 /\ \A i \in 1..(Len(s) - 1) : f[s[i]] = <<>>

LEMMA MappedLast ==
  ASSUME NEW D, NEW S, NEW f \in [D -> Seq(S)], NEW s \in Seq(D), OnlyLast(f, s)
  PROVE  Mapped(f, s) = f[s[Len(s)]]
<1>. USE DEF OnlyLast
<1>1. PICK e \in Seq(Seq(S)) : IsEach(e, f, s)
  BY EachIs
<1>2. Len(s) \in Nat
  BY LenProperties
<1>3. \A i \in 0..(Len(s) - 1) : JoinsTo(e, i) = <<>>
  <2>. DEFINE bad == {i \in 0..(Len(s) - 1) : JoinsTo(e, i) # <<>>}
  <2>1. ASSUME bad # {}
        PROVE  FALSE
    <3>1. PICK i \in bad : \A j \in bad : i <= j
      <4>1. bad \in SUBSET Nat
        BY <1>2
      <4>. HIDE DEF bad
      <4>. QED BY <2>1, <4>1, LeastNumber
    <3>2. i \in 0..(Len(s) - 1) /\ JoinsTo(e, i) # <<>>
      OBVIOUS
    <3>3. CASE i = 0
      BY <3>2, <3>3, JoinsToIs
    <3>4. CASE i # 0
      <4>1. /\ i - 1 \in 0..(Len(s) - 1) /\ i \in 1..(Len(s) - 1) /\ i \in 1..Len(s)
            /\ ~ (i <= i - 1)
        BY <1>2, <3>2, <3>4
      <4>2. JoinsTo(e, i - 1) = <<>>
        BY <3>1, <4>1
      <4>3. JoinsTo(e, i) = JoinsTo(e, i - 1) \o e[i]
        BY <1>1, <4>1, JoinsToIs DEF IsEach
      <4>4. e[i] = <<>>
        BY <1>1, <4>1 DEF IsEach
      <4>5. <<>> \o <<>> = <<>>
        OBVIOUS
      <4>. QED BY <3>2, <4>2, <4>3, <4>4, <4>5
    <3>. QED BY <3>3, <3>4
  <2>. QED BY <2>1
<1>4. Len(s) - 1 \in 0..(Len(s) - 1) /\ Len(s) \in 1..Len(s)
  BY <1>2
<1>5. JoinsTo(e, Len(s)) = <<>> \o e[Len(s)]
  BY <1>1, <1>3, <1>4, JoinsToIs DEF IsEach
<1>6. e[Len(s)] = f[s[Len(s)]] /\ f[s[Len(s)]] \in Seq(S)
  <2>1. s[Len(s)] \in D
    BY <1>4, ElementOfSeq
  <2>. QED BY <1>1, <1>4, <2>1 DEF IsEach
<1>7. <<>> \o f[s[Len(s)]] = f[s[Len(s)]]
  BY <1>6, ConcatEmptySeq
<1>8. FlattenSeq(e) = JoinsTo(e, Len(e))
  BY JoinsToIs
<1>. QED BY <1>1, <1>5, <1>6, <1>7, <1>8, Zenon DEF Mapped, IsEach

LEMMA MappedNone ==
  ASSUME NEW D, NEW S, NEW f \in [D -> Seq(S)], NEW s \in Seq(D),
         \A i \in 1..Len(s) : f[s[i]] = <<>>
  PROVE  Mapped(f, s) = <<>>
<1>1. Len(s) \in Nat
  BY LenProperties
<1>2. CASE Len(s) # 0
  <2>1. Len(s) \in 1..Len(s) /\ \A i \in 1..(Len(s) - 1) : i \in 1..Len(s)
    BY <1>1, <1>2
  <2>2. OnlyLast(f, s)
    BY <1>2, <2>1 DEF OnlyLast
  <2>3. Mapped(f, s) = f[s[Len(s)]]
    BY <2>2, MappedLast
  <2>. QED BY <2>1, <2>3
<1>3. CASE Len(s) = 0
  <2>1. PICK e \in Seq(Seq(S)) : IsEach(e, f, s)
    BY EachIs
  <2>2. FlattenSeq(e) = JoinsTo(e, Len(e)) /\ JoinsTo(e, 0) = <<>>
    BY JoinsToIs
  <2>. QED BY <1>3, <2>1, <2>2, Zenon DEF Mapped, IsEach
<1>. QED BY <1>2, <1>3
-----------------------------------------------------------------------------
(* Sizes of frames                                                         *)

LEMMA Powers == 2^8 = 256 /\ 2^13 = 8192 /\ 2^15 = 32768 /\ 2^16 = 65536
<1>. QED BY SMT

\* An MTU as the router keeps it is less than 14, when it has wrapped, or 414 and
\* more.
LEMMA MtuRange ==
  ASSUME NEW t \in AcceptedMtu
  PROVE  /\ IfcMtu(t) \in Int
         /\ 0 <= IfcMtu(t) /\ IfcMtu(t) <= 65535
         /\ IfcMtu(t) < 14 \/ IfcMtu(t) >= 414
<1>1. SmallestMtu = 400 /\ LargestMtu = 65535
  BY SMT DEF SmallestMtu, LargestMtu
<1>2. \A a, m \in Int : \A n : n \in a..m => n \in Int /\ a <= n /\ n <= m
  BY SMT
<1>3. t = 0 \/ (t \in Int /\ SmallestMtu <= t /\ t <= LargestMtu)
  BY <1>2, SMT DEF AcceptedMtu, Unspecified, SmallestMtu, LargestMtu
<1>4. CASE t = 0
  BY <1>4, SMT DEF IfcMtu, Unspecified, EthernetSize
<1>5. CASE t \in Int /\ 400 <= t /\ t <= 65521
  <2>1. (t + 14) % 65536 = t + 14
    BY <1>5, SMT
  <2>2. IfcMtu(t) = t + 14
    BY <1>5, <2>1, Powers, SMT DEF IfcMtu, Unspecified, EthernetSize
  <2>. QED BY <1>5, <2>2, SMT
<1>6. CASE t \in Int /\ 65522 <= t /\ t <= 65535
  <2>1. (t + 14) % 65536 = t - 65522
    BY <1>6, SMT
  <2>2. IfcMtu(t) = t - 65522
    BY <1>6, <2>1, Powers, SMT DEF IfcMtu, Unspecified, EthernetSize
  <2>. QED BY <1>6, <2>2, SMT
<1>. QED BY <1>1, <1>3, <1>4, <1>5, <1>6, SMT

\* What is cut is larger than its fragments, and they are not empty.
LEMMA FragmentIsSmaller ==
  ASSUME NEW t \in AcceptedMtu, NEW n \in Int, Exceeds(IfcMtu(t), n)
  PROVE  /\ FragmentSize(IfcMtu(t)) \in Int
         /\ 1 <= FragmentSize(IfcMtu(t))
         /\ FragmentSize(IfcMtu(t)) < n
<1>1. /\ IfcMtu(t) \in Int
      /\ IfcMtu(t) < 14 \/ IfcMtu(t) >= 414
  BY MtuRange
<1>2. IfcMtu(t) - 34 \in 0..(n - 1)
  BY SMT DEF Exceeds, Headers, EthernetSize, Ipv4Size
<1>3. 0 <= IfcMtu(t) - 34 /\ IfcMtu(t) - 34 <= n - 1
  BY <1>1, <1>2, SMT
<1>4. FragmentSize(IfcMtu(t)) = IfcMtu(t) - 34
  BY SMT DEF FragmentSize, Headers, EthernetSize, Ipv4Size
<1>. QED BY <1>1, <1>3, <1>4, SMT
=============================================================================
