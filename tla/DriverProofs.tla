---------------------------- MODULE DriverProofs ----------------------------
(***************************************************************************)
(* Proofs about DriverChild, for every number of interfaces, all sizes of  *)
(* messages, buffers and pipes, and every program as the child.            *)
(***************************************************************************)
EXTENDS DriverChild, SharedLemmas, SequenceTheorems, TLAPS
-----------------------------------------------------------------------------
(* Messages and their units                                                *)

LEMMA Sizes ==
  /\ NumIfc \in Nat /\ NumIfc >= 1 /\ FrameLen \in Nat /\ FrameLen >= 1
  /\ LineLen \in Nat /\ LineLen >= 1 /\ TextLen \in Nat /\ TextLen >= 1
  /\ PipeCap \in Nat /\ PipeBuf \in Nat /\ PipeBuf >= 1 /\ PipeBuf <= PipeCap
  /\ BufCap \in Nat /\ FrameLen <= BufCap /\ LineLen <= BufCap /\ TextLen <= BufCap
  /\ LineLen <= PipeCap
<1>. QED BY PipesAssumption DEF Max3

LEMMA MessageFields ==
  ASSUME NEW m \in Message
  PROVE  /\ m.type \in 0..NumIfc
         /\ m.type = 0 => m \in {Macs, Line, Text}
         /\ m.type # 0 => m.type \in Ifc /\ m.tag \in Tag /\ m = Frame(m.type, m.tag)
<1>1. CASE m \in {Macs, Line, Text}
  BY <1>1, Sizes DEF Macs, Line, Text
<1>2. CASE \E p \in Ifc, t \in Tag : m = Frame(p, t)
  BY <1>2, Sizes DEF Frame, Ifc
<1>. QED BY <1>1, <1>2 DEF Message

LEMMA Lengths ==
  /\ \A m \in Message : Length(m) \in Nat /\ Length(m) >= 1 /\ Length(m) <= BufCap
  /\ Length(Macs) = LineLen /\ Length(Line) = LineLen /\ Length(Text) = TextLen
  /\ \A p \in Ifc, t \in Tag : Length(Frame(p, t)) = FrameLen
  /\ Macs \in Message /\ Line \in Message /\ Text \in Message
  /\ \A p \in Ifc, t \in Tag : Frame(p, t) \in Message
  /\ Macs.type = 0 /\ Line.type = 0 /\ Text.type = 0
  /\ Macs # Text /\ Line # Text /\ Macs # Line
<1>1. /\ Macs.type = 0 /\ Line.type = 0 /\ Text.type = 0
      /\ Macs # Text /\ Line # Text /\ Macs # Line
  <2>1. Macs.tag = "macs" /\ Line.tag = "line" /\ Text.tag = "text"
    BY DEF Macs, Line, Text
  <2>. QED BY <2>1 DEF Macs, Line, Text
<1>2. \A p \in Ifc, t \in Tag : Frame(p, t).type = p /\ p # 0
  BY DEF Frame, Ifc
<1>3. /\ Macs \in Message /\ Line \in Message /\ Text \in Message
      /\ \A p \in Ifc, t \in Tag : Frame(p, t) \in Message
  BY DEF Message
<1>4. /\ Length(Macs) = LineLen /\ Length(Line) = LineLen /\ Length(Text) = TextLen
      /\ \A p \in Ifc, t \in Tag : Length(Frame(p, t)) = FrameLen
  BY <1>1, <1>2, Zenon DEF Length
<1>5. ASSUME NEW m \in Message
      PROVE  Length(m) \in Nat /\ Length(m) >= 1 /\ Length(m) <= BufCap
  BY Sizes DEF Length
<1>. QED BY <1>1, <1>3, <1>4, <1>5

\* unit k of message m
Unit(m, k) == [msg |-> m, part |-> k]

LEMMA UnitFields ==
  /\ \A m, k : Unit(m, k).msg = m /\ Unit(m, k).part = k
  /\ \A m \in Message : \A k \in 1..Length(m) : Unit(m, k) \in UnitSet
  /\ \A u \in UnitSet : u.msg \in Message /\ u.part \in 1..Length(u.msg) /\ u = Unit(u.msg, u.part)
<1>1. \A m, k : Unit(m, k).msg = m /\ Unit(m, k).part = k
  BY DEF Unit
<1>2. \A u : u \in UnitSet <=> \E m \in Message : \E k \in 1..Length(m) : u = Unit(m, k)
  BY DEF UnitSet, Unit
<1>3. \A m \in Message : \A k \in 1..Length(m) : Unit(m, k) \in UnitSet
  BY <1>2, Zenon
<1>4. ASSUME NEW u \in UnitSet
      PROVE  u.msg \in Message /\ u.part \in 1..Length(u.msg) /\ u = Unit(u.msg, u.part)
  <2>1. PICK m \in Message : \E k \in 1..Length(m) : u = Unit(m, k)
    BY <1>2
  <2>2. PICK k \in 1..Length(m) : u = Unit(m, k)
    BY <2>1
  <2>3. u.msg = m /\ u.part = k
    BY <1>1, <2>2
  <2>. QED BY <2>2, <2>3
<1>. QED BY <1>1, <1>3, <1>4

LEMMA UnitsOfMessage ==
  ASSUME NEW m \in Message
  PROVE  /\ Units(m) \in Seq(UnitSet)
         /\ Len(Units(m)) = Length(m)
         /\ \A k \in 1..Length(m) : Units(m)[k] = Unit(m, k)
<1>1. PICK n \in Nat : n = Length(m)
  BY Lengths
<1>2. PICK u : u = [k \in 1..n |-> Unit(m, k)]
  OBVIOUS
<1>3. u = Units(m)
  BY <1>1, <1>2, Zenon DEF Units, Unit
<1>4. \A k \in 1..n : Unit(m, k) \in UnitSet
  BY <1>1, UnitFields
<1>5. u \in [1..n -> UnitSet] /\ \A k \in 1..n : u[k] = Unit(m, k)
  BY <1>2, <1>4, Zenon
<1>6. u \in Seq(UnitSet) /\ Len(u) = n
  BY <1>5
<1>. QED BY <1>1, <1>3, <1>5, <1>6
-----------------------------------------------------------------------------
(* Parts of sequences                                                      *)

LEMMA TakeIs ==
  ASSUME NEW S, NEW s \in Seq(S), NEW n \in 0..Len(s)
  PROVE  /\ Take(s, n) \in Seq(S)
         /\ Len(Take(s, n)) = n
         /\ \A k \in 1..n : Take(s, n)[k] = s[k]
<1>. DEFINE u == SubSeq(s, 1, n)
<1>1. Len(s) \in Nat /\ \A k \in 1..n : s[k] \in S
  BY LenProperties, ElementOfSeq
<1>2. /\ u \in Seq(S)
      /\ Len(u) = IF 1 <= n THEN n - 1 + 1 ELSE 0
      /\ \A k \in 1..(n - 1 + 1) : u[k] = s[1 + k - 1]
  BY <1>1, SubSeqProperties
<1>. HIDE DEF u
<1>3. Len(u) = n /\ \A k \in 1..n : u[k] = s[k]
  BY <1>1, <1>2
<1>. QED BY <1>2, <1>3, Zenon DEF Take, u

LEMMA DropIs ==
  ASSUME NEW S, NEW s \in Seq(S), NEW n \in 0..Len(s)
  PROVE  /\ Drop(s, n) \in Seq(S)
         /\ Len(Drop(s, n)) = Len(s) - n
         /\ \A k \in 1..(Len(s) - n) : Drop(s, n)[k] = s[n + k]
<1>. DEFINE u == SubSeq(s, n + 1, Len(s))
<1>1. Len(s) \in Nat /\ \A k \in (n + 1)..Len(s) : s[k] \in S
  BY LenProperties, ElementOfSeq
<1>2. /\ u \in Seq(S)
      /\ Len(u) = IF n + 1 <= Len(s) THEN Len(s) - (n + 1) + 1 ELSE 0
      /\ \A k \in 1..(Len(s) - (n + 1) + 1) : u[k] = s[n + 1 + k - 1]
  BY <1>1, SubSeqProperties
<1>. HIDE DEF u
<1>3. Len(u) = Len(s) - n /\ \A k \in 1..(Len(s) - n) : u[k] = s[n + k]
  BY <1>1, <1>2
<1>. QED BY <1>2, <1>3, Zenon DEF Drop, u

\* What is moved from the front of one sequence to the end of another leaves both
\* together as they are.
LEMMA MovedUnits ==
  ASSUME NEW S, NEW s \in Seq(S), NEW t \in Seq(S), NEW n \in 0..Len(t)
  PROVE  (s \o Take(t, n)) \o Drop(t, n) = s \o t
<1>. DEFINE a == Take(t, n)
            b == Drop(t, n)
<1>1. Len(t) \in Nat
  BY LenProperties
<1>2. a \in Seq(S) /\ Len(a) = n /\ \A k \in 1..n : a[k] = t[k]
  BY TakeIs
<1>3. b \in Seq(S) /\ Len(b) = Len(t) - n /\ \A k \in 1..(Len(t) - n) : b[k] = t[n + k]
  BY DropIs
<1>. HIDE DEF a, b
<1>4. a \o b = t
  <2>joined. PICK u \in Seq(S) : IsJoined(u, a, b)
    BY <1>2, <1>3, Joined
  <2>1. /\ u = a \o b /\ Len(u) = Len(a) + Len(b)
        /\ \A k \in 1..Len(a) : u[k] = a[k]
        /\ \A k \in 1..Len(b) : u[Len(a) + k] = b[k]
    BY <2>joined DEF IsJoined
  <2>2. Len(u) = Len(t)
    BY <1>1, <1>2, <1>3, <2>1
  <2>3. ASSUME NEW i \in 1..Len(t)
        PROVE  u[i] = t[i]
    <3>1. CASE i <= n
      BY <1>1, <1>2, <2>1, <3>1
    <3>2. CASE i > n
      <4>1. i - n \in 1..(Len(t) - n) /\ n + (i - n) = i
        BY <1>1, <3>2
      <4>2. u[n + (i - n)] = b[i - n] /\ b[i - n] = t[n + (i - n)]
        BY <1>2, <1>3, <2>1, <4>1
      <4>. QED BY <4>1, <4>2
    <3>. QED BY <1>1, <3>1, <3>2
  <2>4. u = t
    BY <2>1, <2>2, <2>3, SeqEqual
  <2>. QED BY <2>1, <2>4
<1>5. Regroups(s, a, b)
  BY <1>2, <1>3, Regrouped
<1>6. (s \o a) \o b = s \o t
  BY <1>4, <1>5, Zenon DEF Regroups
<1>. QED BY <1>6 DEF a, b

\* What is dropped from a sequence is dropped from a longer one.
LEMMA DropFront ==
  ASSUME NEW S, NEW s \in Seq(S), NEW t \in Seq(S), NEW n \in 0..Len(s)
  PROVE  Drop(s, n) \o t = Drop(s \o t, n)
<1>. DEFINE a == Drop(s, n)
<1>1. Len(s) \in Nat /\ Len(t) \in Nat
  BY LenProperties
<1>2. a \in Seq(S) /\ Len(a) = Len(s) - n /\ \A k \in 1..(Len(s) - n) : a[k] = s[n + k]
  BY DropIs
<1>. HIDE DEF a
<1>joined. PICK u \in Seq(S) : IsJoined(u, s, t)
  BY Joined
<1>3. /\ u = s \o t /\ Len(u) = Len(s) + Len(t)
      /\ \A k \in 1..Len(s) : u[k] = s[k]
      /\ \A k \in 1..Len(t) : u[Len(s) + k] = t[k]
  BY <1>joined DEF IsJoined
<1>. DEFINE b == Drop(u, n)
<1>4. n \in 0..Len(u)
  BY <1>1, <1>3
<1>5. b \in Seq(S) /\ Len(b) = Len(u) - n /\ \A k \in 1..(Len(u) - n) : b[k] = u[n + k]
  BY <1>4, DropIs
<1>. HIDE DEF b
<1>moved. PICK v \in Seq(S) : IsJoined(v, a, t)
  BY <1>2, Joined
<1>6. /\ v = a \o t /\ Len(v) = Len(a) + Len(t)
      /\ \A k \in 1..Len(a) : v[k] = a[k]
      /\ \A k \in 1..Len(t) : v[Len(a) + k] = t[k]
  BY <1>moved DEF IsJoined
<1>7. Len(v) = Len(b)
  BY <1>1, <1>2, <1>3, <1>5, <1>6
<1>8. ASSUME NEW i \in 1..Len(v)
      PROVE  v[i] = b[i]
  <2>1. b[i] = u[n + i]
    BY <1>1, <1>2, <1>3, <1>5, <1>7
  <2>2. CASE i <= Len(a)
    <3>1. n + i \in 1..Len(s) /\ i \in 1..(Len(s) - n)
      BY <1>1, <1>2, <2>2
    <3>. QED BY <1>2, <1>3, <1>6, <2>1, <2>2, <3>1
  <2>3. CASE i > Len(a)
    <3>1. PICK k \in 1..Len(t) : i = Len(a) + k
      <4>1. i - Len(a) \in 1..Len(t) /\ i = Len(a) + (i - Len(a))
        BY <1>1, <1>2, <1>6, <2>3
      <4>. QED BY <4>1
    <3>2. n + i = Len(s) + k
      BY <1>1, <1>2, <3>1
    <3>. QED BY <1>3, <1>6, <2>1, <3>1, <3>2
  <2>. QED BY <1>1, <1>2, <1>6, <2>2, <2>3
<1>9. v = b
  BY <1>5, <1>6, <1>7, <1>8, SeqEqual
<1>. QED BY <1>3, <1>6, <1>9 DEF b, a

LEMMA DropNothing ==
  ASSUME NEW S, NEW s \in Seq(S)
  PROVE  Drop(s, 0) = s
<1>1. 0 \in 0..Len(s) /\ Len(s) \in Nat
  BY LenProperties
<1>2. PICK d \in Seq(S) : d = Drop(s, 0) /\ Len(d) = Len(s) /\ \A k \in 1..Len(s) : d[k] = s[k]
  <2>1. PICK n \in 0..Len(s) : n = 0
    BY <1>1
  <2>2. PICK d : d = Drop(s, n)
    OBVIOUS
  <2>3. d \in Seq(S) /\ Len(d) = Len(s) - n /\ \A k \in 1..(Len(s) - n) : d[k] = s[n + k]
    BY <2>2, DropIs
  <2>4. Len(d) = Len(s) /\ \A k \in 1..Len(s) : d[k] = s[k]
    BY <1>1, <2>1, <2>3
  <2>. QED BY <2>1, <2>2, <2>3, <2>4
<1>. QED BY <1>2, SeqEqual

\* Dropping twice is dropping once.
LEMMA DropTwice ==
  ASSUME NEW S, NEW s \in Seq(S), NEW n \in 0..Len(s), NEW k \in 0..(Len(s) - n)
  PROVE  Drop(Drop(s, n), k) = Drop(s, n + k)
<1>. DEFINE a == Drop(s, n)
            b == Drop(a, k)
            c == Drop(s, n + k)
<1>1. Len(s) \in Nat
  BY LenProperties
<1>2. a \in Seq(S) /\ Len(a) = Len(s) - n /\ \A i \in 1..(Len(s) - n) : a[i] = s[n + i]
  BY DropIs
<1>. HIDE DEF a
<1>3. k \in 0..Len(a) /\ n + k \in 0..Len(s)
  BY <1>1, <1>2
<1>4. b \in Seq(S) /\ Len(b) = Len(a) - k /\ \A i \in 1..(Len(a) - k) : b[i] = a[k + i]
  <2>1. PICK t \in Seq(S) : t = a
    BY <1>2
  <2>2. k \in 0..Len(t)
    BY <1>3, <2>1
  <2>3. /\ Drop(t, k) \in Seq(S) /\ Len(Drop(t, k)) = Len(t) - k
        /\ \A i \in 1..(Len(t) - k) : Drop(t, k)[i] = t[k + i]
    BY <2>2, DropIs
  <2>. QED BY <2>1, <2>3, Zenon
<1>5. /\ c \in Seq(S) /\ Len(c) = Len(s) - (n + k)
      /\ \A i \in 1..(Len(s) - (n + k)) : c[i] = s[n + k + i]
  BY <1>3, DropIs
<1>. HIDE DEF b, c
<1>6. Len(b) = Len(c)
  BY <1>1, <1>2, <1>4, <1>5
<1>7. ASSUME NEW i \in 1..Len(b)
      PROVE  b[i] = c[i]
  <2>1. k + i \in 1..(Len(s) - n) /\ n + (k + i) = n + k + i
    BY <1>1, <1>2, <1>4
  <2>2. i \in 1..(Len(s) - (n + k)) /\ i \in 1..(Len(a) - k)
    BY <1>1, <1>2, <1>4
  <2>. QED BY <1>2, <1>4, <1>5, <2>1, <2>2
<1>8. b = c
  BY <1>4, <1>5, <1>6, <1>7, SeqEqual
<1>. QED BY <1>8 DEF a, b, c
-----------------------------------------------------------------------------
(* Streams: messages, unit after unit, the last of which may be cut        *)

\* v can be the unit after u.
Follows(u, v) ==
  IF u.part < Length(u.msg)
  THEN v.msg = u.msg /\ v.part = u.part + 1
  ELSE v.part = 1

IsStream(s) ==
  /\ s \in Seq(UnitSet)
  /\ s # <<>> => s[1].part = 1
  /\ \A i \in 1..(Len(s) - 1) : Follows(s[i], s[i + 1])

\* Does a message end with unit k of s?
EndsAt(s, k) == s[k].part = Length(s[k].msg)

IsWhole(s) == IsStream(s) /\ (s # <<>> => EndsAt(s, Len(s)))

\* A message is a stream.
LEMMA MessageIsWhole ==
  ASSUME NEW m \in Message
  PROVE  IsWhole(Units(m))
<1>1. PICK s \in Seq(UnitSet) : s = Units(m)
  BY UnitsOfMessage
<1>2. Len(s) = Length(m) /\ \A k \in 1..Length(m) : s[k].msg = m /\ s[k].part = k
  BY <1>1, UnitsOfMessage, UnitFields
<1>3. Length(m) \in Nat /\ Length(m) >= 1
  BY Lengths
<1>4. \A i \in 1..(Len(s) - 1) : Follows(s[i], s[i + 1])
  BY <1>2, <1>3 DEF Follows
<1>5. s[1].part = 1 /\ EndsAt(s, Len(s))
  BY <1>2, <1>3 DEF EndsAt
<1>. QED BY <1>1, <1>4, <1>5 DEF IsWhole, IsStream

LEMMA EmptyIsWhole == IsWhole(<<>>)
<1>. QED BY EmptySeq DEF IsWhole, IsStream

\* So is the front of a stream,
LEMMA FrontOfStream ==
  ASSUME NEW s \in Seq(UnitSet), NEW t \in Seq(UnitSet), IsStream(s \o t)
  PROVE  IsStream(s)
<1>1. Len(s) \in Nat /\ Len(t) \in Nat
  BY LenProperties
<1>2. PICK u \in Seq(UnitSet) : IsJoined(u, s, t)
  BY Joined
<1>3. /\ u = s \o t /\ Len(u) = Len(s) + Len(t)
      /\ \A k \in 1..Len(s) : u[k] = s[k]
  BY <1>2 DEF IsJoined
<1>4. IsStream(u)
  BY <1>3
<1>5. s # <<>> => s[1].part = 1
  <2>. SUFFICES ASSUME s # <<>> PROVE s[1].part = 1
    OBVIOUS
  <2>1. 1 \in 1..Len(s) /\ u # <<>>
    BY <1>1, <1>3, EmptySeq
  <2>. QED BY <1>3, <1>4, <2>1 DEF IsStream
<1>6. ASSUME NEW i \in 1..(Len(s) - 1)
      PROVE  Follows(s[i], s[i + 1])
  <2>1. i \in 1..Len(s) /\ i + 1 \in 1..Len(s) /\ i \in 1..(Len(u) - 1)
    BY <1>1, <1>3
  <2>. QED BY <1>3, <1>4, <2>1 DEF IsStream
<1>. QED BY <1>5, <1>6 DEF IsStream

\* what is left when whole messages have been dropped,
LEMMA RestOfStream ==
  ASSUME NEW s, IsStream(s), NEW n \in 0..Len(s), n > 0 => EndsAt(s, n)
  PROVE  /\ IsStream(Drop(s, n))
         /\ IsWhole(s) => IsWhole(Drop(s, n))
<1>1. s \in Seq(UnitSet) /\ Len(s) \in Nat
  BY LenProperties DEF IsStream
<1>2. PICK t \in Seq(UnitSet) :
        /\ t = Drop(s, n) /\ Len(t) = Len(s) - n
        /\ \A k \in 1..(Len(s) - n) : t[k] = s[n + k]
  <2>1. PICK t : t = Drop(s, n)
    OBVIOUS
  <2>2. /\ t \in Seq(UnitSet) /\ Len(t) = Len(s) - n
        /\ \A k \in 1..(Len(s) - n) : t[k] = s[n + k]
    BY <1>1, <2>1, DropIs
  <2>. QED BY <2>1, <2>2
<1>3. ASSUME t # <<>>
      PROVE  t[1].part = 1 /\ Len(t) \in 1..Len(t)
  <2>1. Len(t) \in 1..Len(t) /\ 1 \in 1..(Len(s) - n) /\ n + 1 \in 1..Len(s)
    BY <1>1, <1>2, <1>3, EmptySeq
  <2>2. t[1] = s[n + 1] /\ s # <<>>
    BY <1>1, <1>2, <2>1, EmptySeq
  <2>3. CASE n = 0
    BY <2>1, <2>2, <2>3 DEF IsStream
  <2>4. CASE n > 0
    <3>1. n \in 1..(Len(s) - 1) /\ n \in 1..Len(s)
      BY <1>1, <2>1, <2>4
    <3>2. Follows(s[n], s[n + 1]) /\ s[n] \in UnitSet
      BY <1>1, <3>1, ElementOfSeq DEF IsStream
    <3>3. s[n].part = Length(s[n].msg) /\ s[n].part \in Nat
      BY <2>4, <3>2, UnitFields, Lengths DEF EndsAt
    <3>4. ~ (s[n].part < Length(s[n].msg))
      BY <3>3
    <3>. QED BY <2>1, <2>2, <3>2, <3>4 DEF Follows
  <2>. QED BY <1>1, <2>1, <2>3, <2>4
<1>4. ASSUME NEW i \in 1..(Len(t) - 1)
      PROVE  Follows(t[i], t[i + 1])
  <2>1. /\ n + i \in 1..(Len(s) - 1) /\ i \in 1..(Len(s) - n) /\ i + 1 \in 1..(Len(s) - n)
        /\ n + (i + 1) = (n + i) + 1
    BY <1>1, <1>2
  <2>2. t[i] = s[n + i] /\ t[i + 1] = s[(n + i) + 1]
    BY <1>2, <2>1
  <2>. QED BY <2>1, <2>2 DEF IsStream
<1>5. IsStream(t)
  BY <1>3, <1>4 DEF IsStream
<1>6. ASSUME IsWhole(s), t # <<>>
      PROVE  EndsAt(t, Len(t))
  <2>1. Len(t) \in 1..(Len(s) - n) /\ n + Len(t) = Len(s)
    BY <1>1, <1>2, <1>3, <1>6
  <2>2. s # <<>>
    BY <1>1, <2>1, EmptySeq
  <2>. QED BY <1>2, <1>6, <2>1, <2>2 DEF IsWhole, EndsAt
<1>. QED BY <1>2, <1>5, <1>6 DEF IsWhole

\* and whole messages with a stream behind them.
LEMMA JoinedStreams ==
  ASSUME NEW s, IsWhole(s), NEW t, IsStream(t)
  PROVE  /\ IsStream(s \o t)
         /\ IsWhole(t) => IsWhole(s \o t)
<1>1. s \in Seq(UnitSet) /\ t \in Seq(UnitSet) /\ IsStream(s)
  BY DEF IsWhole, IsStream
<1>2. Len(s) \in Nat /\ Len(t) \in Nat
  BY <1>1, LenProperties
<1>3. PICK u \in Seq(UnitSet) : IsJoined(u, s, t)
  BY <1>1, Joined
<1>4. /\ u = s \o t /\ Len(u) = Len(s) + Len(t)
      /\ \A k \in 1..Len(s) : u[k] = s[k]
      /\ \A k \in 1..Len(t) : u[Len(s) + k] = t[k]
  BY <1>3 DEF IsJoined
<1>5. (s = <<>> <=> Len(s) = 0) /\ (t = <<>> <=> Len(t) = 0) /\ (u = <<>> <=> Len(u) = 0)
  BY <1>1, EmptySeq
<1>6. u # <<>> => u[1].part = 1
  <2>1. CASE s # <<>>
    <3>1. 1 \in 1..Len(s)
      BY <1>2, <1>5, <2>1
    <3>. QED BY <1>1, <1>4, <2>1, <3>1 DEF IsStream
  <2>2. CASE s = <<>> /\ t # <<>>
    <3>1. 1 \in 1..Len(t) /\ Len(s) + 1 = 1
      BY <1>2, <1>5, <2>2
    <3>. QED BY <1>4, <2>2, <3>1 DEF IsStream
  <2>. QED BY <1>2, <1>4, <1>5, <2>1, <2>2
<1>7. ASSUME NEW i \in 1..(Len(u) - 1)
      PROVE  Follows(u[i], u[i + 1])
  <2>1. CASE i + 1 <= Len(s)
    <3>1. i \in 1..Len(s) /\ i + 1 \in 1..Len(s) /\ i \in 1..(Len(s) - 1)
      BY <1>2, <2>1
    <3>. QED BY <1>1, <1>4, <3>1 DEF IsStream
  <2>2. CASE i = Len(s)
    <3>1. i \in 1..Len(s) /\ 1 \in 1..Len(t) /\ s # <<>> /\ t # <<>>
      BY <1>2, <1>4, <1>5, <2>2
    <3>2. u[i] = s[i] /\ u[i + 1] = t[1] /\ t[1].part = 1
      BY <1>4, <2>2, <3>1 DEF IsStream
    <3>3. s[i].part = Length(s[i].msg) /\ s[i] \in UnitSet
      BY <1>1, <2>2, <3>1, ElementOfSeq DEF IsWhole, EndsAt
    <3>4. ~ (s[i].part < Length(s[i].msg))
      BY <3>3, UnitFields, Lengths
    <3>. QED BY <3>2, <3>4 DEF Follows
  <2>3. CASE i > Len(s)
    <3>1. PICK k \in 1..(Len(t) - 1) : i = Len(s) + k
      <4>1. i - Len(s) \in 1..(Len(t) - 1) /\ i = Len(s) + (i - Len(s))
        BY <1>2, <1>4, <2>3
      <4>. QED BY <4>1
    <3>2. k \in 1..Len(t) /\ k + 1 \in 1..Len(t) /\ i + 1 = Len(s) + (k + 1)
      BY <1>2, <3>1
    <3>3. u[i] = t[k] /\ u[i + 1] = t[k + 1]
      BY <1>4, <3>1, <3>2
    <3>. QED BY <3>1, <3>3 DEF IsStream
  <2>. QED BY <1>2, <1>4, <2>1, <2>2, <2>3
<1>8. IsStream(u)
  BY <1>6, <1>7 DEF IsStream
<1>9. ASSUME IsWhole(t), u # <<>>
      PROVE  EndsAt(u, Len(u))
  <2>1. CASE t # <<>>
    <3>1. Len(t) \in 1..Len(t)
      BY <1>2, <1>5, <2>1
    <3>. QED BY <1>4, <1>9, <2>1, <3>1 DEF IsWhole, EndsAt
  <2>2. CASE t = <<>>
    <3>1. Len(u) = Len(s) /\ Len(s) \in 1..Len(s) /\ s # <<>>
      BY <1>2, <1>4, <1>5, <1>9, <2>2
    <3>. QED BY <1>4, <3>1 DEF IsWhole, EndsAt
  <2>. QED BY <2>1, <2>2
<1>. QED BY <1>4, <1>8, <1>9 DEF IsWhole

\* A stream that is as long as its first message begins with all of it.
LEMMA FirstOfStream ==
  ASSUME NEW s, IsStream(s), HasMessage(s)
  PROVE  /\ s[1].msg \in Message
         /\ Length(s[1].msg) \in 1..Len(s)
         /\ \A k \in 1..Length(s[1].msg) : s[k] = Unit(s[1].msg, k)
         /\ EndsAt(s, Length(s[1].msg))
<1>. DEFINE m == s[1].msg
            wrong == {k \in 1..Length(m) : s[k] # Unit(m, k)}
<1>1. s \in Seq(UnitSet) /\ s # <<>> /\ Len(s) \in Nat /\ Len(s) >= 1
  BY LenProperties, EmptySeq DEF IsStream, HasMessage
<1>2. s[1] \in UnitSet /\ m \in Message
  BY <1>1, ElementOfSeq, UnitFields
<1>3. Length(m) \in Nat /\ Length(m) >= 1 /\ Length(m) <= Len(s)
  BY <1>2, Lengths DEF HasMessage
<1>4. ASSUME wrong # {}
      PROVE  FALSE
  <2>1. PICK k \in wrong : \A j \in wrong : k <= j
    <3>1. wrong \in SUBSET Nat
      BY <1>3
    <3>. HIDE DEF wrong
    <3>. QED BY <1>4, <3>1, LeastNumber
  <2>2. k \in 1..Length(m) /\ s[k] # Unit(m, k) /\ s[k] \in UnitSet
    BY <1>1, <1>3, ElementOfSeq
  <2>3. CASE k = 1
    <3>1. s[1] = Unit(m, s[1].part) /\ s[1].part = 1
      BY <1>1, <1>2, UnitFields DEF IsStream
    <3>. QED BY <2>2, <2>3, <3>1
  <2>4. CASE k > 1
    <3>1. PICK j \in 1..Length(m) : k = j + 1 /\ j < Length(m) /\ j \in 1..(Len(s) - 1)
      <4>1. k - 1 \in 1..Length(m) /\ k = (k - 1) + 1 /\ k - 1 < Length(m) /\ k - 1 \in 1..(Len(s) - 1)
        BY <1>1, <1>3, <2>2, <2>4
      <4>. QED BY <4>1
    <3>2. s[j] = Unit(m, j)
      <4>1. ~ (k <= j)
        BY <3>1
      <4>. QED BY <2>1, <3>1, <4>1
    <3>3. s[j].msg = m /\ s[j].part = j
      BY <3>2, UnitFields
    <3>4. s[k].msg = m /\ s[k].part = k
      <4>1. Follows(s[j], s[k])
        BY <3>1 DEF IsStream
      <4>. QED BY <3>1, <3>3, <4>1 DEF Follows
    <3>. QED BY <2>2, <3>4, UnitFields
  <2>. QED BY <1>3, <2>2, <2>3, <2>4
<1>5. \A k \in 1..Length(m) : s[k] = Unit(m, k)
  BY <1>4
<1>6. Length(m) \in 1..Length(m)
  BY <1>3
<1>7. s[Length(m)].part = Length(m) /\ s[Length(m)].msg = m
  BY <1>5, <1>6, UnitFields
<1>. QED BY <1>1, <1>2, <1>3, <1>5, <1>7 DEF EndsAt
\* A whole stream has all of the message of each of its units.
LEMMA RestOfMessage ==
  ASSUME NEW s, IsWhole(s), NEW i \in 1..Len(s)
  PROVE  i + (Length(s[i].msg) - s[i].part) <= Len(s)
<1>1. s \in Seq(UnitSet) /\ Len(s) \in Nat /\ s # <<>>
  BY LenProperties, EmptySeq DEF IsWhole, IsStream
<1>2. PICK m \in Message, b \in Nat :
        /\ m = s[i].msg /\ b = s[i].part /\ s[i] = Unit(m, b)
        /\ Length(m) \in Nat /\ b <= Length(m)
  BY <1>1, ElementOfSeq, UnitFields, Lengths
<1>. DEFINE T == {k \in 0..(Length(m) - b) : i + k <= Len(s) /\ s[i + k] = Unit(m, b + k)}
<1>3. PICK k \in T : \A j \in T : j <= k
  <2>1. 0 \in T
    <3>1. i + 0 = i /\ b + 0 = b /\ 0 \in 0..(Length(m) - b) /\ i <= Len(s)
      BY <1>1, <1>2
    <3>. QED BY <1>2, <3>1
  <2>2. T \in SUBSET Nat /\ T # {} /\ \A j \in T : j <= Length(m) - b
    BY <1>2, <2>1
  <2>3. Length(m) - b \in Nat
    BY <1>2
  <2>. HIDE DEF T
  <2>. QED BY <2>2, <2>3, GreatestNumber
<1>4. k \in 0..(Length(m) - b) /\ i + k \in 1..Len(s) /\ s[i + k] = Unit(m, b + k)
  BY <1>1, <1>3
<1>5. CASE k = Length(m) - b
  BY <1>2, <1>4, <1>5
<1>6. CASE k # Length(m) - b
  <2>1. s[i + k].msg = m /\ s[i + k].part = b + k /\ b + k < Length(m)
    <3>1. PICK u : u = s[i + k]
      OBVIOUS
    <3>2. PICK c : c = b + k
      OBVIOUS
    <3>3. u.msg = m /\ u.part = c
      BY <1>4, <3>1, <3>2, UnitFields
    <3>4. b + k < Length(m)
      BY <1>2, <1>4, <1>6
    <3>. QED BY <3>1, <3>2, <3>3, <3>4
  <2>2. i + k # Len(s)
    <3>1. EndsAt(s, Len(s))
      BY <1>1 DEF IsWhole
    <3>2. CASE i + k = Len(s)
      <4>1. s[Len(s)].msg = m /\ s[Len(s)].part = b + k
        BY <2>1, <3>2
      <4>2. b + k = Length(m)
        BY <3>1, <4>1 DEF EndsAt
      <4>. QED BY <1>2, <1>4, <2>1, <4>2
    <3>. QED BY <3>2
  <2>3. i + k \in 1..(Len(s) - 1)
    BY <1>1, <1>4, <2>2
  <2>4. Follows(s[i + k], s[(i + k) + 1])
    BY <2>3 DEF IsWhole, IsStream
  <2>5. /\ i + (k + 1) = (i + k) + 1 /\ i + (k + 1) \in 1..Len(s)
        /\ k + 1 \in 0..(Length(m) - b) /\ b + (k + 1) = (b + k) + 1
    BY <1>1, <1>2, <1>4, <2>1, <2>3
  <2>6. s[i + (k + 1)].msg = m /\ s[i + (k + 1)].part = b + (k + 1)
    BY <2>1, <2>4, <2>5 DEF Follows
  <2>7. s[i + (k + 1)] = Unit(m, b + (k + 1))
    BY <1>1, <2>5, <2>6, ElementOfSeq, UnitFields
  <2>8. k + 1 \in T
    BY <1>1, <2>5, <2>7
  <2>9. ~ (k + 1 <= k)
    BY <1>4
  <2>. HIDE DEF T
  <2>. QED BY <1>3, <2>8, <2>9
<1>. QED BY <1>5, <1>6
-----------------------------------------------------------------------------
(* Several messages, one after the other (FlattenSeq of SequencesExt)      *)

\* Messages one after the other are a stream.
LEMMA MessagesAreWhole ==
  ASSUME NEW M \in SUBSET Message, NEW r \in Seq(M)
  PROVE  /\ IsWhole(UnitsOfAll(r))
         /\ \A k \in 1..Len(UnitsOfAll(r)) : UnitsOfAll(r)[k].msg \in M
<1>1. Len(r) \in Nat /\ DOMAIN r = 1..Len(r) /\ \A k \in 1..Len(r) : r[k] \in M
  BY LenProperties, ElementOfSeq
<1>2. PICK q : q = [k \in 1..Len(r) |-> Units(r[k])]
  OBVIOUS
<1>3. UnitsOfAll(r) = FlattenSeq(q)
  BY <1>1, <1>2, Zenon DEF UnitsOfAll
<1>4. \A k \in 1..Len(r) : q[k] = Units(r[k]) /\ Units(r[k]) \in Seq(UnitSet)
  BY <1>1, <1>2, UnitsOfMessage
<1>5. q \in [1..Len(r) -> Seq(UnitSet)]
  BY <1>2, <1>4, Zenon
<1>6. q \in Seq(Seq(UnitSet)) /\ Len(q) = Len(r)
  BY <1>1, <1>5
<1>. DEFINE Good(s) == IsWhole(s) /\ \A k \in 1..Len(s) : s[k].msg \in M
<1>7. ASSUME NEW i \in 1..Len(r)
      PROVE  Good(q[i])
  <2>1. r[i] \in M /\ r[i] \in Message /\ q[i] = Units(r[i])
    BY <1>1, <1>4
  <2>2. PICK s : s = Units(r[i])
    OBVIOUS
  <2>3. IsWhole(s) /\ \A k \in 1..Len(s) : s[k].msg = r[i]
    BY <2>1, <2>2, MessageIsWhole, UnitsOfMessage, UnitFields
  <2>. QED BY <2>1, <2>2, <2>3
<1>8. ASSUME NEW s, NEW t, Good(s), Good(t)
      PROVE  Good(s \o t)
  <2>1. s \in Seq(UnitSet) /\ t \in Seq(UnitSet) /\ IsStream(t)
    BY <1>8 DEF IsWhole, IsStream
  <2>2. PICK u \in Seq(UnitSet) : IsJoined(u, s, t)
    BY <2>1, Joined
  <2>3. IsWhole(u)
    BY <1>8, <2>1, <2>2, JoinedStreams DEF IsJoined
  <2>4. ASSUME NEW k \in 1..Len(u)
        PROVE  u[k].msg \in M
    <3>1. Len(s) \in Nat /\ Len(t) \in Nat /\ Len(u) = Len(s) + Len(t)
      BY <2>1, <2>2, LenProperties DEF IsJoined
    <3>2. CASE k \in 1..Len(s)
      BY <1>8, <2>2, <3>2 DEF IsJoined
    <3>3. CASE k \notin 1..Len(s)
      <4>1. k - Len(s) \in 1..Len(t) /\ Len(s) + (k - Len(s)) = k
        BY <3>1, <3>3
      <4>2. u[k] = t[k - Len(s)]
        BY <2>2, <4>1 DEF IsJoined
      <4>. QED BY <1>8, <4>1, <4>2
    <3>. QED BY <3>2, <3>3
  <2>. QED BY <2>2, <2>3, <2>4 DEF IsJoined
<1>9. \A i \in 1..Len(r) : Good(Joins(q)[i])
  <2>. DEFINE bad == {i \in 1..Len(r) : ~ Good(Joins(q)[i])}
  <2>1. \A i \in 1..Len(r) : Joins(q)[i] = IF i = 1 THEN q[i] ELSE Joins(q)[i - 1] \o q[i]
    BY <1>1, <1>6, FlattenIs DEF JoinStep
  <2>2. ASSUME bad # {}
        PROVE  FALSE
    <3>1. PICK i \in bad : \A j \in bad : i <= j
      <4>1. bad \in SUBSET Nat
        BY <1>1
      <4>. HIDE DEF bad
      <4>. QED BY <2>2, <4>1, LeastNumber
    <3>2. i \in 1..Len(r) /\ ~ Good(Joins(q)[i])
      BY <3>1
    <3>. HIDE DEF Good
    <3>3. CASE i = 1
      BY <1>7, <2>1, <3>2, <3>3
    <3>4. CASE i # 1
      <4>1. i - 1 \in 1..Len(r) /\ ~ (i <= i - 1)
        BY <1>1, <3>2, <3>4
      <4>2. Good(Joins(q)[i - 1])
        BY <3>1, <4>1
      <4>. QED BY <1>7, <1>8, <2>1, <3>2, <3>4, <4>2
    <3>. QED BY <3>3, <3>4
  <2>. QED BY <2>2
<1>10. Good(FlattenSeq(q))
  <2>1. CASE Len(r) # 0
    <3>1. Len(r) \in 1..Len(r)
      BY <1>1, <2>1
    <3>. HIDE DEF Good
    <3>. QED BY <1>1, <1>6, <1>9, <2>1, <3>1, FlattenIs
  <2>2. CASE Len(r) = 0
    <3>1. q = <<>> /\ FlattenSeq(q) = q
      BY <1>1, <1>6, <2>2, FlattenIs, EmptySeq
    <3>. QED BY <3>1, EmptyIsWhole, EmptySeq
  <2>. QED BY <2>1, <2>2
<1>. QED BY <1>3, <1>10
-----------------------------------------------------------------------------
(* The inductive invariant                                                 *)

\* what the driver has begun to write and not finished
Pending ==
  IF curRead # Nobody /\ curLeft < Length(JobMessage) THEN JobLeft ELSE <<>>

\* what is on its way to the child and from it
Inward == (childBuf \o toChild) \o Pending
Outward == (bufin \o fromChild) \o childOut

\* what a handler may write
Answer == Message \ {Macs, Line}

OtherTypes ==
  /\ alive \in BOOLEAN /\ haveMac \in BOOLEAN /\ first \in Message
  /\ nicIn \in [Ifc -> Seq(Tag)]
  /\ typed \in Nat /\ open \in BOOLEAN

\* nothing is read or sent before the loop
SetUpOK ==
  /\ pc \in {"start", "privileges"} =>
       curRead = Nobody /\ cmdBuf = 0 /\ \A p \in Ifc : buftun[p] = "none"
  /\ pc = "start" => childBuf = <<>> /\ toChild = <<>>

\* a job's bytes are in its buffer until all are written
JobOK ==
  /\ curRead \in Ifc => buftun[curRead] # "none"
  /\ curRead = Cmd => cmdBuf > 0
  /\ curRead # Nobody => curLeft \in 1..Length(JobMessage)

\* what select() saw is still so when the block that needs it comes
ReadyOK ==
  /\ pc = "write" => ChildIn \in ready
  /\ ChildIn \in ready => pc \in {"stdin", "write"} /\ curRead # Nobody
  /\ \A p \in Ifc : RecvFd(p) \in ready => buftun[p] = "none" /\ nicIn[p] # <<>>

\* the frame to be sent is at the front of the buffer, and complete
SendOK ==
  /\ curWrite \in Ifc => HasMessage(bufin) /\ bufin[1].msg.type = curWrite
  /\ curWrite = Nobody /\ pc \notin {"read", "return", "done"} => ~ HasMessage(bufin)

\* a complete command line is a job at once
WakeOK ==
  /\ pc \in {"read", "recv", "select"} /\ curRead = Nobody => cmdBuf = 0
  /\ pc = "select" /\ curRead = Nobody => \A p \in Ifc : buftun[p] = "none"

StreamsOK ==
  /\ IsWhole(Inward)
  /\ IsWhole(Outward)
  /\ \A k \in 1..Len(Outward) : Outward[k].msg \in Answer

\* the MAC addresses are the first that was written
MacsOK ==
  IF haveMac THEN first = Macs
  ELSE IF Inward = <<>> THEN pc \in {"start", "failed", "killed"} ELSE Inward[1].msg = Macs

DriverInv ==
  /\ TypeOK
  /\ OtherTypes
  /\ SetUpOK
  /\ JobOK
  /\ ReadyOK
  /\ SendOK
  /\ WakeOK
  /\ StreamsOK
  /\ MacsOK
-----------------------------------------------------------------------------
(* Steps of the child                                                      *)

LEMMA AmountsAre ==
  ASSUME NEW a \in Nat, NEW r \in Nat, NEW n \in Amounts(a, r)
  PROVE  n \in 0..a /\ n <= r /\ (a # 0 /\ r # 0 => n >= 1)
<1>. QED BY DEF Amounts, Least

LEMMA DriverStays ==
  ASSUME UNCHANGED driverVars
  PROVE  /\ UNCHANGED <<pc, opened, ready, buftun, cmdBuf, curRead, curLeft, bufin, curWrite,
                        nicIn, typed, open, issued, delivered>>
         /\ JobMessage' = JobMessage /\ Pending' = Pending
<1>1. UNCHANGED <<pc, opened, ready, buftun, cmdBuf, curRead, curLeft, bufin, curWrite,
                  nicIn, typed, open, issued, delivered>>
  BY DEF driverVars, runVars, worldVars
<1>2. JobMessage' = JobMessage
  BY <1>1, Zenon DEF JobMessage
<1>3. Pending' = Pending
  BY <1>1, <1>2, Zenon DEF Pending, JobLeft
<1>. QED BY <1>1, <1>2, <1>3

\* A step of the child leaves what the driver knows as it is.
LEMMA DriverPartStays ==
  ASSUME DriverInv, UNCHANGED driverVars
  PROVE  JobOK' /\ ReadyOK' /\ SendOK' /\ WakeOK'
<1>1. UNCHANGED <<pc, ready, buftun, cmdBuf, curRead, curLeft, bufin, curWrite, nicIn>>
  BY DriverStays
<1>2. JobMessage' = JobMessage
  BY DriverStays
<1>3. JobOK'
  BY <1>1, <1>2 DEF DriverInv, JobOK
<1>4. ReadyOK'
  BY <1>1 DEF DriverInv, ReadyOK, RecvFd, ChildIn
<1>5. SendOK'
  BY <1>1 DEF DriverInv, SendOK, HasMessage
<1>6. WakeOK'
  BY <1>1 DEF DriverInv, WakeOK
<1>. QED BY <1>3, <1>4, <1>5, <1>6

LEMMA ChildTypes ==
  ASSUME DriverInv, UNCHANGED driverVars,
         toChild' \in Seq(UnitSet), fromChild' \in Seq(UnitSet),
         childBuf' \in Seq(UnitSet), childOut' \in Seq(UnitSet),
         Len(toChild') <= PipeCap, Len(fromChild') <= PipeCap, Len(childBuf') <= BufCap,
         alive' \in BOOLEAN, haveMac' \in BOOLEAN, first' \in Message
  PROVE  TypeOK' /\ OtherTypes'
<1>1. UNCHANGED <<pc, opened, ready, buftun, cmdBuf, curRead, curLeft, bufin, curWrite,
                  nicIn, typed, open>>
  BY DriverStays
<1>2. TypeOK'
  BY <1>1 DEF DriverInv, TypeOK
<1>3. OtherTypes'
  BY <1>1 DEF DriverInv, OtherTypes
<1>. QED BY <1>2, <1>3

\* what is known of the buffers before a step
LEMMA Buffers ==
  ASSUME DriverInv
  PROVE  /\ toChild \in Seq(UnitSet) /\ fromChild \in Seq(UnitSet)
         /\ childBuf \in Seq(UnitSet) /\ childOut \in Seq(UnitSet) /\ bufin \in Seq(UnitSet)
         /\ Len(toChild) \in Nat /\ Len(fromChild) \in Nat /\ Len(childBuf) \in Nat
         /\ Len(childOut) \in Nat /\ Len(bufin) \in Nat
         /\ Len(toChild) <= PipeCap /\ Len(fromChild) <= PipeCap
         /\ Len(childBuf) <= BufCap /\ Len(bufin) <= BufCap
<1>1. /\ toChild \in Seq(UnitSet) /\ fromChild \in Seq(UnitSet)
      /\ childBuf \in Seq(UnitSet) /\ childOut \in Seq(UnitSet) /\ bufin \in Seq(UnitSet)
      /\ Len(toChild) <= PipeCap /\ Len(fromChild) <= PipeCap
      /\ Len(childBuf) <= BufCap /\ Len(bufin) <= BufCap
  BY DEF DriverInv, TypeOK
<1>. QED BY <1>1, LenProperties

\* Reading moves units from one place to another: for all pairs of places.
LEMMA Moved ==
  ASSUME NEW s \in Seq(UnitSet), NEW t \in Seq(UnitSet), NEW n \in 0..Len(t)
  PROVE  /\ s \o Take(t, n) \in Seq(UnitSet)
         /\ Len(s \o Take(t, n)) = Len(s) + n
         /\ Drop(t, n) \in Seq(UnitSet)
         /\ Len(Drop(t, n)) = Len(t) - n
         /\ (s \o Take(t, n)) \o Drop(t, n) = s \o t
<1>1. PICK a : a = Take(t, n)
  OBVIOUS
<1>2. a \in Seq(UnitSet) /\ Len(a) = n
  BY <1>1, TakeIs
<1>3. PICK u \in Seq(UnitSet) : IsJoined(u, s, a)
  BY <1>2, Joined
<1>4. u = s \o a /\ Len(u) = Len(s) + n
  BY <1>2, <1>3 DEF IsJoined
<1>5. Drop(t, n) \in Seq(UnitSet) /\ Len(Drop(t, n)) = Len(t) - n
  BY DropIs
<1>6. (s \o Take(t, n)) \o Drop(t, n) = s \o t
  BY MovedUnits
<1>. QED BY <1>1, <1>3, <1>4, <1>5, <1>6, Zenon

LEMMA ReadInv ==
  ASSUME DriverInv, ChildRead(~ Gone), UNCHANGED driverVars
  PROVE  DriverInv'
<1>1. PICK n \in Amounts(Len(toChild), BufCap - Len(childBuf)) :
        childBuf' = childBuf \o Take(toChild, n) /\ toChild' = Drop(toChild, n) /\ alive' = (n > 0)
  BY DEF ChildRead
<1>2. UNCHANGED <<fromChild, haveMac, childOut, first, seen, emitted>>
  BY DEF ChildRead
<1>3. n \in 0..Len(toChild) /\ n <= BufCap - Len(childBuf)
  BY Buffers, Sizes, AmountsAre
<1>4. /\ childBuf' \in Seq(UnitSet) /\ Len(childBuf') = Len(childBuf) + n
      /\ toChild' \in Seq(UnitSet) /\ Len(toChild') = Len(toChild) - n
      /\ childBuf' \o toChild' = childBuf \o toChild
  <2>1. childBuf \in Seq(UnitSet) /\ toChild \in Seq(UnitSet)
    BY Buffers
  <2>. QED BY <1>1, <1>3, <2>1, Moved
<1>5. TypeOK' /\ OtherTypes'
  <2>1. Len(toChild') <= PipeCap /\ Len(childBuf') <= BufCap
    BY <1>3, <1>4, Buffers, Sizes
  <2>2. haveMac' \in BOOLEAN /\ first' \in Message /\ alive' \in BOOLEAN
    BY <1>1, <1>2 DEF DriverInv, OtherTypes
  <2>3. fromChild' \in Seq(UnitSet) /\ childOut' \in Seq(UnitSet) /\ Len(fromChild') <= PipeCap
    BY <1>2, Buffers
  <2>. QED BY <1>4, <2>1, <2>2, <2>3, ChildTypes
<1>6. Inward' = Inward /\ Outward' = Outward
  BY <1>2, <1>4, DriverStays, Zenon DEF Inward, Outward
<1>7. StreamsOK'
  BY <1>6 DEF DriverInv, StreamsOK
<1>8. MacsOK'
  BY <1>2, <1>6, DriverStays DEF DriverInv, MacsOK
<1>9. SetUpOK'
  <2>1. pc # "start"
    BY DEF DriverInv, SetUpOK, ChildRead, Gone
  <2>. QED BY <2>1, DriverStays DEF DriverInv, SetUpOK
<1>. QED BY <1>5, <1>7, <1>8, <1>9, DriverPartStays DEF DriverInv

LEMMA CrashInv ==
  ASSUME DriverInv, UNCHANGED driverVars,
         alive' \in BOOLEAN, UNCHANGED <<toChild, fromChild, childBuf, haveMac, childOut, first>>
  PROVE  DriverInv'
<1>1. TypeOK' /\ OtherTypes'
  BY Buffers, ChildTypes DEF DriverInv, OtherTypes
<1>2. Inward' = Inward /\ Outward' = Outward
  BY DriverStays, Zenon DEF Inward, Outward
<1>3. StreamsOK'
  BY <1>2 DEF DriverInv, StreamsOK
<1>4. MacsOK'
  BY <1>2, DriverStays DEF DriverInv, MacsOK
<1>5. SetUpOK'
  BY DriverStays DEF DriverInv, SetUpOK
<1>. QED BY <1>1, <1>3, <1>4, <1>5, DriverPartStays DEF DriverInv

\* The child's write() moves units from what is left of its answer to the pipe.
LEMMA WriteMoves ==
  ASSUME DriverInv, ChildWrite(~ Gone), ~ Gone, UNCHANGED driverVars
  PROVE  /\ fromChild' \in Seq(UnitSet) /\ Len(fromChild') <= PipeCap
         /\ childOut' \in Seq(UnitSet)
         /\ Outward' = Outward
         /\ UNCHANGED <<alive, toChild, childBuf, haveMac, first, seen, emitted>>
<1>1. PICK n : n = Accepted(fromChild, childOut[1].msg, MessageLeft)
  OBVIOUS
<1>2. /\ childOut # <<>> /\ n > 0
      /\ fromChild' = fromChild \o Take(childOut, n)
      /\ childOut' = Drop(childOut, n)
      /\ UNCHANGED <<alive, toChild, childBuf, haveMac, first, seen, emitted>>
  BY <1>1 DEF ChildWrite
<1>3. MessageLeft \in Nat /\ MessageLeft <= Len(childOut)
  <2>1. /\ bufin \o fromChild \in Seq(UnitSet) /\ childOut \in Seq(UnitSet)
        /\ Len(bufin \o fromChild) \in Nat /\ Len(childOut) \in Nat
    BY Buffers, ConcatProperties, LenProperties
  <2>2. PICK s \in Seq(UnitSet) : s = bufin \o fromChild
    BY <2>1
  <2>3. PICK u \in Seq(UnitSet) : IsJoined(u, s, childOut)
    BY <2>1, Joined
  <2>4. IsWhole(u)
    BY <2>2, <2>3 DEF DriverInv, StreamsOK, Outward, IsJoined
  <2>5. /\ 1 \in 1..Len(childOut) /\ Len(s) + 1 \in 1..Len(u) /\ Len(s) \in Nat
        /\ Len(u) = Len(s) + Len(childOut) /\ u[Len(s) + 1] = childOut[1]
    BY <1>2, <2>1, <2>2, <2>3, EmptySeq DEF IsJoined
  <2>6. (Len(s) + 1) + (Length(childOut[1].msg) - childOut[1].part) <= Len(u)
    BY <2>4, <2>5, RestOfMessage
  <2>7. /\ Length(childOut[1].msg) \in Nat /\ childOut[1].part \in Nat
        /\ childOut[1].part <= Length(childOut[1].msg)
    BY <2>1, <2>5, ElementOfSeq, UnitFields, Lengths
  <2>8. /\ (Len(s) + 1) + (Length(childOut[1].msg) - childOut[1].part) <= Len(s) + Len(childOut)
        /\ Len(s) \in Nat /\ Len(childOut) \in Nat
    BY <2>1, <2>5, <2>6
  <2>9. \A l, p, d, o \in Nat :
          p <= l /\ (d + 1) + (l - p) <= d + o => l - p + 1 \in Nat /\ l - p + 1 <= o
    OBVIOUS
  <2>10. /\ Length(childOut[1].msg) - childOut[1].part + 1 \in Nat
         /\ Length(childOut[1].msg) - childOut[1].part + 1 <= Len(childOut)
    BY <2>7, <2>8, <2>9
  <2>. QED BY <2>10 DEF MessageLeft
<1>4. n \in 0..Len(childOut) /\ n <= PipeCap - Len(fromChild)
  BY <1>1, <1>3, Buffers, Sizes DEF Accepted, Least, Room
<1>5. /\ fromChild' \in Seq(UnitSet) /\ Len(fromChild') = Len(fromChild) + n
      /\ childOut' \in Seq(UnitSet)
      /\ fromChild' \o childOut' = fromChild \o childOut
  <2>1. fromChild \in Seq(UnitSet) /\ childOut \in Seq(UnitSet)
    BY Buffers
  <2>. QED BY <1>2, <1>4, <2>1, Moved
<1>6. Outward' = Outward
  <2>1. bufin' = bufin
    BY DriverStays
  <2>2. (bufin \o fromChild') \o childOut' = bufin \o (fromChild' \o childOut')
    <3>1. PICK a \in Seq(UnitSet), b \in Seq(UnitSet) : a = fromChild' /\ b = childOut'
      BY <1>5
    <3>2. bufin \in Seq(UnitSet)
      BY Buffers
    <3>3. Regroups(bufin, a, b)
      BY <3>2, Regrouped
    <3>. QED BY <3>1, <3>3, Zenon DEF Regroups
  <2>3. (bufin \o fromChild) \o childOut = bufin \o (fromChild \o childOut)
    <3>1. Regroups(bufin, fromChild, childOut)
      BY Buffers, Regrouped
    <3>. QED BY <3>1, Zenon DEF Regroups
  <2>. QED BY <1>5, <2>1, <2>2, <2>3, Zenon DEF Outward
<1>7. Len(fromChild') <= PipeCap
  BY <1>4, <1>5, Buffers, Sizes
<1>. QED BY <1>2, <1>5, <1>6, <1>7

LEMMA WriteInv ==
  ASSUME DriverInv, ChildWrite(~ Gone), UNCHANGED driverVars
  PROVE  DriverInv'
<1>1. CASE Gone
  <2>1. alive' = FALSE /\ UNCHANGED <<toChild, fromChild, childBuf, haveMac, childOut, first>>
    BY <1>1 DEF ChildWrite
  <2>. QED BY <2>1, CrashInv
<1>2. CASE ~ Gone
  <2>1. /\ fromChild' \in Seq(UnitSet) /\ Len(fromChild') <= PipeCap
        /\ childOut' \in Seq(UnitSet)
        /\ Outward' = Outward
        /\ UNCHANGED <<alive, toChild, childBuf, haveMac, first>>
    BY <1>2, WriteMoves
  <2>2. TypeOK' /\ OtherTypes'
    <3>1. haveMac' \in BOOLEAN /\ first' \in Message /\ alive' \in BOOLEAN
      BY <2>1 DEF DriverInv, OtherTypes
    <3>2. /\ toChild' \in Seq(UnitSet) /\ childBuf' \in Seq(UnitSet)
          /\ Len(toChild') <= PipeCap /\ Len(childBuf') <= BufCap
      BY <2>1, Buffers
    <3>. QED BY <2>1, <3>1, <3>2, ChildTypes
  <2>3. Inward' = Inward
    BY <2>1, DriverStays, Zenon DEF Inward
  <2>4. StreamsOK'
    BY <2>1, <2>3 DEF DriverInv, StreamsOK
  <2>5. MacsOK'
    BY <2>1, <2>3, DriverStays DEF DriverInv, MacsOK
  <2>6. SetUpOK'
    BY <2>1, DriverStays DEF DriverInv, SetUpOK
  <2>. QED BY <2>2, <2>4, <2>5, <2>6, DriverPartStays DEF DriverInv
<1>. QED BY <1>1, <1>2

\* When whole messages leave the front of a stream, a stream is left.
IsRest(v, u) ==
  /\ IsWhole(v)
  /\ \A k \in 1..Len(v) : \E j \in 1..Len(u) : v[k] = u[j]

LEMMA FrontDropped ==
  ASSUME NEW s \in Seq(UnitSet), NEW t \in Seq(UnitSet), IsWhole(s \o t),
         NEW n \in 0..Len(s), n > 0 => EndsAt(s, n)
  PROVE  IsRest(Drop(s, n) \o t, s \o t)
<1>1. Len(s) \in Nat /\ Len(t) \in Nat
  BY LenProperties
<1>2. PICK u \in Seq(UnitSet) : IsJoined(u, s, t)
  BY Joined
<1>3. u = s \o t /\ IsWhole(u) /\ Len(u) = Len(s) + Len(t) /\ \A k \in 1..Len(s) : u[k] = s[k]
  BY <1>2 DEF IsJoined
<1>4. n \in 0..Len(u) /\ (n > 0 => EndsAt(u, n))
  <2>1. n > 0 => n \in 1..Len(s)
    BY <1>1
  <2>. QED BY <1>1, <1>3, <2>1 DEF EndsAt
<1>5. PICK v : v = Drop(u, n)
  OBVIOUS
<1>6. IsWhole(v)
  BY <1>3, <1>4, <1>5, RestOfStream DEF IsWhole
<1>7. Len(v) = Len(u) - n /\ \A k \in 1..(Len(u) - n) : v[k] = u[n + k]
  BY <1>4, <1>5, DropIs
<1>8. ASSUME NEW k \in 1..Len(v)
      PROVE  \E j \in 1..Len(u) : v[k] = u[j]
  <2>1. n + k \in 1..Len(u) /\ v[k] = u[n + k]
    BY <1>1, <1>3, <1>4, <1>7
  <2>. QED BY <2>1
<1>9. Drop(s, n) \o t = v
  BY <1>3, <1>5, DropFront
<1>. QED BY <1>3, <1>6, <1>8, <1>9, Zenon DEF IsRest

LEMMA JobIsMessage ==
  ASSUME DriverInv, curRead # Nobody
  PROVE  JobMessage \in Message
<1>1. CASE curRead = Cmd
  BY <1>1, Lengths, Zenon DEF JobMessage
<1>2. CASE curRead # Cmd
  <2>1. curRead \in Ifc
    BY <1>2 DEF DriverInv, TypeOK
  <2>2. buftun[curRead] \in Tag
    BY <2>1 DEF DriverInv, TypeOK, JobOK
  <2>. QED BY <1>2, <2>1, <2>2, Lengths, Zenon DEF JobMessage
<1>. QED BY <1>1, <1>2

LEMMA JobLeftIs ==
  ASSUME DriverInv, curRead # Nobody
  PROVE  JobLeft \in Seq(UnitSet) /\ Len(JobLeft) = curLeft /\ curLeft \in Nat
<1>1. JobMessage \in Message
  BY JobIsMessage
<1>2. curLeft \in 1..Length(JobMessage) /\ Length(JobMessage) \in Nat
  BY <1>1, Lengths DEF DriverInv, JobOK
<1>3. PICK s \in Seq(UnitSet) : s = Units(JobMessage) /\ Len(s) = Length(JobMessage)
  BY <1>1, UnitsOfMessage
<1>4. PICK n : n = Length(JobMessage) - curLeft
  OBVIOUS
<1>5. n \in 0..Len(s) /\ Len(s) - n = curLeft /\ curLeft \in Nat
  BY <1>2, <1>3, <1>4
<1>6. JobLeft = Drop(s, n)
  BY <1>3, <1>4, Zenon DEF JobLeft
<1>. QED BY <1>5, <1>6, DropIs

LEMMA PendingIs ==
  ASSUME DriverInv
  PROVE  Pending \in Seq(UnitSet)
<1>1. CASE curRead # Nobody
  BY <1>1, JobLeftIs, EmptySeq, Zenon DEF Pending
<1>2. CASE curRead = Nobody
  BY <1>2, EmptySeq, Zenon DEF Pending
<1>. QED BY <1>1, <1>2

\* Whatever message is handled, it is the MAC addresses or comes after them.
LEMMA HandleHasMacs ==
  ASSUME DriverInv, ChildHandle
  PROVE  haveMac' = TRUE /\ first' = Macs
<1>. DEFINE m == childBuf[1].msg
            macs == m.type = 0 /\ ~ haveMac
<1>1. /\ HasMessage(childBuf)
      /\ haveMac' = (haveMac \/ macs)
      /\ first' = IF macs THEN m ELSE first
  BY Zenon DEF ChildHandle
<1>2. PICK s \in Seq(UnitSet) : IsJoined(s, toChild, Pending)
  BY Buffers, PendingIs, Joined
<1>3. Inward = childBuf \o s
  <2>1. childBuf \in Seq(UnitSet) /\ toChild \in Seq(UnitSet) /\ Pending \in Seq(UnitSet)
    BY Buffers, PendingIs
  <2>2. Regroups(childBuf, toChild, Pending)
    BY <2>1, Regrouped
  <2>. QED BY <1>2, <2>2, Zenon DEF Inward, IsJoined, Regroups
<1>4. PICK w \in Seq(UnitSet) : IsJoined(w, childBuf, s)
  BY Buffers, Joined
<1>5. /\ childBuf \in Seq(UnitSet) /\ Len(childBuf) \in Nat /\ Len(s) \in Nat
      /\ childBuf # <<>> /\ Len(childBuf) >= 1
  BY <1>1, Buffers, EmptySeq, LenProperties DEF HasMessage
<1>6. w = Inward /\ w[1] = childBuf[1] /\ w # <<>>
  BY <1>3, <1>4, <1>5, EmptySeq DEF IsJoined
<1>7. CASE haveMac
  <2>1. first = Macs
    BY <1>7 DEF DriverInv, MacsOK
  <2>. QED BY <1>1, <1>7, <2>1
<1>8. CASE ~ haveMac
  <2>1. m = Macs
    BY <1>6, <1>8 DEF DriverInv, MacsOK
  <2>. QED BY <1>1, <1>8, <2>1, Lengths
<1>. QED BY <1>7, <1>8

LEMMA HandleInv ==
  ASSUME DriverInv, ChildHandle, UNCHANGED driverVars
  PROVE  DriverInv'
<1>. DEFINE m == childBuf[1].msg
            macs == m.type = 0 /\ ~ haveMac
<1>1. /\ childOut = <<>> /\ HasMessage(childBuf)
      /\ childBuf' = Drop(childBuf, Length(m))
      /\ haveMac' = (haveMac \/ macs)
      /\ first' = IF macs THEN m ELSE first
      /\ \E r \in Responses(m) : childOut' = UnitsOfAll(r)
      /\ UNCHANGED <<toChild, fromChild, alive>>
  BY Zenon DEF ChildHandle, BytesAfter
<1>2. PICK s \in Seq(UnitSet) : IsJoined(s, toChild, Pending)
  BY Buffers, PendingIs, Joined
<1>3. Inward = childBuf \o s
  <2>1. childBuf \in Seq(UnitSet) /\ toChild \in Seq(UnitSet) /\ Pending \in Seq(UnitSet)
    BY Buffers, PendingIs
  <2>2. Regroups(childBuf, toChild, Pending)
    BY <2>1, Regrouped
  <2>. QED BY <1>2, <2>2, Zenon DEF Inward, IsJoined, Regroups
<1>4. /\ childBuf \in Seq(UnitSet) /\ Len(childBuf) \in Nat /\ Len(s) \in Nat
      /\ childBuf # <<>> /\ Len(childBuf) >= 1
  BY <1>1, Buffers, EmptySeq, LenProperties DEF HasMessage
<1>5. IsWhole(childBuf \o s)
  BY <1>3 DEF DriverInv, StreamsOK
<1>6. IsStream(childBuf)
  BY <1>4, <1>5, FrontOfStream DEF IsWhole
<1>7. m \in Message /\ Length(m) \in 1..Len(childBuf) /\ EndsAt(childBuf, Length(m))
  BY <1>1, <1>6, FirstOfStream
<1>8. childBuf' \in Seq(UnitSet) /\ Len(childBuf') = Len(childBuf) - Length(m)
  <2>1. PICK n : n = Length(m)
    OBVIOUS
  <2>2. n \in 0..Len(childBuf) /\ childBuf' = Drop(childBuf, n)
    BY <1>1, <1>7, <2>1
  <2>. QED BY <1>4, <2>1, <2>2, DropIs
<1>9. IsWhole(Inward')
  <2>1. IsRest(Drop(childBuf, Length(m)) \o s, childBuf \o s)
    BY <1>4, <1>5, <1>7, FrontDropped
  <2>2. Inward' = Drop(childBuf, Length(m)) \o s
    <3>1. PICK b \in Seq(UnitSet) : b = childBuf'
      BY <1>8
    <3>2. Regroups(b, toChild, Pending)
      <4>1. toChild \in Seq(UnitSet) /\ Pending \in Seq(UnitSet)
        BY Buffers, PendingIs
      <4>. QED BY <4>1, Regrouped
    <3>3. toChild' = toChild /\ Pending' = Pending
      BY <1>1, DriverStays
    <3>. QED BY <1>1, <1>2, <3>1, <3>2, <3>3, Zenon DEF Inward, IsJoined, Regroups
  <2>. QED BY <2>1, <2>2, Zenon DEF IsRest
<1>10. PICK r \in Seq(Answer) : childOut' = UnitsOfAll(r)
  BY <1>1, <1>7, ChildAssumption DEF Answer
<1>11. IsWhole(childOut') /\ \A k \in 1..Len(childOut') : childOut'[k].msg \in Answer
  <2>1. Answer \in SUBSET Message
    BY DEF Answer
  <2>. QED BY <1>10, <2>1, MessagesAreWhole
<1>12. IsWhole(Outward') /\ \A k \in 1..Len(Outward') : Outward'[k].msg \in Answer
  <2>1. PICK c \in Seq(UnitSet) : c = childOut'
    BY <1>11 DEF IsWhole, IsStream
  <2>2. PICK b \in Seq(UnitSet) : IsJoined(b, bufin, fromChild)
    BY Buffers, Joined
  <2>3. b = Outward
    BY <1>1, <2>2, ConcatEmptySeq DEF Outward, IsJoined
  <2>4. IsWhole(b) /\ \A k \in 1..Len(b) : b[k].msg \in Answer
    BY <2>3 DEF DriverInv, StreamsOK
  <2>5. PICK u \in Seq(UnitSet) : IsJoined(u, b, c)
    BY Joined
  <2>6. Outward' = u
    <3>1. bufin' = bufin /\ fromChild' = fromChild
      BY <1>1, DriverStays
    <3>. QED BY <2>1, <2>2, <2>5, <3>1, Zenon DEF Outward, IsJoined
  <2>7. IsWhole(u)
    BY <1>11, <2>1, <2>4, <2>5, JoinedStreams DEF IsWhole, IsJoined
  <2>8. ASSUME NEW k \in 1..Len(u)
        PROVE  u[k].msg \in Answer
    <3>1. Len(b) \in Nat /\ Len(c) \in Nat /\ Len(u) = Len(b) + Len(c)
      BY <2>5, LenProperties DEF IsJoined
    <3>2. CASE k \in 1..Len(b)
      BY <2>4, <2>5, <3>2 DEF IsJoined
    <3>3. CASE k \notin 1..Len(b)
      <4>1. k - Len(b) \in 1..Len(c) /\ Len(b) + (k - Len(b)) = k
        BY <3>1, <3>3
      <4>2. u[k] = c[k - Len(b)]
        BY <2>5, <4>1 DEF IsJoined
      <4>. QED BY <1>11, <2>1, <4>1, <4>2
    <3>. QED BY <3>2, <3>3
  <2>. QED BY <2>6, <2>7, <2>8
<1>13. StreamsOK'
  BY <1>9, <1>12 DEF StreamsOK
<1>14. haveMac' = TRUE /\ first' = Macs
  BY HandleHasMacs
<1>15. MacsOK'
  BY <1>14 DEF MacsOK
<1>16. SetUpOK'
  <2>1. pc # "start"
    BY <1>4 DEF DriverInv, SetUpOK
  <2>. QED BY <2>1, DriverStays DEF DriverInv, SetUpOK
<1>17. TypeOK' /\ OtherTypes'
  <2>1. childOut' \in Seq(UnitSet)
    BY <1>11 DEF IsWhole, IsStream
  <2>2. Len(childBuf') <= BufCap
    BY <1>4, <1>7, <1>8, Buffers, Sizes
  <2>3. alive' \in BOOLEAN /\ haveMac' \in BOOLEAN /\ first' \in Message
    BY <1>1, <1>14, Lengths DEF DriverInv, OtherTypes
  <2>4. /\ toChild' \in Seq(UnitSet) /\ fromChild' \in Seq(UnitSet)
        /\ Len(toChild') <= PipeCap /\ Len(fromChild') <= PipeCap
    BY <1>1, Buffers
  <2>. QED BY <1>8, <2>1, <2>2, <2>3, <2>4, ChildTypes
<1>. QED BY <1>13, <1>15, <1>16, <1>17, DriverPartStays DEF DriverInv
-----------------------------------------------------------------------------
(* Steps of the driver before the loop                                     *)

LEMMA ChildStays ==
  ASSUME UNCHANGED childVars
  PROVE  UNCHANGED <<alive, childBuf, haveMac, childOut, first, seen, emitted>>
<1>. QED BY DEF childVars

\* what a step that touches none of the driver's buffers leaves as it is
LEMMA BuffersStay ==
  ASSUME UNCHANGED runVars
  PROVE  /\ UNCHANGED <<buftun, cmdBuf, curRead, curLeft, bufin, curWrite>>
         /\ JobMessage' = JobMessage /\ Pending' = Pending
         /\ JobOK => JobOK'
<1>1. UNCHANGED <<buftun, cmdBuf, curRead, curLeft, bufin, curWrite>>
  BY DEF runVars
<1>2. JobMessage' = JobMessage
  BY <1>1, Zenon DEF JobMessage
<1>3. Pending' = Pending
  BY <1>1, <1>2, Zenon DEF Pending, JobLeft
<1>4. JobOK => JobOK'
  BY <1>1, <1>2 DEF JobOK
<1>. QED BY <1>1, <1>2, <1>3, <1>4

LEMMA SetUpStep ==
  ASSUME DriverInv, UNCHANGED <<toChild, fromChild, childVars, ready, runVars, worldVars>>,
         opened' \in 0..NumIfc,
         \/ pc = "start" /\ pc' \in {"start", "failed", "killed"}
         \/ pc = "privileges" /\ pc' \in {"select", "failed"}
  PROVE  DriverInv'
<1>1. /\ UNCHANGED <<alive, childBuf, haveMac, childOut, first, buftun, cmdBuf, curRead,
                      curLeft, bufin, curWrite, nicIn, typed, open, ready, toChild, fromChild>>
      /\ Pending' = Pending
  BY BuffersStay, ChildStays DEF worldVars
<1>2. TypeOK'
  BY <1>1 DEF DriverInv, TypeOK
<1>3. OtherTypes'
  BY <1>1 DEF DriverInv, OtherTypes
<1>4. SetUpOK'
  BY <1>1 DEF DriverInv, SetUpOK
<1>5. JobOK'
  BY BuffersStay DEF DriverInv
<1>6. ReadyOK'
  <2>1. ChildIn \notin ready /\ pc' # "write"
    BY DEF DriverInv, ReadyOK
  <2>. QED BY <1>1, <2>1 DEF DriverInv, ReadyOK, RecvFd, ChildIn
<1>7. SendOK'
  BY <1>1 DEF DriverInv, SendOK, HasMessage
<1>8. WakeOK'
  BY <1>1 DEF DriverInv, SetUpOK, WakeOK
<1>9. Inward' = Inward /\ Outward' = Outward
  BY <1>1, Zenon DEF Inward, Outward
<1>10. StreamsOK'
  BY <1>9 DEF DriverInv, StreamsOK
<1>11. MacsOK'
  BY <1>1, <1>9 DEF DriverInv, MacsOK
<1>. QED BY <1>2, <1>3, <1>4, <1>5, <1>6, <1>7, <1>8, <1>10, <1>11 DEF DriverInv

LEMMA SendMacsInv ==
  ASSUME DriverInv, SendMacs(alive), UNCHANGED childVars
  PROVE  DriverInv'
<1>1. /\ pc = "start" /\ UNCHANGED <<fromChild, opened, ready, runVars, worldVars>>
      /\ opened' \in 0..NumIfc
  BY DEF SendMacs, DriverInv, TypeOK
<1>2. CASE ~ alive
  <2>1. pc' = "killed" /\ UNCHANGED toChild
    BY <1>2 DEF SendMacs
  <2>. QED BY <1>1, <2>1, SetUpStep
<1>3. CASE alive
  <2>1. toChild' = toChild \o Units(Macs) /\ pc' = "privileges"
    BY <1>3 DEF SendMacs
  <2>2. childBuf = <<>> /\ toChild = <<>> /\ curRead = Nobody
    BY <1>1 DEF DriverInv, SetUpOK
  <2>3. /\ UNCHANGED <<alive, childBuf, haveMac, childOut, first, buftun, cmdBuf, curRead,
                        curLeft, bufin, curWrite, nicIn, typed, open, ready, fromChild, opened>>
        /\ Pending' = Pending
    BY <1>1, BuffersStay, ChildStays DEF worldVars
  <2>4. PICK s \in Seq(UnitSet) :
          s = Units(Macs) /\ IsWhole(s) /\ Len(s) = LineLen /\ s[1].msg = Macs /\ s # <<>>
    <3>1. Macs \in Message /\ Length(Macs) = LineLen /\ 1 \in 1..LineLen
      BY Lengths, Sizes
    <3>2. PICK s \in Seq(UnitSet) : s = Units(Macs)
      BY <3>1, UnitsOfMessage
    <3>3. Len(s) = LineLen /\ s[1].msg = Macs
      BY <3>1, <3>2, UnitsOfMessage, UnitFields
    <3>4. s # <<>>
      BY <3>3, Sizes, EmptySeq
    <3>. QED BY <3>1, <3>2, <3>3, <3>4, MessageIsWhole
  <2>5. toChild' = s
    BY <2>1, <2>2, <2>4, ConcatEmptySeq
  <2>6. Inward' = s
    <3>1. Pending' = <<>>
      BY <2>2, <2>3, Zenon DEF Pending
    <3>2. (<<>> \o s) \o <<>> = s
      BY ConcatEmptySeq
    <3>. QED BY <2>2, <2>3, <2>5, <3>1, <3>2, Zenon DEF Inward
  <2>7. Outward' = Outward
    BY <2>3, Zenon DEF Outward
  <2>8. TypeOK'
    <3>1. toChild' \in Seq(UnitSet) /\ Len(toChild') <= PipeCap
      BY <2>4, <2>5, Sizes
    <3>. QED BY <2>1, <2>3, <3>1 DEF DriverInv, TypeOK
  <2>9. OtherTypes'
    BY <2>3 DEF DriverInv, OtherTypes
  <2>10. SetUpOK'
    BY <1>1, <2>1, <2>3 DEF DriverInv, SetUpOK
  <2>11. JobOK'
    BY <1>1, BuffersStay DEF DriverInv
  <2>12. ReadyOK'
    <3>1. ChildIn \notin ready
      BY <1>1 DEF DriverInv, ReadyOK
    <3>. QED BY <2>1, <2>3, <3>1 DEF DriverInv, ReadyOK, RecvFd, ChildIn
  <2>13. SendOK'
    BY <1>1, <2>1, <2>3 DEF DriverInv, SendOK, HasMessage
  <2>14. WakeOK'
    BY <2>1 DEF WakeOK
  <2>15. StreamsOK'
    BY <2>4, <2>6, <2>7 DEF DriverInv, StreamsOK
  <2>16. MacsOK'
    BY <2>3, <2>4, <2>6 DEF DriverInv, MacsOK
  <2>. QED BY <2>8, <2>9, <2>10, <2>11, <2>12, <2>13, <2>14, <2>15, <2>16 DEF DriverInv
<1>. QED BY <1>2, <1>3

LEMMA SetUpInv ==
  ASSUME DriverInv, SetUp(alive), UNCHANGED childVars
  PROVE  DriverInv'
<1>1. CASE InitTun
  <2>1. opened + 1 \in 0..NumIfc
    BY <1>1, Sizes DEF InitTun, DriverInv, TypeOK
  <2>. QED BY <1>1, <2>1, SetUpStep DEF InitTun
<1>2. CASE InitTunFails \/ DropPrivilegesFails
  <2>1. 0 \in 0..NumIfc
    BY Sizes
  <2>. QED BY <1>2, <2>1, SetUpStep DEF InitTunFails, DropPrivilegesFails, CleanUp
<1>3. CASE SendMacs(alive)
  BY <1>3, SendMacsInv
<1>4. CASE DropPrivileges
  <2>1. opened \in 0..NumIfc
    BY DEF DriverInv, TypeOK
  <2>. QED BY <1>4, <2>1, SetUpStep DEF DropPrivileges
<1>. QED BY <1>1, <1>2, <1>3, <1>4 DEF SetUp
-----------------------------------------------------------------------------
(* Steps of the loop                                                       *)

\* The descriptors are all different.
LEMMA Descriptors ==
  /\ Stdin # ChildIn /\ Stdin # ChildOut /\ ChildIn # ChildOut
  /\ \A p : RecvFd(p) \notin {Stdin, ChildIn, ChildOut} /\ RecvFd(p)[1] = "recv" /\ RecvFd(p)[2] = p
  /\ \A p : SendFd(p) \notin {Stdin, ChildIn, ChildOut} /\ SendFd(p)[1] = "send"
  /\ \A p, q : RecvFd(p) # SendFd(q) /\ (RecvFd(p) = RecvFd(q) => p = q)
                /\ (SendFd(p) = SendFd(q) => p = q)
  /\ Stdin \in Fd /\ ChildIn \in Fd /\ ChildOut \in Fd
  /\ \A p : (RecvFd(p) \in Fd <=> p \in Ifc) /\ (SendFd(p) \in Fd <=> p \in Ifc)
<1>1. /\ Stdin # ChildIn /\ Stdin # ChildOut /\ ChildIn # ChildOut
      /\ \A p : RecvFd(p) \notin {Stdin, ChildIn, ChildOut} /\ RecvFd(p)[1] = "recv" /\ RecvFd(p)[2] = p
      /\ \A p : SendFd(p) \notin {Stdin, ChildIn, ChildOut} /\ SendFd(p)[1] = "send"
      /\ \A p, q : RecvFd(p) # SendFd(q) /\ (RecvFd(p) = RecvFd(q) => p = q)
                    /\ (SendFd(p) = SendFd(q) => p = q)
  BY DEF Stdin, ChildIn, ChildOut, RecvFd, SendFd
<1>2. /\ Stdin \in Fd /\ ChildIn \in Fd /\ ChildOut \in Fd
      /\ \A p : (RecvFd(p) \in Fd <=> p \in Ifc) /\ (SendFd(p) \in Fd <=> p \in Ifc)
  BY <1>1 DEF Fd
<1>. QED BY <1>1, <1>2

\* What a step that touches no buffer leaves as it is, when the loop goes on.
LEMMA LoopStep ==
  ASSUME DriverInv, UNCHANGED <<toChild, fromChild, childVars, runVars, worldVars, opened>>,
         \/ pc = "select" /\ pc' \in {"stdin", "write", "send"}
         \/ pc \in {"stdin", "write", "read"} /\ pc' = "return",
         ready' \subseteq Fd, ReadyOK'
  PROVE  DriverInv'
<1>1. /\ UNCHANGED <<alive, childBuf, haveMac, childOut, first, buftun, cmdBuf, curRead,
                      curLeft, bufin, curWrite, nicIn, typed, open, opened, toChild, fromChild>>
      /\ Pending' = Pending
  BY BuffersStay, ChildStays DEF worldVars
<1>2. TypeOK'
  BY <1>1 DEF DriverInv, TypeOK
<1>3. OtherTypes'
  BY <1>1 DEF DriverInv, OtherTypes
<1>4. SetUpOK'
  BY DEF SetUpOK
<1>5. JobOK'
  BY BuffersStay DEF DriverInv
<1>6. SendOK'
  BY <1>1 DEF DriverInv, SendOK, HasMessage
<1>7. WakeOK'
  BY DEF WakeOK
<1>8. Inward' = Inward /\ Outward' = Outward
  BY <1>1, Zenon DEF Inward, Outward
<1>9. StreamsOK'
  BY <1>8 DEF DriverInv, StreamsOK
<1>10. MacsOK'
  BY <1>1, <1>8 DEF DriverInv, MacsOK
<1>. QED BY <1>2, <1>3, <1>4, <1>5, <1>6, <1>7, <1>9, <1>10 DEF DriverInv

LEMMA ReturnInv ==
  ASSUME DriverInv, Return, UNCHANGED <<childVars, opened>>, pc \in {"stdin", "write", "read"}
  PROVE  DriverInv'
<1>1. /\ UNCHANGED <<toChild, fromChild, childVars, runVars, worldVars, opened>>
      /\ pc' = "return" /\ ready' = {}
  BY DEF Return
<1>2. ReadyOK'
  BY <1>1 DEF ReadyOK
<1>3. ready' \subseteq Fd
  BY <1>1
<1>. QED BY <1>1, <1>2, <1>3, LoopStep

LEMMA KillInv ==
  ASSUME DriverInv, KillChild
  PROVE  DriverInv'
<1>1. /\ pc = "return" /\ pc' = "done" /\ alive' = FALSE
      /\ UNCHANGED <<toChild, fromChild, childBuf, haveMac, childOut, first, opened, ready,
                      runVars, worldVars>>
  BY DEF KillChild
<1>2. /\ UNCHANGED <<buftun, cmdBuf, curRead, curLeft, bufin, curWrite, nicIn, typed, open>>
      /\ Pending' = Pending
  BY <1>1, BuffersStay DEF worldVars
<1>3. TypeOK'
  BY <1>1, <1>2 DEF DriverInv, TypeOK
<1>4. OtherTypes'
  BY <1>1, <1>2 DEF DriverInv, OtherTypes
<1>5. SetUpOK'
  BY <1>1 DEF SetUpOK
<1>6. JobOK'
  BY <1>1, BuffersStay DEF DriverInv
<1>7. ReadyOK'
  BY <1>1, <1>2 DEF DriverInv, ReadyOK, RecvFd, ChildIn
<1>8. SendOK'
  BY <1>1, <1>2 DEF DriverInv, SendOK, HasMessage
<1>9. WakeOK'
  BY <1>1 DEF WakeOK
<1>10. Inward' = Inward /\ Outward' = Outward
  BY <1>1, <1>2, Zenon DEF Inward, Outward
<1>11. StreamsOK'
  BY <1>10 DEF DriverInv, StreamsOK
<1>12. MacsOK'
  BY <1>1, <1>10 DEF DriverInv, MacsOK
<1>. QED BY <1>3, <1>4, <1>5, <1>6, <1>7, <1>8, <1>9, <1>11, <1>12 DEF DriverInv

\* What select() finds ready, it has been asked about.
LEMMA WatchedAre ==
  /\ Watched \subseteq Fd
  /\ ChildIn \in Watched => curRead # Nobody
  /\ \A p : RecvFd(p) \in Watched => p \in Ifc /\ buftun[p] = "none"
<1>1. \A fd \in Watched :
        \/ fd = ChildIn /\ curRead # Nobody
        \/ fd = ChildOut
        \/ fd = Stdin
        \/ \E p \in Ifc : fd = SendFd(p)
        \/ \E p \in Ifc : fd = RecvFd(p) /\ buftun[p] = "none"
  BY DEF Watched
<1>. QED BY <1>1, Descriptors

LEMMA ReadyToReceive ==
  ASSUME NEW p, IsReady(RecvFd(p), alive)
  PROVE  nicIn[p] # <<>>
<1>. QED BY Descriptors DEF IsReady

LEMMA FirstBlockIs ==
  ASSUME NEW fds
  PROVE  /\ FirstBlock(fds) \in {"stdin", "write", "send"}
         /\ FirstBlock(fds) = "write" => ChildIn \in fds
         /\ ChildIn \in fds => FirstBlock(fds) \in {"stdin", "write"}
         /\ Stdin \notin fds => FirstBlock(fds) # "stdin"
<1>. QED BY DEF FirstBlock

LEMMA SelectInv ==
  ASSUME DriverInv, Select(alive), UNCHANGED <<childVars, opened>>
  PROVE  DriverInv'
<1>1. /\ pc = "select" /\ pc' = FirstBlock(ready')
      /\ UNCHANGED <<toChild, fromChild, runVars, worldVars, childVars, opened>>
  BY DEF Select
<1>2. \A fd \in ready' : fd \in Watched /\ IsReady(fd, alive)
  BY DEF Select
<1>3. ready' \subseteq Fd
  BY <1>2, WatchedAre
<1>4. pc' \in {"stdin", "write", "send"}
  BY <1>1, FirstBlockIs
<1>5. ReadyOK'
  <2>1. UNCHANGED <<curRead, buftun, nicIn>>
    BY <1>1, BuffersStay DEF worldVars
  <2>2. \A p \in Ifc : RecvFd(p) \in ready' => buftun[p] = "none" /\ nicIn[p] # <<>>
    BY <1>2, WatchedAre, ReadyToReceive
  <2>3. ChildIn \in ready' => curRead # Nobody
    BY <1>2, WatchedAre
  <2>. QED BY <1>1, <2>1, <2>2, <2>3, FirstBlockIs DEF ReadyOK, RecvFd, ChildIn
<1>. QED BY <1>1, <1>3, <1>4, <1>5, LoopStep

LEMMA ReadStdinInv ==
  ASSUME DriverInv, ReadStdin, UNCHANGED <<childVars, opened>>
  PROVE  DriverInv'
<1>1. pc = "stdin"
  BY DEF ReadStdin
<1>2. CASE typed = 0
  BY <1>1, <1>2, ReturnInv DEF ReadStdin
<1>3. CASE typed # 0
  <2>1. PICK n : n = Least(typed, CmdCap - cmdBuf)
    OBVIOUS
  <2>2. /\ ready' = ready \ {Stdin} /\ pc' = FirstBlock(ready')
        /\ cmdBuf' = cmdBuf + n /\ typed' = typed - n
        /\ UNCHANGED <<toChild, fromChild, buftun, curRead, curLeft, bufin, curWrite,
                        nicIn, open, issued, delivered>>
    BY <1>3, <2>1 DEF ReadStdin
  <2>3. n \in Nat /\ cmdBuf' \in 0..CmdCap /\ cmdBuf' >= cmdBuf /\ typed' \in Nat
    <3>1. cmdBuf \in 0..CmdCap /\ typed \in Nat /\ CmdCap \in Nat
      BY DriverAssumption DEF DriverInv, TypeOK, OtherTypes
    <3>. QED BY <2>1, <2>2, <3>1 DEF Least
  <2>4. UNCHANGED <<alive, childBuf, haveMac, childOut, first>>
    BY ChildStays
  <2>5. pc' \in {"write", "send"} /\ (pc' = "write" => ChildIn \in ready')
        /\ (ChildIn \in ready' => pc' = "write" /\ ChildIn \in ready)
    BY <2>2, FirstBlockIs
  <2>6. JobMessage' = JobMessage
    BY <2>2, Zenon DEF JobMessage
  <2>7. Pending' = Pending
    BY <2>2, <2>6, Zenon DEF Pending, JobLeft
  <2>8. TypeOK'
    BY <2>2, <2>3, <2>4, <2>5 DEF DriverInv, TypeOK
  <2>9. OtherTypes'
    BY <2>2, <2>3, <2>4 DEF DriverInv, OtherTypes
  <2>10. SetUpOK'
    BY <2>5 DEF SetUpOK
  <2>11. JobOK'
    <3>1. cmdBuf \in 0..CmdCap /\ CmdCap \in Nat
      BY DriverAssumption DEF DriverInv, TypeOK
    <3>. QED BY <2>2, <2>3, <2>6, <3>1 DEF DriverInv, JobOK
  <2>12. ReadyOK'
    BY <2>2, <2>5 DEF DriverInv, ReadyOK, RecvFd, ChildIn
  <2>13. SendOK'
    BY <1>1, <2>2 DEF DriverInv, SendOK, HasMessage
  <2>14. WakeOK'
    BY <2>5 DEF WakeOK
  <2>15. Inward' = Inward /\ Outward' = Outward
    BY <2>2, <2>4, <2>7, Zenon DEF Inward, Outward
  <2>16. StreamsOK'
    BY <2>15 DEF DriverInv, StreamsOK
  <2>17. MacsOK'
    BY <1>1, <2>4, <2>15 DEF DriverInv, MacsOK
  <2>. QED BY <2>8, <2>9, <2>10, <2>11, <2>12, <2>13, <2>14, <2>16, <2>17 DEF DriverInv
<1>. QED BY <1>2, <1>3

\* write() moves the units from the job to the pipe, whether it can finish or not.
LEMMA JobMoves ==
  ASSUME DriverInv, pc = "write", alive, WriteChild(alive)
  PROVE  /\ curRead # Nobody
         /\ \E n \in 1..curLeft :
              /\ n = Accepted(toChild, JobMessage, curLeft)
              /\ toChild' \in Seq(UnitSet) /\ Len(toChild') <= PipeCap
              /\ Pending' \in Seq(UnitSet)
              /\ toChild' \o Pending' = toChild \o JobLeft
<1>1. PICK n : n = Accepted(toChild, JobMessage, curLeft)
  OBVIOUS
<1>2. /\ n > 0
      /\ toChild' = toChild \o Take(JobLeft, n)
      /\ IF n = curLeft
         THEN FinishJob
         ELSE curLeft' = curLeft - n /\ UNCHANGED <<curRead, cmdBuf, buftun>>
  BY <1>1 DEF WriteChild
<1>3. curRead # Nobody
  BY DEF DriverInv, ReadyOK
<1>4. PICK j \in Seq(UnitSet) : j = JobLeft /\ Len(j) = curLeft
  BY <1>3, JobLeftIs
<1>5. JobMessage \in Message /\ Length(JobMessage) \in Nat /\ curLeft \in 1..Length(JobMessage)
  BY <1>3, JobIsMessage, Lengths DEF DriverInv, JobOK
<1>6. n \in 1..curLeft /\ n <= PipeCap - Len(toChild)
  BY <1>1, <1>2, <1>5, Buffers, Sizes DEF Accepted, Least, Room
<1>7. n \in 0..Len(j)
  BY <1>4, <1>5, <1>6
<1>8. /\ toChild' \in Seq(UnitSet) /\ Len(toChild') = Len(toChild) + n
      /\ Drop(j, n) \in Seq(UnitSet) /\ Len(Drop(j, n)) = Len(j) - n
      /\ toChild' \o Drop(j, n) = toChild \o j
  <2>1. toChild \in Seq(UnitSet)
    BY Buffers
  <2>. QED BY <1>2, <1>4, <1>7, <2>1, Moved
<1>9. Len(toChild') <= PipeCap
  BY <1>6, <1>8, Buffers, Sizes
<1>10. Pending' = Drop(j, n)
  <2>1. CASE n = curLeft
    <3>1. curRead' = Nobody
      BY <1>2, <2>1 DEF FinishJob
    <3>2. PICK d \in Seq(UnitSet) : d = Drop(j, n) /\ Len(d) = Len(j) - n
      BY <1>8
    <3>3. Len(d) = 0
      BY <1>4, <1>5, <2>1, <3>2
    <3>4. d = <<>>
      BY <3>3, EmptySeq
    <3>5. Pending' = <<>>
      BY <3>1, Zenon DEF Pending
    <3>. QED BY <3>2, <3>4, <3>5
  <2>2. CASE n # curLeft
    <3>1. curLeft' = curLeft - n /\ UNCHANGED <<curRead, cmdBuf, buftun>>
      BY <1>2, <2>2
    <3>2. JobMessage' = JobMessage
      BY <3>1, Zenon DEF JobMessage
    <3>3. curRead' # Nobody /\ curLeft' < Length(JobMessage')
      BY <1>3, <1>5, <1>6, <3>1, <3>2
    <3>4. Pending' = JobLeft'
      BY <3>3, Zenon DEF Pending
    <3>5. PICK s \in Seq(UnitSet) : s = Units(JobMessage) /\ Len(s) = Length(JobMessage)
      BY <1>5, UnitsOfMessage
    <3>6. PICK k \in 0..Len(s) : k = Length(JobMessage) - curLeft
      BY <1>5, <3>5
    <3>7. n \in 0..(Len(s) - k) /\ k + n = Length(JobMessage) - (curLeft - n)
      BY <1>5, <1>6, <3>5, <3>6
    <3>8. JobLeft' = Drop(s, k + n)
      BY <3>1, <3>2, <3>5, <3>7, Zenon DEF JobLeft
    <3>9. j = Drop(s, k)
      BY <1>4, <3>5, <3>6, Zenon DEF JobLeft
    <3>10. Drop(Drop(s, k), n) = Drop(s, k + n)
      BY <3>7, DropTwice
    <3>. QED BY <3>4, <3>8, <3>9, <3>10
  <2>. QED BY <2>1, <2>2
<1>. QED BY <1>1, <1>3, <1>4, <1>6, <1>8, <1>9, <1>10

LEMMA WriteChildInv ==
  ASSUME DriverInv, WriteChild(alive), UNCHANGED <<childVars, opened>>
  PROVE  DriverInv'
<1>1. pc = "write"
  BY DEF WriteChild
<1>2. CASE ~ alive
  BY <1>1, <1>2, ReturnInv DEF WriteChild
<1>3. CASE alive
  <2>1. curRead # Nobody /\ ChildIn \in ready /\ curRead \in {Cmd} \union Ifc
    BY <1>1 DEF DriverInv, ReadyOK, TypeOK
  <2>2. PICK n \in 1..curLeft :
          /\ n = Accepted(toChild, JobMessage, curLeft)
          /\ toChild' \in Seq(UnitSet) /\ Len(toChild') <= PipeCap
          /\ Pending' \in Seq(UnitSet)
          /\ toChild' \o Pending' = toChild \o JobLeft
    BY <1>1, <1>3, JobMoves
  <2>3. /\ IF n = curLeft
           THEN FinishJob /\ pc' = "send" /\ ready' = ready \ {ChildIn}
           ELSE curLeft' = curLeft - n /\ UNCHANGED <<pc, ready, curRead, cmdBuf, buftun>>
        /\ UNCHANGED <<fromChild, bufin, curWrite, worldVars, delivered>>
    BY <1>3, <2>2 DEF WriteChild
  <2>4. UNCHANGED <<alive, childBuf, haveMac, childOut, first, nicIn, typed, open>>
    BY <2>3, ChildStays DEF worldVars
  <2>5. /\ JobMessage \in Message /\ Length(JobMessage) \in Nat
        /\ curLeft \in 1..Length(JobMessage)
    BY <2>1, JobIsMessage, Lengths DEF DriverInv, JobOK
  <2>6. /\ cmdBuf \in 0..CmdCap /\ CmdCap \in Nat /\ buftun \in [Ifc -> Tag \union {"none"}]
        /\ (curRead = Cmd => cmdBuf > 0) /\ NumIfc \in Nat
    BY DriverAssumption, Sizes DEF DriverInv, TypeOK, JobOK
  <2>7. /\ buftun' \in [Ifc -> Tag \union {"none"}] /\ cmdBuf' \in 0..CmdCap
        /\ \A p \in Ifc : buftun[p] = "none" => buftun'[p] = "none"
    <3>1. CASE n # curLeft
      BY <2>3, <2>6, <3>1
    <3>2. CASE n = curLeft /\ curRead = Cmd
      <4>1. cmdBuf' = cmdBuf - 1 /\ buftun' = buftun
        BY <2>3, <3>2 DEF FinishJob
      <4>. QED BY <2>6, <3>2, <4>1
    <3>3. CASE n = curLeft /\ curRead # Cmd
      <4>1. buftun' = [buftun EXCEPT ![curRead] = "none"] /\ cmdBuf' = cmdBuf
        BY <2>3, <3>3 DEF FinishJob
      <4>. QED BY <2>6, <4>1
    <3>. QED BY <3>1, <3>2, <3>3
  <2>8. /\ pc' \in {"write", "send"} /\ curLeft' \in Nat
        /\ curRead' \in {Cmd, Nobody} \union Ifc /\ ready' \subseteq ready
    BY <1>1, <2>1, <2>3, <2>5 DEF FinishJob
  <2>9. TypeOK'
    BY <2>2, <2>3, <2>4, <2>7, <2>8 DEF DriverInv, TypeOK
  <2>10. OtherTypes'
    BY <2>4 DEF DriverInv, OtherTypes
  <2>11. SetUpOK'
    BY <2>8 DEF SetUpOK
  <2>12. JobOK'
    <3>1. CASE n = curLeft
      <4>1. curRead' = Nobody
        BY <2>3, <3>1 DEF FinishJob
      <4>2. Nobody # Cmd /\ Nobody \notin Ifc
        BY <2>6 DEF Nobody, Cmd, Ifc
      <4>. QED BY <4>1, <4>2 DEF JobOK, Nobody, Cmd, Ifc
    <3>2. CASE n # curLeft
      <4>1. UNCHANGED <<curRead, cmdBuf, buftun>> /\ curLeft' = curLeft - n
        BY <2>3, <3>2
      <4>2. JobMessage' = JobMessage
        BY <4>1, Zenon DEF JobMessage
      <4>3. curLeft - n \in 1..Length(JobMessage)
        BY <2>5, <3>2
      <4>. QED BY <4>1, <4>2, <4>3 DEF DriverInv, JobOK
    <3>. QED BY <3>1, <3>2
  <2>13. ReadyOK'
    <3>1. \A p \in Ifc : RecvFd(p) \in ready' => buftun'[p] = "none" /\ nicIn'[p] # <<>>
      BY <2>4, <2>7, <2>8 DEF DriverInv, ReadyOK
    <3>2. CASE n = curLeft
      <4>1. pc' = "send" /\ ChildIn \notin ready'
        BY <2>3, <3>2
      <4>. QED BY <3>1, <4>1 DEF ReadyOK, RecvFd, ChildIn
    <3>3. CASE n # curLeft
      <4>1. UNCHANGED <<pc, ready, curRead>>
        BY <2>3, <3>3
      <4>. QED BY <1>1, <2>1, <3>1, <4>1 DEF ReadyOK, RecvFd, ChildIn
    <3>. QED BY <3>2, <3>3
  <2>14. SendOK'
    BY <1>1, <2>3 DEF DriverInv, SendOK, HasMessage
  <2>15. WakeOK'
    BY <2>8 DEF WakeOK
  <2>16. Outward' = Outward
    BY <2>3, <2>4, Zenon DEF Outward
  <2>17. PICK b \in Seq(UnitSet) : IsJoined(b, childBuf, toChild)
    BY Buffers, Joined
  <2>18. PICK j \in Seq(UnitSet) : j = JobLeft /\ Len(j) = curLeft
    BY <2>1, JobLeftIs
  <2>19. Inward' = b \o j
    <3>1. PICK t \in Seq(UnitSet), q \in Seq(UnitSet) : t = toChild' /\ q = Pending'
      BY <2>2
    <3>2. PICK c \in Seq(UnitSet), w \in Seq(UnitSet) : c = childBuf /\ w = toChild
      BY Buffers
    <3>3. Regroups(c, t, q) /\ Regroups(c, w, j)
      BY Regrouped
    <3>. QED BY <2>2, <2>4, <2>17, <2>18, <3>1, <3>2, <3>3, Zenon DEF Inward, IsJoined, Regroups
  <2>20. b # <<>> => (b \o j) # <<>> /\ (b \o j)[1] = b[1]
    <3>1. PICK v \in Seq(UnitSet) : IsJoined(v, b, j)
      BY Joined
    <3>2. Len(b) \in Nat /\ Len(j) \in Nat /\ (b = <<>> <=> Len(b) = 0) /\ (v = <<>> <=> Len(v) = 0)
      BY LenProperties, EmptySeq
    <3>. QED BY <3>1, <3>2 DEF IsJoined
  <2>21. \/ Inward = b \o j
         \/ Inward = b /\ j = Units(JobMessage)
    <3>1. CASE curLeft < Length(JobMessage)
      <4>1. Pending = j
        BY <2>1, <2>18, <3>1, Zenon DEF Pending
      <4>. QED BY <2>17, <4>1, Zenon DEF Inward, IsJoined
    <3>2. CASE ~ (curLeft < Length(JobMessage))
      <4>1. Pending = <<>>
        BY <3>2, Zenon DEF Pending
      <4>2. Inward = b
        BY <2>17, <4>1, ConcatEmptySeq DEF Inward, IsJoined
      <4>3. PICK s \in Seq(UnitSet) : s = Units(JobMessage) /\ Len(s) = Length(JobMessage)
        BY <2>5, UnitsOfMessage
      <4>4. PICK k : k = Length(JobMessage) - curLeft
        OBVIOUS
      <4>5. k = 0 /\ Len(s) \in Nat
        BY <2>5, <3>2, <4>3, <4>4
      <4>6. j = Drop(s, 0)
        BY <2>18, <4>3, <4>4, <4>5, Zenon DEF JobLeft
      <4>7. Drop(s, 0) = s
        BY DropNothing
      <4>. QED BY <4>2, <4>3, <4>6, <4>7
    <3>. QED BY <3>1, <3>2
  <2>22. IsWhole(b \o j)
    <3>1. CASE Inward = b \o j
      BY <3>1 DEF DriverInv, StreamsOK
    <3>2. CASE Inward = b /\ j = Units(JobMessage)
      <4>1. IsWhole(b) /\ IsWhole(j)
        BY <2>5, <3>2, MessageIsWhole DEF DriverInv, StreamsOK
      <4>. QED BY <4>1, JoinedStreams DEF IsWhole
    <3>. QED BY <2>21, <3>1, <3>2
  <2>23. StreamsOK'
    BY <2>16, <2>19, <2>22 DEF DriverInv, StreamsOK
  <2>24. MacsOK'
    <3>1. CASE haveMac
      BY <2>4, <3>1 DEF DriverInv, MacsOK
    <3>2. CASE ~ haveMac
      <4>1. Inward # <<>> /\ Inward[1].msg = Macs
        BY <1>1, <3>2 DEF DriverInv, MacsOK
      <4>2. Inward' # <<>> /\ Inward'[1].msg = Macs
        BY <2>19, <2>20, <2>21, <4>1
      <4>. QED BY <2>4, <3>2, <4>2 DEF MacsOK
    <3>. QED BY <3>1, <3>2
  <2>. QED BY <2>9, <2>10, <2>11, <2>12, <2>13, <2>14, <2>15, <2>23, <2>24 DEF DriverInv
<1>. QED BY <1>2, <1>3

\* The front of what is on its way from the child.
LEMMA FrontOfThree ==
  ASSUME NEW a \in Seq(UnitSet), NEW b \in Seq(UnitSet), NEW c \in Seq(UnitSet),
         IsWhole((a \o b) \o c)
  PROVE  IsStream(a)
<1>1. PICK t \in Seq(UnitSet) : IsJoined(t, b, c)
  BY Joined
<1>2. (a \o b) \o c = a \o t
  <2>1. Regroups(a, b, c)
    BY Regrouped
  <2>. QED BY <1>1, <2>1, Zenon DEF IsJoined, Regroups
<1>3. IsStream(a \o t)
  BY <1>2 DEF IsWhole
<1>. QED BY <1>3, FrontOfStream

LEMMA UnitsOfFront ==
  ASSUME NEW a \in Seq(UnitSet), NEW b \in Seq(UnitSet), NEW c \in Seq(UnitSet),
         NEW k \in 1..Len(a)
  PROVE  k \in 1..Len((a \o b) \o c) /\ ((a \o b) \o c)[k] = a[k]
<1>1. PICK t \in Seq(UnitSet) : IsJoined(t, b, c)
  BY Joined
<1>2. PICK u \in Seq(UnitSet) : IsJoined(u, a, t)
  BY Joined
<1>3. u = (a \o b) \o c
  <2>1. t = b \o c /\ u = a \o t
    BY <1>1, <1>2, Zenon DEF IsJoined
  <2>2. Regroups(a, b, c)
    BY Regrouped
  <2>. QED BY <2>1, <2>2, Zenon DEF Regroups
<1>4. Len(a) \in Nat /\ Len(t) \in Nat /\ Len(u) = Len(a) + Len(t) /\ u[k] = a[k]
  BY <1>2, LenProperties DEF IsJoined
<1>5. k \in 1..Len(u)
  BY <1>4
<1>. QED BY <1>3, <1>4, <1>5

LEMMA FrontOfThreeDropped ==
  ASSUME NEW a \in Seq(UnitSet), NEW b \in Seq(UnitSet), NEW c \in Seq(UnitSet),
         IsWhole((a \o b) \o c), NEW n \in 0..Len(a), n > 0 => EndsAt(a, n)
  PROVE  IsRest((Drop(a, n) \o b) \o c, (a \o b) \o c)
<1>1. PICK t \in Seq(UnitSet) : IsJoined(t, b, c)
  BY Joined
<1>2. (a \o b) \o c = a \o t
  <2>1. Regroups(a, b, c)
    BY Regrouped
  <2>. QED BY <1>1, <2>1, Zenon DEF IsJoined, Regroups
<1>3. PICK d \in Seq(UnitSet) : d = Drop(a, n)
  BY DropIs
<1>4. (d \o b) \o c = d \o t
  <2>1. Regroups(d, b, c)
    BY <1>3, Regrouped
  <2>. QED BY <1>1, <2>1, Zenon DEF IsJoined, Regroups
<1>5. IsWhole(a \o t)
  BY <1>2
<1>6. IsRest(Drop(a, n) \o t, a \o t)
  BY <1>5, FrontDropped
<1>. QED BY <1>2, <1>3, <1>4, <1>6, Zenon

\* Whole messages leave the driver's buffer: what is on its way stays well formed.
LEMMA OutwardDropped ==
  ASSUME DriverInv, UNCHANGED childOut,
         NEW a \in Seq(UnitSet), NEW b \in Seq(UnitSet), (a \o b) \o childOut = Outward,
         NEW n \in 0..Len(a), n > 0 => EndsAt(a, n),
         bufin' = Drop(a, n), fromChild' = b
  PROVE  IsWhole(Outward') /\ \A k \in 1..Len(Outward') : Outward'[k].msg \in Answer
<1>1. childOut \in Seq(UnitSet)
  BY Buffers
<1>2. IsWhole(Outward) /\ \A k \in 1..Len(Outward) : Outward[k].msg \in Answer
  BY DEF DriverInv, StreamsOK
<1>3. IsWhole((a \o b) \o childOut)
  BY <1>2
<1>4. IsRest((Drop(a, n) \o b) \o childOut, (a \o b) \o childOut)
  BY <1>1, <1>3, FrontOfThreeDropped
<1>5. Outward' = (Drop(a, n) \o b) \o childOut
  BY Zenon DEF Outward
<1>6. IsRest(Outward', Outward)
  BY <1>4, <1>5, Zenon
<1>. QED BY <1>2, <1>6 DEF IsRest

\* What leaves the driver's buffer when a frame is sent, is that frame.
LEMMA FrameLeaves ==
  ASSUME DriverInv, SendFrame
  PROVE  /\ curWrite' \in {Nobody} \union Ifc /\ ready' \subseteq ready
         /\ curWrite' \in Ifc => bufin' = bufin /\ curWrite' = curWrite
         /\ \E n \in 0..Len(bufin) : bufin' = Drop(bufin, n) /\ (n > 0 => EndsAt(bufin, n))
<1>1. bufin \in Seq(UnitSet) /\ Len(bufin) \in Nat /\ curWrite \in {Nobody} \union Ifc
  BY Buffers DEF DriverInv, TypeOK
<1>2. CASE SendFd(curWrite) \notin ready
  <2>1. bufin' = bufin /\ curWrite' = curWrite /\ ready' = ready
    BY <1>2 DEF SendFrame
  <2>2. bufin' = Drop(bufin, 0) /\ 0 \in 0..Len(bufin)
    BY <1>1, <2>1, DropNothing
  <2>. QED BY <1>1, <2>1, <2>2
<1>3. CASE SendFd(curWrite) \in ready
  <2>1. bufin' = Drop(bufin, FrameLen) /\ curWrite' = Nobody /\ ready' \subseteq ready
    BY <1>3 DEF SendFrame
  <2>2. curWrite \in Ifc
    BY <1>3, Descriptors DEF DriverInv, TypeOK
  <2>3. HasMessage(bufin) /\ bufin[1].msg.type = curWrite
    BY <2>2 DEF DriverInv, SendOK
  <2>4. IsStream(bufin)
    <3>1. fromChild \in Seq(UnitSet) /\ childOut \in Seq(UnitSet)
      BY Buffers
    <3>2. IsWhole((bufin \o fromChild) \o childOut)
      BY DEF DriverInv, StreamsOK, Outward
    <3>. QED BY <1>1, <3>1, <3>2, FrontOfThree
  <2>5. Length(bufin[1].msg) \in 1..Len(bufin) /\ EndsAt(bufin, Length(bufin[1].msg))
    BY <2>3, <2>4, FirstOfStream
  <2>6. Length(bufin[1].msg) = FrameLen
    BY <2>2, <2>3 DEF Length, Ifc
  <2>7. Nobody \notin Ifc
    BY Sizes DEF Nobody, Ifc
  <2>8. FrameLen \in 0..Len(bufin) /\ EndsAt(bufin, FrameLen)
    BY <1>1, <2>5, <2>6
  <2>. QED BY <2>1, <2>7, <2>8
<1>. QED BY <1>2, <1>3

LEMMA LinePicked ==
  ASSUME DriverInv, PickLine, UNCHANGED <<buftun, cmdBuf>>
  PROVE  /\ curRead' \in {Cmd, Nobody} \union Ifc /\ curLeft' \in Nat
         /\ curRead' = Nobody => cmdBuf = 0
         /\ curRead # Nobody => curRead' # Nobody
         /\ JobOK'
         /\ Pending' = Pending
<1>1. cmdBuf \in Nat /\ curLeft \in Nat /\ curRead \in {Cmd, Nobody} \union Ifc
  <2>1. cmdBuf \in 0..CmdCap /\ CmdCap \in Nat
    BY DriverAssumption DEF DriverInv, TypeOK
  <2>. QED BY <2>1 DEF DriverInv, TypeOK
<1>2. Cmd # Nobody /\ Cmd \notin Ifc
  BY Sizes DEF Cmd, Nobody, Ifc
<1>3. CASE curRead = Nobody /\ cmdBuf > 0
  <2>1. curRead' = Cmd /\ curLeft' = LineLen
    BY <1>3 DEF PickLine
  <2>2. JobMessage' = Line
    BY <2>1, Zenon DEF JobMessage, Cmd
  <2>3. Length(Line) = LineLen /\ LineLen \in Nat /\ LineLen >= 1
    BY Lengths, Sizes
  <2>4. JobOK'
    BY <1>2, <1>3, <2>1, <2>2, <2>3 DEF JobOK, Cmd, Nobody, Ifc, Length, Line, Text
  <2>5. Pending' = <<>>
    <3>1. Length(Line)' = LineLen /\ ~ (LineLen < LineLen)
      BY <2>3
    <3>2. Length(JobMessage') = LineLen
      BY <2>2, <2>3, Zenon
    <3>3. ~ (curLeft' < Length(JobMessage'))
      BY <2>1, <2>3, <3>2
    <3>. QED BY <3>3, Zenon DEF Pending
  <2>6. Pending = <<>>
    BY <1>3, Zenon DEF Pending
  <2>. QED BY <1>2, <1>3, <2>1, <2>3, <2>4, <2>5, <2>6
<1>4. CASE ~ (curRead = Nobody /\ cmdBuf > 0)
  <2>1. curRead' = curRead /\ curLeft' = curLeft
    BY <1>4 DEF PickLine
  <2>2. JobMessage' = JobMessage
    BY <2>1, Zenon DEF JobMessage
  <2>3. Pending' = Pending
    BY <2>1, <2>2, Zenon DEF Pending, JobLeft
  <2>4. JobOK'
    BY <2>1, <2>2 DEF DriverInv, JobOK
  <2>. QED BY <1>1, <1>4, <2>1, <2>3, <2>4
<1>. QED BY <1>3, <1>4

LEMMA SendAndPickInv ==
  ASSUME DriverInv, SendAndPick, UNCHANGED <<childVars, opened>>
  PROVE  DriverInv'
<1>1. /\ pc = "send" /\ pc' = "read" /\ SendFrame /\ PickLine
      /\ UNCHANGED <<toChild, fromChild, buftun, cmdBuf, opened, nicIn, typed, open>>
  BY DEF SendAndPick, worldVars
<1>2. UNCHANGED <<alive, childBuf, haveMac, childOut, first>>
  BY ChildStays
<1>3. PICK n \in 0..Len(bufin) : bufin' = Drop(bufin, n) /\ (n > 0 => EndsAt(bufin, n))
  BY <1>1, FrameLeaves
<1>4. /\ curWrite' \in {Nobody} \union Ifc /\ ready' \subseteq ready
      /\ curWrite' \in Ifc => bufin' = bufin /\ curWrite' = curWrite
  BY <1>1, FrameLeaves
<1>5. /\ curRead' \in {Cmd, Nobody} \union Ifc /\ curLeft' \in Nat
      /\ curRead' = Nobody => cmdBuf = 0
      /\ JobOK' /\ Pending' = Pending
  BY <1>1, LinePicked
<1>6. bufin' \in Seq(UnitSet) /\ Len(bufin') <= BufCap
  <2>1. bufin \in Seq(UnitSet) /\ Len(bufin) \in Nat /\ Len(bufin) <= BufCap
    BY Buffers
  <2>2. bufin' \in Seq(UnitSet) /\ Len(bufin') = Len(bufin) - n
    BY <1>3, <2>1, DropIs
  <2>. QED BY <2>1, <2>2, Sizes
<1>7. TypeOK'
  BY <1>1, <1>2, <1>4, <1>5, <1>6 DEF DriverInv, TypeOK
<1>8. OtherTypes'
  BY <1>1, <1>2 DEF DriverInv, OtherTypes
<1>9. SetUpOK'
  BY <1>1 DEF SetUpOK
<1>10. ReadyOK'
  <2>1. ChildIn \notin ready'
    BY <1>1, <1>4 DEF DriverInv, ReadyOK
  <2>. QED BY <1>1, <1>4, <2>1 DEF DriverInv, ReadyOK, RecvFd, ChildIn
<1>11. SendOK'
  BY <1>1, <1>4 DEF DriverInv, SendOK, HasMessage
<1>12. WakeOK'
  BY <1>1, <1>5 DEF WakeOK
<1>13. Inward' = Inward
  BY <1>1, <1>2, <1>5, Zenon DEF Inward
<1>14. IsWhole(Outward') /\ \A k \in 1..Len(Outward') : Outward'[k].msg \in Answer
  <2>1. bufin \in Seq(UnitSet) /\ fromChild \in Seq(UnitSet)
    BY Buffers
  <2>2. (bufin \o fromChild) \o childOut = Outward
    BY DEF Outward
  <2>. QED BY <1>1, <1>2, <1>3, <2>1, <2>2, OutwardDropped
<1>15. StreamsOK'
  BY <1>13, <1>14 DEF DriverInv, StreamsOK
<1>16. MacsOK'
  BY <1>1, <1>2, <1>13 DEF DriverInv, MacsOK
<1>. QED BY <1>5, <1>7, <1>8, <1>9, <1>10, <1>11, <1>12, <1>15, <1>16 DEF DriverInv

\* The texts at the front of a stream that are complete: there is a number of units
\* that is theirs.
LEMMA TextsAre ==
  ASSUME NEW buf, IsStream(buf)
  PROVE  /\ PrintedTexts(buf) \in 0..Len(buf)
         /\ PrintedTexts(buf) > 0 => EndsAt(buf, PrintedTexts(buf))
         /\ \A i \in 1..PrintedTexts(buf) : buf[i].msg = Text
         /\ ~ (HasMessage(Drop(buf, PrintedTexts(buf))) /\ buf[PrintedTexts(buf) + 1].msg = Text)
<1>. DEFINE Complete(k) == /\ \A i \in 1..k : buf[i].msg = Text
                           /\ k > 0 => buf[k].part = TextLen
            T == {k \in 0..Len(buf) : Complete(k)}
            More(k) == HasMessage(Drop(buf, k)) /\ buf[k + 1].msg = Text
<1>1. buf \in Seq(UnitSet) /\ Len(buf) \in Nat
  BY LenProperties DEF IsStream
<1>2. Length(Text) = TextLen /\ TextLen \in Nat /\ TextLen >= 1
  BY Lengths, Sizes
<1>3. ASSUME NEW k \in T, k > 0
      PROVE  EndsAt(buf, k)
  <2>1. k \in 1..k
    BY <1>3
  <2>. QED BY <1>2, <1>3, <2>1 DEF EndsAt
<1>4. PICK k \in T : \A j \in T : j <= k
  <2>1. T \in SUBSET Nat /\ \A j \in T : j <= Len(buf)
    BY <1>1
  <2>2. 0 \in T
    BY <1>1
  <2>3. T # {}
    BY <2>2
  <2>. HIDE DEF T
  <2>. QED BY <1>1, <2>1, <2>3, GreatestNumber
<1>5. ~ More(k)
  <2>. SUFFICES ASSUME More(k) PROVE FALSE
    OBVIOUS
  <2>1. PICK d : d = Drop(buf, k)
    OBVIOUS
  <2>2. k \in 0..Len(buf) /\ (k > 0 => EndsAt(buf, k))
    BY <1>3
  <2>3. IsStream(d)
    BY <2>1, <2>2, RestOfStream
  <2>4. d \in Seq(UnitSet) /\ Len(d) = Len(buf) - k /\ \A i \in 1..(Len(buf) - k) : d[i] = buf[k + i]
    BY <1>1, <2>1, <2>2, DropIs
  <2>5. HasMessage(d) /\ d # <<>>
    BY <2>1 DEF HasMessage
  <2>6. d[1].msg = Text
    <3>1. 1 \in 1..(Len(buf) - k)
      BY <1>1, <2>2, <2>4, <2>5, EmptySeq
    <3>. QED BY <2>4, <3>1
  <2>7. TextLen \in 1..Len(d) /\ \A i \in 1..TextLen : d[i] = Unit(Text, i)
    BY <1>2, <2>3, <2>5, <2>6, FirstOfStream
  <2>8. k + TextLen \in 0..Len(buf) /\ ~ (k + TextLen <= k) /\ k + TextLen > 0
    BY <1>1, <1>2, <2>2, <2>4, <2>7
  <2>9. ASSUME NEW i \in 1..TextLen
        PROVE  buf[k + i].msg = Text /\ buf[k + i].part = i
    <3>1. d[i] = Unit(Text, i) /\ i \in 1..(Len(buf) - k)
      BY <1>1, <1>2, <2>2, <2>4, <2>7
    <3>2. d[i] = buf[k + i]
      BY <2>4, <3>1
    <3>3. Unit(Text, i).msg = Text /\ Unit(Text, i).part = i
      BY UnitFields, Zenon
    <3>. QED BY <3>1, <3>2, <3>3, Zenon
  <2>10. ASSUME NEW i \in 1..(k + TextLen)
         PROVE  buf[i].msg = Text
    <3>1. CASE i <= k
      <4>1. i \in 1..k
        BY <2>2, <3>1
      <4>. QED BY <4>1
    <3>2. CASE i > k
      <4>1. i - k \in 1..TextLen /\ k + (i - k) = i
        BY <1>2, <2>2, <3>2
      <4>. QED BY <2>9, <4>1
    <3>. QED BY <2>2, <3>1, <3>2
  <2>11. buf[k + TextLen].part = TextLen
    BY <1>2, <2>9
  <2>12. k + TextLen \in T
    BY <2>8, <2>10, <2>11
  <2>. HIDE DEF T
  <2>. QED BY <1>4, <2>8, <2>12
<1>6. k \in 0..Len(buf) /\ Complete(k) /\ ~ More(k)
  BY <1>5
<1>7. PrintedTexts(buf) = CHOOSE i \in 0..Len(buf) : Complete(i) /\ ~ More(i)
  BY Zenon DEF PrintedTexts
<1>. HIDE DEF Complete, More
<1>8. PICK p : p = PrintedTexts(buf)
  OBVIOUS
<1>9. p \in 0..Len(buf) /\ Complete(p) /\ ~ More(p)
  BY <1>6, <1>7, <1>8, Zenon
<1>10. p \in T
  BY <1>9
<1>11. \A i \in 1..p : buf[i].msg = Text
  BY <1>9 DEF Complete
<1>. QED BY <1>3, <1>8, <1>9, <1>10, <1>11 DEF More

\* What is left in the buffer after that begins with a complete frame, which is the
\* next to be sent, or there is none.
LEMMA BufferHandled ==
  ASSUME NEW buf, IsStream(buf), \A k \in 1..Len(buf) : buf[k].msg \in Answer,
         HandleBuffer(buf)
  PROVE  /\ \E n \in 0..Len(buf) : /\ bufin' = Drop(buf, n) /\ (n > 0 => EndsAt(buf, n))
                                  /\ \A k \in 1..n : buf[k].msg = Text
         /\ curWrite # Nobody => bufin' = buf /\ curWrite' = curWrite
         /\ curWrite = Nobody =>
              \/ HasMessage(bufin') /\ curWrite' \in Ifc /\ bufin'[1].msg.type = curWrite'
              \/ ~ HasMessage(bufin') /\ curWrite' = Nobody
<1>1. buf \in Seq(UnitSet) /\ Len(buf) \in Nat
  BY LenProperties DEF IsStream
<1>2. CASE curWrite # Nobody
  <2>1. bufin' = buf /\ curWrite' = curWrite
    BY <1>2 DEF HandleBuffer
  <2>2. PICK n \in 0..Len(buf) : n = 0 /\ Drop(buf, n) = buf
    <3>1. 0 \in 0..Len(buf) /\ Drop(buf, 0) = buf
      BY <1>1, DropNothing
    <3>. QED BY <3>1
  <2>3. bufin' = Drop(buf, n) /\ ~ (n > 0) /\ \A k \in 1..n : buf[k].msg = Text
    BY <2>1, <2>2
  <2>. QED BY <1>2, <2>1, <2>3, Zenon
<1>3. CASE curWrite = Nobody
  <2>1. PICK n : n = PrintedTexts(buf)
    OBVIOUS
  <2>2. PICK d : d = Drop(buf, n)
    OBVIOUS
  <2>3. bufin' = d /\ curWrite' = IF HasMessage(d) THEN d[1].msg.type ELSE Nobody
    BY <1>3, <2>1, <2>2, Zenon DEF HandleBuffer
  <2>4. /\ n \in 0..Len(buf) /\ (n > 0 => EndsAt(buf, n))
        /\ ~ (HasMessage(d) /\ buf[n + 1].msg = Text)
        /\ \A k \in 1..n : buf[k].msg = Text
    BY <2>1, <2>2, TextsAre
  <2>5. ASSUME HasMessage(d)
        PROVE  d[1].msg.type \in Ifc
    <3>1. d \in Seq(UnitSet) /\ Len(d) = Len(buf) - n /\ \A k \in 1..(Len(buf) - n) : d[k] = buf[n + k]
      BY <1>1, <2>2, <2>4, DropIs
    <3>2. d # <<>>
      BY <2>5 DEF HasMessage
    <3>3. 1 \in 1..(Len(buf) - n) /\ n + 1 \in 1..Len(buf)
      BY <1>1, <2>4, <3>1, <3>2, EmptySeq
    <3>4. d[1] = buf[n + 1] /\ buf[n + 1].msg \in Answer
      BY <3>1, <3>3
    <3>5. d[1].msg \in Message /\ d[1].msg \notin {Macs, Line, Text}
      BY <2>4, <2>5, <3>4 DEF Answer
    <3>. QED BY <3>5, MessageFields
  <2>. QED BY <1>3, <2>2, <2>3, <2>4, <2>5
<1>. QED BY <1>2, <1>3

LEMMA ReadChildInv ==
  ASSUME DriverInv, ReadChild, UNCHANGED <<childVars, opened>>
  PROVE  DriverInv'
<1>1. pc = "read"
  BY DEF ReadChild
<1>2. CASE ChildOut \in ready /\ fromChild = <<>>
  BY <1>1, <1>2, ReturnInv DEF ReadChild
<1>3. CASE ~ (ChildOut \in ready /\ fromChild = <<>>)
  <2>1. PICK n \in Amounts(IF ChildOut \in ready THEN Len(fromChild) ELSE 0, BufCap - Len(bufin)) :
          HandleBuffer(bufin \o Take(fromChild, n)) /\ fromChild' = Drop(fromChild, n)
    BY <1>3, Zenon DEF ReadChild
  <2>2. /\ pc' = "recv" /\ ready' = ready \ {ChildOut}
        /\ UNCHANGED <<toChild, buftun, cmdBuf, curRead, curLeft, opened, nicIn, typed, open>>
    BY <1>3 DEF ReadChild, worldVars
  <2>3. UNCHANGED <<alive, childBuf, haveMac, childOut, first>>
    BY ChildStays
  <2>out. PICK c \in Seq(UnitSet) : c = childOut
    BY Buffers
  <2>4. PICK o \in Seq(UnitSet), f \in Seq(UnitSet) :
          /\ o = bufin /\ f = fromChild
          /\ Len(o) \in Nat /\ Len(o) <= BufCap /\ Len(f) \in Nat /\ Len(f) <= PipeCap
    BY Buffers
  <2>5. n \in 0..Len(f) /\ n <= BufCap - Len(o)
    <3>1. BufCap - Len(o) \in Nat
      BY <2>4, Sizes
    <3>2. CASE ChildOut \in ready
      BY <2>1, <2>4, <3>1, <3>2, AmountsAre
    <3>3. CASE ChildOut \notin ready
      <4>1. n \in Amounts(0, BufCap - Len(o))
        BY <2>1, <2>4, <3>3
      <4>. QED BY <2>4, <3>1, <4>1, AmountsAre
    <3>. QED BY <3>2, <3>3
  <2>6. PICK buf \in Seq(UnitSet), b \in Seq(UnitSet) :
          /\ buf = o \o Take(f, n) /\ Len(buf) = Len(o) + n
          /\ b = Drop(f, n) /\ Len(b) = Len(f) - n
          /\ buf \o b = o \o f
    <3>1. PICK u : u = o \o Take(f, n)
      OBVIOUS
    <3>2. PICK v : v = Drop(f, n)
      OBVIOUS
    <3>3. /\ u \in Seq(UnitSet) /\ Len(u) = Len(o) + n
          /\ v \in Seq(UnitSet) /\ Len(v) = Len(f) - n
          /\ u \o v = o \o f
      BY <2>5, <3>1, <3>2, Moved, Zenon
    <3>. QED BY <3>1, <3>2, <3>3, Zenon
  <2>7. HandleBuffer(buf) /\ fromChild' = b
    BY <2>1, <2>4, <2>6
  <2>8. (buf \o b) \o c = Outward
    BY <2>out, <2>4, <2>6, Zenon DEF Outward
  <2>9. IsWhole((buf \o b) \o c) /\ \A k \in 1..Len(Outward) : Outward[k].msg \in Answer
    BY <2>8 DEF DriverInv, StreamsOK
  <2>10. IsStream(buf)
    BY <2>9, FrontOfThree
  <2>11. ASSUME NEW k \in 1..Len(buf)
         PROVE  buf[k].msg \in Answer
    <3>1. k \in 1..Len((buf \o b) \o c) /\ ((buf \o b) \o c)[k] = buf[k]
      BY UnitsOfFront
    <3>. QED BY <2>8, <2>9, <3>1
  <2>12. PICK p \in 0..Len(buf) : bufin' = Drop(buf, p) /\ (p > 0 => EndsAt(buf, p))
    BY <2>7, <2>10, <2>11, BufferHandled
  <2>13. /\ curWrite # Nobody => bufin' = buf /\ curWrite' = curWrite
         /\ curWrite = Nobody =>
              \/ HasMessage(bufin') /\ curWrite' \in Ifc /\ bufin'[1].msg.type = curWrite'
              \/ ~ HasMessage(bufin') /\ curWrite' = Nobody
    BY <2>7, <2>10, <2>11, BufferHandled
  <2>14. bufin' \in Seq(UnitSet) /\ Len(bufin') <= BufCap
    <3>1. PICK d : d = Drop(buf, p)
      OBVIOUS
    <3>2. d \in Seq(UnitSet) /\ Len(d) = Len(buf) - p /\ Len(buf) \in Nat
      BY <3>1, DropIs, LenProperties
    <3>3. Len(d) <= BufCap
      BY <2>4, <2>5, <2>6, <3>2, Sizes
    <3>. QED BY <2>12, <3>1, <3>2, <3>3
  <2>15. fromChild' \in Seq(UnitSet) /\ Len(fromChild') <= PipeCap
    BY <2>4, <2>5, <2>6, <2>7, Sizes
  <2>16. curWrite' \in {Nobody} \union Ifc
    BY <2>13 DEF DriverInv, TypeOK
  <2>17. TypeOK'
    BY <2>2, <2>3, <2>14, <2>15, <2>16 DEF DriverInv, TypeOK
  <2>18. OtherTypes'
    BY <2>2, <2>3 DEF DriverInv, OtherTypes
  <2>19. SetUpOK'
    BY <2>2 DEF SetUpOK
  <2>20. JobMessage' = JobMessage
    BY <2>2, Zenon DEF JobMessage
  <2>21. JobOK'
    BY <2>2, <2>20 DEF DriverInv, JobOK
  <2>22. ReadyOK'
    <3>1. ChildIn \notin ready
      BY <1>1 DEF DriverInv, ReadyOK
    <3>. QED BY <2>2, <3>1 DEF DriverInv, ReadyOK, RecvFd, ChildIn
  <2>23. SendOK'
    <3>1. ASSUME curWrite' \in Ifc
          PROVE  HasMessage(bufin') /\ bufin'[1].msg.type = curWrite'
      <4>1. CASE curWrite = Nobody
        <5>1. Nobody \notin Ifc
          BY Sizes DEF Nobody, Ifc
        <5>. QED BY <2>13, <3>1, <4>1, <5>1
      <4>2. CASE curWrite # Nobody
        <5>1. bufin' = buf /\ curWrite' = curWrite
          BY <2>13, <4>2
        <5>2. HasMessage(o) /\ o[1].msg.type = curWrite
          BY <2>4, <3>1, <5>1 DEF DriverInv, SendOK
        <5>3. PICK a \in Seq(UnitSet) : a = Take(f, n)
          BY <2>5, TakeIs
        <5>4. PICK u \in Seq(UnitSet) : IsJoined(u, o, a)
          BY Joined
        <5>5. u = buf
          BY <2>6, <5>3, <5>4 DEF IsJoined
        <5>6. o # <<>> /\ Len(o) >= Length(o[1].msg)
          BY <5>2 DEF HasMessage
        <5>7. Len(o) >= 1 /\ o[1] \in UnitSet
          BY <2>4, <5>6, EmptySeq, ElementOfSeq
        <5>8. Length(o[1].msg) \in Nat
          BY <5>7, UnitFields, Lengths
        <5>9. buf[1] = o[1] /\ Len(buf) >= Length(o[1].msg) /\ buf # <<>>
          BY <2>4, <2>5, <2>6, <5>4, <5>5, <5>6, <5>7, <5>8, EmptySeq DEF IsJoined
        <5>. QED BY <5>1, <5>2, <5>9 DEF HasMessage
      <4>. QED BY <4>1, <4>2
    <3>2. curWrite' = Nobody => ~ HasMessage(bufin')
      <4>1. Nobody \notin Ifc
        BY Sizes DEF Nobody, Ifc
      <4>. QED BY <2>13, <4>1
    <3>. QED BY <3>1, <3>2 DEF SendOK, HasMessage
  <2>24. WakeOK'
    BY <1>1, <2>2 DEF DriverInv, WakeOK
  <2>25. Pending' = Pending
    BY <2>2, <2>20, Zenon DEF Pending, JobLeft
  <2>26. Inward' = Inward
    BY <2>2, <2>3, <2>25, Zenon DEF Inward
  <2>27. IsWhole(Outward') /\ \A k \in 1..Len(Outward') : Outward'[k].msg \in Answer
    <3>1. (buf \o b) \o childOut = Outward
      BY <2>out, <2>8
    <3>. QED BY <2>3, <2>7, <2>12, <3>1, OutwardDropped
  <2>28. StreamsOK'
    BY <2>26, <2>27 DEF DriverInv, StreamsOK
  <2>29. MacsOK'
    BY <1>1, <2>2, <2>3, <2>26 DEF DriverInv, MacsOK
  <2>. QED BY <2>17, <2>18, <2>19, <2>21, <2>22, <2>23, <2>24, <2>28, <2>29 DEF DriverInv
<1>. QED BY <1>2, <1>3

\* The buffers that are free take the first frame of their interface, the others
\* keep theirs.
LEMMA FramesReceived ==
  ASSUME DriverInv, ReceiveFrames
  PROVE  /\ buftun' \in [Ifc -> Tag \union {"none"}] /\ nicIn' \in [Ifc -> Seq(Tag)]
         /\ \A p \in Ifc : buftun[p] # "none" => buftun'[p] = buftun[p]
<1>1. /\ buftun' = [p \in Ifc |-> IF RecvFd(p) \in ready THEN Head(nicIn[p]) ELSE buftun[p]]
      /\ nicIn' = [p \in Ifc |-> IF RecvFd(p) \in ready THEN Tail(nicIn[p]) ELSE nicIn[p]]
  BY DEF ReceiveFrames
<1>2. /\ buftun \in [Ifc -> Tag \union {"none"}] /\ nicIn \in [Ifc -> Seq(Tag)]
      /\ \A p \in Ifc : RecvFd(p) \in ready => buftun[p] = "none" /\ nicIn[p] # <<>>
  BY DEF DriverInv, TypeOK, OtherTypes, ReadyOK
<1>3. ASSUME NEW p \in Ifc, RecvFd(p) \in ready
      PROVE  Head(nicIn[p]) \in Tag /\ Tail(nicIn[p]) \in Seq(Tag)
  <2>1. nicIn[p] \in Seq(Tag) /\ nicIn[p] # <<>>
    BY <1>2, <1>3
  <2>2. PICK s \in Seq(Tag) : s = nicIn[p] /\ s # <<>>
    BY <2>1
  <2>3. Head(s) \in Tag /\ Tail(s) \in Seq(Tag)
    BY <2>2, HeadTailProperties
  <2>. QED BY <2>2, <2>3
<1>4. ASSUME NEW p \in Ifc
      PROVE  /\ (IF RecvFd(p) \in ready THEN Head(nicIn[p]) ELSE buftun[p]) \in Tag \union {"none"}
             /\ (IF RecvFd(p) \in ready THEN Tail(nicIn[p]) ELSE nicIn[p]) \in Seq(Tag)
  <2>1. CASE RecvFd(p) \in ready
    BY <1>3, <2>1, Zenon
  <2>2. CASE RecvFd(p) \notin ready
    <3>1. buftun[p] \in Tag \union {"none"} /\ nicIn[p] \in Seq(Tag)
      BY <1>2
    <3>. QED BY <2>2, <3>1, Zenon
  <2>. QED BY <2>1, <2>2
<1>5. buftun' \in [Ifc -> Tag \union {"none"}] /\ nicIn' \in [Ifc -> Seq(Tag)]
  BY <1>1, <1>4, Zenon
<1>6. ASSUME NEW p \in Ifc, buftun[p] # "none"
      PROVE  buftun'[p] = buftun[p]
  BY <1>1, <1>2, <1>6, Zenon
<1>. QED BY <1>5, <1>6

LEMMA FirstIs ==
  ASSUME WithFrame # {}
  PROVE  FirstOf(WithFrame) \in WithFrame
<1>1. WithFrame \in SUBSET Nat
  BY Sizes DEF WithFrame, Ifc
<1>2. PICK S \in SUBSET Nat : S = WithFrame
  BY <1>1
<1>3. \E p \in S : \A q \in S : p <= q
  BY <1>2, LeastNumber
<1>4. FirstOf(S) \in S
  BY <1>3, Zenon DEF FirstOf
<1>. QED BY <1>2, <1>4

LEMMA ReceiveFramesInv ==
  ASSUME DriverInv, ReceiveFrames, UNCHANGED <<childVars, opened>>
  PROVE  DriverInv'
<1>1. /\ pc = "recv" /\ pc' = "select" /\ ready' = {}
      /\ IF curRead = Nobody /\ WithFrame # {}
         THEN curRead' = FirstOf(WithFrame) /\ curLeft' = FrameLen
         ELSE UNCHANGED <<curRead, curLeft>>
      /\ UNCHANGED <<toChild, fromChild, cmdBuf, bufin, curWrite, typed, open, opened>>
  BY DEF ReceiveFrames
<1>2. UNCHANGED <<alive, childBuf, haveMac, childOut, first>>
  BY ChildStays
<1>3. /\ buftun' \in [Ifc -> Tag \union {"none"}] /\ nicIn' \in [Ifc -> Seq(Tag)]
      /\ \A p \in Ifc : buftun[p] # "none" => buftun'[p] = buftun[p]
  BY FramesReceived
<1>4. Cmd # Nobody /\ Cmd \notin Ifc /\ Nobody \notin Ifc
  BY Sizes DEF Cmd, Nobody, Ifc
<1>5. /\ curRead' \in {Cmd, Nobody} \union Ifc /\ curLeft' \in Nat
      /\ JobOK' /\ Pending' = Pending
      /\ curRead' = Nobody => curRead = Nobody /\ \A p \in Ifc : buftun'[p] = "none"
  <2>1. CASE curRead = Nobody /\ WithFrame # {}
    <3>1. PICK w \in Ifc : w = FirstOf(WithFrame) /\ buftun'[w] # "none"
      BY <2>1, FirstIs DEF WithFrame
    <3>2. curRead' = w /\ curLeft' = FrameLen
      BY <1>1, <2>1, <3>1
    <3>3. PICK t \in Tag : t = buftun'[w]
      BY <1>3, <3>1
    <3>4. JobMessage' = Frame(w, t)
      BY <1>4, <3>2, <3>3, Zenon DEF JobMessage
    <3>5. Length(Frame(w, t)) = FrameLen /\ FrameLen \in Nat /\ FrameLen >= 1
      BY Lengths, Sizes
    <3>6. Length(JobMessage') = FrameLen
      BY <3>4, <3>5, Zenon
    <3>7. curLeft' \in 1..Length(JobMessage') /\ ~ (curLeft' < Length(JobMessage'))
      BY <3>2, <3>5, <3>6
    <3>8. JobOK'
      BY <1>4, <3>1, <3>2, <3>7 DEF JobOK, Length, Cmd, Nobody, Ifc, Text
    <3>9. Pending' = <<>>
      BY <3>7, Zenon DEF Pending
    <3>10. Pending = <<>>
      BY <2>1, Zenon DEF Pending
    <3>. QED BY <1>4, <3>2, <3>5, <3>8, <3>9, <3>10
  <2>2. CASE ~ (curRead = Nobody /\ WithFrame # {})
    <3>1. curRead' = curRead /\ curLeft' = curLeft
      BY <1>1, <2>2
    <3>2. curRead \in {Cmd, Nobody} \union Ifc /\ curLeft \in Nat
      BY DEF DriverInv, TypeOK
    <3>3. CASE curRead = Nobody
      <4>1. Pending' = <<>> /\ Pending = <<>>
        BY <3>1, <3>3, Zenon DEF Pending
      <4>2. JobOK'
        BY <1>4, <3>1, <3>3 DEF JobOK, Cmd, Nobody, Ifc
      <4>3. \A p \in Ifc : buftun'[p] = "none"
        BY <2>2, <3>3 DEF WithFrame
      <4>. QED BY <3>1, <3>2, <3>3, <4>1, <4>2, <4>3
    <3>4. CASE curRead # Nobody
      <4>1. JobMessage' = JobMessage
        <5>1. CASE curRead = Cmd
          BY <3>1, <5>1, Zenon DEF JobMessage
        <5>2. CASE curRead # Cmd
          <6>1. curRead \in Ifc
            BY <3>2, <3>4, <5>2
          <6>2. buftun'[curRead] = buftun[curRead]
            BY <1>3, <6>1 DEF DriverInv, JobOK
          <6>. QED BY <3>1, <5>2, <6>2, Zenon DEF JobMessage
        <5>. QED BY <5>1, <5>2
      <4>2. Pending' = Pending
        BY <3>1, <4>1, Zenon DEF Pending, JobLeft
      <4>3. JobOK'
        <5>1. curRead' \in Ifc => buftun'[curRead'] # "none"
          BY <1>3, <3>1 DEF DriverInv, JobOK
        <5>. QED BY <1>1, <3>1, <4>1, <5>1 DEF DriverInv, JobOK
      <4>. QED BY <3>1, <3>2, <3>4, <4>2, <4>3
    <3>. QED BY <3>3, <3>4
  <2>. QED BY <2>1, <2>2
<1>6. TypeOK'
  BY <1>1, <1>2, <1>3, <1>5 DEF DriverInv, TypeOK
<1>7. OtherTypes'
  BY <1>1, <1>2, <1>3 DEF DriverInv, OtherTypes
<1>8. SetUpOK'
  BY <1>1 DEF SetUpOK
<1>9. ReadyOK'
  BY <1>1 DEF ReadyOK
<1>10. SendOK'
  BY <1>1 DEF DriverInv, SendOK, HasMessage
<1>11. WakeOK'
  BY <1>1, <1>5 DEF DriverInv, WakeOK
<1>12. Inward' = Inward /\ Outward' = Outward
  BY <1>1, <1>2, <1>5, Zenon DEF Inward, Outward
<1>13. StreamsOK'
  BY <1>12 DEF DriverInv, StreamsOK
<1>14. MacsOK'
  BY <1>1, <1>2, <1>12 DEF DriverInv, MacsOK
<1>. QED BY <1>5, <1>6, <1>7, <1>8, <1>9, <1>10, <1>11, <1>13, <1>14 DEF DriverInv
-----------------------------------------------------------------------------
(* The world, and the invariant                                            *)

\* Arrivals only add to what waits on an interface.
LEMMA WorldInv ==
  ASSUME DriverInv, UNCHANGED <<toChild, fromChild, childVars, pc, opened, ready, runVars>>,
         nicIn' \in [Ifc -> Seq(Tag)], \A p \in Ifc : nicIn[p] # <<>> => nicIn'[p] # <<>>,
         typed' \in Nat, open' \in BOOLEAN
  PROVE  DriverInv'
<1>1. /\ UNCHANGED <<alive, childBuf, haveMac, childOut, first, buftun, cmdBuf, curRead,
                      curLeft, bufin, curWrite>>
      /\ Pending' = Pending
  BY BuffersStay, ChildStays
<1>2. TypeOK'
  BY <1>1 DEF DriverInv, TypeOK
<1>3. OtherTypes'
  BY <1>1 DEF DriverInv, OtherTypes
<1>4. SetUpOK'
  BY <1>1 DEF DriverInv, SetUpOK
<1>5. JobOK'
  BY BuffersStay DEF DriverInv
<1>6. ReadyOK'
  BY <1>1 DEF DriverInv, ReadyOK, RecvFd, ChildIn
<1>7. SendOK'
  BY <1>1 DEF DriverInv, SendOK, HasMessage
<1>8. WakeOK'
  BY <1>1 DEF DriverInv, WakeOK
<1>9. Inward' = Inward /\ Outward' = Outward
  BY <1>1, Zenon DEF Inward, Outward
<1>10. StreamsOK'
  BY <1>9 DEF DriverInv, StreamsOK
<1>11. MacsOK'
  BY <1>1, <1>9 DEF DriverInv, MacsOK
<1>. QED BY <1>2, <1>3, <1>4, <1>5, <1>6, <1>7, <1>8, <1>10, <1>11 DEF DriverInv

LEMMA InitInv == Init => DriverInv
<1>. SUFFICES ASSUME Init PROVE DriverInv
  OBVIOUS
<1>1. /\ toChild = <<>> /\ fromChild = <<>> /\ childBuf = <<>> /\ childOut = <<>>
      /\ alive = TRUE /\ haveMac = FALSE /\ first = Text
  BY DEF Init, ChildInit
<1>2. /\ pc = "start" /\ opened = 0 /\ ready = {} /\ buftun = [p \in Ifc |-> "none"]
      /\ cmdBuf = 0 /\ curRead = Nobody /\ curLeft = 0 /\ bufin = <<>> /\ curWrite = Nobody
      /\ nicIn = [p \in Ifc |-> <<>>] /\ typed = 0 /\ open = TRUE
  BY DEF Init, DriverInit
<1>3. Nobody \notin Ifc /\ Nobody # Cmd /\ CmdCap \in Nat
  BY Sizes, DriverAssumption DEF Nobody, Cmd, Ifc
<1>4. <<>> \in Seq(UnitSet) /\ Len(<<>>) = 0 /\ <<>> \in Seq(Tag)
  BY EmptySeq
<1>5. TypeOK
  BY <1>1, <1>2, <1>3, <1>4, Sizes DEF TypeOK
<1>6. OtherTypes
  BY <1>1, <1>2, <1>4, Lengths DEF OtherTypes
<1>7. SetUpOK
  BY <1>1, <1>2 DEF SetUpOK
<1>8. JobOK
  BY <1>2, <1>3 DEF JobOK
<1>9. ReadyOK
  BY <1>2 DEF ReadyOK
<1>10. SendOK
  BY <1>2, <1>3 DEF SendOK, HasMessage
<1>11. WakeOK
  BY <1>2 DEF WakeOK
<1>12. Inward = <<>> /\ Outward = <<>>
  <2>1. Pending = <<>>
    BY <1>2, Zenon DEF Pending
  <2>2. <<>> \o <<>> = <<>>
    OBVIOUS
  <2>. QED BY <1>1, <1>2, <2>1, <2>2, Zenon DEF Inward, Outward
<1>13. StreamsOK
  BY <1>4, <1>12, EmptyIsWhole DEF StreamsOK
<1>14. MacsOK
  BY <1>1, <1>2, <1>12 DEF MacsOK
<1>. QED BY <1>5, <1>6, <1>7, <1>8, <1>9, <1>10, <1>11, <1>13, <1>14 DEF DriverInv

LEMMA NextInv ==
  ASSUME DriverInv, [Next]_vars
  PROVE  DriverInv'
<1>1. CASE Driver
  <2>1. DriverStep(alive) /\ UNCHANGED childVars
    BY <1>1 DEF Driver
  <2>2. CASE SetUp(alive)
    BY <2>1, <2>2, SetUpInv
  <2>3. CASE Run(alive)
    <3>1. UNCHANGED <<childVars, opened>>
      BY <2>1, <2>3 DEF Run
    <3>2. \/ Select(alive) \/ ReadStdin \/ WriteChild(alive)
          \/ SendAndPick \/ ReadChild \/ ReceiveFrames
      BY <2>3 DEF Run
    <3>3. CASE Select(alive)
      BY <3>1, <3>3, SelectInv
    <3>4. CASE ReadStdin
      BY <3>1, <3>4, ReadStdinInv
    <3>5. CASE WriteChild(alive)
      BY <3>1, <3>5, WriteChildInv
    <3>6. CASE SendAndPick
      BY <3>1, <3>6, SendAndPickInv
    <3>7. CASE ReadChild
      BY <3>1, <3>7, ReadChildInv
    <3>8. CASE ReceiveFrames
      BY <3>1, <3>8, ReceiveFramesInv
    <3>. QED BY <3>2, <3>3, <3>4, <3>5, <3>6, <3>7, <3>8
  <2>. QED BY <2>1, <2>2, <2>3 DEF DriverStep
<1>2. CASE Child
  BY <1>2, ReadInv, HandleInv, WriteInv DEF Child, ChildStep
<1>3. CASE Network
  <2>1. PICK p \in Ifc, t \in Tag : Arrive(p, t)
    BY <1>3 DEF Network
  <2>2. /\ UNCHANGED <<toChild, fromChild, childVars, pc, opened, ready, runVars, typed, open>>
        /\ nicIn' = [nicIn EXCEPT ![p] = Append(@, t)]
    BY <1>3, <2>1 DEF Network, Arrive
  <2>3. nicIn \in [Ifc -> Seq(Tag)] /\ typed \in Nat /\ open \in BOOLEAN
    BY DEF DriverInv, OtherTypes
  <2>4. PICK s \in Seq(Tag) : s = Append(nicIn[p], t) /\ s # <<>>
    <3>1. PICK r \in Seq(Tag) : r = nicIn[p]
      BY <2>3
    <3>2. Append(r, t) \in Seq(Tag) /\ Append(r, t) # <<>>
      BY AppendProperties
    <3>. QED BY <3>1, <3>2
  <2>5. nicIn' = [nicIn EXCEPT ![p] = s]
    BY <2>2, <2>4
  <2>6. nicIn' \in [Ifc -> Seq(Tag)] /\ \A q \in Ifc : nicIn[q] # <<>> => nicIn'[q] # <<>>
    BY <2>3, <2>4, <2>5
  <2>. QED BY <2>2, <2>3, <2>6, WorldInv
<1>4. CASE User
  <2>1. /\ UNCHANGED <<toChild, fromChild, childVars, pc, opened, ready, runVars, nicIn>>
        /\ typed' \in {1, typed} /\ open' \in {FALSE, open}
    BY <1>4 DEF User, TypeLine, CloseInput
  <2>2. nicIn \in [Ifc -> Seq(Tag)] /\ typed \in Nat /\ open \in BOOLEAN
    BY DEF DriverInv, OtherTypes
  <2>3. /\ nicIn' \in [Ifc -> Seq(Tag)] /\ \A p \in Ifc : nicIn[p] # <<>> => nicIn'[p] # <<>>
        /\ typed' \in Nat /\ open' \in BOOLEAN
    <3>1. nicIn' = nicIn /\ 1 \in Nat /\ FALSE \in BOOLEAN
      BY <2>1
    <3>. QED BY <2>1, <2>2, <3>1
  <2>. QED BY <2>1, <2>3, WorldInv
<1>5. CASE Crash
  <2>1. /\ UNCHANGED <<toChild, fromChild, childBuf, haveMac, childOut, first, driverVars>>
        /\ alive' \in BOOLEAN
    BY <1>5 DEF Crash, ChildDie
  <2>. QED BY <2>1, CrashInv
<1>6. CASE KillChild
  BY <1>6, KillInv
<1>7. CASE UNCHANGED vars
  <2>1. /\ UNCHANGED <<toChild, fromChild, childVars, driverVars>>
    BY <1>7 DEF vars
  <2>2. UNCHANGED <<alive, childBuf, haveMac, childOut, first>>
    BY <2>1, ChildStays
  <2>3. alive' \in BOOLEAN
    BY <2>2 DEF DriverInv, OtherTypes
  <2>. QED BY <2>1, <2>2, <2>3, CrashInv
<1>. QED BY <1>1, <1>2, <1>3, <1>4, <1>5, <1>6, <1>7 DEF Next, Done

LEMMA InvHolds == Spec => []DriverInv
<1>. QED BY InitInv, NextInv, PTL DEF Spec
-----------------------------------------------------------------------------
(* Theorems                                                                *)

\* Buffers, pipes and descriptors stay what the code takes them for: no buffer and
\* no pipe ever holds more than it has room for.
THEOREM TypeCorrect == Spec => []TypeOK
<1>. QED BY InvHolds, PTL DEF DriverInv

\* what the program has of frames before it has the MAC addresses
NothingSeen == haveMac \in BOOLEAN /\ (~ haveMac => seen = <<>>)

LEMMA NothingSeenStep ==
  ASSUME DriverInv, NothingSeen, [Next]_vars
  PROVE  NothingSeen'
<1>1. CASE UNCHANGED <<haveMac, seen>>
  BY <1>1 DEF NothingSeen
<1>2. CASE Child
  <2>1. CASE ChildHandle
    BY <2>1, HandleHasMacs DEF NothingSeen
  <2>2. CASE ChildRead(~ Gone)
    BY <1>1, <2>2 DEF ChildRead
  <2>3. CASE ChildWrite(~ Gone)
    BY <1>1, <2>3 DEF ChildWrite
  <2>. QED BY <1>2, <2>1, <2>2, <2>3 DEF Child, ChildStep
<1>3. CASE Crash
  BY <1>1, <1>3 DEF Crash, ChildDie
<1>4. CASE KillChild
  BY <1>1, <1>4 DEF KillChild
<1>5. CASE UNCHANGED childVars
  BY <1>1, <1>5, ChildStays
<1>6. CASE Driver \/ Network \/ User \/ Done \/ UNCHANGED vars
  BY <1>5, <1>6, Zenon DEF Driver, Network, User, Done, vars
<1>. QED BY <1>2, <1>3, <1>4, <1>6 DEF Next

\* nprj1.tex:274-278: whatever arrives, is typed or fails before, the message from
\* which the program reads its MAC addresses is the one with the MAC addresses, and
\* it handles no frame before.
THEOREM MacsComeFirst == Spec => []MacsFirst
<1>1. Init => NothingSeen
  BY DEF Init, ChildInit, NothingSeen
<1>2. DriverInv /\ NothingSeen /\ [Next]_vars => NothingSeen'
  BY NothingSeenStep
<1>3. DriverInv /\ NothingSeen => MacsFirst
  BY DEF DriverInv, MacsOK, NothingSeen, MacsFirst
<1>. QED BY <1>1, <1>2, <1>3, InvHolds, PTL DEF Spec

\* select() is never called with a command line or a frame for the child that is not
\* a job, while there is none, nor with a complete frame of the child that is not
\* about to be sent: the wake-up that it waits for is not one it has already had.
THEOREM NoWakeupIsLost == Spec => []NoLostWakeup
<1>1. DriverInv => NoLostWakeup
  BY DEF DriverInv, WakeOK, SendOK, NoLostWakeup
<1>. QED BY <1>1, InvHolds, PTL
-----------------------------------------------------------------------------
(* Writing to the child without waiting                                    *)

\* Messages of the usual sizes: an Ethernet frame or a command line is smaller than
\* PIPE_BUF (4096 bytes on Linux).
SmallMessages == FrameLen <= PipeBuf /\ LineLen <= PipeBuf

\* What select() found of the pipe to the child lasts until the driver writes.
RoomLasts == ChildIn \in ready /\ alive => Room(toChild) >= PipeBuf

LEMMA WriteAccepts ==
  ASSUME SmallMessages, DriverInv, RoomLasts, pc = "write", alive
  PROVE  Accepted(toChild, JobMessage, curLeft) = curLeft
<1>1. curRead # Nobody /\ Room(toChild) >= PipeBuf
  BY DEF DriverInv, ReadyOK, RoomLasts
<1>2. JobMessage \in Message /\ Length(JobMessage) \in Nat /\ curLeft \in 1..Length(JobMessage)
  BY <1>1, JobIsMessage, Lengths DEF DriverInv, JobOK
<1>3. Length(JobMessage) <= PipeBuf
  <2>1. CASE curRead = Cmd
    <3>1. JobMessage = Line
      BY <2>1, Zenon DEF JobMessage
    <3>. QED BY <3>1, Lengths DEF SmallMessages
  <2>2. CASE curRead # Cmd
    <3>1. JobMessage = Frame(curRead, buftun[curRead]) /\ curRead \in Ifc
      BY <1>1, <2>2 DEF JobMessage, DriverInv, TypeOK
    <3>2. buftun[curRead] \in Tag
      BY <3>1 DEF DriverInv, TypeOK, JobOK
    <3>3. Length(JobMessage) = FrameLen
      BY <3>1, <3>2, Lengths
    <3>. QED BY <3>3 DEF SmallMessages
  <2>. QED BY <2>1, <2>2
<1>4. curLeft <= Room(toChild) /\ ~ (Room(toChild) < curLeft) /\ Room(toChild) \in Int
  BY <1>1, <1>2, <1>3, Buffers, Sizes DEF Room
<1>. QED BY <1>4 DEF Accepted, Least

\* A step that does not fill the pipe keeps the room.
LEMMA RoomStays ==
  ASSUME RoomLasts, DriverInv,
         ChildIn \in ready' => ChildIn \in ready, alive' => alive,
         toChild' = toChild \/ Len(toChild') \in 0..Len(toChild)
  PROVE  RoomLasts'
<1>1. Len(toChild) \in Nat
  BY Buffers
<1>. QED BY <1>1, Sizes DEF RoomLasts, Room, ChildIn

LEMMA RoomInv ==
  ASSUME SmallMessages, DriverInv, RoomLasts, [Next]_vars
  PROVE  RoomLasts'
<1>1. CASE Driver
  <2>1. DriverStep(alive) /\ alive' = alive
    BY <1>1, ChildStays DEF Driver
  <2>2. CASE SetUp(alive)
    <3>1. ready' = ready /\ pc \in {"start", "privileges"}
      BY <2>2 DEF SetUp, InitTun, InitTunFails, SendMacs, DropPrivileges,
                  DropPrivilegesFails, CleanUp
    <3>2. ChildIn \notin ready'
      BY <3>1 DEF DriverInv, ReadyOK
    <3>. QED BY <3>2 DEF RoomLasts, ChildIn
  <2>3. CASE Select(alive)
    <3>1. toChild' = toChild /\ \A fd \in ready' : IsReady(fd, alive)
      BY <2>3 DEF Select
    <3>2. IsReady(ChildIn, alive) => Room(toChild) >= PipeBuf \/ ~ alive
      BY Descriptors DEF IsReady, ChildIn, Stdin, ChildOut
    <3>. QED BY <2>1, <3>1, <3>2 DEF RoomLasts, Room, ChildIn
  <2>4. CASE WriteChild(alive)
    <3>1. CASE ~ alive
      BY <2>1, <3>1 DEF RoomLasts
    <3>2. CASE alive
      <4>1. pc = "write"
        BY <2>4 DEF WriteChild
      <4>2. Accepted(toChild, JobMessage, curLeft) = curLeft
        BY <3>2, <4>1, WriteAccepts
      <4>3. ready' = ready \ {ChildIn}
        BY <2>4, <3>2, <4>2 DEF WriteChild
      <4>. QED BY <4>3 DEF RoomLasts, ChildIn
    <3>. QED BY <3>1, <3>2
  <2>5. CASE ReadStdin \/ SendAndPick \/ ReadChild \/ ReceiveFrames
    <3>1. toChild' = toChild /\ ready' \subseteq ready
      BY <2>5 DEF ReadStdin, SendAndPick, SendFrame, ReadChild, ReceiveFrames, Return
    <3>. QED BY <2>1, <3>1, RoomStays
  <2>. QED BY <2>1, <2>2, <2>3, <2>4, <2>5 DEF DriverStep, Run
<1>2. CASE Child
  <2>1. ready' = ready
    BY <1>2, DriverStays DEF Child
  <2>2. CASE ChildRead(~ Gone)
    <3>1. PICK n \in Amounts(Len(toChild), BufCap - Len(childBuf)) : toChild' = Drop(toChild, n)
      BY <2>2 DEF ChildRead
    <3>2. n \in 0..Len(toChild)
      BY Buffers, Sizes, AmountsAre
    <3>3. Len(toChild') \in 0..Len(toChild)
      <4>1. toChild \in Seq(UnitSet) /\ Len(toChild) \in Nat
        BY Buffers
      <4>2. Len(toChild') = Len(toChild) - n
        BY <3>1, <3>2, <4>1, DropIs
      <4>. QED BY <3>2, <4>1, <4>2
    <3>4. alive
      BY <2>2 DEF ChildRead
    <3>. QED BY <2>1, <3>3, <3>4, RoomStays
  <2>3. CASE ChildHandle \/ ChildWrite(~ Gone)
    <3>1. toChild' = toChild /\ alive
      BY <2>3 DEF ChildHandle, ChildWrite
    <3>. QED BY <2>1, <3>1, RoomStays
  <2>. QED BY <1>2, <2>2, <2>3 DEF Child, ChildStep
<1>3. CASE Network \/ User
  <2>1. UNCHANGED <<toChild, ready, childVars>>
    BY <1>3 DEF Network, User, Arrive, TypeLine, CloseInput
  <2>. QED BY <2>1, ChildStays, RoomStays
<1>4. CASE Crash \/ KillChild
  <2>1. alive' = FALSE
    BY <1>4 DEF Crash, ChildDie, KillChild
  <2>. QED BY <2>1 DEF RoomLasts
<1>5. CASE UNCHANGED vars
  <2>1. UNCHANGED <<toChild, ready, alive>>
    BY <1>5 DEF vars, driverVars, childVars
  <2>. QED BY <2>1, RoomStays
<1>. QED BY <1>1, <1>2, <1>3, <1>4, <1>5 DEF Next, Done

\* network-driver.c:484: with messages of the usual sizes the driver never waits in
\* write(), where it would not serve the pipe its child may be waiting on.
THEOREM WritesDoNotBlock ==
  ASSUME SmallMessages
  PROVE  Spec => []WriteNeverBlocks
<1>1. Init => RoomLasts
  BY DEF Init, DriverInit, RoomLasts
<1>2. DriverInv /\ RoomLasts /\ [Next]_vars => RoomLasts'
  BY RoomInv
<1>3. DriverInv /\ RoomLasts => WriteNeverBlocks
  BY WriteAccepts DEF WriteNeverBlocks
<1>. QED BY <1>1, <1>2, <1>3, InvHolds, PTL DEF Spec
-----------------------------------------------------------------------------
(* The tagged frames of a stream                                           *)

\* A frame counts at its last unit.
tagOfUnit == [u \in UnitSet |-> IF u.part = Length(u.msg) THEN TagOf(u.msg.tag) ELSE <<>>]
UnitTags(s) == Mapped(tagOfUnit, s)

LEMMA TagsOfUnits ==
  /\ \A t \in Tag : TagOf(t) \in Seq(Tag)
  /\ \A m \in Message : TagOf(m.tag) \in Seq(Tag) /\ (m.type = 0 => TagOf(m.tag) = <<>>)
  /\ tagOfUnit \in [UnitSet -> Seq(Tag)]
  /\ \A m \in Message : \A k \in 1..Length(m) :
       tagOfUnit[Unit(m, k)] = IF k = Length(m) THEN TagOf(m.tag) ELSE <<>>
<1>1. \A t : TagOf(t) \in Seq(Tag) /\ (t \notin {"red", "blue"} => TagOf(t) = <<>>)
  <2>1. ASSUME NEW t \in {"red", "blue"}
        PROVE  TagOf(t) \in Seq(Tag)
    <3>1. TagOf(t) = <<t>> /\ t \in Tag
      BY DEF TagOf, Tag
    <3>. QED BY <3>1
  <2>2. \A t : t \notin {"red", "blue"} => TagOf(t) = <<>>
    BY DEF TagOf
  <2>3. <<>> \in Seq(Tag)
    BY EmptySeq
  <2>. QED BY <2>1, <2>2, <2>3
<1>2. \A m \in Message : m.type = 0 => TagOf(m.tag) = <<>>
  <2>1. Macs.tag = "macs" /\ Line.tag = "line" /\ Text.tag = "text"
    BY DEF Macs, Line, Text
  <2>. QED BY <1>1, <2>1, MessageFields
<1>3. tagOfUnit \in [UnitSet -> Seq(Tag)]
  <2>1. \A u \in UnitSet : (IF u.part = Length(u.msg) THEN TagOf(u.msg.tag) ELSE <<>>) \in Seq(Tag)
    BY <1>1, EmptySeq, Zenon
  <2>. QED BY <2>1, Zenon DEF tagOfUnit
<1>4. ASSUME NEW m \in Message, NEW k \in 1..Length(m)
      PROVE  tagOfUnit[Unit(m, k)] = IF k = Length(m) THEN TagOf(m.tag) ELSE <<>>
  <2>1. Unit(m, k) \in UnitSet /\ Unit(m, k).msg = m /\ Unit(m, k).part = k
    BY UnitFields
  <2>. QED BY <2>1, Zenon DEF tagOfUnit
<1>. QED BY <1>1, <1>2, <1>3, <1>4

LEMMA UnitTagsAre ==
  /\ \A s \in Seq(UnitSet) : UnitTags(s) \in Seq(Tag)
  /\ \A s, t \in Seq(UnitSet) : UnitTags(s \o t) = UnitTags(s) \o UnitTags(t)
  /\ UnitTags(<<>>) = <<>>
<1>1. tagOfUnit \in [UnitSet -> Seq(Tag)]
  BY TagsOfUnits
<1>2. \A s \in Seq(UnitSet) : UnitTags(s) \in Seq(Tag)
  BY <1>1, MappedIs DEF UnitTags
<1>3. \A s, t \in Seq(UnitSet) : UnitTags(s \o t) = UnitTags(s) \o UnitTags(t)
  BY <1>1, MappedJoined DEF UnitTags
<1>4. UnitTags(<<>>) = <<>>
  <2>1. <<>> \in Seq(UnitSet) /\ \A i \in 1..Len(<<>>) : tagOfUnit[<<>>[i]] = <<>>
    BY EmptySeq
  <2>2. PICK e \in Seq(UnitSet) : e = <<>> /\ \A i \in 1..Len(e) : tagOfUnit[e[i]] = <<>>
    BY <2>1
  <2>3. Mapped(tagOfUnit, e) = <<>>
    BY <1>1, <2>2, MappedNone
  <2>. QED BY <2>2, <2>3 DEF UnitTags
<1>. QED BY <1>2, <1>3, <1>4

\* Part of a message holds no frame as long as the last unit is missing.
LEMMA TagsOfPart ==
  ASSUME NEW m \in Message, NEW s \in Seq(UnitSet), NEW b \in Nat, Len(s) # 0,
         b + Len(s) <= Length(m), \A k \in 1..Len(s) : s[k] = Unit(m, b + k)
  PROVE  UnitTags(s) = IF b + Len(s) = Length(m) THEN TagOf(m.tag) ELSE <<>>
<1>1. Len(s) \in Nat /\ Length(m) \in Nat
  BY LenProperties, Lengths
<1>2. ASSUME NEW k \in 1..Len(s)
      PROVE  tagOfUnit[s[k]] = IF b + k = Length(m) THEN TagOf(m.tag) ELSE <<>>
  <2>1. b + k \in 1..Length(m)
    BY <1>1
  <2>. QED BY <2>1, TagsOfUnits
<1>3. ASSUME NEW k \in 1..(Len(s) - 1)
      PROVE  tagOfUnit[s[k]] = <<>>
  <2>1. k \in 1..Len(s) /\ b + k # Length(m)
    BY <1>1
  <2>. QED BY <1>2, <2>1
<1>4. UnitTags(s) = tagOfUnit[s[Len(s)]]
  <2>1. tagOfUnit \in [UnitSet -> Seq(Tag)]
    BY TagsOfUnits
  <2>2. OnlyLast(tagOfUnit, s)
    BY <1>3 DEF OnlyLast
  <2>3. Mapped(tagOfUnit, s) = tagOfUnit[s[Len(s)]]
    BY <2>1, <2>2, MappedLast
  <2>. QED BY <2>3, Zenon DEF UnitTags
<1>5. Len(s) \in 1..Len(s)
  BY <1>1
<1>. QED BY <1>2, <1>4, <1>5

\* The first message of a stream, and the others.
LEMMA TagsOfFirst ==
  ASSUME NEW s, IsStream(s), HasMessage(s)
  PROVE  /\ s[1].msg \in Message
         /\ Length(s[1].msg) \in 0..Len(s)
         /\ UnitTags(s) = TagOf(s[1].msg.tag) \o UnitTags(Drop(s, Length(s[1].msg)))
<1>1. s \in Seq(UnitSet) /\ Len(s) \in Nat
  BY LenProperties DEF IsStream
<1>2. PICK m \in Message, n \in 1..Len(s) :
        m = s[1].msg /\ n = Length(m) /\ \A k \in 1..n : s[k] = Unit(m, k)
  BY FirstOfStream
<1>3. n \in 0..Len(s) /\ n # 0
  BY <1>1
<1>4. PICK a \in Seq(UnitSet), b \in Seq(UnitSet) :
        /\ a = Take(s, n) /\ Len(a) = n /\ \A k \in 1..n : a[k] = s[k]
        /\ b = Drop(s, n)
  BY <1>1, <1>3, TakeIs, DropIs
<1>5. UnitTags(a) = TagOf(m.tag)
  <2>1. PICK z \in Nat : z = 0
    OBVIOUS
  <2>2. z + Len(a) = Length(m) /\ z + Len(a) <= Length(m) /\ Len(a) # 0
    BY <1>2, <1>3, <1>4, <2>1
  <2>3. \A k \in 1..Len(a) : a[k] = Unit(m, z + k)
    <3>1. \A k \in 1..Len(a) : k \in 1..n /\ z + k = k
      BY <1>4, <2>1
    <3>. QED BY <1>2, <1>4, <3>1
  <2>. QED BY <1>4, <2>2, <2>3, TagsOfPart
<1>6. s = a \o b
  <2>1. PICK e \in Seq(UnitSet) : e = <<>>
    BY EmptySeq
  <2>2. (e \o Take(s, n)) \o Drop(s, n) = e \o s
    BY <1>1, <1>3, MovedUnits
  <2>3. e \o a = a /\ e \o s = s
    BY <1>1, <2>1, ConcatEmptySeq
  <2>. QED BY <1>4, <2>2, <2>3
<1>7. UnitTags(s) = UnitTags(a) \o UnitTags(b)
  BY <1>6, UnitTagsAre
<1>. QED BY <1>2, <1>3, <1>4, <1>5, <1>7

\* Before the last unit of a message there are the others.
LEMMA UnitsBefore ==
  ASSUME NEW s, IsStream(s), NEW i \in 1..Len(s), NEW k \in 0..(s[i].part - 1)
  PROVE  i - k \in 1..Len(s) /\ s[i - k] = Unit(s[i].msg, s[i].part - k)
<1>1. s \in Seq(UnitSet) /\ Len(s) \in Nat
  BY LenProperties DEF IsStream
<1>2. PICK m \in Message, b \in Nat :
        m = s[i].msg /\ b = s[i].part /\ b >= 1 /\ s[i] = Unit(m, b) /\ Length(m) \in Nat
  BY <1>1, ElementOfSeq, UnitFields, Lengths
<1>. DEFINE bad == {j \in 0..(b - 1) : ~ (i - j \in 1..Len(s) /\ s[i - j] = Unit(m, b - j))}
<1>3. ASSUME bad # {}
      PROVE  FALSE
  <2>1. PICK j \in bad : \A l \in bad : j <= l
    <3>1. bad \in SUBSET Nat
      BY <1>2
    <3>. HIDE DEF bad
    <3>. QED BY <1>3, <3>1, LeastNumber
  <2>2. j \in 0..(b - 1) /\ ~ (i - j \in 1..Len(s) /\ s[i - j] = Unit(m, b - j))
    OBVIOUS
  <2>3. CASE j = 0
    <3>1. i - j = i /\ b - j = b
      BY <1>2, <2>3
    <3>. QED BY <1>2, <2>2, <3>1
  <2>4. CASE j # 0
    <3>1. PICK p \in 0..(b - 1) : j = p + 1 /\ ~ (j <= p)
      <4>1. j - 1 \in 0..(b - 1) /\ j = (j - 1) + 1 /\ ~ (j <= j - 1)
        BY <1>2, <2>2, <2>4
      <4>. QED BY <4>1
    <3>2. i - p \in 1..Len(s) /\ s[i - p] = Unit(m, b - p)
      BY <2>1, <3>1
    <3>3. s[i - p].msg = m /\ s[i - p].part = b - p /\ b - p > 1
      <4>1. s[i - p].msg = m /\ s[i - p].part = b - p
        <5>1. PICK u : u = s[i - p]
          OBVIOUS
        <5>2. PICK c : c = b - p
          OBVIOUS
        <5>3. u.msg = m /\ u.part = c
          BY <3>2, <5>1, <5>2, UnitFields
        <5>. QED BY <5>1, <5>2, <5>3
      <4>2. b - p > 1
        BY <1>2, <2>2, <3>1
      <4>. QED BY <4>1, <4>2
    <3>4. i - p # 1
      <4>1. CASE i - p = 1
        <5>1. s # <<>> /\ s[1].part = b - p
          BY <1>1, <3>2, <3>3, <4>1, EmptySeq
        <5>2. s[1].part = 1
          BY <5>1 DEF IsStream
        <5>. QED BY <3>3, <5>1, <5>2
      <4>. QED BY <4>1
    <3>5. PICK x \in 1..(Len(s) - 1) : x = i - j /\ x + 1 = i - p /\ x \in 1..Len(s)
      <4>1. i - j \in 1..(Len(s) - 1) /\ (i - j) + 1 = i - p /\ i - j \in 1..Len(s)
        BY <1>1, <2>2, <3>1, <3>2, <3>4
      <4>. QED BY <4>1
    <3>6. Follows(s[x], s[i - p])
      BY <3>5 DEF IsStream
    <3>7. s[x] \in UnitSet
      BY <1>1, <3>5, ElementOfSeq
    <3>8. PICK y \in Nat : y = s[x].part
      <4>1. s[x].part \in 1..Length(s[x].msg) /\ Length(s[x].msg) \in Nat
        BY <3>7, UnitFields, Lengths
      <4>. QED BY <4>1
    <3>9. s[x].msg = m /\ y + 1 = b - p
      BY <3>3, <3>6, <3>8 DEF Follows
    <3>10. y = b - j
      <4>1. y + 1 = b - p /\ j = p + 1 /\ y \in Int /\ b \in Int /\ p \in Int
        BY <1>2, <3>1, <3>8, <3>9
      <4>. QED BY <4>1
    <3>11. s[x] = Unit(m, b - j)
      <4>1. s[x] = Unit(s[x].msg, s[x].part)
        BY <3>7, UnitFields
      <4>. QED BY <3>8, <3>9, <3>10, <4>1
    <3>. QED BY <2>2, <3>5, <3>11
  <2>. QED BY <2>3, <2>4
<1>. QED BY <1>2, <1>3

LEMMA WindowIs ==
  ASSUME NEW S, NEW s \in Seq(S), NEW i \in 1..Len(s), NEW n \in 1..i
  PROVE  /\ SubSeq(s, i - n + 1, i) \in Seq(S)
         /\ Len(SubSeq(s, i - n + 1, i)) = n
         /\ \A k \in 1..n : SubSeq(s, i - n + 1, i)[k] = s[(i - n) + k]
<1>. DEFINE u == SubSeq(s, i - n + 1, i)
<1>1. Len(s) \in Nat /\ \A k \in (i - n + 1)..i : s[k] \in S
  BY LenProperties, ElementOfSeq
<1>2. PICK a \in Int : a = i - n + 1
  BY <1>1
<1>3. PICK e \in Int : e = i
  BY <1>1
<1>4. \A k \in a..e : s[k] \in S
  BY <1>1, <1>2, <1>3
<1>5. /\ SubSeq(s, a, e) \in Seq(S)
      /\ Len(SubSeq(s, a, e)) = IF a <= e THEN e - a + 1 ELSE 0
      /\ \A k \in 1..(e - a + 1) : SubSeq(s, a, e)[k] = s[a + k - 1]
  BY <1>4, SubSeqProperties
<1>6. u = SubSeq(s, a, e)
  BY <1>2, <1>3
<1>. HIDE DEF u
<1>7. Len(u) = n
  BY <1>1, <1>2, <1>3, <1>5, <1>6
<1>8. ASSUME NEW k \in 1..n
      PROVE  u[k] = s[(i - n) + k]
  <2>1. k \in 1..(e - a + 1) /\ a + k - 1 = (i - n) + k
    BY <1>1, <1>2, <1>3
  <2>. QED BY <1>5, <1>6, <2>1
<1>. QED BY <1>5, <1>6, <1>7, <1>8, Zenon DEF u

\* In a stream, the frames that are there from end to end are those whose last unit
\* is.
LEMMA TagsOfStream ==
  ASSUME NEW s, IsStream(s)
  PROVE  Tags(s) = UnitTags(s)
<1>. DEFINE Whole(i) == i >= FrameLen /\ SubSeq(s, i - FrameLen + 1, i) = Units(s[i].msg)
            Found(i) == IF Whole(i) THEN TagOf(s[i].msg.tag) ELSE <<>>
<1>1. s \in Seq(UnitSet) /\ Len(s) \in Nat /\ DOMAIN s = 1..Len(s)
  BY LenProperties DEF IsStream
<1>2. Tags(s) = FlattenSeq([i \in 1..Len(s) |-> Found(i)])
  BY <1>1, Zenon DEF Tags
<1>3. ASSUME NEW i \in 1..Len(s)
      PROVE  Found(i) = tagOfUnit[s[i]]
  <2>1. PICK m \in Message, b \in Nat :
          /\ m = s[i].msg /\ b = s[i].part /\ b \in 1..Length(m) /\ s[i] = Unit(m, b)
          /\ Length(m) \in Nat
    BY <1>1, ElementOfSeq, UnitFields, Lengths
  <2>2. tagOfUnit[s[i]] = IF b = Length(m) THEN TagOf(m.tag) ELSE <<>>
    BY <2>1, TagsOfUnits
  <2>3. CASE m.type = 0
    <3>1. TagOf(m.tag) = <<>>
      BY <2>3, TagsOfUnits
    <3>. QED BY <2>1, <2>2, <3>1
  <2>4. CASE m.type # 0
    <3>1. Length(m) = FrameLen /\ FrameLen \in Nat /\ FrameLen >= 1
      BY <2>4, Sizes DEF Length
    <3>2. PICK u \in Seq(UnitSet) :
            u = Units(m) /\ Len(u) = FrameLen /\ \A k \in 1..FrameLen : u[k] = Unit(m, k)
      BY <2>1, <3>1, UnitsOfMessage
    <3>3. CASE b = FrameLen
      <4>1. ASSUME NEW k \in 1..FrameLen
            PROVE  (i - FrameLen) + k \in 1..Len(s) /\ s[(i - FrameLen) + k] = u[k]
        <5>1. PICK j \in 0..(b - 1) : j = FrameLen - k
          BY <3>1, <3>3
        <5>2. i - j \in 1..Len(s) /\ s[i - j] = Unit(m, b - j)
          BY <2>1, <5>1, UnitsBefore
        <5>3. i - j = (i - FrameLen) + k /\ b - j = k
          BY <3>1, <3>3, <5>1
        <5>. QED BY <3>2, <5>2, <5>3
      <4>2. i >= FrameLen
        <5>1. (i - FrameLen) + 1 \in 1..Len(s)
          BY <3>1, <4>1
        <5>. QED BY <3>1, <5>1
      <4>3. PICK v : v = SubSeq(s, i - FrameLen + 1, i)
        OBVIOUS
      <4>4. /\ v \in Seq(UnitSet) /\ Len(v) = FrameLen
            /\ \A k \in 1..FrameLen : v[k] = s[(i - FrameLen) + k]
        <5>1. FrameLen \in 1..i
          BY <3>1, <4>2
        <5>. QED BY <1>1, <4>3, <5>1, WindowIs
      <4>5. v = u
        BY <3>2, <4>1, <4>4, SeqEqual
      <4>6. Whole(i)
        BY <2>1, <3>2, <4>2, <4>3, <4>5
      <4>. QED BY <2>1, <2>2, <3>1, <3>3, <4>6
    <3>4. CASE b # FrameLen
      <4>1. ASSUME Whole(i)
            PROVE  FALSE
        <5>1. PICK v : v = SubSeq(s, i - FrameLen + 1, i)
          OBVIOUS
        <5>2. v = u
          BY <2>1, <3>2, <4>1, <5>1
        <5>3. v[FrameLen] = s[i]
          <6>1. FrameLen \in 1..i /\ FrameLen \in 1..FrameLen /\ (i - FrameLen) + FrameLen = i
            BY <3>1, <4>1
          <6>. QED BY <1>1, <5>1, <6>1, WindowIs
        <5>4. v[FrameLen] = Unit(m, FrameLen)
          BY <3>1, <3>2, <5>2
        <5>5. Unit(m, b).part = b /\ Unit(m, FrameLen).part = FrameLen
          BY UnitFields
        <5>. QED BY <2>1, <3>4, <5>3, <5>4, <5>5
      <4>. QED BY <2>2, <3>1, <3>4, <4>1
    <3>. QED BY <3>3, <3>4
  <2>. QED BY <2>3, <2>4
<1>. HIDE DEF Found
<1>4. [i \in 1..Len(s) |-> Found(i)] = Each(tagOfUnit, s)
  BY <1>3, Zenon DEF Each
<1>. QED BY <1>2, <1>4, Zenon DEF UnitTags, Mapped

\* The tags of a message, and of several, one after the other.
LEMMA TagsOfMessage ==
  ASSUME NEW m \in Message
  PROVE  UnitTags(Units(m)) = TagOf(m.tag)
<1>1. PICK s \in Seq(UnitSet) :
        s = Units(m) /\ Len(s) = Length(m) /\ \A k \in 1..Length(m) : s[k] = Unit(m, k)
  BY UnitsOfMessage
<1>2. PICK z \in Nat : z = 0
  OBVIOUS
<1>3. Length(m) \in Nat /\ Length(m) >= 1
  BY Lengths
<1>4. Len(s) # 0 /\ z + Len(s) = Length(m) /\ z + Len(s) <= Length(m)
  BY <1>1, <1>2, <1>3
<1>5. \A k \in 1..Len(s) : s[k] = Unit(m, z + k)
  <2>1. \A k \in 1..Len(s) : k \in 1..Length(m) /\ z + k = k
    BY <1>1, <1>2, <1>3
  <2>. QED BY <1>1, <2>1
<1>. QED BY <1>1, <1>4, <1>5, TagsOfPart

LEMMA TagsOfMessages ==
  ASSUME NEW r \in Seq(Message)
  PROVE  UnitTags(UnitsOfAll(r)) = TagsOfAll(r) /\ TagsOfAll(r) \in Seq(Tag)
         /\ UnitsOfAll(r) \in Seq(UnitSet)
<1>1. Len(r) \in Nat /\ DOMAIN r = 1..Len(r) /\ \A k \in 1..Len(r) : r[k] \in Message
  <2>1. Len(r) \in Nat /\ DOMAIN r = 1..Len(r)
    BY LenProperties, Zenon
  <2>2. ASSUME NEW k \in 1..Len(r)
        PROVE  r[k] \in Message
    BY ElementOfSeq
  <2>. QED BY <2>1, <2>2
<1>2. PICK n \in Nat : n = Len(r)
  BY <1>1
<1>3. PICK q : q = [k \in 1..n |-> Units(r[k])]
  OBVIOUS
<1>4. PICK t : t = [k \in 1..n |-> TagOf(r[k].tag)]
  OBVIOUS
<1>5. \A k \in 1..n : q[k] = Units(r[k]) /\ Units(r[k]) \in Seq(UnitSet)
  BY <1>1, <1>2, <1>3, UnitsOfMessage
<1>6. \A k \in 1..n : t[k] = TagOf(r[k].tag) /\ TagOf(r[k].tag) \in Seq(Tag)
  BY <1>1, <1>2, <1>4, TagsOfUnits
<1>7. q \in Seq(Seq(UnitSet)) /\ Len(q) = n
  <2>1. q \in [1..n -> Seq(UnitSet)]
    BY <1>3, <1>5, Zenon
  <2>. QED BY <1>2, <2>1
<1>8. t \in Seq(Seq(Tag)) /\ Len(t) = n
  <2>1. t \in [1..n -> Seq(Tag)]
    BY <1>4, <1>6, Zenon
  <2>. QED BY <1>2, <2>1
<1>9. UnitsOfAll(r) = FlattenSeq(q) /\ TagsOfAll(r) = FlattenSeq(t)
  BY <1>1, <1>2, <1>3, <1>4, Zenon DEF UnitsOfAll, TagsOfAll
<1>10. \A i \in 0..n : UnitTags(JoinsTo(q, i)) = JoinsTo(t, i)
  <2>. DEFINE bad == {i \in 0..n : UnitTags(JoinsTo(q, i)) # JoinsTo(t, i)}
  <2>1. ASSUME bad # {}
        PROVE  FALSE
    <3>1. PICK i \in bad : \A j \in bad : i <= j
      <4>1. bad \in SUBSET Nat
        OBVIOUS
      <4>. HIDE DEF bad
      <4>. QED BY <2>1, <4>1, LeastNumber
    <3>2. i \in 0..n /\ UnitTags(JoinsTo(q, i)) # JoinsTo(t, i)
      OBVIOUS
    <3>3. CASE i = 0
      <4>1. JoinsTo(q, i) = <<>> /\ JoinsTo(t, i) = <<>>
        BY <1>7, <1>8, <3>3, JoinsToIs
      <4>. QED BY <3>2, <4>1, UnitTagsAre
    <3>4. CASE i # 0
      <4>1. PICK j \in 0..n : j = i - 1 /\ ~ (i <= j) /\ i \in 1..n
        <5>1. i - 1 \in 0..n /\ ~ (i <= i - 1) /\ i \in 1..n
          BY <1>2, <3>2, <3>4
        <5>. QED BY <5>1
      <4>2. UnitTags(JoinsTo(q, j)) = JoinsTo(t, j)
        BY <3>1, <4>1
      <4>3. JoinsTo(q, i) = JoinsTo(q, j) \o q[i] /\ JoinsTo(q, j) \in Seq(UnitSet)
        BY <1>7, <4>1, JoinsToIs
      <4>4. JoinsTo(t, i) = JoinsTo(t, j) \o t[i]
        BY <1>8, <4>1, JoinsToIs
      <4>5. UnitTags(JoinsTo(q, j) \o q[i]) = UnitTags(JoinsTo(q, j)) \o UnitTags(q[i])
        BY <1>5, <4>1, <4>3, UnitTagsAre
      <4>6. UnitTags(q[i]) = t[i]
        BY <1>1, <1>2, <1>5, <1>6, <4>1, TagsOfMessage
      <4>. QED BY <3>2, <4>2, <4>3, <4>4, <4>5, <4>6, Zenon
    <3>. QED BY <3>3, <3>4
  <2>. QED BY <2>1
<1>11. n \in 0..n
  BY <1>2
<1>12. /\ FlattenSeq(q) = JoinsTo(q, n) /\ JoinsTo(q, n) \in Seq(UnitSet)
       /\ FlattenSeq(t) = JoinsTo(t, n) /\ JoinsTo(t, n) \in Seq(Tag)
  BY <1>7, <1>8, <1>11, JoinsToIs
<1>. QED BY <1>9, <1>10, <1>11, <1>12, Zenon

\* what waits on an interface with b in its buffer and q in its queue
Held(b, q) == TagOf(b) \o FlattenSeq([k \in DOMAIN q |-> TagOf(q[k])])
frameTags == [t \in Tag |-> TagOf(t)]

LEMMA FrameTags ==
  /\ frameTags \in [Tag -> Seq(Tag)]
  /\ \A t \in Tag : frameTags[t] = TagOf(t) /\ Mapped(frameTags, <<t>>) = TagOf(t)
  /\ Mapped(frameTags, <<>>) = <<>>
  /\ \A s, t \in Seq(Tag) :
       Mapped(frameTags, s \o t) = Mapped(frameTags, s) \o Mapped(frameTags, t)
  /\ TagOf("none") = <<>> /\ TagOf("plain") = <<>>
<1>1. frameTags \in [Tag -> Seq(Tag)] /\ \A t \in Tag : frameTags[t] = TagOf(t)
  BY TagsOfUnits, Zenon DEF frameTags
<1>2. ASSUME NEW t \in Tag
      PROVE  Mapped(frameTags, <<t>>) = TagOf(t)
  <2>1. PICK s \in Seq(Tag) : s = <<t>> /\ Len(s) = 1 /\ s[1] = t
    BY OneElement
  <2>2. Len(s) = 1 /\ s[1] = t
    BY <2>1
  <2>3. OnlyLast(frameTags, s)
    BY <2>2 DEF OnlyLast
  <2>4. Mapped(frameTags, s) = frameTags[s[Len(s)]]
    BY <1>1, <2>3, MappedLast
  <2>. QED BY <1>1, <2>1, <2>2, <2>4
<1>3. Mapped(frameTags, <<>>) = <<>>
  <2>1. <<>> \in Seq(Tag) /\ \A i \in 1..Len(<<>>) : frameTags[<<>>[i]] = <<>>
    BY EmptySeq
  <2>2. PICK e \in Seq(Tag) : e = <<>> /\ \A i \in 1..Len(e) : frameTags[e[i]] = <<>>
    BY <2>1
  <2>3. Mapped(frameTags, e) = <<>>
    BY <1>1, <2>2, MappedNone
  <2>. QED BY <2>2, <2>3
<1>4. \A s, t \in Seq(Tag) :
        Mapped(frameTags, s \o t) = Mapped(frameTags, s) \o Mapped(frameTags, t)
  BY <1>1, MappedJoined
<1>5. TagOf("none") = <<>> /\ TagOf("plain") = <<>>
  BY DEF TagOf
<1>. QED BY <1>1, <1>2, <1>3, <1>4, <1>5

LEMMA HeldIs ==
  ASSUME NEW b, b \in Tag \union {"none"}, NEW q \in Seq(Tag)
  PROVE  /\ TagOf(b) \in Seq(Tag) /\ Mapped(frameTags, q) \in Seq(Tag)
         /\ Held(b, q) = TagOf(b) \o Mapped(frameTags, q)
         /\ Held(b, q) \in Seq(Tag)
         /\ Held("none", q) = Mapped(frameTags, q)
<1>1. DOMAIN q = 1..Len(q) /\ \A k \in 1..Len(q) : frameTags[q[k]] = TagOf(q[k])
  BY LenProperties, ElementOfSeq, FrameTags
<1>2. [k \in DOMAIN q |-> TagOf(q[k])] = Each(frameTags, q)
  BY <1>1, Zenon DEF Each
<1>3. TagOf(b) \in Seq(Tag)
  BY TagsOfUnits, FrameTags, EmptySeq
<1>4. PICK m \in Seq(Tag) : m = Mapped(frameTags, q)
  BY FrameTags, MappedIs
<1>5. Held(b, q) = TagOf(b) \o m /\ Held("none", q) = TagOf("none") \o m
  BY <1>2, <1>4, Zenon DEF Held, Mapped
<1>6. TagOf("none") \o m = m
  BY FrameTags, ConcatEmptySeq
<1>7. TagOf(b) \o m \in Seq(Tag)
  BY <1>3, ConcatProperties
<1>. QED BY <1>3, <1>4, <1>5, <1>6, <1>7

LEMMA HeldAppended ==
  ASSUME NEW b, b \in Tag \union {"none"}, NEW q \in Seq(Tag), NEW t \in Tag
  PROVE  Held(b, Append(q, t)) = Held(b, q) \o TagOf(t)
<1>1. PICK s \in Seq(Tag), u \in Seq(Tag) : s = <<t>> /\ u = Append(q, t) /\ u = q \o s
  <2>1. <<t>> \in Seq(Tag) /\ Append(q, t) \in Seq(Tag) /\ Append(q, t) = q \o <<t>>
    BY AppendProperties, AppendIsConcat
  <2>. QED BY <2>1
<1>2. Mapped(frameTags, u) = Mapped(frameTags, q) \o Mapped(frameTags, s)
  BY <1>1, FrameTags
<1>3. PICK m \in Seq(Tag), a \in Seq(Tag), c \in Seq(Tag) :
        m = Mapped(frameTags, q) /\ a = TagOf(b) /\ c = TagOf(t)
  BY HeldIs, TagsOfUnits
<1>4. Held(b, u) = a \o (m \o c)
  <2>1. Held(b, u) = TagOf(b) \o Mapped(frameTags, u)
    BY HeldIs
  <2>2. Mapped(frameTags, s) = TagOf(t)
    BY <1>1, FrameTags
  <2>. QED BY <1>2, <1>3, <2>1, <2>2, Zenon
<1>5. Held(b, q) = a \o m
  BY <1>3, HeldIs
<1>6. Regroups(a, m, c)
  BY Regrouped
<1>. QED BY <1>1, <1>3, <1>4, <1>5, <1>6, Zenon DEF Regroups

LEMMA HeldTaken ==
  ASSUME NEW q \in Seq(Tag), q # <<>>
  PROVE  /\ Head(q) \in Tag /\ Tail(q) \in Seq(Tag)
         /\ Held(Head(q), Tail(q)) = Held("none", q)
         /\ \A k \in 1..Len(Tail(q)) : \E j \in 1..Len(q) : Tail(q)[k] = q[j]
         /\ \E j \in 1..Len(q) : Head(q) = q[j]
<1>1. PICK h \in Tag, r \in Seq(Tag) :
        /\ h = Head(q) /\ r = Tail(q) /\ Len(r) = Len(q) - 1 /\ h = q[1]
        /\ \A i \in 1..Len(r) : r[i] = q[i + 1]
  <2>1. /\ Head(q) \in Tag /\ Tail(q) \in Seq(Tag) /\ Len(Tail(q)) = Len(q) - 1
        /\ \A i \in 1..Len(Tail(q)) : Tail(q)[i] = q[i + 1]
    BY HeadTailProperties
  <2>2. Head(q) = q[1]
    OBVIOUS
  <2>. QED BY <2>1, <2>2, Zenon
<1>2. Len(q) \in Nat /\ Len(q) >= 1
  BY LenProperties, EmptySeq
<1>3. PICK s \in Seq(Tag) : s = <<h>> /\ Len(s) = 1 /\ s[1] = h
  BY OneElement
<1>4. PICK u \in Seq(Tag) : IsJoined(u, s, r)
  BY Joined
<1>5. u = s \o r /\ Len(u) = Len(q)
  BY <1>1, <1>2, <1>3, <1>4 DEF IsJoined
<1>6. ASSUME NEW i \in 1..Len(u)
      PROVE  u[i] = q[i]
  <2>1. CASE i = 1
    BY <1>1, <1>3, <1>4, <2>1 DEF IsJoined
  <2>2. CASE i # 1
    <3>1. i - 1 \in 1..Len(r) /\ 1 + (i - 1) = i /\ (i - 1) + 1 = i
      BY <1>1, <1>2, <1>5, <2>2
    <3>2. u[1 + (i - 1)] = r[i - 1]
      BY <1>3, <1>4, <3>1 DEF IsJoined
    <3>3. r[i - 1] = q[(i - 1) + 1]
      BY <1>1, <3>1
    <3>. QED BY <3>1, <3>2, <3>3
  <2>. QED BY <2>1, <2>2
<1>7. u = q
  BY <1>5, <1>6, SeqEqual
<1>8. Mapped(frameTags, u) = Mapped(frameTags, s) \o Mapped(frameTags, r)
  BY <1>5, FrameTags
<1>9. Held(h, r) = Held("none", q)
  <2>1. Held(h, r) = TagOf(h) \o Mapped(frameTags, r) /\ Held("none", q) = Mapped(frameTags, q)
    BY HeldIs
  <2>2. Mapped(frameTags, s) = TagOf(h)
    BY <1>3, FrameTags
  <2>. QED BY <1>7, <1>8, <2>1, <2>2, Zenon
<1>10. 1 \in 1..Len(q) /\ \A k \in 1..Len(r) : k + 1 \in 1..Len(q)
  BY <1>1, <1>2
<1>. QED BY <1>1, <1>9, <1>10
-----------------------------------------------------------------------------
(* Frames on their way                                                     *)

\* what waits on the interface that has the tagged frames
Followed == CHOOSE p \in TaggedIfc : TRUE
Waiting == IF TaggedIfc = {} THEN <<>> ELSE TagsAt(Followed)

\* no other interface has any
Untagged(b, q) == TagOf(b) = <<>> /\ \A k \in 1..Len(q) : TagOf(q[k]) = <<>>

InputInv ==
  /\ issued \in Seq(Tag) /\ seen \in Seq(Tag)
  /\ \A p \in Ifc \ TaggedIfc : Untagged(buftun[p], nicIn[p])
  /\ issued = seen \o (UnitTags(childBuf \o toChild) \o Waiting)

OutputInv ==
  /\ emitted \in Seq(Tag) /\ delivered \in Seq(Tag)
  /\ emitted = delivered \o UnitTags(Outward)

LEMMA FollowedIs ==
  /\ \A p \in TaggedIfc : p \in Ifc /\ p = Followed
  /\ TaggedIfc # {} => Followed \in Ifc /\ Followed \in TaggedIfc
  /\ \A p \in Ifc, t \in Tag : <<p, t>> \in Arrivals /\ p \notin TaggedIfc => TagOf(t) = <<>>
<1>1. ASSUME NEW p \in TaggedIfc
      PROVE  \E a \in Arrivals : p = a[1] /\ a[2] # "plain" /\ p \in Ifc
  <2>1. PICK a \in Arrivals : p = a[1] /\ a[2] # "plain"
    BY DEF TaggedIfc
  <2>2. a[1] \in Ifc
    BY DriverAssumption
  <2>. QED BY <2>1, <2>2
<1>2. ASSUME NEW p \in TaggedIfc, NEW q \in TaggedIfc
      PROVE  p = q
  BY <1>1, DriverAssumption
<1>3. ASSUME TaggedIfc # {}
      PROVE  Followed \in TaggedIfc
  <2>1. \E p \in TaggedIfc : TRUE
    BY <1>3
  <2>. QED BY <2>1, Zenon DEF Followed
<1>4. ASSUME NEW p \in Ifc, NEW t \in Tag, <<p, t>> \in Arrivals, p \notin TaggedIfc
      PROVE  TagOf(t) = <<>>
  <2>1. t = "plain"
    <3>1. PICK a \in Arrivals : a[1] = p /\ a[2] = t
      BY <1>4
    <3>. QED BY <1>4, <3>1 DEF TaggedIfc
  <2>. QED BY <2>1, FrameTags
<1>. QED BY <1>1, <1>2, <1>3, <1>4

LEMMA WaitingIs ==
  ASSUME DriverInv
  PROVE  /\ Waiting \in Seq(Tag)
         /\ TaggedIfc = {} => Waiting = <<>>
         /\ TaggedIfc # {} => Waiting = Held(buftun[Followed], nicIn[Followed])
         /\ \A p \in Ifc : buftun[p] \in Tag \union {"none"} /\ nicIn[p] \in Seq(Tag)
<1>1. \A p \in Ifc : buftun[p] \in Tag \union {"none"} /\ nicIn[p] \in Seq(Tag)
  BY DEF DriverInv, TypeOK, OtherTypes
<1>2. CASE TaggedIfc = {}
  <2>1. Waiting = <<>>
    BY <1>2, Zenon DEF Waiting
  <2>. QED BY <1>1, <1>2, <2>1, EmptySeq
<1>3. CASE TaggedIfc # {}
  <2>1. Waiting = Held(buftun[Followed], nicIn[Followed])
    BY <1>3, Zenon DEF Waiting, TagsAt, Held
  <2>2. PICK b \in Tag \union {"none"}, q \in Seq(Tag) :
          b = buftun[Followed] /\ q = nicIn[Followed]
    BY <1>1, <1>3, FollowedIs
  <2>3. Held(b, q) \in Seq(Tag)
    BY HeldIs
  <2>. QED BY <1>1, <1>3, <2>1, <2>2, <2>3
<1>. QED BY <1>2, <1>3

\* what is on its way, for a step that moves no tagged frame
LEMMA WaitingStays ==
  ASSUME UNCHANGED <<buftun, nicIn>>
  PROVE  Waiting' = Waiting
<1>1. TagsAt(Followed)' = TagsAt(Followed)
  BY Zenon DEF TagsAt
<1>. QED BY <1>1, Zenon DEF Waiting

LEMMA InputStays ==
  ASSUME InputInv, UNCHANGED <<issued, seen, buftun, nicIn>>,
         UnitTags(childBuf' \o toChild') = UnitTags(childBuf \o toChild)
  PROVE  InputInv'
<1>1. Waiting' = Waiting
  BY WaitingStays
<1>. QED BY <1>1, Zenon DEF InputInv

LEMMA OutputStays ==
  ASSUME OutputInv, UNCHANGED <<emitted, delivered>>, UnitTags(Outward') = UnitTags(Outward)
  PROVE  OutputInv'
<1>. QED BY Zenon DEF OutputInv

\* the two streams
LEMMA WayIn ==
  ASSUME DriverInv
  PROVE  IsStream(childBuf \o toChild) /\ UnitTags(childBuf \o toChild) \in Seq(Tag)
<1>1. PICK b \in Seq(UnitSet) : IsJoined(b, childBuf, toChild)
  BY Buffers, Joined
<1>2. b = childBuf \o toChild
  BY <1>1 DEF IsJoined
<1>3. IsStream(b \o Pending)
  BY <1>2 DEF DriverInv, StreamsOK, IsWhole, Inward
<1>4. IsStream(b)
  BY <1>3, PendingIs, FrontOfStream
<1>. QED BY <1>2, <1>4, UnitTagsAre

LEMMA WayOut ==
  ASSUME DriverInv
  PROVE  IsStream(Outward) /\ Outward \in Seq(UnitSet) /\ UnitTags(Outward) \in Seq(Tag)
<1>1. IsStream(Outward)
  BY DEF DriverInv, StreamsOK, IsWhole
<1>2. Outward \in Seq(UnitSet)
  BY <1>1 DEF IsStream
<1>. QED BY <1>1, <1>2, UnitTagsAre

LEMMA OutwardStays ==
  ASSUME UNCHANGED <<bufin, fromChild, childOut>>
  PROVE  Outward' = Outward
<1>. QED BY Zenon DEF Outward

\* The child reads, and takes a message from its buffer.
LEMMA ReadTags ==
  ASSUME DriverInv, InputInv, OutputInv, ChildRead(~ Gone), UNCHANGED driverVars
  PROVE  InputInv' /\ OutputInv'
<1>1. PICK n \in Amounts(Len(toChild), BufCap - Len(childBuf)) :
        childBuf' = childBuf \o Take(toChild, n) /\ toChild' = Drop(toChild, n)
  BY DEF ChildRead
<1>2. UNCHANGED <<fromChild, childOut, seen, emitted>>
  BY DEF ChildRead
<1>3. n \in 0..Len(toChild)
  BY Buffers, Sizes, AmountsAre
<1>4. childBuf' \o toChild' = childBuf \o toChild
  <2>1. childBuf \in Seq(UnitSet) /\ toChild \in Seq(UnitSet)
    BY Buffers
  <2>2. (childBuf \o Take(toChild, n)) \o Drop(toChild, n) = childBuf \o toChild
    BY <1>3, <2>1, Moved
  <2>. QED BY <1>1, <2>2
<1>5. UNCHANGED <<issued, delivered, buftun, nicIn, bufin>>
  BY DriverStays
<1>6. Outward' = Outward
  BY <1>2, <1>5, OutwardStays
<1>7. UnitTags(childBuf' \o toChild') = UnitTags(childBuf \o toChild)
  BY <1>4, Zenon
<1>. QED BY <1>2, <1>5, <1>6, <1>7, InputStays, OutputStays

LEMMA HandleTags ==
  ASSUME DriverInv, InputInv, OutputInv, ChildHandle, UNCHANGED driverVars
  PROVE  InputInv' /\ OutputInv'
<1>1. PICK m : m = childBuf[1].msg
  OBVIOUS
<1>2. /\ childOut = <<>> /\ HasMessage(childBuf)
      /\ childBuf' = Drop(childBuf, Length(m))
      /\ seen' = seen \o TagOf(m.tag)
      /\ \E r \in Responses(m) : childOut' = UnitsOfAll(r) /\ emitted' = emitted \o TagsOfAll(r)
      /\ UNCHANGED <<toChild, fromChild>>
  BY <1>1, Zenon DEF ChildHandle, BytesAfter
<1>3. /\ UNCHANGED <<issued, delivered, buftun, nicIn, bufin>>
      /\ Waiting' = Waiting
  BY DriverStays, WaitingStays
<1>4. PICK s \in Seq(UnitSet) : IsJoined(s, childBuf, toChild)
  BY Buffers, Joined
<1>5. s = childBuf \o toChild /\ IsStream(s) /\ Len(s) = Len(childBuf) + Len(toChild)
  BY <1>4, WayIn DEF IsJoined
<1>6. childBuf # <<>> /\ Len(childBuf) >= 1 /\ Len(childBuf) >= Length(m)
  BY <1>1, <1>2, Buffers, EmptySeq DEF HasMessage
<1>7. s # <<>> /\ s[1].msg = m /\ HasMessage(s)
  <2>1. Len(s) >= 1 /\ s[1] = childBuf[1]
    BY <1>4, <1>5, <1>6, Buffers DEF IsJoined
  <2>2. Length(m) \in Nat
    <3>1. childBuf[1] \in UnitSet
      BY <1>6, Buffers, ElementOfSeq
    <3>. QED BY <1>1, <3>1, UnitFields, Lengths
  <2>3. s # <<>> /\ s[1].msg = m
    BY <1>1, <2>1, EmptySeq
  <2>4. Len(s) >= Length(m)
    BY <1>5, <1>6, <2>2, Buffers
  <2>. QED BY <2>3, <2>4 DEF HasMessage
<1>8. m \in Message /\ UnitTags(s) = TagOf(m.tag) \o UnitTags(Drop(s, Length(m)))
  BY <1>5, <1>7, TagsOfFirst
<1>9. Length(m) \in 0..Len(childBuf)
  BY <1>6, <1>8, Buffers, Lengths
<1>10. childBuf' \o toChild' = Drop(s, Length(m))
  <2>1. childBuf \in Seq(UnitSet) /\ toChild \in Seq(UnitSet)
    BY Buffers
  <2>2. Drop(childBuf, Length(m)) \o toChild = Drop(childBuf \o toChild, Length(m))
    BY <1>9, <2>1, DropFront
  <2>. QED BY <1>2, <1>5, <2>2
<1>11. PICK d \in Seq(Tag) : d = UnitTags(childBuf' \o toChild')
  <2>1. Length(m) \in 0..Len(s)
    BY <1>5, <1>9, Buffers
  <2>2. Drop(s, Length(m)) \in Seq(UnitSet)
    BY <2>1, DropIs
  <2>3. UnitTags(Drop(s, Length(m))) \in Seq(Tag)
    BY <2>2, UnitTagsAre
  <2>. QED BY <1>10, <2>3
<1>12. InputInv'
  <2>1. PICK t \in Seq(Tag), w \in Seq(Tag), e \in Seq(Tag) :
          t = TagOf(m.tag) /\ w = Waiting /\ e = seen
    BY <1>8, TagsOfUnits, WaitingIs DEF InputInv
  <2>2. issued = e \o ((t \o d) \o w)
    BY <1>5, <1>8, <1>10, <1>11, <2>1, Zenon DEF InputInv
  <2>3. (e \o t) \o (d \o w) = e \o ((t \o d) \o w) /\ e \o t \in Seq(Tag)
    <3>1. Regroups(e, t, d \o w) /\ Regroups(t, d, w) /\ e \o t \in Seq(Tag)
      <4>1. d \o w \in Seq(Tag) /\ e \o t \in Seq(Tag)
        BY ConcatProperties
      <4>. QED BY <4>1, Regrouped
    <3>. QED BY <3>1, Zenon DEF Regroups
  <2>4. issued' = seen' \o (UnitTags(childBuf' \o toChild') \o Waiting')
    BY <1>2, <1>3, <1>11, <2>1, <2>2, <2>3, Zenon
  <2>5. issued' \in Seq(Tag) /\ seen' \in Seq(Tag)
    BY <1>2, <1>3, <2>1, <2>3 DEF InputInv
  <2>6. \A p \in Ifc \ TaggedIfc : Untagged(buftun'[p], nicIn'[p])
    BY <1>3 DEF InputInv
  <2>. QED BY <2>4, <2>5, <2>6, Zenon DEF InputInv
<1>13. OutputInv'
  <2>1. PICK r \in Seq(Message) : childOut' = UnitsOfAll(r) /\ emitted' = emitted \o TagsOfAll(r)
    <3>1. PICK r \in Responses(m) : childOut' = UnitsOfAll(r) /\ emitted' = emitted \o TagsOfAll(r)
      BY <1>2
    <3>2. r \in Seq(Answer)
      BY <1>8, <3>1, ChildAssumption DEF Answer
    <3>3. Answer \subseteq Message
      BY DEF Answer
    <3>4. r \in Seq(Message)
      <4>1. Len(r) \in Nat /\ \A k \in 1..Len(r) : r[k] \in Answer
        BY <3>2, LenProperties, ElementOfSeq
      <4>2. r \in [1..Len(r) -> Message]
        BY <3>2, <3>3, <4>1
      <4>. QED BY <4>1, <4>2
    <3>. QED BY <3>1, <3>4
  <2>2. PICK c \in Seq(UnitSet), u \in Seq(Tag) :
          c = childOut' /\ u = TagsOfAll(r) /\ UnitTags(c) = u
    BY <2>1, TagsOfMessages
  <2>3. PICK o \in Seq(UnitSet) : o = Outward /\ o = bufin \o fromChild
    <3>1. bufin \o fromChild \in Seq(UnitSet)
      BY Buffers, ConcatProperties
    <3>2. PICK b \in Seq(UnitSet) : b = bufin \o fromChild
      BY <3>1
    <3>3. b \o <<>> = b
      BY ConcatEmptySeq
    <3>. QED BY <1>2, <3>2, <3>3, Zenon DEF Outward
  <2>4. Outward' = o \o c
    BY <1>2, <1>3, <2>2, <2>3, Zenon DEF Outward
  <2>5. UnitTags(o \o c) = UnitTags(o) \o u
    BY <2>2, UnitTagsAre
  <2>6. PICK d1 \in Seq(Tag), t1 \in Seq(Tag) : d1 = delivered /\ t1 = UnitTags(o)
    BY UnitTagsAre DEF OutputInv
  <2>7. emitted = d1 \o t1
    BY <2>3, <2>6, Zenon DEF OutputInv
  <2>8. (d1 \o t1) \o u = d1 \o (t1 \o u) /\ (d1 \o t1) \o u \in Seq(Tag)
    <3>1. Regroups(d1, t1, u)
      BY Regrouped
    <3>2. d1 \o t1 \in Seq(Tag)
      BY ConcatProperties
    <3>3. (d1 \o t1) \o u \in Seq(Tag)
      BY <3>2, ConcatProperties
    <3>. QED BY <3>1, <3>3, Zenon DEF Regroups
  <2>9. emitted' = delivered' \o UnitTags(Outward')
    BY <1>3, <2>1, <2>2, <2>4, <2>5, <2>6, <2>7, <2>8, Zenon
  <2>10. emitted' \in Seq(Tag) /\ delivered' \in Seq(Tag)
    BY <1>3, <2>1, <2>2, <2>6, <2>7, <2>8
  <2>. QED BY <2>9, <2>10, Zenon DEF OutputInv
<1>. QED BY <1>12, <1>13

LEMMA WriteTags ==
  ASSUME DriverInv, InputInv, OutputInv, ChildWrite(~ Gone), UNCHANGED driverVars
  PROVE  InputInv' /\ OutputInv'
<1>1. UNCHANGED <<issued, delivered, buftun, nicIn, bufin>>
  BY DriverStays
<1>2. UNCHANGED <<toChild, childBuf, seen, emitted>>
  BY DEF ChildWrite
<1>3. Outward' = Outward
  <2>1. CASE Gone
    BY <1>1, <2>1, OutwardStays DEF ChildWrite
  <2>2. CASE ~ Gone
    BY <2>2, WriteMoves
  <2>. QED BY <2>1, <2>2
<1>. QED BY <1>1, <1>2, <1>3, InputStays, OutputStays

\* The MAC addresses are no frame.
LEMMA SendMacsTags ==
  ASSUME DriverInv, InputInv, OutputInv, SendMacs(alive), UNCHANGED childVars
  PROVE  InputInv' /\ OutputInv'
<1>1. /\ UNCHANGED <<issued, seen, emitted, delivered, buftun, nicIn, bufin, fromChild,
                      childBuf, childOut>>
  BY ChildStays, BuffersStay DEF SendMacs, worldVars
<1>2. Outward' = Outward
  BY <1>1, OutwardStays
<1>3. UnitTags(childBuf' \o toChild') = UnitTags(childBuf \o toChild)
  <2>1. CASE ~ alive
    BY <1>1, <2>1, Zenon DEF SendMacs
  <2>2. CASE alive
    <3>1. PICK u \in Seq(UnitSet) : u = Units(Macs)
      BY Lengths, UnitsOfMessage
    <3>2. PICK c \in Seq(UnitSet), t \in Seq(UnitSet) :
            c = childBuf /\ t = toChild /\ UnitTags(c \o t) \in Seq(Tag)
      BY Buffers, WayIn
    <3>3. UnitTags(u) = <<>>
      <4>1. Macs \in Message /\ Macs.type = 0
        BY Lengths, MessageFields
      <4>. QED BY <3>1, <4>1, TagsOfMessage, TagsOfUnits
    <3>4. c \o (t \o u) = (c \o t) \o u /\ c \o t \in Seq(UnitSet)
      <4>1. Regroups(c, t, u)
        BY Regrouped
      <4>2. c \o t \in Seq(UnitSet)
        BY ConcatProperties
      <4>. QED BY <4>1, <4>2, Zenon DEF Regroups
    <3>5. UnitTags((c \o t) \o u) = UnitTags(c \o t) \o <<>>
      BY <3>3, <3>4, UnitTagsAre
    <3>6. UnitTags(c \o t) \o <<>> = UnitTags(c \o t)
      BY <3>2, ConcatEmptySeq
    <3>7. toChild' = t \o u /\ childBuf' = c
      BY <1>1, <2>2, <3>1, <3>2 DEF SendMacs
    <3>. QED BY <3>2, <3>4, <3>5, <3>6, <3>7, Zenon
  <2>. QED BY <2>1, <2>2
<1>. QED BY <1>1, <1>2, <1>3, InputStays, OutputStays

\* What a write() to the child moves, holds a frame if it is the last of its job.
LEMMA JobPart ==
  ASSUME DriverInv, curRead # Nobody, NEW n \in 1..curLeft
  PROVE  \E a \in Seq(UnitSet) :
           /\ a = Take(JobLeft, n)
           /\ UnitTags(a) = IF n = curLeft THEN TagOf(JobMessage.tag) ELSE <<>>
<1>1. PICK m \in Message : m = JobMessage
  BY JobIsMessage
<1>2. /\ curLeft \in 1..Length(m) /\ Length(m) \in Nat
  BY <1>1, Lengths DEF DriverInv, JobOK
<1>3. PICK u \in Seq(UnitSet) :
        u = Units(m) /\ Len(u) = Length(m) /\ \A k \in 1..Length(m) : u[k] = Unit(m, k)
  BY UnitsOfMessage
<1>4. PICK b \in 0..Len(u) : b = Length(m) - curLeft
  BY <1>2, <1>3
<1>5. PICK j \in Seq(UnitSet) :
        /\ j = Drop(u, b) /\ Len(j) = Len(u) - b
        /\ \A k \in 1..(Len(u) - b) : j[k] = u[b + k]
  BY DropIs
<1>6. j = JobLeft
  BY <1>1, <1>3, <1>4, <1>5, Zenon DEF JobLeft
<1>7. n \in 0..Len(j) /\ Len(j) = curLeft
  BY <1>2, <1>3, <1>4, <1>5
<1>8. PICK a \in Seq(UnitSet) :
        a = Take(j, n) /\ Len(a) = n /\ \A k \in 1..n : a[k] = j[k]
  BY <1>7, TakeIs
<1>9. \A k \in 1..Len(a) : a[k] = Unit(m, b + k)
  <2>1. ASSUME NEW k \in 1..n
        PROVE  k \in 1..(Len(u) - b) /\ b + k \in 1..Length(m)
    BY <1>2, <1>3, <1>4, <1>5, <1>7
  <2>. QED BY <1>3, <1>5, <1>8, <2>1
<1>10. /\ b \in Nat /\ Len(a) # 0 /\ b + Len(a) <= Length(m)
       /\ b + Len(a) = Length(m) <=> n = curLeft
  BY <1>2, <1>3, <1>4, <1>8
<1>11. UnitTags(a) = IF b + Len(a) = Length(m) THEN TagOf(m.tag) ELSE <<>>
  BY <1>9, <1>10, TagsOfPart
<1>. QED BY <1>1, <1>6, <1>8, <1>10, <1>11

LEMMA WriteChildTags ==
  ASSUME DriverInv, InputInv, OutputInv, WriteChild(alive), UNCHANGED <<childVars, opened>>
  PROVE  InputInv' /\ OutputInv'
<1>1. UNCHANGED <<issued, seen, emitted, delivered, nicIn, bufin, fromChild, childBuf, childOut>>
  <2>1. CASE ~ alive
    BY <2>1, ChildStays, BuffersStay DEF WriteChild, Return, worldVars
  <2>2. CASE alive
    BY <2>2, ChildStays DEF WriteChild, worldVars
  <2>. QED BY <2>1, <2>2
<1>2. Outward' = Outward
  BY <1>1, OutwardStays
<1>3. OutputInv'
  BY <1>1, <1>2, OutputStays
<1>4. CASE ~ alive
  <2>1. UNCHANGED <<toChild, buftun>>
    BY <1>4, BuffersStay DEF WriteChild, Return
  <2>2. UnitTags(childBuf' \o toChild') = UnitTags(childBuf \o toChild)
    BY <1>1, <2>1, Zenon
  <2>. QED BY <1>1, <1>3, <2>1, <2>2, InputStays
<1>5. CASE alive
  <2>1. curRead # Nobody /\ curRead \in {Cmd} \union Ifc
    BY DEF WriteChild, DriverInv, ReadyOK, TypeOK
  <2>2. PICK n : n = Accepted(toChild, JobMessage, curLeft)
    OBVIOUS
  <2>3. n \in 1..curLeft
    <3>1. pc = "write"
      BY DEF WriteChild
    <3>. QED BY <1>5, <2>2, <3>1, JobMoves
  <2>4. /\ toChild' = toChild \o Take(JobLeft, n)
        /\ IF n = curLeft THEN FinishJob ELSE UNCHANGED <<curRead, cmdBuf, buftun>>
    BY <1>5, <2>2 DEF WriteChild
  <2>5. PICK a \in Seq(UnitSet) :
          /\ a = Take(JobLeft, n)
          /\ UnitTags(a) = IF n = curLeft THEN TagOf(JobMessage.tag) ELSE <<>>
    BY <2>1, <2>3, JobPart
  <2>6. PICK u \in Seq(Tag) : u = UnitTags(a)
    BY UnitTagsAre
  <2>7. PICK i \in Seq(Tag) : i = UnitTags(childBuf \o toChild)
    BY WayIn
  <2>8. UnitTags(childBuf' \o toChild') = i \o u
    <3>1. PICK c \in Seq(UnitSet), t \in Seq(UnitSet) : c = childBuf /\ t = toChild
      BY Buffers
    <3>2. c \o (t \o a) = (c \o t) \o a /\ c \o t \in Seq(UnitSet)
      <4>1. Regroups(c, t, a)
        BY Regrouped
      <4>2. c \o t \in Seq(UnitSet)
        BY ConcatProperties
      <4>. QED BY <4>1, <4>2, Zenon DEF Regroups
    <3>3. UnitTags((c \o t) \o a) = UnitTags(c \o t) \o UnitTags(a)
      BY <3>2, UnitTagsAre
    <3>. QED BY <1>1, <2>4, <2>5, <2>6, <2>7, <3>1, <3>2, <3>3, Zenon
  <2>9. /\ \E w \in Seq(Tag) : w = Waiting' /\ Waiting = u \o w
        /\ \A p \in Ifc \ TaggedIfc : Untagged(buftun'[p], nicIn'[p])
    <3>1. PICK w \in Seq(Tag) : w = Waiting
      BY WaitingIs
    <3>2. \A p \in Ifc \ TaggedIfc : Untagged(buftun[p], nicIn[p])
      BY DEF InputInv
    <3>3. CASE buftun' = buftun /\ u = <<>>
      <4>1. Waiting' = w /\ u \o w = w
        BY <1>1, <3>1, <3>3, WaitingStays, ConcatEmptySeq
      <4>. QED BY <1>1, <3>1, <3>2, <3>3, <4>1
    <3>4. CASE n # curLeft
      BY <2>4, <2>5, <2>6, <3>3, <3>4
    <3>5. CASE n = curLeft /\ curRead = Cmd
      <4>1. buftun' = buftun
        BY <2>4, <3>5 DEF FinishJob
      <4>2. u = TagOf(Line.tag)
        <5>1. JobMessage = Line
          BY <3>5, Zenon DEF JobMessage
        <5>. QED BY <2>5, <2>6, <3>5, <5>1
      <4>3. Line \in Message /\ Line.type = 0
        BY Lengths, MessageFields
      <4>. QED BY <3>3, <4>1, <4>2, <4>3, TagsOfUnits
    <3>6. CASE n = curLeft /\ curRead # Cmd
      <4>1. curRead \in Ifc
        BY <2>1, <3>6
      <4>2. buftun' = [buftun EXCEPT ![curRead] = "none"]
        BY <2>4, <3>6 DEF FinishJob
      <4>3. PICK b \in Tag, q \in Seq(Tag) : b = buftun[curRead] /\ q = nicIn[curRead]
        BY <4>1, WaitingIs DEF DriverInv, JobOK
      <4>4. u = TagOf(b)
        <5>1. JobMessage = Frame(curRead, b)
          BY <3>6, <4>3, Zenon DEF JobMessage
        <5>2. JobMessage.tag = b
          BY <5>1 DEF Frame
        <5>. QED BY <2>5, <2>6, <3>6, <5>2
      <4>5. /\ buftun'[curRead] = "none" /\ nicIn' = nicIn
            /\ \A p \in Ifc : p # curRead => buftun'[p] = buftun[p]
        BY <1>1, <4>1, <4>2 DEF DriverInv, TypeOK
      <4>6. ASSUME NEW p \in Ifc \ TaggedIfc
            PROVE  Untagged(buftun'[p], nicIn'[p])
        <5>1. CASE p = curRead
          BY <3>2, <4>5, <5>1, FrameTags DEF Untagged
        <5>2. CASE p # curRead
          BY <3>2, <4>5, <5>2
        <5>. QED BY <5>1, <5>2
      <4>7. CASE curRead \in TaggedIfc
        <5>1. curRead = Followed /\ TaggedIfc # {}
          BY <4>7, FollowedIs
        <5>2. Waiting = Held(b, q)
          BY <4>3, <5>1, WaitingIs
        <5>3. Waiting' = Held("none", q)
          <6>1. Waiting' = TagsAt(Followed)'
            BY <5>1, Zenon DEF Waiting
          <6>2. TagsAt(Followed)' = Held("none", q)
            BY <4>3, <4>5, <5>1, Zenon DEF TagsAt, Held
          <6>. QED BY <6>1, <6>2
        <5>4. PICK h \in Seq(Tag) : h = Held("none", q) /\ Held(b, q) = TagOf(b) \o h
          BY HeldIs
        <5>. QED BY <4>4, <4>6, <5>2, <5>3, <5>4
      <4>8. CASE curRead \notin TaggedIfc
        <5>1. u = <<>>
          BY <3>2, <4>1, <4>3, <4>4, <4>8 DEF Untagged
        <5>2. Waiting' = w
          <6>1. CASE TaggedIfc = {}
            BY <3>1, <6>1, Zenon DEF Waiting
          <6>2. CASE TaggedIfc # {}
            <7>1. Followed \in Ifc /\ Followed # curRead
              BY <4>8, <6>2, FollowedIs
            <7>2. buftun'[Followed] = buftun[Followed] /\ nicIn'[Followed] = nicIn[Followed]
              BY <4>5, <7>1
            <7>3. TagsAt(Followed)' = TagsAt(Followed)
              BY <7>2, Zenon DEF TagsAt
            <7>. QED BY <3>1, <7>3, Zenon DEF Waiting
          <6>. QED BY <6>1, <6>2
        <5>3. u \o w = w
          BY <5>1, ConcatEmptySeq
        <5>. QED BY <3>1, <4>6, <5>2, <5>3
      <4>. QED BY <4>7, <4>8
    <3>. QED BY <3>4, <3>5, <3>6
  <2>10. PICK w \in Seq(Tag) : w = Waiting' /\ Waiting = u \o w
    BY <2>9
  <2>11. PICK e \in Seq(Tag) : e = seen
    BY DEF InputInv
  <2>12. i \o (u \o w) = (i \o u) \o w
    <3>1. Regroups(i, u, w)
      BY Regrouped
    <3>. QED BY <3>1, Zenon DEF Regroups
  <2>13. issued = e \o (i \o (u \o w))
    BY <2>7, <2>10, <2>11, Zenon DEF InputInv
  <2>14. issued' = seen' \o (UnitTags(childBuf' \o toChild') \o Waiting')
    BY <1>1, <2>8, <2>10, <2>11, <2>12, <2>13, Zenon
  <2>15. issued' \in Seq(Tag) /\ seen' \in Seq(Tag)
    BY <1>1 DEF InputInv
  <2>16. InputInv'
    BY <2>9, <2>14, <2>15, Zenon DEF InputInv
  <2>. QED BY <1>3, <2>16
<1>. QED BY <1>4, <1>5

\* A frame that is sent is the first of those on their way.
LEMMA SendTags ==
  ASSUME DriverInv, InputInv, OutputInv, SendAndPick, UNCHANGED <<childVars, opened>>
  PROVE  InputInv' /\ OutputInv'
<1>1. /\ SendFrame
      /\ UNCHANGED <<toChild, fromChild, buftun, issued, nicIn, seen, emitted, childBuf, childOut>>
  BY ChildStays DEF SendAndPick, worldVars
<1>2. InputInv'
  BY <1>1, InputStays, Zenon
<1>3. CASE SendFd(curWrite) \notin ready
  <2>1. UNCHANGED <<bufin, delivered>>
    BY <1>1, <1>3 DEF SendFrame
  <2>2. Outward' = Outward
    BY <1>1, <2>1, OutwardStays
  <2>. QED BY <1>1, <1>2, <2>1, <2>2, OutputStays
<1>4. CASE SendFd(curWrite) \in ready
  <2>1. PICK m : m = bufin[1].msg
    OBVIOUS
  <2>2. bufin' = Drop(bufin, FrameLen) /\ delivered' = delivered \o TagOf(m.tag)
    BY <1>1, <1>4, <2>1 DEF SendFrame
  <2>3. curWrite \in Ifc
    BY <1>4, Descriptors DEF DriverInv, TypeOK
  <2>4. HasMessage(bufin) /\ m.type = curWrite
    BY <2>1, <2>3 DEF DriverInv, SendOK
  <2>5. Length(m) = FrameLen
    BY <2>3, <2>4 DEF Length, Ifc
  <2>6. PICK b \in Seq(UnitSet), f \in Seq(UnitSet), c \in Seq(UnitSet) :
          /\ b = bufin /\ f = fromChild /\ c = childOut
          /\ Len(b) \in Nat /\ b # <<>> /\ Len(b) >= 1 /\ Len(b) >= FrameLen
    <3>1. bufin # <<>> /\ Len(bufin) >= FrameLen
      BY <2>1, <2>4, <2>5 DEF HasMessage
    <3>. QED BY <3>1, Buffers, EmptySeq
  <2>7. PICK v \in Seq(UnitSet) : IsJoined(v, f, c)
    BY Joined
  <2>8. PICK s \in Seq(UnitSet) : IsJoined(s, b, v)
    BY Joined
  <2>9. s = Outward
    <3>1. Regroups(b, f, c)
      BY Regrouped
    <3>. QED BY <2>6, <2>7, <2>8, <3>1, Zenon DEF Outward, IsJoined, Regroups
  <2>10. s # <<>> /\ s[1] = b[1] /\ Len(s) >= FrameLen
    <3>1. Len(v) \in Nat /\ Len(s) = Len(b) + Len(v) /\ s[1] = b[1] /\ FrameLen \in Nat
      BY <2>6, <2>8, LenProperties, Sizes DEF IsJoined
    <3>2. Len(s) >= 1 /\ Len(s) >= FrameLen
      BY <2>6, <3>1
    <3>. QED BY <3>1, <3>2, EmptySeq
  <2>11. UnitTags(s) = TagOf(m.tag) \o UnitTags(Drop(s, FrameLen)) /\ m \in Message
    <3>1. IsStream(s)
      BY <2>9, WayOut
    <3>2. s[1].msg = m
      BY <2>1, <2>6, <2>10
    <3>3. HasMessage(s)
      BY <2>5, <2>10, <3>2 DEF HasMessage
    <3>. QED BY <2>5, <3>1, <3>2, <3>3, TagsOfFirst
  <2>12. PICK r \in Seq(UnitSet) : r = Drop(b, FrameLen) /\ r \o v = Drop(s, FrameLen)
    <3>1. FrameLen \in 0..Len(b)
      BY <2>6, Sizes
    <3>2. Drop(b, FrameLen) \in Seq(UnitSet)
      BY <3>1, DropIs
    <3>3. Drop(b, FrameLen) \o v = Drop(b \o v, FrameLen)
      BY <3>1, DropFront
    <3>. QED BY <2>8, <3>2, <3>3 DEF IsJoined
  <2>13. Outward' = r \o v
    <3>1. Regroups(r, f, c)
      BY Regrouped
    <3>2. bufin' = r /\ fromChild' = f /\ childOut' = c
      BY <1>1, <2>2, <2>6, <2>12
    <3>. QED BY <2>7, <3>1, <3>2, Zenon DEF Outward, IsJoined, Regroups
  <2>14. PICK t \in Seq(Tag), u \in Seq(Tag), d \in Seq(Tag) :
           t = TagOf(m.tag) /\ u = UnitTags(Outward') /\ d = delivered
    <3>1. r \o v \in Seq(UnitSet)
      BY ConcatProperties
    <3>. QED BY <2>11, <2>13, <3>1, TagsOfUnits, UnitTagsAre DEF OutputInv
  <2>15. emitted = d \o (t \o u)
    BY <2>9, <2>11, <2>12, <2>13, <2>14, Zenon DEF OutputInv
  <2>16. d \o (t \o u) = (d \o t) \o u /\ d \o t \in Seq(Tag)
    <3>1. Regroups(d, t, u)
      BY Regrouped
    <3>2. d \o t \in Seq(Tag)
      BY ConcatProperties
    <3>. QED BY <3>1, <3>2, Zenon DEF Regroups
  <2>17. emitted' = delivered' \o UnitTags(Outward')
    BY <1>1, <2>2, <2>14, <2>15, <2>16, Zenon
  <2>18. emitted' \in Seq(Tag) /\ delivered' \in Seq(Tag)
    BY <1>1, <2>2, <2>14, <2>16 DEF OutputInv
  <2>. QED BY <1>2, <2>17, <2>18, Zenon DEF OutputInv
<1>. QED BY <1>3, <1>4

\* Texts that are printed hold no frame.
LEMMA ReadChildTags ==
  ASSUME DriverInv, InputInv, OutputInv, ReadChild, UNCHANGED <<childVars, opened>>
  PROVE  InputInv' /\ OutputInv'
<1>1. UNCHANGED <<toChild, issued, delivered, nicIn, buftun, seen, emitted, childBuf, childOut>>
  BY ChildStays, BuffersStay DEF ReadChild, Return, worldVars
<1>2. InputInv'
  BY <1>1, InputStays, Zenon
<1>3. CASE ChildOut \in ready /\ fromChild = <<>>
  <2>1. UNCHANGED <<bufin, fromChild>>
    BY <1>3, BuffersStay DEF ReadChild, Return
  <2>2. Outward' = Outward
    BY <1>1, <2>1, OutwardStays
  <2>. QED BY <1>1, <1>2, <2>2, OutputStays
<1>4. CASE ~ (ChildOut \in ready /\ fromChild = <<>>)
  <2>1. PICK n \in Amounts(IF ChildOut \in ready THEN Len(fromChild) ELSE 0, BufCap - Len(bufin)) :
          HandleBuffer(bufin \o Take(fromChild, n)) /\ fromChild' = Drop(fromChild, n)
    BY <1>4, Zenon DEF ReadChild
  <2>2. PICK o \in Seq(UnitSet), f \in Seq(UnitSet), c \in Seq(UnitSet) :
          /\ o = bufin /\ f = fromChild /\ c = childOut
          /\ Len(o) \in Nat /\ Len(o) <= BufCap /\ Len(f) \in Nat
    BY Buffers
  <2>3. n \in 0..Len(f)
    <3>1. BufCap - Len(o) \in Nat
      BY <2>2, Sizes
    <3>2. CASE ChildOut \in ready
      BY <2>1, <2>2, <3>1, <3>2, AmountsAre
    <3>3. CASE ChildOut \notin ready
      <4>1. n \in Amounts(0, BufCap - Len(o))
        BY <2>1, <2>2, <3>3
      <4>. QED BY <2>2, <3>1, <4>1, AmountsAre
    <3>. QED BY <3>2, <3>3
  <2>4. PICK buf \in Seq(UnitSet), b \in Seq(UnitSet) :
          buf = o \o Take(f, n) /\ b = Drop(f, n) /\ buf \o b = o \o f
    <3>1. PICK u : u = o \o Take(f, n)
      OBVIOUS
    <3>2. PICK v : v = Drop(f, n)
      OBVIOUS
    <3>3. u \in Seq(UnitSet) /\ v \in Seq(UnitSet) /\ u \o v = o \o f
      BY <2>3, <3>1, <3>2, Moved, Zenon
    <3>. QED BY <3>1, <3>2, <3>3, Zenon
  <2>5. HandleBuffer(buf) /\ fromChild' = b
    BY <2>1, <2>2, <2>4
  <2>6. (buf \o b) \o c = Outward
    BY <2>2, <2>4, Zenon DEF Outward
  <2>7. IsWhole((buf \o b) \o c) /\ \A k \in 1..Len(Outward) : Outward[k].msg \in Answer
    BY <2>6 DEF DriverInv, StreamsOK
  <2>8. IsStream(buf)
    BY <2>7, FrontOfThree
  <2>9. ASSUME NEW k \in 1..Len(buf)
        PROVE  buf[k].msg \in Answer
    <3>1. k \in 1..Len((buf \o b) \o c) /\ ((buf \o b) \o c)[k] = buf[k]
      BY UnitsOfFront
    <3>. QED BY <2>6, <2>7, <3>1
  <2>10. PICK p \in 0..Len(buf) : bufin' = Drop(buf, p) /\ \A k \in 1..p : buf[k].msg = Text
    BY <2>5, <2>8, <2>9, BufferHandled
  <2>11. PICK a \in Seq(UnitSet), r \in Seq(UnitSet) :
           /\ a = Take(buf, p) /\ Len(a) = p /\ \A k \in 1..p : a[k] = buf[k]
           /\ r = Drop(buf, p)
    BY TakeIs, DropIs
  <2>12. UnitTags(a) = <<>>
    <3>1. ASSUME NEW k \in 1..Len(a)
          PROVE  tagOfUnit[a[k]] = <<>>
      <4>1. a[k] \in UnitSet /\ a[k].msg = Text
        <5>1. k \in 1..p
          BY <2>11
        <5>. QED BY <2>10, <2>11, <5>1, ElementOfSeq
      <4>2. PICK w \in UnitSet : w = a[k] /\ w.msg = Text
        BY <4>1
      <4>3. PICK q \in 1..Length(Text) : q = w.part /\ w = Unit(Text, q)
        BY <4>2, UnitFields
      <4>4. Text \in Message /\ Text.type = 0
        BY Lengths, MessageFields
      <4>5. tagOfUnit[Unit(Text, q)] = IF q = Length(Text) THEN TagOf(Text.tag) ELSE <<>>
        BY <4>4, TagsOfUnits
      <4>6. TagOf(Text.tag) = <<>>
        BY <4>4, TagsOfUnits
      <4>. QED BY <4>2, <4>3, <4>5, <4>6, Zenon
    <3>. QED BY <3>1, TagsOfUnits, MappedNone DEF UnitTags
  <2>13. buf = a \o r
    <3>1. PICK e \in Seq(UnitSet) : e = <<>>
      BY EmptySeq
    <3>2. (e \o Take(buf, p)) \o Drop(buf, p) = e \o buf
      BY MovedUnits
    <3>3. e \o a = a /\ e \o buf = buf
      BY <3>1, ConcatEmptySeq
    <3>. QED BY <2>11, <3>2, <3>3
  <2>14. PICK v \in Seq(UnitSet) : v = (r \o b) \o c /\ Outward = a \o v
    <3>1. PICK g \in Seq(UnitSet), h \in Seq(UnitSet) : g = r \o b /\ h = g \o c
      <4>1. PICK g \in Seq(UnitSet) : g = r \o b
        BY ConcatProperties
      <4>2. g \o c \in Seq(UnitSet)
        BY ConcatProperties
      <4>. QED BY <4>1, <4>2
    <3>2. Regroups(a, r, b) /\ Regroups(a, g, c)
      BY Regrouped
    <3>. QED BY <2>6, <2>13, <3>1, <3>2, Zenon DEF Regroups
  <2>15. Outward' = v
    BY <1>1, <2>2, <2>5, <2>10, <2>11, <2>14, Zenon DEF Outward
  <2>16. UnitTags(Outward) = UnitTags(v)
    <3>1. UnitTags(a \o v) = UnitTags(a) \o UnitTags(v) /\ UnitTags(v) \in Seq(Tag)
      BY UnitTagsAre
    <3>2. <<>> \o UnitTags(v) = UnitTags(v)
      BY <3>1, ConcatEmptySeq
    <3>. QED BY <2>12, <2>14, <3>1, <3>2
  <2>. QED BY <1>1, <1>2, <2>15, <2>16, OutputStays
<1>. QED BY <1>3, <1>4

\* A receive moves the first frame of a queue into the buffer before it.
LEMMA ReceiveTags ==
  ASSUME DriverInv, InputInv, OutputInv, ReceiveFrames, UNCHANGED <<childVars, opened>>
  PROVE  InputInv' /\ OutputInv'
<1>1. UNCHANGED <<toChild, fromChild, issued, delivered, seen, emitted, childBuf, childOut, bufin>>
  BY ChildStays DEF ReceiveFrames
<1>2. Outward' = Outward
  BY <1>1, OutwardStays
<1>3. OutputInv'
  BY <1>1, <1>2, OutputStays
<1>4. /\ buftun' = [p \in Ifc |-> IF RecvFd(p) \in ready THEN Head(nicIn[p]) ELSE buftun[p]]
      /\ nicIn' = [p \in Ifc |-> IF RecvFd(p) \in ready THEN Tail(nicIn[p]) ELSE nicIn[p]]
  BY DEF ReceiveFrames
<1>5. ASSUME NEW p \in Ifc
      PROVE  /\ Held(buftun'[p], nicIn'[p]) = Held(buftun[p], nicIn[p])
             /\ Untagged(buftun[p], nicIn[p]) => Untagged(buftun'[p], nicIn'[p])
  <2>1. PICK q \in Seq(Tag) : q = nicIn[p]
    BY WaitingIs
  <2>2. CASE RecvFd(p) \in ready
    <3>1. buftun[p] = "none" /\ q # <<>>
      BY <2>1, <2>2 DEF DriverInv, ReadyOK
    <3>2. buftun'[p] = Head(q) /\ nicIn'[p] = Tail(q)
      BY <1>4, <2>1, <2>2, Zenon
    <3>3. PICK h \in Tag, r \in Seq(Tag) :
            /\ h = Head(q) /\ r = Tail(q) /\ Held(h, r) = Held("none", q)
            /\ \A k \in 1..Len(r) : \E j \in 1..Len(q) : r[k] = q[j]
            /\ \E j \in 1..Len(q) : h = q[j]
      BY <3>1, HeldTaken
    <3>4. Held(buftun'[p], nicIn'[p]) = Held(buftun[p], nicIn[p])
      BY <2>1, <3>1, <3>2, <3>3, Zenon
    <3>5. Untagged(buftun[p], q) => Untagged(h, r)
      BY <3>3, Zenon DEF Untagged
    <3>. QED BY <2>1, <3>2, <3>3, <3>4, <3>5, Zenon
  <2>3. CASE RecvFd(p) \notin ready
    <3>1. buftun'[p] = buftun[p] /\ nicIn'[p] = nicIn[p]
      BY <1>4, <2>3, Zenon
    <3>. QED BY <3>1, Zenon
  <2>. QED BY <2>2, <2>3
<1>6. Waiting' = Waiting
  <2>1. CASE TaggedIfc = {}
    BY <2>1, Zenon DEF Waiting
  <2>2. CASE TaggedIfc # {}
    <3>1. Held(buftun'[Followed], nicIn'[Followed]) = Held(buftun[Followed], nicIn[Followed])
      BY <1>5, <2>2, FollowedIs
    <3>2. TagsAt(Followed)' = TagsAt(Followed)
      BY <3>1, Zenon DEF TagsAt, Held
    <3>. QED BY <3>2, Zenon DEF Waiting
  <2>. QED BY <2>1, <2>2
<1>7. \A p \in Ifc \ TaggedIfc : Untagged(buftun'[p], nicIn'[p])
  BY <1>5 DEF InputInv
<1>8. InputInv'
  BY <1>1, <1>6, <1>7, Zenon DEF InputInv
<1>. QED BY <1>3, <1>8

\* A frame that arrives is the last of those on their way.
LEMMA ArriveTags ==
  ASSUME DriverInv, InputInv, OutputInv, NEW p \in Ifc, NEW t \in Tag, Arrive(p, t),
         UNCHANGED childVars
  PROVE  InputInv' /\ OutputInv'
<1>1. /\ UNCHANGED <<toChild, fromChild, delivered, seen, emitted, childBuf, childOut, bufin, buftun>>
      /\ <<p, t>> \in Arrivals
      /\ issued' = issued \o TagOf(t)
      /\ nicIn' = [nicIn EXCEPT ![p] = Append(@, t)]
  BY ChildStays, BuffersStay DEF Arrive
<1>2. Outward' = Outward
  BY <1>1, OutwardStays
<1>3. OutputInv'
  BY <1>1, <1>2, OutputStays
<1>4. PICK q \in Seq(Tag) : q = nicIn[p]
  BY WaitingIs
<1>5. nicIn'[p] = Append(q, t) /\ \A o \in Ifc : o # p => nicIn'[o] = nicIn[o]
  BY <1>1, <1>4 DEF DriverInv, OtherTypes
<1>6. PICK w \in Seq(Tag), g \in Seq(Tag) : w = Waiting /\ g = TagOf(t)
  BY WaitingIs, TagsOfUnits
<1>7. Waiting' = w \o g
  <2>1. CASE p \in TaggedIfc
    <3>1. p = Followed /\ TaggedIfc # {}
      BY <2>1, FollowedIs
    <3>2. PICK b : b \in Tag \union {"none"} /\ b = buftun[p]
      BY WaitingIs
    <3>3. Held(b, Append(q, t)) = Held(b, q) \o TagOf(t)
      BY <3>2, HeldAppended
    <3>4. w = Held(b, q)
      BY <1>4, <1>6, <3>1, <3>2, WaitingIs
    <3>5. Waiting' = Held(b, Append(q, t))
      <4>1. Waiting' = TagsAt(Followed)'
        BY <3>1, Zenon DEF Waiting
      <4>2. buftun'[Followed] = b /\ nicIn'[Followed] = Append(q, t)
        BY <1>1, <1>5, <3>1, <3>2
      <4>3. TagsAt(Followed)' = Held(b, Append(q, t))
        BY <4>2, Zenon DEF TagsAt, Held
      <4>. QED BY <4>1, <4>3
    <3>. QED BY <1>6, <3>3, <3>4, <3>5
  <2>2. CASE p \notin TaggedIfc
    <3>1. g = <<>>
      BY <1>1, <1>6, <2>2, FollowedIs
    <3>2. Waiting' = w
      <4>1. CASE TaggedIfc = {}
        BY <1>6, <4>1, Zenon DEF Waiting
      <4>2. CASE TaggedIfc # {}
        <5>1. nicIn'[Followed] = nicIn[Followed] /\ buftun' = buftun
          BY <1>1, <1>5, <2>2, <4>2, FollowedIs
        <5>2. TagsAt(Followed)' = TagsAt(Followed)
          BY <5>1, Zenon DEF TagsAt
        <5>. QED BY <1>6, <5>2, Zenon DEF Waiting
      <4>. QED BY <4>1, <4>2
    <3>. QED BY <3>1, <3>2, ConcatEmptySeq
  <2>. QED BY <2>1, <2>2
<1>8. ASSUME NEW o \in Ifc \ TaggedIfc
      PROVE  Untagged(buftun'[o], nicIn'[o])
  <2>1. Untagged(buftun[o], nicIn[o])
    BY DEF InputInv
  <2>2. CASE o = p
    <3>1. TagOf(t) = <<>>
      BY <1>1, <2>2, FollowedIs
    <3>2. PICK s \in Seq(Tag) :
            /\ s = Append(q, t) /\ Len(s) = Len(q) + 1 /\ s[Len(q) + 1] = t
            /\ \A k \in 1..Len(q) : s[k] = q[k]
      <4>1. /\ Append(q, t) \in Seq(Tag) /\ Len(Append(q, t)) = Len(q) + 1
            /\ Append(q, t)[Len(q) + 1] = t
            /\ \A k \in 1..Len(q) : Append(q, t)[k] = q[k]
        BY AppendProperties
      <4>2. PICK s : s = Append(q, t)
        OBVIOUS
      <4>. QED BY <4>1, <4>2
    <3>3. Len(q) \in Nat
      BY LenProperties
    <3>4. \A k \in 1..Len(s) : k \in 1..Len(q) \/ k = Len(q) + 1
      BY <3>2, <3>3
    <3>. QED BY <1>1, <1>4, <1>5, <2>1, <2>2, <3>1, <3>2, <3>4 DEF Untagged
  <2>3. CASE o # p
    BY <1>1, <1>5, <2>1, <2>3
  <2>. QED BY <2>2, <2>3
<1>9. InputInv'
  <2>1. PICK e \in Seq(Tag), i \in Seq(Tag) : e = seen /\ i = UnitTags(childBuf \o toChild)
    BY WayIn DEF InputInv
  <2>2. UnitTags(childBuf' \o toChild') = i
    BY <1>1, <2>1, Zenon
  <2>3. issued = e \o (i \o w)
    BY <1>6, <2>1, Zenon DEF InputInv
  <2>4. (e \o (i \o w)) \o g = e \o (i \o (w \o g)) /\ (e \o (i \o w)) \o g \in Seq(Tag)
    <3>1. PICK h \in Seq(Tag), k \in Seq(Tag) : h = i \o w /\ k = e \o h
      <4>1. PICK h \in Seq(Tag) : h = i \o w
        BY ConcatProperties
      <4>2. e \o h \in Seq(Tag)
        BY ConcatProperties
      <4>. QED BY <4>1, <4>2
    <3>2. Regroups(e, h, g) /\ Regroups(i, w, g)
      BY Regrouped
    <3>3. k \o g \in Seq(Tag)
      BY ConcatProperties
    <3>. QED BY <3>1, <3>2, <3>3, Zenon DEF Regroups
  <2>5. issued' = seen' \o (UnitTags(childBuf' \o toChild') \o Waiting')
    BY <1>1, <1>6, <1>7, <2>1, <2>2, <2>3, <2>4, Zenon
  <2>6. issued' \in Seq(Tag) /\ seen' \in Seq(Tag)
    BY <1>1, <1>6, <2>1, <2>3, <2>4
  <2>. QED BY <1>8, <2>5, <2>6, Zenon DEF InputInv
<1>. QED BY <1>3, <1>9

LEMMA QuietTags ==
  ASSUME InputInv, OutputInv,
         UNCHANGED <<toChild, fromChild, childBuf, childOut, seen, emitted, runVars, worldVars,
                     delivered>>
  PROVE  InputInv' /\ OutputInv'
<1>1. UNCHANGED <<issued, nicIn, buftun, bufin>>
  BY BuffersStay DEF worldVars
<1>2. Outward' = Outward
  BY <1>1, OutwardStays
<1>3. UnitTags(childBuf' \o toChild') = UnitTags(childBuf \o toChild)
  BY Zenon
<1>. QED BY <1>1, <1>2, <1>3, InputStays, OutputStays

LEMMA ReadStdinTags ==
  ASSUME InputInv, OutputInv, ReadStdin, UNCHANGED <<childVars, opened>>
  PROVE  InputInv' /\ OutputInv'
<1>1. UNCHANGED <<childBuf, childOut, seen, emitted>>
  BY ChildStays
<1>2. CASE typed = 0
  BY <1>1, <1>2, QuietTags DEF ReadStdin, Return
<1>3. CASE typed # 0
  <2>1. UNCHANGED <<toChild, fromChild, buftun, bufin, nicIn, issued, delivered>>
    BY <1>3 DEF ReadStdin
  <2>2. Outward' = Outward
    BY <1>1, <2>1, OutwardStays
  <2>3. UnitTags(childBuf' \o toChild') = UnitTags(childBuf \o toChild)
    BY <1>1, <2>1, Zenon
  <2>. QED BY <1>1, <2>1, <2>2, <2>3, InputStays, OutputStays
<1>. QED BY <1>2, <1>3

LEMMA NextTags ==
  ASSUME DriverInv, InputInv, OutputInv, [Next]_vars
  PROVE  InputInv' /\ OutputInv'
<1>1. CASE Driver
  <2>1. DriverStep(alive) /\ UNCHANGED <<childVars, childBuf, childOut, seen, emitted>>
    BY <1>1, ChildStays DEF Driver
  <2>2. CASE SetUp(alive)
    <3>1. CASE SendMacs(alive)
      BY <2>1, <3>1, SendMacsTags
    <3>2. CASE ~ SendMacs(alive)
      <4>1. UNCHANGED <<toChild, fromChild, runVars, worldVars, delivered>>
        BY <2>2, <3>2 DEF SetUp, InitTun, InitTunFails, DropPrivileges, DropPrivilegesFails, CleanUp
      <4>. QED BY <2>1, <4>1, QuietTags
    <3>. QED BY <3>1, <3>2
  <2>3. CASE Run(alive)
    <3>1. UNCHANGED <<childVars, opened>>
      BY <2>1, <2>3 DEF Run
    <3>2. \/ Select(alive) \/ ReadStdin \/ WriteChild(alive)
          \/ SendAndPick \/ ReadChild \/ ReceiveFrames
      BY <2>3 DEF Run
    <3>3. CASE Select(alive)
      BY <2>1, <3>3, QuietTags DEF Select
    <3>4. CASE ReadStdin
      BY <3>1, <3>4, ReadStdinTags
    <3>5. CASE WriteChild(alive)
      BY <3>1, <3>5, WriteChildTags
    <3>6. CASE SendAndPick
      BY <3>1, <3>6, SendTags
    <3>7. CASE ReadChild
      BY <3>1, <3>7, ReadChildTags
    <3>8. CASE ReceiveFrames
      BY <3>1, <3>8, ReceiveTags
    <3>. QED BY <3>2, <3>3, <3>4, <3>5, <3>6, <3>7, <3>8
  <2>. QED BY <2>1, <2>2, <2>3 DEF DriverStep
<1>2. CASE Child
  BY <1>2, ReadTags, HandleTags, WriteTags DEF Child, ChildStep
<1>3. CASE Network
  BY <1>3, ArriveTags DEF Network
<1>4. CASE User
  <2>1. UNCHANGED <<toChild, fromChild, childVars, runVars, issued, nicIn, delivered>>
    BY <1>4 DEF User, TypeLine, CloseInput
  <2>2. UNCHANGED <<childBuf, childOut, seen, emitted, buftun, bufin>>
    BY <2>1, ChildStays, BuffersStay
  <2>3. Outward' = Outward
    BY <2>1, <2>2, OutwardStays
  <2>4. UnitTags(childBuf' \o toChild') = UnitTags(childBuf \o toChild)
    BY <2>1, <2>2, Zenon
  <2>. QED BY <2>1, <2>2, <2>3, <2>4, InputStays, OutputStays
<1>5. CASE Crash
  <2>1. UNCHANGED <<runVars, worldVars, delivered>>
    BY <1>5 DEF Crash, driverVars
  <2>. QED BY <1>5, <2>1, QuietTags DEF Crash, ChildDie
<1>6. CASE KillChild
  BY <1>6, QuietTags DEF KillChild
<1>7. CASE UNCHANGED vars
  <2>1. UNCHANGED <<toChild, fromChild, childVars, runVars, worldVars, delivered>>
    BY <1>7 DEF vars, driverVars
  <2>. QED BY <2>1, ChildStays, QuietTags
<1>. QED BY <1>1, <1>2, <1>3, <1>4, <1>5, <1>6, <1>7 DEF Next, Done

LEMMA InitTags == Init => InputInv /\ OutputInv
<1>. SUFFICES ASSUME Init PROVE InputInv /\ OutputInv
  OBVIOUS
<1>1. /\ toChild = <<>> /\ fromChild = <<>> /\ childBuf = <<>> /\ childOut = <<>>
      /\ bufin = <<>> /\ issued = <<>> /\ seen = <<>> /\ emitted = <<>> /\ delivered = <<>>
      /\ buftun = [p \in Ifc |-> "none"] /\ nicIn = [p \in Ifc |-> <<>>]
  BY DEF Init, ChildInit, DriverInit
<1>2. /\ <<>> \in Seq(Tag) /\ UnitTags(<<>>) = <<>> /\ TagOf("none") = <<>>
      /\ <<>> \o <<>> = <<>> /\ Len(<<>>) = 0
  BY EmptySeq, UnitTagsAre, FrameTags
<1>3. \A p \in Ifc : buftun[p] = "none" /\ nicIn[p] = <<>>
  BY <1>1
<1>4. Untagged("none", <<>>)
  BY <1>2 DEF Untagged
<1>5. \A p \in Ifc \ TaggedIfc : Untagged(buftun[p], nicIn[p])
  BY <1>3, <1>4
<1>6. Waiting = <<>>
  <2>1. CASE TaggedIfc = {}
    BY <2>1, Zenon DEF Waiting
  <2>2. CASE TaggedIfc # {}
    <3>1. PICK q \in Seq(Tag) : q = <<>>
      BY <1>2
    <3>2. Held("none", q) = Mapped(frameTags, q)
      BY HeldIs
    <3>3. Held("none", q) = <<>>
      BY <3>1, <3>2, FrameTags
    <3>4. Waiting = Held(buftun[Followed], nicIn[Followed])
      BY <2>2, Zenon DEF Waiting, TagsAt, Held
    <3>. QED BY <1>3, <2>2, <3>1, <3>3, <3>4, FollowedIs
  <2>. QED BY <2>1, <2>2
<1>7. childBuf \o toChild = <<>> /\ Outward = <<>>
  BY <1>1, <1>2, Zenon DEF Outward
<1>8. InputInv
  BY <1>1, <1>2, <1>5, <1>6, <1>7, Zenon DEF InputInv
<1>9. OutputInv
  BY <1>1, <1>2, <1>7, Zenon DEF OutputInv
<1>. QED BY <1>8, <1>9

LEMMA TagsHold == Spec => [](DriverInv /\ InputInv /\ OutputInv)
<1>1. Init => DriverInv /\ InputInv /\ OutputInv
  BY InitInv, InitTags
<1>2. DriverInv /\ InputInv /\ OutputInv /\ [Next]_vars => (DriverInv /\ InputInv /\ OutputInv)'
  BY NextInv, NextTags
<1>. QED BY <1>1, <1>2, PTL DEF Spec

\* On the way into the handler no frame is lost, doubled, overtaken or made up: the
\* followed frames that have arrived on an interface are those the handler has
\* seen, and those that are whole in the child's buffer and its pipe, in the
\* driver's buffer or with the kernel, in this order.
THEOREM InputArrivesInOrder == Spec => []InputStream
<1>1. ASSUME DriverInv, InputInv
      PROVE  InputStream
  <2>1. Tags(childBuf \o toChild) = UnitTags(childBuf \o toChild)
    BY <1>1, WayIn, TagsOfStream
  <2>. QED BY <1>1, <2>1, Zenon DEF InputInv, InputStream, InTransitIn, Waiting, Followed
<1>. QED BY <1>1, TagsHold, PTL

\* Nor on the way from a handler to the interfaces, whatever the handler writes
\* between them and however much of it fits into the pipe and the buffer.
THEOREM OutputLeavesInOrder == Spec => []OutputStream
<1>1. ASSUME DriverInv, OutputInv
      PROVE  OutputStream
  <2>1. Tags(Outward) = UnitTags(Outward)
    BY <1>1, WayOut, TagsOfStream
  <2>2. bufin \o fromChild \o childOut = Outward
    BY Zenon DEF Outward
  <2>. QED BY <1>1, <2>1, <2>2, Zenon DEF OutputInv, OutputStream, InTransitOut
<1>. QED BY <1>1, TagsHold, PTL
=============================================================================
