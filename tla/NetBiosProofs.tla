--------------------------- MODULE NetBiosProofs ---------------------------
(* Proofs about the framing for all bytes, frames and messages, all types a   *)
(* byte may stand for, and all ways the bytes may come and go.                *)
EXTENDS NetBiosProps, SequenceTheorems, WellFoundedInduction, TLAPS

-----------------------------------------------------------------------------
(* Induction over numbers, in the form of a set that holds all of them.       *)

\* A set of numbers that is not empty has a least one.
LEMMA LeastNat ==
    ASSUME NEW T \in SUBSET Nat, T # {}
    PROVE  \E n \in T : \A m \in T : n <= m
<1>1. IsWellFoundedOn(OpToRel(<, Nat), Nat)
  BY NatLessThanWellFounded
<1>2. PICK n \in T : \A m \in T : ~(<<m, n>> \in OpToRel(<, Nat))
  BY <1>1, WFMin, Zenon
<1>3. \A m \in T : ~(m < n)
  BY <1>2, Zenon DEF OpToRel
<1> QED BY <1>3

\* A set with 0, and with each number after one of its own, has them all.
LEMMA NatSetInduction ==
    ASSUME NEW S, 0 \in S, \A n \in Nat \ {0} : n - 1 \in S => n \in S
    PROVE  Nat \subseteq S
<1> SUFFICES ASSUME Nat \ S # {} PROVE FALSE
  OBVIOUS
<1>1. PICK n \in Nat \ S : \A m \in Nat \ S : n <= m
  BY LeastNat
<1>2. n # 0 /\ n - 1 \in Nat /\ n - 1 \in S
  BY <1>1
<1> QED BY <1>1, <1>2

-----------------------------------------------------------------------------
(* Sequences put one behind the other.                                        *)

\* The first i of some sequences, one behind the other, for every i.
Joins(ss) == CHOOSE f : f = [i \in 1 .. Len(ss) |->
                               IF i = 1 THEN ss[i] ELSE f[i - 1] \o ss[i]]

\* FlattenSeq is the last of them.
LEMMA FlattenIsJoin ==
    ASSUME NEW ss
    PROVE  FlattenSeq(ss) = IF Len(ss) = 0 THEN ss ELSE Joins(ss)[Len(ss)]
BY DEF FlattenSeq, Joins

\* There are such joins.
LEMMA JoinsExist ==
    ASSUME NEW ss, NEW n \in Nat
    PROVE  \E f : f = [i \in 1 .. n |-> IF i = 1 THEN ss[i] ELSE f[i - 1] \o ss[i]]
<1> DEFINE Is(f, m) == f = [i \in 1 .. m |-> IF i = 1 THEN ss[i] ELSE f[i - 1] \o ss[i]]
           S == {m \in Nat : \E f : Is(f, m)}
<1>1. 0 \in S
  <2> DEFINE f == [i \in 1 .. 0 |-> <<>>]
  <2>1. Is(f, 0)
    OBVIOUS
  <2> HIDE DEF f, Is
  <2> QED BY <2>1
<1>2. ASSUME NEW m \in Nat \ {0}, m - 1 \in S
      PROVE  m \in S
  <2>1. PICK f : Is(f, m - 1)
    BY <1>2
  <2> DEFINE last == IF m = 1 THEN ss[m] ELSE f[m - 1] \o ss[m]
             g == [i \in 1 .. m |-> IF i = m THEN last ELSE f[i]]
             h == [i \in 1 .. m |-> IF i = 1 THEN ss[i] ELSE g[i - 1] \o ss[i]]
  <2>2. ASSUME NEW i \in 1 .. m
        PROVE  g[i] = h[i]
    <3>1. \A q \in 1 .. m : q # 1 => q - 1 \in 1 .. m /\ g[q - 1] = f[q - 1]
      OBVIOUS
    <3>2. \A q \in 1 .. m : h[q] = IF q = 1 THEN ss[q] ELSE g[q - 1] \o ss[q]
      <4> HIDE DEF g
      <4> QED OBVIOUS
    <3>3. \A q \in 1 .. m : g[q] = IF q = m THEN last ELSE f[q]
      <4> HIDE DEF last
      <4> QED OBVIOUS
    <3>4. \A q \in 1 .. m - 1 : f[q] = IF q = 1 THEN ss[q] ELSE f[q - 1] \o ss[q]
      BY <2>1
    <3> HIDE DEF g, h
    <3>5. CASE i = m
      BY <3>1, <3>2, <3>3, <3>5
    <3>6. CASE i # m
      <4>1. i \in 1 .. m - 1
        BY <3>6
      <4> QED BY <3>1, <3>2, <3>3, <3>4, <3>6, <4>1
    <3> QED BY <3>5, <3>6
  <2>3. g = h
    <3> HIDE DEF Is
    <3> QED BY <2>2
  <2>4. Is(g, m)
    BY <2>3
  <2> HIDE DEF g, Is
  <2> QED BY <2>4
<1> HIDE DEF S
<1>3. Nat \subseteq S
  BY <1>1, <1>2, NatSetInduction
<1> QED BY <1>3 DEF S

\* Each has one sequence more than the one before.
LEMMA JoinSteps ==
    ASSUME NEW ss, NEW n \in Nat, n = Len(ss), NEW q \in 1 .. n
    PROVE  Joins(ss)[q] = IF q = 1 THEN ss[q] ELSE Joins(ss)[q - 1] \o ss[q]
<1> DEFINE j == Joins(ss)
<1>1. \E f : f = [i \in 1 .. n |-> IF i = 1 THEN ss[i] ELSE f[i - 1] \o ss[i]]
  BY JoinsExist
<1>2. j = [i \in 1 .. n |-> IF i = 1 THEN ss[i] ELSE j[i - 1] \o ss[i]]
  BY <1>1, Zenon DEF Joins
<1> HIDE DEF j
<1>3. j[q] = IF q = 1 THEN ss[q] ELSE j[q - 1] \o ss[q]
  BY <1>2
<1> QED BY <1>3 DEF j

\* They are sequences of the same elements.
LEMMA JoinTypes ==
    ASSUME NEW E, NEW ss \in Seq(Seq(E))
    PROVE  \A q \in 1 .. Len(ss) : Joins(ss)[q] \in Seq(E)
<1> DEFINE n == Len(ss)
           S == {q \in Nat : q \in 1 .. n => Joins(ss)[q] \in Seq(E)}
<1>1. 0 \in S
  OBVIOUS
<1>2. ASSUME NEW q \in Nat \ {0}, q - 1 \in S
      PROVE  q \in S
  <2> SUFFICES ASSUME q \in 1 .. n PROVE Joins(ss)[q] \in Seq(E)
    OBVIOUS
  <2>1. ss[q] \in Seq(E) /\ n \in Nat
    OBVIOUS
  <2>2. Joins(ss)[q] = IF q = 1 THEN ss[q] ELSE Joins(ss)[q - 1] \o ss[q]
    BY <2>1, JoinSteps
  <2>3. CASE q = 1
    BY <2>1, <2>2, <2>3
  <2>4. CASE q # 1
    <3>1. Joins(ss)[q - 1] \in Seq(E)
      BY <1>2, <2>4
    <3> QED BY <2>1, <2>2, <2>4, <3>1, ConcatProperties
  <2> QED BY <2>3, <2>4
<1> HIDE DEF S
<1>3. Nat \subseteq S
  BY <1>1, <1>2, NatSetInduction
<1> QED BY <1>3 DEF S

\* So is what FlattenSeq makes of them; of none it makes the empty sequence.
LEMMA FlattenType ==
    ASSUME NEW E, NEW ss \in Seq(Seq(E))
    PROVE  /\ FlattenSeq(ss) \in Seq(E)
           /\ ss = <<>> => FlattenSeq(ss) = <<>>
<1>1. CASE ss = <<>>
  <2>1. Len(ss) = 0
    BY <1>1
  <2>2. FlattenSeq(ss) = <<>>
    BY <1>1, <2>1, FlattenIsJoin, Zenon
  <2>3. <<>> \in Seq(E)
    OBVIOUS
  <2> QED BY <2>2, <2>3, Zenon
<1>2. CASE ss # <<>>
  <2>1. Len(ss) # 0 /\ Len(ss) \in 1 .. Len(ss)
    BY <1>2
  <2>2. Joins(ss)[Len(ss)] \in Seq(E)
    BY <2>1, JoinTypes
  <2>3. FlattenSeq(ss) = Joins(ss)[Len(ss)]
    BY <2>1, FlattenIsJoin, Zenon
  <2> QED BY <1>2, <2>2, <2>3, Zenon
<1> QED BY <1>1, <1>2

\* A sequence that is appended comes last.
LEMMA FlattenAppend ==
    ASSUME NEW E, NEW ss \in Seq(Seq(E)), NEW x \in Seq(E)
    PROVE  FlattenSeq(Append(ss, x)) = FlattenSeq(ss) \o x
<1> DEFINE tt == Append(ss, x)
           n == Len(ss)
<1>1. /\ tt \in Seq(Seq(E)) /\ Len(tt) = n + 1
      /\ \A i \in 1 .. n : tt[i] = ss[i]
      /\ tt[n + 1] = x /\ n \in Nat
  BY AppendProperties
<1> HIDE DEF tt
<1>2. \A q \in 1 .. n + 1 :
         Joins(tt)[q] = IF q = 1 THEN tt[q] ELSE Joins(tt)[q - 1] \o tt[q]
  <2> DEFINE k == n + 1
  <2>1. k \in Nat /\ k = Len(tt)
    BY <1>1
  <2> HIDE DEF k
  <2>2. \A q \in 1 .. k :
           Joins(tt)[q] = IF q = 1 THEN tt[q] ELSE Joins(tt)[q - 1] \o tt[q]
    BY <2>1, JoinSteps
  <2> QED BY <2>2 DEF k
<1>3. \A q \in 1 .. n : Joins(ss)[q] = IF q = 1 THEN ss[q] ELSE Joins(ss)[q - 1] \o ss[q]
  BY <1>1, JoinSteps
<1>4. FlattenSeq(tt) = Joins(tt)[n + 1]
  BY <1>1, FlattenIsJoin
<1>5. FlattenSeq(ss) = IF n = 0 THEN <<>> ELSE Joins(ss)[n]
  <2>1. n = 0 => ss = <<>>
    OBVIOUS
  <2> QED BY <2>1, FlattenIsJoin, Zenon
<1> DEFINE jt == Joins(tt)
           js == Joins(ss)
<1>6. \A q \in 1 .. n : jt[q] = js[q]
  <2> DEFINE S == {q \in Nat : q \in 1 .. n => jt[q] = js[q]}
  <2>1. 0 \in S
    OBVIOUS
  <2>2. ASSUME NEW q \in Nat \ {0}, q - 1 \in S
        PROVE  q \in S
    <3> SUFFICES ASSUME q \in 1 .. n PROVE jt[q] = js[q]
      OBVIOUS
    <3>1. jt[q] = IF q = 1 THEN tt[q] ELSE jt[q - 1] \o tt[q]
      BY <1>1, <1>2
    <3>2. js[q] = IF q = 1 THEN ss[q] ELSE js[q - 1] \o ss[q]
      BY <1>3
    <3>3. tt[q] = ss[q] /\ (q # 1 => jt[q - 1] = js[q - 1])
      BY <1>1, <2>2
    <3> QED BY <3>1, <3>2, <3>3
  <2> HIDE DEF S
  <2>3. Nat \subseteq S
    BY <2>1, <2>2, NatSetInduction
  <2> QED BY <1>1, <2>3 DEF S
<1>7. jt[n + 1] = IF n + 1 = 1 THEN x ELSE jt[n] \o x
  <2> DEFINE k == n + 1
  <2>1. k \in 1 .. n + 1 /\ k - 1 = n /\ tt[k] = x
    BY <1>1
  <2> HIDE DEF k
  <2>2. jt[k] = IF k = 1 THEN tt[k] ELSE jt[k - 1] \o tt[k]
    BY <1>2, <2>1, Zenon
  <2> QED BY <2>1, <2>2, Zenon DEF k
<1>8. CASE n = 0
  <2>1. <<>> \o x = x
    BY ConcatEmptySeq
  <2>2. FlattenSeq(tt) = x
    <3>1. n + 1 = 1
      BY <1>8
    <3> QED BY <1>4, <1>7, <3>1, Zenon
  <2> QED BY <1>5, <1>8, <2>1, <2>2 DEF tt
<1>9. CASE n # 0
  <2>1. n \in 1 .. n /\ n + 1 # 1
    BY <1>1, <1>9
  <2>2. jt[n] = js[n]
    BY <1>6, <2>1, Zenon
  <2>3. FlattenSeq(ss) = js[n]
    BY <1>5, <1>9, Zenon
  <2> QED BY <1>4, <1>7, <2>1, <2>2, <2>3, Zenon DEF tt
<1> QED BY <1>8, <1>9

\* The first of the sequences comes first.
LEMMA FlattenCons ==
    ASSUME NEW E, NEW ss \in Seq(Seq(E)), ss # <<>>
    PROVE  FlattenSeq(ss) = Head(ss) \o FlattenSeq(Tail(ss))
<1> DEFINE tt == Tail(ss)
           n == Len(ss)
           x == Head(ss)
<1>1. /\ tt \in Seq(Seq(E)) /\ Len(tt) = n - 1 /\ n \in Nat \ {0}
      /\ \A i \in 1 .. n - 1 : tt[i] = ss[i + 1]
      /\ x = ss[1] /\ x \in Seq(E)
  BY HeadTailProperties
<1> HIDE DEF tt, x
<1> DEFINE jt == Joins(tt)
           js == Joins(ss)
<1>2. \A q \in 1 .. n - 1 : jt[q] = IF q = 1 THEN tt[q] ELSE jt[q - 1] \o tt[q]
  <2>1. n - 1 \in Nat
    BY <1>1
  <2> QED BY <1>1, <2>1, JoinSteps
<1>3. \A q \in 1 .. n : js[q] = IF q = 1 THEN ss[q] ELSE js[q - 1] \o ss[q]
  BY <1>1, JoinSteps
<1>4. \A q \in 1 .. n - 1 : jt[q] \in Seq(E)
  BY <1>1, JoinTypes
<1>5. FlattenSeq(ss) = js[n]
  BY <1>1, FlattenIsJoin
<1>6. FlattenSeq(tt) = IF n = 1 THEN <<>> ELSE jt[n - 1]
  <2>1. CASE n = 1
    <3>1. Len(tt) = 0 /\ tt = <<>>
      BY <1>1, <2>1
    <3> QED BY <2>1, <3>1, FlattenIsJoin, Zenon
  <2>2. CASE n # 1
    <3>1. Len(tt) = n - 1 /\ n - 1 # 0
      BY <1>1, <2>2
    <3> QED BY <2>2, <3>1, FlattenIsJoin, Zenon
  <2> QED BY <2>1, <2>2
<1> HIDE DEF jt, js
<1>7. \A q \in 1 .. n : js[q] = IF q = 1 THEN x ELSE x \o jt[q - 1]
  <2> DEFINE S == {q \in Nat : q \in 1 .. n => js[q] = IF q = 1 THEN x ELSE x \o jt[q - 1]}
  <2>1. 0 \in S
    OBVIOUS
  <2>2. ASSUME NEW q \in Nat \ {0}, q - 1 \in S
        PROVE  q \in S
    <3> SUFFICES ASSUME q \in 1 .. n
                 PROVE  js[q] = IF q = 1 THEN x ELSE x \o jt[q - 1]
      OBVIOUS
    <3>1. CASE q = 1
      BY <1>1, <1>3, <3>1
    <3>2. CASE q # 1
      <4>1. js[q] = js[q - 1] \o ss[q]
        BY <1>3, <3>2
      <4> DEFINE p == q - 1
      <4>2. p \in 1 .. n - 1 /\ q = p + 1 /\ p \in 1 .. n
        BY <1>1, <3>2
      <4>3. tt[p] = ss[q] /\ tt[p] \in Seq(E)
        BY <1>1, <4>2
      <4>4. js[p] = IF p = 1 THEN x ELSE x \o jt[p - 1]
        BY <2>2, <4>2
      <4>5. jt[p] = IF p = 1 THEN tt[p] ELSE jt[p - 1] \o tt[p]
        BY <1>2, <4>2
      <4> HIDE DEF p
      <4>6. js[p] \o tt[p] = x \o jt[p]
        <5>1. CASE p = 1
          BY <4>4, <4>5, <5>1
        <5>2. CASE p # 1
          <6>1. p - 1 \in 1 .. n - 1
            BY <4>2, <5>2
          <6>2. jt[p - 1] \in Seq(E)
            BY <1>4, <6>1
          <6>3. (x \o jt[p - 1]) \o tt[p] = x \o (jt[p - 1] \o tt[p])
            <7> DEFINE y == jt[p - 1]
                       z == tt[p]
            <7>1. x \in Seq(E) /\ y \in Seq(E) /\ z \in Seq(E)
              BY <1>1, <4>3, <6>2
            <7> HIDE DEF y, z
            <7>2. (x \o y) \o z = x \o (y \o z)
              BY <7>1
            <7> QED BY <7>2 DEF y, z
          <6> QED BY <4>4, <4>5, <5>2, <6>3, Zenon
        <5> QED BY <5>1, <5>2
      <4> QED BY <3>2, <4>1, <4>3, <4>6, Zenon DEF p
    <3> QED BY <3>1, <3>2
  <2> HIDE DEF S
  <2>3. Nat \subseteq S
    BY <2>1, <2>2, NatSetInduction
  <2> QED BY <1>1, <2>3 DEF S
<1>8. js[n] = IF n = 1 THEN x ELSE x \o jt[n - 1]
  <2>1. n \in 1 .. n
    BY <1>1
  <2> QED BY <1>7, <2>1, Zenon
<1>9. x \o <<>> = x
  BY <1>1, ConcatEmptySeq
<1> QED BY <1>5, <1>6, <1>8, <1>9, Zenon DEF tt, x

-----------------------------------------------------------------------------
(* A frame as it is encoded.                                                  *)

\* Of three sequences in a row, either two may be put together first.
LEMMA Regroup ==
    ASSUME NEW a \in Seq(Bytes), NEW b \in Seq(Bytes), NEW c \in Seq(Bytes)
    PROVE  (a \o b) \o c = a \o (b \o c)
OBVIOUS

\* Four sequences in a row, grouped in the three ways that reading a frame off a stream needs.
Regrouped(p, a, b, c) == /\ p \o ((a \o b) \o c) = p \o (a \o (b \o c))
                         /\ p \o ((a \o b) \o c) = (p \o a) \o (b \o c)

\* The grouping does not matter.
LEMMA RegroupFour ==
    ASSUME NEW p \in Seq(Bytes), NEW a \in Seq(Bytes), NEW b \in Seq(Bytes), NEW c \in Seq(Bytes)
    PROVE  Regrouped(p, a, b, c)
<1> DEFINE w == b \o c
<1>1. w \in Seq(Bytes)
  OBVIOUS
<1>2. (a \o b) \o c = a \o w
  OBVIOUS
<1> HIDE DEF w
<1>3. p \o (a \o w) = (p \o a) \o w
  BY <1>1, Regroup
<1> QED BY <1>2, <1>3, Zenon DEF w, Regrouped

\* A factor can be taken out of a bound.
LEMMA Quotient ==
    ASSUME NEW b \in Nat \ {0}, NEW q \in Nat, NEW r \in Nat, NEW m \in Nat,
           b * q + r < b * m
    PROVE  q < m
<1> SUFFICES ASSUME q >= m PROVE FALSE
  OBVIOUS
<1>1. PICK k \in Nat : q = m + k
  <2>1. q - m \in Nat /\ q = m + (q - m)
    OBVIOUS
  <2> QED BY <2>1
<1>2. b * q = b * m + b * k
  BY <1>1
<1>3. b * k \in Nat
  OBVIOUS
<1> QED BY <1>2, <1>3

\* The length of a frame, as the reader puts it together of three bytes.
LengthOf(bytes) == (bytes[2] * Base + bytes[3]) * Base + bytes[4]

\* Three bytes hold any length below the third power of their base.
LEMMA LengthRead ==
    ASSUME NEW n \in Nat, n < Base * Base * Base
    PROVE  /\ LengthBytes(n) \in Seq(Bytes) /\ Len(LengthBytes(n)) = 3
           /\ (LengthBytes(n)[1] * Base + LengthBytes(n)[2]) * Base + LengthBytes(n)[3] = n
<1> USE NetBiosAssumption
<1> DEFINE b == Base
           q == n \div b
           r == n % b
           qq == q \div b
           qr == q % b
<1>1. b \in Nat \ {0}
  OBVIOUS
<1>2. q \in Nat /\ r \in 0 .. b - 1 /\ n = b * q + r
  BY <1>1
<1>3. qq \in Nat /\ qr \in 0 .. b - 1 /\ q = b * qq + qr
  <2> HIDE DEF q
  <2> QED BY <1>1, <1>2
<1>4. qq < b
  <2>1. b * b \in Nat /\ n < b * (b * b)
    BY <1>1
  <2> HIDE DEF q, r, qq, qr, b
  <2>2. q < b * b
    BY <1>1, <1>2, <2>1, Quotient
  <2> QED BY <1>1, <1>3, <2>2, Quotient
<1>5. qq % b = qq
  <2> HIDE DEF qq, b
  <2> QED BY <1>1, <1>3, <1>4
<1>6. LengthBytes(n) = <<qq % b, qr, r>>
  BY DEF LengthBytes
<1>7. qq % b \in Bytes /\ qr \in Bytes /\ r \in Bytes
  <2> HIDE DEF qq, qr, r
  <2> QED BY <1>2, <1>3, <1>4, <1>5 DEF Bytes
<1>8. (qq * b + qr) * b + r = n
  <2> HIDE DEF q, r, qq, qr, b
  <2> QED BY <1>1, <1>2, <1>3
<1> HIDE DEF q, r, qq, qr, b
<1>9. LengthBytes(n) = <<qq, qr, r>>
  BY <1>5, <1>6
<1>10. LengthBytes(n) \in Seq(Bytes) /\ Len(LengthBytes(n)) = 3
  BY <1>5, <1>7, <1>9
<1>11. /\ LengthBytes(n)[1] = qq
       /\ LengthBytes(n)[2] = qr
       /\ LengthBytes(n)[3] = r
  BY <1>9
<1>12. Base = b
  BY DEF b
<1> QED BY <1>8, <1>10, <1>11, <1>12

\* Where the elements of two sequences are when one is put behind the other.
LEMMA ConcatPlaces ==
    ASSUME NEW E, NEW t \in Seq(E), NEW u \in Seq(E)
    PROVE  /\ t \o u \in Seq(E) /\ Len(t \o u) = Len(t) + Len(u)
           /\ \A i \in 1 .. Len(t) : (t \o u)[i] = t[i]
           /\ \A i \in 1 .. Len(u) : (t \o u)[Len(t) + i] = u[i]
<1>1. /\ t \o u \in Seq(E) /\ Len(t \o u) = Len(t) + Len(u)
      /\ \A i \in 1 .. Len(t) + Len(u) : (t \o u)[i] = IF i <= Len(t) THEN t[i]
                                                        ELSE u[i - Len(t)]
  BY ConcatProperties
<1> DEFINE v == t \o u
<1> HIDE DEF v
<1> QED BY <1>1 DEF v

\* A frame is a byte for its type, three for its length and its data.
LEMMA EncodeBytes ==
    ASSUME NEW f \in Frames
    PROVE  LET bytes == Encode(f)
           IN  /\ bytes \in Seq(Bytes) /\ Len(bytes) = 4 + Len(f.data)
               /\ bytes[1] = f.type /\ LengthOf(bytes) = Len(f.data)
               /\ SubSeq(bytes, 5, 4 + Len(f.data)) = f.data
<1> DEFINE d == f.data
           t == <<f.type>>
           l == LengthBytes(Len(d))
           h == t \o l
           bytes == h \o d
<1>1. f.type \in Bytes /\ d \in Seq(Bytes) /\ Len(d) \in Nat /\ Len(d) < Base * Base * Base
  BY DEF Frames
<1>2. Encode(f) = bytes
  BY DEF Encode
<1>3. /\ l \in Seq(Bytes) /\ Len(l) = 3
      /\ (l[1] * Base + l[2]) * Base + l[3] = Len(d)
  BY <1>1, LengthRead
<1>4. t \in Seq(Bytes) /\ Len(t) = 1 /\ t[1] = f.type
  BY <1>1
<1> HIDE DEF d, t, l
<1>5. /\ h \in Seq(Bytes) /\ Len(h) = 4
      /\ h[1] = f.type /\ h[2] = l[1] /\ h[3] = l[2] /\ h[4] = l[3]
  <2>1. /\ h \in Seq(Bytes) /\ Len(h) = Len(t) + Len(l)
        /\ \A i \in 1 .. Len(t) : h[i] = t[i]
        /\ \A i \in 1 .. Len(l) : h[Len(t) + i] = l[i]
    <3>1. t \in Seq(Bytes) /\ l \in Seq(Bytes)
      BY <1>3, <1>4
    <3> QED BY <3>1, ConcatPlaces
  <2> HIDE DEF h
  <2>2. h[1 + 1] = l[1] /\ h[1 + 2] = l[2] /\ h[1 + 3] = l[3]
    BY <1>3, <1>4, <2>1
  <2> QED BY <1>3, <1>4, <2>1, <2>2
<1> HIDE DEF h
<1>6. /\ bytes \in Seq(Bytes) /\ Len(bytes) = 4 + Len(d)
      /\ \A i \in 1 .. 4 : bytes[i] = h[i]
      /\ \A i \in 1 .. Len(d) : bytes[4 + i] = d[i]
  <2>1. /\ bytes \in Seq(Bytes) /\ Len(bytes) = Len(h) + Len(d)
        /\ \A i \in 1 .. Len(h) : bytes[i] = h[i]
        /\ \A i \in 1 .. Len(d) : bytes[Len(h) + i] = d[i]
    <3>1. h \in Seq(Bytes) /\ d \in Seq(Bytes)
      BY <1>1, <1>5
    <3> QED BY <3>1, ConcatPlaces
  <2> HIDE DEF bytes
  <2> QED BY <1>5, <2>1
<1> HIDE DEF bytes
<1>7. LengthOf(bytes) = Len(d)
  BY <1>3, <1>5, <1>6 DEF LengthOf
<1>8. SubSeq(bytes, 5, 4 + Len(d)) = d
  <2> DEFINE u == SubSeq(bytes, 5, 4 + Len(d))
  <2>1. /\ u \in Seq(Bytes) /\ Len(u) = Len(d)
        /\ \A i \in 1 .. Len(d) : u[i] = bytes[5 + i - 1]
    <3>1. \A i \in 5 .. 4 + Len(d) : bytes[i] \in Bytes
      BY <1>1, <1>6
    <3> QED BY <1>1, <3>1, SubSeqProperties
  <2> HIDE DEF u
  <2>2. \A i \in 1 .. Len(d) : u[i] = d[i]
    BY <1>1, <1>6, <2>1
  <2>3. u = d
    BY <1>1, <2>1, <2>2, SeqEqual
  <2> QED BY <2>3 DEF u
<1> QED BY <1>2, <1>5, <1>6, <1>7, <1>8 DEF d

-----------------------------------------------------------------------------
(* A sequence for each element, one behind the other: the stream of frames    *)
(* and the messages among them are such.                                      *)

Mapped(e, fs) == FlattenSeq([i \in DOMAIN fs |-> e[fs[i]]])

\* It is a sequence of the same elements, and empty of nothing.
LEMMA MappedType ==
    ASSUME NEW A, NEW E, NEW e \in [A -> Seq(E)], NEW fs \in Seq(A)
    PROVE  Mapped(e, fs) \in Seq(E) /\ (fs = <<>> => Mapped(e, fs) = <<>>)
<1> DEFINE es == [i \in DOMAIN fs |-> e[fs[i]]]
<1>1. es \in Seq(Seq(E))
  <2>1. \A i \in 1 .. Len(fs) : e[fs[i]] \in Seq(E)
    OBVIOUS
  <2>2. DOMAIN fs = 1 .. Len(fs) /\ Len(fs) \in Nat
    OBVIOUS
  <2>3. es = [i \in 1 .. Len(fs) |-> e[fs[i]]]
    BY <2>2
  <2> DEFINE n == Len(fs)
  <2> HIDE DEF es, n
  <2> QED BY <2>1, <2>2, <2>3 DEF n
<1>2. fs = <<>> => es = <<>>
  OBVIOUS
<1>3. Mapped(e, fs) = FlattenSeq(es)
  BY DEF Mapped
<1> HIDE DEF es
<1>4. /\ FlattenSeq(es) \in Seq(E)
      /\ es = <<>> => FlattenSeq(es) = <<>>
  BY <1>1, FlattenType
<1> QED BY <1>2, <1>3, <1>4, Zenon

\* What is appended comes last.
LEMMA MappedAppend ==
    ASSUME NEW A, NEW E, NEW e \in [A -> Seq(E)], NEW fs \in Seq(A), NEW f \in A
    PROVE  Mapped(e, Append(fs, f)) = Mapped(e, fs) \o e[f]
<1> DEFINE es == [i \in DOMAIN fs |-> e[fs[i]]]
           gs == Append(fs, f)
           hs == [i \in DOMAIN gs |-> e[gs[i]]]
           x == e[f]
<1>1. es \in Seq(Seq(E)) /\ Len(es) = Len(fs)
  <2>1. \A i \in 1 .. Len(fs) : e[fs[i]] \in Seq(E)
    OBVIOUS
  <2> QED BY <2>1
<1>2. x \in Seq(E)
  OBVIOUS
<1>3. /\ gs \in Seq(A) /\ Len(gs) = Len(fs) + 1
      /\ \A i \in 1 .. Len(fs) : gs[i] = fs[i]
      /\ gs[Len(fs) + 1] = f
  BY AppendProperties
<1>4. hs \in Seq(Seq(E)) /\ Len(hs) = Len(fs) + 1
  <2> HIDE DEF gs
  <2>1. DOMAIN gs = 1 .. Len(fs) + 1 /\ Len(fs) + 1 \in Nat
    BY <1>3
  <2>2. \A i \in 1 .. Len(fs) + 1 : e[gs[i]] \in Seq(E)
    BY <1>3
  <2> QED BY <2>1, <2>2
<1>5. hs = Append(es, x)
  <2>1. /\ Append(es, x) \in Seq(Seq(E)) /\ Len(Append(es, x)) = Len(fs) + 1
        /\ \A i \in 1 .. Len(fs) : Append(es, x)[i] = es[i]
        /\ Append(es, x)[Len(fs) + 1] = x
    <3> HIDE DEF es, x
    <3>1. es \in Seq(Seq(E)) /\ x \in Seq(E) /\ Len(es) = Len(fs)
      BY <1>1, <1>2
    <3>2. /\ Append(es, x) \in Seq(Seq(E)) /\ Len(Append(es, x)) = Len(es) + 1
          /\ \A i \in 1 .. Len(es) : Append(es, x)[i] = es[i]
          /\ Append(es, x)[Len(es) + 1] = x
      <4> DEFINE B == Seq(E)
      <4>1. es \in Seq(B) /\ x \in B
        BY <3>1
      <4> HIDE DEF B
      <4>2. /\ Append(es, x) \in Seq(B) /\ Len(Append(es, x)) = Len(es) + 1
            /\ \A i \in 1 .. Len(es) : Append(es, x)[i] = es[i]
            /\ Append(es, x)[Len(es) + 1] = x
        BY <4>1, AppendProperties
      <4> QED BY <4>2 DEF B
    <3> QED BY <3>1, <3>2
  <2>2. ASSUME NEW i \in 1 .. Len(fs) + 1
        PROVE  hs[i] = Append(es, x)[i]
    <3>1. hs[i] = e[gs[i]]
      <4> HIDE DEF gs
      <4> QED BY <1>3
    <3>2. CASE i \in 1 .. Len(fs)
      <4>1. es[i] = e[fs[i]]
        BY <3>2
      <4> HIDE DEF gs, hs, es, x
      <4> QED BY <1>3, <2>1, <3>1, <3>2, <4>1
    <3>3. CASE i = Len(fs) + 1
      <4> HIDE DEF gs, hs, es
      <4> QED BY <1>3, <2>1, <3>1, <3>3
    <3> QED BY <3>2, <3>3
  <2> HIDE DEF hs, es, x
  <2> QED BY <1>4, <2>1, <2>2, SeqEqual
<1>6. Mapped(e, gs) = FlattenSeq(hs) /\ Mapped(e, fs) = FlattenSeq(es)
  BY DEF Mapped
<1> HIDE DEF hs, es, x, gs
<1>7. FlattenSeq(hs) = FlattenSeq(es) \o x
  BY <1>1, <1>2, <1>5, FlattenAppend
<1> QED BY <1>6, <1>7 DEF gs, x

\* What is first comes first.
LEMMA MappedCons ==
    ASSUME NEW A, NEW E, NEW e \in [A -> Seq(E)], NEW fs \in Seq(A), fs # <<>>
    PROVE  Mapped(e, fs) = e[Head(fs)] \o Mapped(e, Tail(fs))
<1> DEFINE es == [i \in DOMAIN fs |-> e[fs[i]]]
           gs == Tail(fs)
           hs == [i \in DOMAIN gs |-> e[gs[i]]]
<1>1. es \in Seq(Seq(E)) /\ Len(es) = Len(fs) /\ Len(fs) \in Nat \ {0}
  <2>1. \A i \in 1 .. Len(fs) : e[fs[i]] \in Seq(E)
    OBVIOUS
  <2> QED BY <2>1
<1>2. /\ gs \in Seq(A) /\ Len(gs) = Len(fs) - 1
      /\ \A i \in 1 .. Len(gs) : gs[i] = fs[i + 1]
      /\ Head(fs) = fs[1]
  BY HeadTailProperties
<1>3. hs \in Seq(Seq(E)) /\ Len(hs) = Len(fs) - 1
  <2> HIDE DEF gs
  <2>1. DOMAIN gs = 1 .. Len(fs) - 1 /\ Len(fs) - 1 \in Nat
    BY <1>1, <1>2
  <2>2. \A i \in 1 .. Len(fs) - 1 : e[gs[i]] \in Seq(E)
    BY <1>2
  <2> QED BY <2>1, <2>2
<1>4. es # <<>> /\ es[1] = e[Head(fs)]
  <2>1. es[1] = e[fs[1]]
    BY <1>1
  <2>2. Len(es) # 0
    BY <1>1
  <2> HIDE DEF es
  <2> QED BY <1>2, <2>1, <2>2
<1>5. /\ Tail(es) \in Seq(Seq(E)) /\ Len(Tail(es)) = Len(fs) - 1
      /\ \A i \in 1 .. Len(fs) - 1 : Tail(es)[i] = es[i + 1]
      /\ Head(es) = es[1]
  <2> HIDE DEF es
  <2> QED BY <1>1, <1>4, HeadTailProperties
<1>6. hs = Tail(es)
  <2>1. ASSUME NEW i \in 1 .. Len(fs) - 1
        PROVE  hs[i] = Tail(es)[i]
    <3>1. hs[i] = e[gs[i]]
      <4> HIDE DEF gs
      <4> QED BY <1>2
    <3>2. es[i + 1] = e[fs[i + 1]]
      <4> DEFINE k == i + 1
      <4>1. k \in DOMAIN fs
        BY <1>1
      <4> HIDE DEF k
      <4>2. es[k] = e[fs[k]]
        BY <4>1
      <4> QED BY <4>2 DEF k
    <3> HIDE DEF gs, hs, es
    <3> QED BY <1>2, <1>5, <3>1, <3>2
  <2> HIDE DEF hs, es
  <2> QED BY <1>3, <1>5, <2>1, SeqEqual
<1>7. Mapped(e, gs) = FlattenSeq(hs) /\ Mapped(e, fs) = FlattenSeq(es)
  BY DEF Mapped
<1> HIDE DEF hs, es, gs
<1>8. FlattenSeq(es) = Head(es) \o FlattenSeq(Tail(es))
  BY <1>1, <1>4, FlattenCons
<1> QED BY <1>4, <1>5, <1>6, <1>7, <1>8 DEF gs

-----------------------------------------------------------------------------
(* The stream of some frames, and the messages among them.                    *)

Encoder == [f \in Frames |-> Encode(f)]

\* A stream has the encoding of each frame.
LEMMA StreamMapped ==
    ASSUME NEW fs \in Seq(Frames)
    PROVE  Stream(fs) = Mapped(Encoder, fs) /\ Encoder \in [Frames -> Seq(Bytes)]
<1>1. Encoder \in [Frames -> Seq(Bytes)]
  BY EncodeBytes DEF Encoder
<1>2. \A i \in DOMAIN fs : Encoder[fs[i]] = Encode(fs[i])
  BY DEF Encoder
<1>3. [i \in DOMAIN fs |-> Encode(fs[i])] = [i \in DOMAIN fs |-> Encoder[fs[i]]]
  BY <1>2
<1> QED BY <1>1, <1>3, Zenon DEF Stream, Mapped

\* A stream is one of bytes, and it is empty without frames.
LEMMA StreamType ==
    ASSUME NEW fs \in Seq(Frames)
    PROVE  Stream(fs) \in Seq(Bytes) /\ (fs = <<>> => Stream(fs) = <<>>)
<1>1. Mapped(Encoder, fs) \in Seq(Bytes) /\ (fs = <<>> => Mapped(Encoder, fs) = <<>>)
  <2>1. Encoder \in [Frames -> Seq(Bytes)]
    BY StreamMapped
  <2> QED BY <2>1, MappedType, Zenon
<1> QED BY <1>1, StreamMapped, Zenon

\* A frame that is appended comes last.
LEMMA StreamAppend ==
    ASSUME NEW fs \in Seq(Frames), NEW f \in Frames
    PROVE  Stream(Append(fs, f)) = Stream(fs) \o Encode(f)
<1>1. Append(fs, f) \in Seq(Frames)
  OBVIOUS
<1>2. Encoder[f] = Encode(f)
  BY DEF Encoder
<1> QED BY <1>1, <1>2, StreamMapped, MappedAppend

\* The first frame comes first.
LEMMA StreamCons ==
    ASSUME NEW fs \in Seq(Frames), fs # <<>>
    PROVE  Stream(fs) = Encode(Head(fs)) \o Stream(Tail(fs))
<1>1. Head(fs) \in Frames /\ Tail(fs) \in Seq(Frames)
  BY HeadTailProperties
<1>2. Encoder[Head(fs)] = Encode(Head(fs))
  BY <1>1 DEF Encoder
<1> QED BY <1>1, <1>2, StreamMapped, MappedCons

MessageOf == [f \in Frames |-> IF FrameType[f.type] = "Message" THEN <<f.data>> ELSE <<>>]

\* The messages are what each frame has of them.
LEMMA MessagesMapped ==
    ASSUME NEW fs \in Seq(Frames)
    PROVE  /\ MessagesIn(fs) = Mapped(MessageOf, fs)
           /\ MessageOf \in [Frames -> Seq(Seq(Bytes))]
<1>1. MessageOf \in [Frames -> Seq(Seq(Bytes))]
  BY DEF MessageOf, Frames
<1>2. \A i \in DOMAIN fs :
         MessageOf[fs[i]] = IF FrameType[fs[i].type] = "Message" THEN <<fs[i].data>> ELSE <<>>
  BY DEF MessageOf
<1>3. [i \in DOMAIN fs |->
         IF FrameType[fs[i].type] = "Message" THEN <<fs[i].data>> ELSE <<>>]
      = [i \in DOMAIN fs |-> MessageOf[fs[i]]]
  BY <1>2
<1> QED BY <1>1, <1>3, Zenon DEF MessagesIn, Mapped

\* A frame that is appended adds its message, if it has one.
LEMMA MessagesAppend ==
    ASSUME NEW fs \in Seq(Frames), NEW f \in Frames
    PROVE  MessagesIn(Append(fs, f)) = IF FrameType[f.type] = "Message"
                                       THEN Append(MessagesIn(fs), f.data)
                                       ELSE MessagesIn(fs)
<1> DEFINE ms == MessagesIn(fs)
<1>1. Append(fs, f) \in Seq(Frames)
  OBVIOUS
<1>2. MessageOf \in [Frames -> Seq(Seq(Bytes))]
  BY MessagesMapped
<1>3. MessagesIn(Append(fs, f)) = ms \o MessageOf[f]
  BY <1>1, <1>2, MessagesMapped, MappedAppend
<1>4. ms \in Seq(Seq(Bytes))
  <2>1. Mapped(MessageOf, fs) \in Seq(Seq(Bytes))
    BY <1>2, MappedType, Zenon
  <2> QED BY <2>1, MessagesMapped, Zenon
<1>5. f.data \in Seq(Bytes)
  BY DEF Frames
<1>6. MessageOf[f] = IF FrameType[f.type] = "Message" THEN <<f.data>> ELSE <<>>
  BY DEF MessageOf
<1> HIDE DEF ms
<1>7. ms \o <<f.data>> = Append(ms, f.data) /\ ms \o <<>> = ms
  BY <1>4, <1>5, AppendIsConcat, ConcatEmptySeq
<1> QED BY <1>3, <1>6, <1>7, Zenon DEF ms

\* The message of the first frame comes first.
LEMMA MessagesCons ==
    ASSUME NEW fs \in Seq(Frames), fs # <<>>
    PROVE  /\ MessagesIn(Tail(fs)) \in Seq(Seq(Bytes))
           /\ MessagesIn(fs) = IF FrameType[Head(fs).type] = "Message"
                               THEN <<Head(fs).data>> \o MessagesIn(Tail(fs))
                               ELSE MessagesIn(Tail(fs))
<1> DEFINE f == Head(fs)
           ms == MessagesIn(Tail(fs))
<1>1. f \in Frames /\ Tail(fs) \in Seq(Frames)
  BY HeadTailProperties
<1>2. MessageOf \in [Frames -> Seq(Seq(Bytes))]
  BY MessagesMapped
<1>3. MessagesIn(fs) = MessageOf[f] \o ms
  BY <1>1, <1>2, MessagesMapped, MappedCons
<1>4. ms \in Seq(Seq(Bytes))
  <2>1. Mapped(MessageOf, Tail(fs)) \in Seq(Seq(Bytes))
    BY <1>1, <1>2, MappedType, Zenon
  <2> QED BY <1>1, <2>1, MessagesMapped, Zenon
<1>5. MessageOf[f] = IF FrameType[f.type] = "Message" THEN <<f.data>> ELSE <<>>
  BY <1>1 DEF MessageOf
<1> HIDE DEF ms, f
<1>6. <<>> \o ms = ms
  BY <1>4, ConcatEmptySeq
<1> QED BY <1>3, <1>4, <1>5, <1>6, Zenon DEF ms, f

\* No frame, no message.
LEMMA MessagesEmpty == MessagesIn(<<>>) = <<>>
<1>1. <<>> \in Seq(Frames)
  OBVIOUS
<1>2. MessageOf \in [Frames -> Seq(Seq(Bytes))]
  BY <1>1, MessagesMapped
<1>3. Mapped(MessageOf, <<>>) = <<>>
  BY <1>1, <1>2, MappedType, Zenon
<1> QED BY <1>1, <1>3, MessagesMapped, Zenon

-----------------------------------------------------------------------------
(* Reading a stream.                                                          *)

\* The same of a sequence that is said to be the two.
LEMMA ConcatParts ==
    ASSUME NEW E, NEW t \in Seq(E), NEW u \in Seq(E), NEW w
    PROVE  w = t \o u => /\ Len(w) = Len(t) + Len(u)
                         /\ \A i \in 1 .. Len(t) : w[i] = t[i]
                         /\ \A i \in 1 .. Len(u) : w[Len(t) + i] = u[i]
<1> DEFINE v == t \o u
<1>1. /\ Len(v) = Len(t) + Len(u)
      /\ \A i \in 1 .. Len(t) : v[i] = t[i]
      /\ \A i \in 1 .. Len(u) : v[Len(t) + i] = u[i]
  BY ConcatPlaces
<1> HIDE DEF v
<1>2. ASSUME w = v
      PROVE  /\ Len(w) = Len(t) + Len(u)
             /\ \A i \in 1 .. Len(t) : w[i] = t[i]
             /\ \A i \in 1 .. Len(u) : w[Len(t) + i] = u[i]
  BY <1>1, <1>2, Zenon
<1> QED BY <1>2 DEF v

\* Two ways to part a sequence at the same place are the same.
LEMMA SplitEqual ==
    ASSUME NEW E, NEW a \in Seq(E), NEW b \in Seq(E), NEW c \in Seq(E), NEW d \in Seq(E),
           NEW w
    PROVE  w = a \o b /\ w = c \o d /\ Len(a) = Len(c) => a = c /\ b = d
<1>1. w = a \o b => /\ Len(w) = Len(a) + Len(b)
                    /\ \A i \in 1 .. Len(a) : w[i] = a[i]
                    /\ \A i \in 1 .. Len(b) : w[Len(a) + i] = b[i]
  BY ConcatParts
<1>2. w = c \o d => /\ Len(w) = Len(c) + Len(d)
                    /\ \A i \in 1 .. Len(c) : w[i] = c[i]
                    /\ \A i \in 1 .. Len(d) : w[Len(c) + i] = d[i]
  BY ConcatParts
<1> DEFINE u == a \o b
           v == c \o d
<1> SUFFICES ASSUME w = u, w = v, Len(a) = Len(c) PROVE a = c /\ b = d
  OBVIOUS
<1>3. /\ Len(w) = Len(a) + Len(b) /\ Len(w) = Len(c) + Len(d)
      /\ \A i \in 1 .. Len(a) : w[i] = a[i]
      /\ \A i \in 1 .. Len(b) : w[Len(a) + i] = b[i]
      /\ \A i \in 1 .. Len(c) : w[i] = c[i]
      /\ \A i \in 1 .. Len(d) : w[Len(c) + i] = d[i]
  BY <1>1, <1>2, Zenon
<1> HIDE DEF u, v
<1>4. \A i \in 1 .. Len(a) : a[i] = c[i]
  BY <1>3
<1>5. Len(b) = Len(d)
  BY <1>3
<1>6. \A i \in 1 .. Len(b) : b[i] = d[i]
  BY <1>3, <1>5
<1> QED BY <1>4, <1>5, <1>6, SeqEqual

\* What is as long as its length says is the first frame of its stream.
LEMMA NextFrame ==
    ASSUME NEW g \in Seq(Bytes), NEW d \in Seq(Bytes), NEW fs \in Seq(Frames),
           g \o d = Stream(fs), Len(g) >= 4, Len(g) = 4 + LengthOf(g)
    PROVE  /\ fs # <<>>
           /\ g = Encode(Head(fs))
           /\ d = Stream(Tail(fs))
<1>1. fs # <<>>
  <2> SUFFICES ASSUME fs = <<>> PROVE FALSE
    OBVIOUS
  <2>1. g \o d = <<>>
    BY StreamType
  <2>2. Len(g \o d) = Len(g) + Len(d)
    OBVIOUS
  <2> QED BY <2>1, <2>2
<1> DEFINE e == Encode(Head(fs))
           r == Stream(Tail(fs))
<1>2. Head(fs) \in Frames /\ Tail(fs) \in Seq(Frames)
  BY <1>1, HeadTailProperties
<1>3. /\ e \in Seq(Bytes) /\ Len(e) = 4 + LengthOf(e)
      /\ Len(e) >= 4
  <2>1. Len(Head(fs).data) \in Nat
    BY <1>2 DEF Frames
  <2> QED BY <1>2, <2>1, EncodeBytes
<1>4. r \in Seq(Bytes)
  BY <1>2, StreamType
<1>5. g \o d = e \o r
  BY <1>1, StreamCons
<1> HIDE DEF e, r
<1>6. \A i \in 1 .. 4 : g[i] = e[i]
  <2>1. \A i \in 1 .. Len(g) : (g \o d)[i] = g[i]
    BY ConcatPlaces
  <2>2. \A i \in 1 .. Len(e) : (e \o r)[i] = e[i]
    BY <1>3, <1>4, ConcatPlaces
  <2>3. \A i \in 1 .. 4 : i \in 1 .. Len(g) /\ i \in 1 .. Len(e)
    BY <1>3
  <2> QED BY <1>5, <2>1, <2>2, <2>3, Zenon
<1>7. LengthOf(g) = LengthOf(e)
  <2>1. g[2] = e[2] /\ g[3] = e[3] /\ g[4] = e[4]
    BY <1>6
  <2> QED BY <2>1 DEF LengthOf
<1>8. g = e /\ d = r
  BY <1>3, <1>4, <1>5, <1>7, SplitEqual
<1> QED BY <1>1, <1>8 DEF e, r

-----------------------------------------------------------------------------
(* The frames that are not taken yet.                                         *)

\* They are frames, as many as were sent and not taken.
LEMMA UnreadType ==
    ASSUME TypeOK
    PROVE  Unread \in Seq(Frames) /\ Len(Unread) = Len(sent) - taken
<1>1. sent \in Seq(Frames) /\ taken \in 0 .. Len(sent) /\ Len(sent) \in Nat
  BY DEF TypeOK
<1>2. \A i \in taken + 1 .. Len(sent) : sent[i] \in Frames
  BY <1>1
<1>3. /\ Unread \in Seq(Frames)
      /\ Len(Unread) = IF taken + 1 <= Len(sent) THEN Len(sent) - (taken + 1) + 1 ELSE 0
  BY <1>1, <1>2, SubSeqProperties DEF Unread
<1> QED BY <1>1, <1>3

\* A frame that is sent is the last of them.
LEMMA UnreadSent ==
    ASSUME TypeOK, NEW f \in Frames, sent' = Append(sent, f), taken' = taken
    PROVE  Unread' = Append(Unread, f)
<1> DEFINE n == Len(sent)
           t == Append(sent, f)
           u == SubSeq(t, taken + 1, n + 1)
           v == Append(Unread, f)
<1>1. sent \in Seq(Frames) /\ taken \in 0 .. n /\ n \in Nat
  BY DEF TypeOK
<1>2. /\ t \in Seq(Frames) /\ Len(t) = n + 1
      /\ \A i \in 1 .. n : t[i] = sent[i]
      /\ t[n + 1] = f
  BY <1>1, AppendProperties
<1>3. Unread' = u
  BY <1>2 DEF Unread
<1> HIDE DEF t
<1>4. /\ u \in Seq(Frames) /\ Len(u) = n + 1 - taken
      /\ \A i \in 1 .. n + 1 - taken : u[i] = t[taken + 1 + i - 1]
  <2>1. \A i \in taken + 1 .. n + 1 : t[i] \in Frames
    BY <1>1, <1>2
  <2>2. taken + 1 <= n + 1 /\ taken + 1 \in Int /\ n + 1 \in Int
    BY <1>1
  <2>3. /\ u \in Seq(Frames)
        /\ Len(u) = IF taken + 1 <= n + 1 THEN n + 1 - (taken + 1) + 1 ELSE 0
        /\ \A i \in 1 .. n + 1 - (taken + 1) + 1 : u[i] = t[taken + 1 + i - 1]
    BY <2>1, <2>2, SubSeqProperties
  <2> HIDE DEF u
  <2> QED BY <1>1, <2>3
<1>5. /\ Unread \in Seq(Frames) /\ Len(Unread) = n - taken
      /\ \A i \in 1 .. n - taken : Unread[i] = sent[taken + 1 + i - 1]
  <2>1. \A i \in taken + 1 .. n : sent[i] \in Frames
    BY <1>1
  <2>2. \A i \in 1 .. n - (taken + 1) + 1 : Unread[i] = sent[taken + 1 + i - 1]
    BY <1>1, <2>1, SubSeqProperties DEF Unread
  <2> QED BY <1>1, <2>2, UnreadType
<1>6. /\ v \in Seq(Frames) /\ Len(v) = n - taken + 1
      /\ \A i \in 1 .. n - taken : v[i] = Unread[i]
      /\ v[n - taken + 1] = f
  BY <1>5, AppendProperties
<1> HIDE DEF u, v
<1>7. \A i \in 1 .. Len(u) : u[i] = v[i]
  <2>1. ASSUME NEW i \in 1 .. n - taken
        PROVE  u[i] = v[i]
    <3>1. taken + 1 + i - 1 \in 1 .. n /\ i \in 1 .. n + 1 - taken
      BY <1>1
    <3> QED BY <1>2, <1>4, <1>5, <1>6, <3>1
  <2>2. u[n - taken + 1] = v[n - taken + 1]
    <3>1. n - taken + 1 \in 1 .. n + 1 - taken /\ taken + 1 + (n - taken + 1) - 1 = n + 1
      BY <1>1
    <3> QED BY <1>2, <1>4, <1>6, <3>1
  <2> QED BY <1>1, <1>4, <2>1, <2>2
<1>8. u = v
  <2>1. Len(u) = Len(v)
    BY <1>1, <1>4, <1>6
  <2> QED BY <1>4, <1>6, <1>7, <2>1, SeqEqual
<1> QED BY <1>3, <1>8 DEF v

\* A frame that is taken was the first of them.
LEMMA UnreadTaken ==
    ASSUME TypeOK, Unread # <<>>, sent' = sent, taken' = taken + 1
    PROVE  Unread' = Tail(Unread) /\ taken' \in 0 .. Len(sent)
<1> DEFINE n == Len(sent)
           u == SubSeq(sent, taken + 2, n)
           v == Tail(Unread)
<1>1. sent \in Seq(Frames) /\ taken \in 0 .. n /\ n \in Nat
  BY DEF TypeOK
<1>2. Unread \in Seq(Frames) /\ Len(Unread) = n - taken
  BY UnreadType
<1>3. taken < n
  <2>1. Len(Unread) # 0
    BY <1>2
  <2> QED BY <1>1, <1>2, <2>1
<1>4. Unread' = u
  BY <1>1 DEF Unread
<1>5. /\ u \in Seq(Frames) /\ Len(u) = n - taken - 1
      /\ \A i \in 1 .. n - taken - 1 : u[i] = sent[taken + 2 + i - 1]
  <2>1. \A i \in taken + 2 .. n : sent[i] \in Frames
    BY <1>1
  <2>2. /\ u \in Seq(Frames)
        /\ Len(u) = IF taken + 2 <= n THEN n - (taken + 2) + 1 ELSE 0
        /\ \A i \in 1 .. n - (taken + 2) + 1 : u[i] = sent[taken + 2 + i - 1]
    BY <1>1, <2>1, SubSeqProperties
  <2> HIDE DEF u
  <2> QED BY <1>1, <1>3, <2>2
<1>6. \A i \in 1 .. n - taken : Unread[i] = sent[taken + 1 + i - 1]
  <2>1. \A i \in taken + 1 .. n : sent[i] \in Frames
    BY <1>1
  <2>2. \A i \in 1 .. n - (taken + 1) + 1 : Unread[i] = sent[taken + 1 + i - 1]
    BY <1>1, <2>1, SubSeqProperties DEF Unread
  <2> QED BY <1>1, <2>2
<1>7. /\ v \in Seq(Frames) /\ Len(v) = n - taken - 1
      /\ \A i \in 1 .. Len(v) : v[i] = Unread[i + 1]
  BY <1>2, HeadTailProperties
<1> HIDE DEF u, v
<1>8. \A i \in 1 .. Len(u) : u[i] = v[i]
  <2> SUFFICES ASSUME NEW i \in 1 .. n - taken - 1 PROVE u[i] = v[i]
    BY <1>5
  <2>1. u[i] = sent[taken + 2 + i - 1] /\ v[i] = Unread[i + 1]
    BY <1>5, <1>7
  <2> DEFINE k == i + 1
  <2>2. k \in 1 .. n - taken /\ taken + 1 + k - 1 = taken + 2 + i - 1
    BY <1>1
  <2>3. Unread[k] = sent[taken + 1 + k - 1]
    BY <1>6, <2>2
  <2> QED BY <2>1, <2>2, <2>3
<1>9. u = v
  BY <1>5, <1>7, <1>8, SeqEqual
<1> QED BY <1>1, <1>3, <1>4, <1>9 DEF v

-----------------------------------------------------------------------------
(* Calls that begin and end.                                                  *)

\* Nothing is left in hand when a call ends.
LEMMA Ended ==
    ASSUME TypeOK, NEW how \in {"ok", "invalid", "timeout", "error", "toobig", "eof",
                                "refused", "unexpected"}, End(how)
    PROVE  /\ pc' \in {"closed", "idle"} /\ ~Reading' /\ ~Writing'
           /\ got' = <<>> /\ out' = <<>> /\ given' = given
           /\ ret' = how
           /\ pc' = "closed" <=> Opening /\ how # "ok"
BY DEF End, Reading, Writing

\* Without a frame in hand, what was written is the frames of asked, ...
LEMMA NothingInHand ==
    ASSUME TypeOK, OutInStep, out = <<>>, ~writeCut
    PROVE  up = Stream(asked)
<1>1. up \in Seq(Bytes)
  BY DEF TypeOK
<1>2. up \o <<>> = up
  BY <1>1, ConcatEmptySeq
<1> QED BY <1>2 DEF OutInStep

\* ... and the other way round.
LEMMA InHandNothing ==
    ASSUME up' \in Seq(Bytes), out' = <<>>, ~writeCut' => up' = Stream(asked')
    PROVE  OutInStep'
<1>1. up' \o <<>> = up'
  BY ConcatEmptySeq
<1> QED BY <1>1 DEF OutInStep

\* The last frame that was asked for, and those before it.
LEMMA LastAsked ==
    ASSUME TypeOK, asked # <<>>
    PROVE  /\ Front(asked) \in Seq(Frames) /\ asked[Len(asked)] \in Frames
           /\ Stream(asked) = Stream(Front(asked)) \o Encode(asked[Len(asked)])
           /\ Append(Front(asked), asked[Len(asked)]) = asked
<1>1. asked \in Seq(Frames)
  BY DEF TypeOK
<1>2. PICK fs \in Seq(Frames), f \in Frames : asked = Append(fs, f)
  BY <1>1, SequenceEmptyOrAppend
<1>3. Len(asked) = Len(fs) + 1 /\ asked[Len(asked)] = f
  BY <1>2, AppendProperties
<1>4. Front(asked) = fs
  <2> DEFINE u == SubSeq(asked, 1, Len(asked) - 1)
  <2>1. /\ u \in Seq(Frames) /\ Len(u) = Len(fs)
        /\ \A i \in 1 .. Len(fs) : u[i] = asked[i]
    <3>1. \A i \in 1 .. Len(asked) - 1 : asked[i] \in Frames
      BY <1>1
    <3>2. /\ u \in Seq(Frames)
          /\ Len(u) = IF 1 <= Len(asked) - 1 THEN Len(asked) - 1 - 1 + 1 ELSE 0
          /\ \A i \in 1 .. Len(asked) - 1 - 1 + 1 : u[i] = asked[1 + i - 1]
      BY <1>1, <3>1, SubSeqProperties
    <3> HIDE DEF u
    <3> QED BY <1>3, <3>2
  <2>2. \A i \in 1 .. Len(fs) : asked[i] = fs[i]
    BY <1>2, AppendProperties
  <2>3. Front(asked) = u
    BY DEF Front
  <2> HIDE DEF u
  <2> QED BY <2>1, <2>2, <2>3, SeqEqual
<1>5. Stream(asked) = Stream(fs) \o Encode(f)
  BY <1>2, StreamAppend
<1> QED BY <1>2, <1>3, <1>4, <1>5

\* A frame that is cut off is either as if never begun, or leaves the stream cut.
LEMMA CutOff ==
    ASSUME TypeOK, OutInStep, LastFrame, CutWrite, out' = <<>>, up' = up, ~Writing'
    PROVE  OutInStep' /\ LastFrame' /\ asked' \in Seq(Frames) /\ writeCut' \in BOOLEAN
<1>1. up \in Seq(Bytes) /\ out \in Seq(Bytes) /\ asked \in Seq(Frames) /\ writeCut \in BOOLEAN
  BY DEF TypeOK
<1>2. LastFrame'
  BY DEF LastFrame
<1>3. CASE ~Writing
  <2>1. out = <<>>
    BY <1>3 DEF TypeOK
  <2>2. asked' = asked /\ writeCut' = writeCut
    BY <1>3 DEF CutWrite
  <2>3. ~writeCut' => up' = Stream(asked')
    <3> SUFFICES ASSUME ~writeCut' PROVE up' = Stream(asked')
      OBVIOUS
    <3>1. up = Stream(asked)
      BY <2>1, <2>2, NothingInHand
    <3> QED BY <2>2, <3>1, Zenon
  <2>4. OutInStep'
    BY <1>1, <2>3, InHandNothing
  <2> QED BY <1>1, <1>2, <2>2, <2>4
<1>4. CASE Writing /\ out = Encode(asked[Len(asked)])
  <2>1. asked' = Front(asked) /\ writeCut' = writeCut
    BY <1>4 DEF CutWrite
  <2> DEFINE e == Encode(asked[Len(asked)])
  <2>2. asked # <<>>
    BY <1>4 DEF LastFrame
  <2>3. /\ Front(asked) \in Seq(Frames) /\ asked[Len(asked)] \in Frames
        /\ Stream(asked) = Stream(Front(asked)) \o e
    BY <2>2, LastAsked
  <2>4. e \in Seq(Bytes)
    BY <2>3, EncodeBytes
  <2>5. Stream(Front(asked)) \in Seq(Bytes)
    BY <2>3, StreamType
  <2>6. ~writeCut' => up' = Stream(asked')
    <3> SUFFICES ASSUME ~writeCut' PROVE up' = Stream(asked')
      OBVIOUS
    <3>1. up \o out = Stream(asked)
      BY <2>1 DEF OutInStep
    <3>2. up \o e = Stream(Front(asked)) \o e
      BY <1>4, <2>3, <3>1
    <3> DEFINE x == Stream(Front(asked))
               y == up
    <3> HIDE DEF e, x, y
    <3>3. x \in Seq(Bytes) /\ y \in Seq(Bytes)
      BY <1>1, <2>5 DEF x, y
    <3>4. y \o e = x \o e
      BY <3>2 DEF x, y
    <3>5. y = x
      <4>1. Len(y \o e) = Len(y) + Len(e) /\ Len(x \o e) = Len(x) + Len(e)
        BY <2>4, <3>3
      <4>2. Len(y) = Len(x)
        BY <2>4, <3>3, <3>4, <4>1
      <4> QED BY <2>4, <3>3, <3>4, <4>2, SplitEqual
    <3> QED BY <2>1, <3>5 DEF x, y
  <2>7. OutInStep'
    BY <1>1, <2>6, InHandNothing
  <2> QED BY <1>1, <1>2, <2>1, <2>3, <2>7
<1>5. CASE Writing /\ out # Encode(asked[Len(asked)])
  <2>1. writeCut' = TRUE /\ asked' = asked
    BY <1>5 DEF CutWrite
  <2>2. OutInStep'
    BY <2>1 DEF OutInStep
  <2> QED BY <1>1, <1>2, <2>1, <2>2
<1> QED BY <1>3, <1>4, <1>5

-----------------------------------------------------------------------------
(* The invariant, action by action.                                           *)

\* At the start nothing is in either direction.
LEMMA InvInit == Init => IInv
<1> SUFFICES ASSUME Init PROVE IInv
  OBVIOUS
<1> USE NetBiosAssumption DEF Init
<1>1. TypeOK
  <2>1. ~Reading /\ ~Writing
    BY DEF Reading, Writing
  <2>2. /\ got \in Seq(Bytes) /\ Len(got) <= 4 + MaxFrame
        /\ out \in Seq(Bytes) /\ given \in Seq(Seq(Bytes))
        /\ down \in Seq(Bytes) /\ up \in Seq(Bytes)
        /\ sent \in Seq(Frames) /\ asked \in Seq(Frames) /\ taken \in 0 .. Len(sent)
    OBVIOUS
  <2>3. drops \in 0 .. MaxDrops
    OBVIOUS
  <2> QED BY <2>1, <2>2, <2>3 DEF TypeOK
<1>2. Unread = <<>>
  BY DEF Unread
<1>3. <<>> \in Seq(Frames)
  OBVIOUS
<1>4. Stream(<<>>) = <<>>
  BY <1>3, StreamType
<1>5. <<>> \o <<>> = <<>>
  OBVIOUS
<1>6. InStep
  BY <1>2, <1>4, <1>5 DEF InStep
<1>7. OutInStep
  BY <1>4, <1>5 DEF OutInStep
<1>8. WithinFrame
  BY DEF WithinFrame
<1>9. LastFrame
  BY DEF LastFrame, Writing
<1> QED BY <1>1, <1>6, <1>7, <1>8, <1>9 DEF IInv

\* A step that leaves the streams alone keeps the places in them.
LEMMA InvQuiet ==
    ASSUME IInv, TypeOK', UNCHANGED <<got, out, down, up, sent, taken, asked, readCut, writeCut>>,
           Writing' => Writing
    PROVE  IInv'
<1>1. InStep'
  BY DEF IInv, InStep, Unread
<1>2. WithinFrame'
  BY DEF IInv, WithinFrame, FrameLength
<1>3. OutInStep'
  BY DEF IInv, OutInStep
<1>4. LastFrame'
  BY DEF IInv, LastFrame
<1> QED BY <1>1, <1>2, <1>3, <1>4 DEF IInv

\* The beginning of a call that writes a frame.
LEMMA InvBeginWrite ==
    ASSUME IInv, ~Reading, ~Writing, NEW call \in {"request", "send"}, NEW f \in Frames,
           BeginWrite(call, f)
    PROVE  IInv'
<1> USE DEF BeginWrite
<1>1. TypeOK
  BY DEF IInv
<1>2. out = <<>> /\ got = <<>>
  BY <1>1 DEF TypeOK
<1>3. Encode(f) \in Seq(Bytes) /\ Encode(f) # <<>>
  <2>1. Encode(f) \in Seq(Bytes) /\ Len(Encode(f)) = 4 + Len(f.data) /\ Len(f.data) \in Nat
    BY EncodeBytes DEF Frames
  <2> DEFINE e == Encode(f)
             d == Len(f.data)
  <2> HIDE DEF e, d
  <2>2. e \in Seq(Bytes) /\ Len(e) = 4 + d /\ d \in Nat
    BY <2>1 DEF e, d
  <2>3. e # <<>>
    BY <2>2
  <2> QED BY <2>2, <2>3 DEF e
<1>4. Writing' /\ ~Reading'
  BY DEF Writing, Reading
<1>5. /\ asked' \in Seq(Frames) /\ asked' # <<>> /\ asked'[Len(asked')] = f
  <2>1. asked \in Seq(Frames)
    BY <1>1 DEF TypeOK
  <2> QED BY <2>1, AppendProperties
<1>6. TypeOK'
  BY <1>1, <1>2, <1>3, <1>4, <1>5 DEF TypeOK
<1>7. InStep'
  BY DEF IInv, InStep, Unread
<1>8. WithinFrame'
  BY <1>2 DEF WithinFrame
<1>9. OutInStep'
  <2> SUFFICES ASSUME ~writeCut PROVE up \o Encode(f) = Stream(Append(asked, f))
    BY DEF OutInStep
  <2>1. up = Stream(asked)
    BY <1>1, <1>2, NothingInHand DEF IInv
  <2>2. Stream(Append(asked, f)) = Stream(asked) \o Encode(f)
    BY <1>1, StreamAppend DEF TypeOK
  <2> QED BY <2>1, <2>2, Zenon
<1>10. LastFrame'
  <2>1. Len(Encode(f)) <= Len(Encode(f))
    BY <1>3
  <2> QED BY <1>5, <2>1 DEF LastFrame
<1> QED BY <1>6, <1>7, <1>8, <1>9, <1>10 DEF IInv

\* open and its session request, send_message and the start of recv_message.
LEMMA InvCalls ==
    ASSUME IInv,
           OpenRaw \/ OpenSession \/ (\E msg \in Messages : SendMessage(msg)) \/ RecvMessage
    PROVE  IInv'
<1> USE NetBiosAssumption
<1>1. TypeOK
  BY DEF IInv
<1>2. pc \in {"closed", "idle"} /\ ~Reading /\ ~Writing
  BY DEF OpenRaw, OpenSession, SendMessage, RecvMessage, Reading, Writing
<1>3. got = <<>> /\ out = <<>>
  BY <1>1, <1>2 DEF TypeOK
<1>4. \A t \in FrameTypes : TypeByte(t) \in Bytes
  BY DEF TypeByte
<1>5. ASSUME NEW how \in {"ok", "invalid"}, End(how),
             UNCHANGED <<down, up, open, ghosts>>
      PROVE  IInv'
  <2>1. /\ pc' \in {"closed", "idle"} /\ ~Reading' /\ ~Writing'
        /\ got' = <<>> /\ out' = <<>> /\ given' = given /\ ret' = how
    BY <1>1, <1>5, Ended
  <2>2. TypeOK'
    BY <1>1, <1>5, <2>1 DEF TypeOK, ghosts
  <2> QED BY <1>3, <1>5, <2>1, <2>2, InvQuiet DEF ghosts
<1>6. CASE OpenRaw
  BY <1>5, <1>6 DEF OpenRaw
<1>7. CASE OpenSession
  <2> DEFINE f == [type |-> TypeByte("SessionRequest"), data |-> SessionData]
  <2>1. f \in Frames
    BY <1>4 DEF Frames, FrameTypes
  <2>2. BeginWrite("request", f)
    BY <1>7 DEF OpenSession
  <2> HIDE DEF f
  <2> QED BY <1>2, <2>1, <2>2, InvBeginWrite
<1>8. ASSUME NEW msg \in Messages, SendMessage(msg)
      PROVE  IInv'
  <2>1. CASE /\ Len(msg) <= MaxFrame
             /\ BeginWrite("send", [type |-> TypeByte("Message"), data |-> msg])
    <3> DEFINE f == [type |-> TypeByte("Message"), data |-> msg]
    <3>1. msg \in Seq(Bytes)
      OBVIOUS
    <3>2. Base * Base * Base \in Nat /\ Len(msg) \in Nat
      BY <3>1
    <3>3. Len(msg) < Base * Base * Base
      BY <2>1, <3>2
    <3>4. f \in Frames
      BY <1>4, <3>1, <3>3 DEF Frames, FrameTypes
    <3>5. BeginWrite("send", f)
      BY <2>1
    <3> HIDE DEF f
    <3> QED BY <1>2, <3>4, <3>5, InvBeginWrite
  <2>2. CASE End("invalid") /\ UNCHANGED <<down, up, open, ghosts>>
    BY <1>5, <2>2
  <2> QED BY <1>8, <2>1, <2>2 DEF SendMessage
<1>9. CASE RecvMessage
  <2>1. TypeOK'
    BY <1>1, <1>2, <1>3, <1>9 DEF TypeOK, RecvMessage, Reading, Writing, ghosts
  <2>2. ~Writing'
    BY <1>9 DEF RecvMessage, Writing
  <2> QED BY <1>9, <2>1, <2>2, InvQuiet DEF RecvMessage, ghosts
<1> QED BY <1>6, <1>7, <1>8, <1>9

\* A call that is given up, with what it has of a frame.
LEMMA InvGivenUp ==
    ASSUME IInv, Writing \/ Reading, NEW how \in {"timeout", "error", "eof", "toobig"},
           End(how), CutWrite, UNCHANGED <<down, up, open, sent, taken>>,
           drops' \in 0 .. MaxDrops, readCut' \in BOOLEAN,
           readCut' \/ (got = <<>> /\ ~readCut)
    PROVE  IInv'
<1>1. TypeOK
  BY DEF IInv
<1>2. /\ pc' \in {"closed", "idle"} /\ ~Reading' /\ ~Writing'
      /\ got' = <<>> /\ out' = <<>> /\ given' = given /\ ret' = how
  BY <1>1, Ended
<1>3. OutInStep' /\ LastFrame' /\ asked' \in Seq(Frames) /\ writeCut' \in BOOLEAN
  BY <1>1, <1>2, CutOff DEF IInv
<1>4. TypeOK'
  BY <1>1, <1>2, <1>3, NetBiosAssumption DEF TypeOK
<1>5. InStep'
  BY <1>2 DEF IInv, InStep, Unread
<1>6. WithinFrame'
  BY <1>2 DEF WithinFrame
<1> QED BY <1>3, <1>4, <1>5, <1>6 DEF IInv

\* A dropped call, a failed write, a refused length and the end of the stream.
LEMMA InvEnds ==
    ASSUME IInv, Drop \/ WriteFails \/ RefuseLength \/ ReadFails
    PROVE  IInv'
<1> USE NetBiosAssumption
<1>1. TypeOK
  BY DEF IInv
<1>2. /\ drops \in 0 .. MaxDrops /\ readCut \in BOOLEAN
      /\ Writing => got = <<>>
      /\ Reading => ~Writing
  BY <1>1 DEF TypeOK, Writing, Reading
<1>3. CASE Drop
  <2>1. drops' \in 0 .. MaxDrops
    BY <1>2, <1>3 DEF Drop
  <2> QED BY <1>2, <1>3, <2>1, InvGivenUp DEF Drop
<1>4. CASE WriteFails
  BY <1>2, <1>4, InvGivenUp DEF WriteFails
<1>5. CASE RefuseLength
  <2>1. CutWrite
    BY <1>2, <1>5 DEF RefuseLength, CutWrite
  <2> QED BY <1>2, <1>5, <2>1, InvGivenUp DEF RefuseLength
<1>6. CASE ReadFails
  <2>1. CutWrite
    BY <1>2, <1>6 DEF ReadFails, CutWrite
  <2> QED BY <1>2, <1>6, <2>1, InvGivenUp DEF ReadFails
<1> QED BY <1>3, <1>4, <1>5, <1>6

\* What the socket takes of a frame goes on the stream.
LEMMA InvWrite ==
    ASSUME IInv, Write
    PROVE  IInv'
<1>1. TypeOK
  BY DEF IInv
<1>2. PICK n \in 1 .. Len(out) :
         /\ up' = up \o SubSeq(out, 1, n)
         /\ \/ /\ n < Len(out)
               /\ out' = SubSeq(out, n + 1, Len(out))
               /\ UNCHANGED <<pc, got, given, ret>>
            \/ /\ n = Len(out) /\ pc = "send"
               /\ End("ok")
            \/ /\ n = Len(out) /\ pc = "request"
               /\ pc' = "session" /\ out' = <<>>
               /\ UNCHANGED <<got, given, ret>>
  BY DEF Write
<1>3. Writing /\ open /\ UNCHANGED <<down, open, sent, taken, asked, drops, readCut, writeCut>>
  BY DEF Write, ghosts
<1>4. /\ up \in Seq(Bytes) /\ out \in Seq(Bytes) /\ got = <<>> /\ Len(out) \in Nat
      /\ LastFrame /\ OutInStep
  BY <1>1, <1>3 DEF IInv, TypeOK, Writing, Reading
<1> DEFINE a == SubSeq(out, 1, n)
           b == SubSeq(out, n + 1, Len(out))
<1>5. a \in Seq(Bytes) /\ b \in Seq(Bytes) /\ Len(b) = Len(out) - n
  <2>1. /\ \A i \in 1 .. n : out[i] \in Bytes
        /\ \A i \in n + 1 .. Len(out) : out[i] \in Bytes
    BY <1>4
  <2>2. a \in Seq(Bytes)
    BY <2>1, SubSeqProperties
  <2>3. /\ b \in Seq(Bytes)
        /\ Len(b) = IF n + 1 <= Len(out) THEN Len(out) - (n + 1) + 1 ELSE 0
    BY <1>4, <2>1, SubSeqProperties
  <2> HIDE DEF a, b
  <2> QED BY <1>4, <2>2, <2>3
<1>6. up' \in Seq(Bytes)
  <2> HIDE DEF a
  <2>1. up \o a \in Seq(Bytes)
    BY <1>4, <1>5
  <2> QED BY <1>2, <2>1 DEF a
<1>7. got' = <<>>
  BY <1>2, <1>4 DEF End
<1>8. InStep' /\ WithinFrame'
  BY <1>3, <1>4, <1>7 DEF IInv, InStep, Unread, WithinFrame
<1>9. CASE /\ n < Len(out)
           /\ out' = b
           /\ UNCHANGED <<pc, got, given, ret>>
  <2>1. out' # <<>>
    <3> HIDE DEF b
    <3> QED BY <1>4, <1>5, <1>9
  <2>2. Writing' /\ ~Reading'
    BY <1>3, <1>9 DEF Writing, Reading
  <2>3. TypeOK'
    <3> HIDE DEF a, b
    <3> QED BY <1>1, <1>3, <1>5, <1>6, <1>7, <1>9, <2>1, <2>2, NetBiosAssumption DEF TypeOK
  <2>4. OutInStep'
    <3>1. a \o b = out
      <4>1. SubSeq(out, 1, n) \o SubSeq(out, n + 1, Len(out)) = SubSeq(out, 1, Len(out))
        BY <1>4, <1>9, ConcatAdjacentSubSeq
      <4>2. SubSeq(out, 1, Len(out)) = out
        BY <1>4, SubSeqFull
      <4> QED BY <4>1, <4>2
    <3>2. up' = up \o a
      BY <1>2
    <3> HIDE DEF a, b
    <3>3. (up \o a) \o b = up \o (a \o b)
      BY <1>4, <1>5
    <3>4. up' \o out' = up \o out
      BY <1>9, <3>1, <3>2, <3>3
    <3> QED BY <1>3, <1>4, <3>4 DEF OutInStep
  <2>5. LastFrame'
    <3>1. asked # <<>> /\ Len(out) <= Len(Encode(asked[Len(asked)]))
      BY <1>3, <1>4 DEF LastFrame
    <3>2. asked[Len(asked)] \in Frames
      BY <1>1, <3>1, LastAsked
    <3>3. Len(Encode(asked[Len(asked)])) \in Nat
      BY <3>2, EncodeBytes
    <3>4. Len(out') <= Len(Encode(asked[Len(asked)]))
      <4> DEFINE k == Len(Encode(asked[Len(asked)]))
      <4> HIDE DEF b, k
      <4>1. k \in Nat /\ Len(out) <= k
        BY <3>1, <3>3 DEF k
      <4>2. Len(out') <= k
        BY <1>4, <1>5, <1>9, <4>1
      <4> QED BY <4>2 DEF k
    <3> QED BY <1>3, <3>1, <3>4 DEF LastFrame
  <2> QED BY <1>8, <2>3, <2>4, <2>5 DEF IInv
<1>10. CASE /\ n = Len(out) /\ out' = <<>> /\ given' = given
            /\ ret' \in {ret, "ok"}
            /\ pc' \in {"idle", "session"}
  <2>1. ~Writing' /\ got' = <<>>
    BY <1>7, <1>10 DEF Writing
  <2>2. TypeOK'
    <3> HIDE DEF a, b
    <3> QED BY <1>1, <1>3, <1>6, <1>10, <2>1, NetBiosAssumption DEF TypeOK
  <2>3. OutInStep'
    <3>1. a = out
      BY <1>4, <1>10, SubSeqFull
    <3>2. up' = up \o out
      BY <1>2, <3>1
    <3> QED BY <1>3, <1>4, <1>6, <1>10, <3>2, InHandNothing DEF OutInStep
  <2>4. LastFrame'
    BY <2>1 DEF LastFrame
  <2> QED BY <1>8, <2>2, <2>3, <2>4 DEF IInv
<1>11. CASE n = Len(out) /\ pc = "send" /\ End("ok")
  BY <1>10, <1>11 DEF End
<1>12. CASE /\ n = Len(out) /\ pc = "request"
            /\ pc' = "session" /\ out' = <<>>
            /\ UNCHANGED <<got, given, ret>>
  BY <1>10, <1>12
<1> QED BY <1>2, <1>9, <1>11, <1>12

\* The header in hand says a length.
LEMMA FrameLengthType ==
    ASSUME TypeOK, Len(got) >= 4
    PROVE  FrameLength \in Nat /\ FrameLength = LengthOf(got)
<1>1. got[2] \in Nat /\ got[3] \in Nat /\ got[4] \in Nat /\ Base \in Nat
  <2>1. got \in Seq(Bytes) /\ Len(got) \in Nat
    BY DEF TypeOK
  <2>2. got[2] \in Bytes /\ got[3] \in Bytes /\ got[4] \in Bytes
    BY <2>1
  <2> QED BY <2>2, NetBiosAssumption DEF Bytes
<1>2. (got[2] * Base + got[3]) * Base + got[4] \in Nat
  <2> DEFINE x == got[2]
             y == got[3]
             z == got[4]
  <2>1. x \in Nat /\ y \in Nat /\ z \in Nat /\ Base \in Nat
    BY <1>1
  <2> HIDE DEF x, y, z
  <2>2. x * Base + y \in Nat
    BY <2>1
  <2>3. (x * Base + y) * Base + z \in Nat
    BY <2>1, <2>2
  <2> QED BY <2>3 DEF x, y, z
<1> QED BY <1>2 DEF FrameLength, LengthOf

\* A byte that is read goes from the stream to the frame in hand.
LEMMA InvRead ==
    ASSUME IInv, Read
    PROVE  IInv'
<1>1. TypeOK
  BY DEF IInv
<1>2. /\ got' = Append(got, Head(down)) /\ down' = Tail(down) /\ down # <<>>
      /\ Reading /\ ~TooBig /\ ~Complete
      /\ UNCHANGED <<pc, out, given, ret, up, open, sent, taken, asked, drops, readCut, writeCut>>
  BY DEF Read, ghosts
<1>3. got \in Seq(Bytes) /\ down \in Seq(Bytes) /\ Len(got) <= 4 + MaxFrame
  BY <1>1 DEF TypeOK
<1> DEFINE x == Head(down)
           rest == Tail(down)
<1>4. x \in Bytes /\ rest \in Seq(Bytes) /\ down = <<x>> \o rest
  BY <1>2, <1>3, HeadTailProperties
<1>5. /\ got' \in Seq(Bytes) /\ Len(got') = Len(got) + 1
      /\ \A i \in 1 .. Len(got) : got'[i] = got[i]
  <2> HIDE DEF x
  <2>1. got' = Append(got, x)
    BY <1>2 DEF x
  <2> QED BY <1>3, <1>4, <2>1, AppendProperties
<1>6. Len(got) >= 4 => /\ FrameLength' = FrameLength
                       /\ FrameLength <= MaxFrame
                       /\ Len(got) < 4 + FrameLength
  <2> SUFFICES ASSUME Len(got) >= 4
               PROVE  /\ FrameLength' = FrameLength /\ FrameLength <= MaxFrame
                      /\ Len(got) < 4 + FrameLength
    OBVIOUS
  <2>1. FrameLength \in Nat
    BY <1>1, FrameLengthType
  <2>2. got'[2] = got[2] /\ got'[3] = got[3] /\ got'[4] = got[4]
    BY <1>3, <1>5
  <2>3. FrameLength' = FrameLength
    BY <2>2 DEF FrameLength
  <2>4. MaxFrame \in Nat /\ Len(got) \in Nat
    BY <1>3, NetBiosAssumption
  <2>5. FrameLength <= MaxFrame /\ Len(got) <= 4 + FrameLength
    <3>1. CASE Len(got) = 4
      BY <1>2, <2>1, <2>4, <3>1 DEF TooBig
    <3>2. CASE Len(got) # 4
      <4>1. WithinFrame
        BY DEF IInv
      <4>2. Len(got) > 4
        <5> DEFINE k == Len(got)
        <5>1. k \in Nat /\ k >= 4 /\ k # 4
          BY <2>4, <3>2
        <5> HIDE DEF k
        <5>2. k > 4
          BY <5>1
        <5> QED BY <5>2 DEF k
      <4> QED BY <4>1, <4>2 DEF WithinFrame
    <3> QED BY <3>1, <3>2
  <2>6. Len(got) # 4 + FrameLength
    BY <1>2, <2>5 DEF Complete
  <2> QED BY <2>1, <2>3, <2>4, <2>5, <2>6
<1>7. Len(got') <= 4 + MaxFrame
  <2>1. MaxFrame \in Nat /\ Len(got) \in Nat
    BY <1>3, NetBiosAssumption
  <2>2. CASE Len(got) >= 4
    <3>1. FrameLength \in Nat
      BY <1>1, <2>2, FrameLengthType
    <3> QED BY <1>5, <1>6, <2>1, <2>2, <3>1
  <2>3. CASE Len(got) < 4
    BY <1>5, <2>1, <2>3
  <2> QED BY <2>1, <2>2, <2>3
<1>8. TypeOK'
  <2>1. Reading' /\ (Writing' <=> Writing)
    BY <1>2 DEF Reading, Writing
  <2>2. down' \in Seq(Bytes)
    BY <1>2, <1>4
  <2> QED BY <1>1, <1>2, <1>5, <1>7, <2>1, <2>2 DEF TypeOK
<1>9. InStep'
  <2> HIDE DEF x, rest
  <2>1. got' = got \o <<x>> /\ down' = rest
    BY <1>2, <1>3, <1>4, AppendIsConcat DEF x, rest
  <2>2. <<x>> \in Seq(Bytes)
    BY <1>4
  <2>3. (got \o <<x>>) \o rest = got \o (<<x>> \o rest)
    <3> DEFINE y == <<x>>
    <3> HIDE DEF y
    <3>1. (got \o y) \o rest = got \o (y \o rest)
      BY <1>3, <1>4, <2>2 DEF y
    <3> QED BY <3>1 DEF y
  <2>4. got' \o down' = got \o down
    BY <1>4, <2>1, <2>3
  <2> QED BY <1>2, <2>4 DEF IInv, InStep, Unread
<1>10. WithinFrame'
  <2> SUFFICES ASSUME Len(got') > 4
               PROVE  FrameLength' <= MaxFrame /\ Len(got') <= 4 + FrameLength'
    BY DEF WithinFrame
  <2>1. Len(got) >= 4 /\ Len(got) \in Nat
    BY <1>3, <1>5
  <2>2. FrameLength \in Nat
    BY <1>1, <2>1, FrameLengthType
  <2> QED BY <1>5, <1>6, <2>1, <2>2
<1>11. OutInStep'
  BY <1>2 DEF IInv, OutInStep
<1>12. LastFrame'
  BY <1>2 DEF IInv, LastFrame, Writing
<1> QED BY <1>8, <1>9, <1>10, <1>11, <1>12 DEF IInv

\* While in step, the frame that is complete is the first that was not taken.
LEMMA FrameInHand ==
    ASSUME IInv, Reading, Complete
    PROVE  /\ Payload \in Seq(Bytes)
           /\ ~readCut => /\ Unread # <<>>
                          /\ down = Stream(Tail(Unread))
                          /\ got[1] = Head(Unread).type
                          /\ Payload = Head(Unread).data
<1>1. TypeOK
  BY DEF IInv
<1>2. /\ got \in Seq(Bytes) /\ down \in Seq(Bytes)
      /\ Len(got) >= 4 /\ Len(got) = 4 + LengthOf(got)
  BY <1>1, FrameLengthType DEF TypeOK, Complete
<1>3. Payload \in Seq(Bytes)
  <2>1. \A i \in 5 .. Len(got) : got[i] \in Bytes
    BY <1>2
  <2> QED BY <1>2, <2>1, SubSeqProperties DEF Payload
<1>4. ASSUME ~readCut
      PROVE  /\ Unread # <<>> /\ down = Stream(Tail(Unread))
             /\ got[1] = Head(Unread).type /\ Payload = Head(Unread).data
  <2>1. got \o down = Stream(Unread)
    BY <1>4 DEF IInv, InStep
  <2>2. Unread \in Seq(Frames)
    BY <1>1, UnreadType
  <2>3. /\ Unread # <<>> /\ got = Encode(Head(Unread))
        /\ down = Stream(Tail(Unread))
    BY <1>2, <2>1, <2>2, NextFrame
  <2>4. Head(Unread) \in Frames
    BY <2>2, <2>3, HeadTailProperties
  <2>5. /\ got[1] = Head(Unread).type
        /\ Len(got) = 4 + Len(Head(Unread).data)
        /\ SubSeq(got, 5, 4 + Len(Head(Unread).data)) = Head(Unread).data
    BY <2>3, <2>4, EncodeBytes
  <2> QED BY <2>3, <2>5 DEF Payload
<1> QED BY <1>3, <1>4

\* A frame that is complete is taken, and nothing of it is left.
LEMMA InvTakeFrame ==
    ASSUME IInv, TakeFrame
    PROVE  IInv'
<1> USE NetBiosAssumption
<1>1. TypeOK
  BY DEF IInv
<1>2. /\ Reading /\ Complete
      /\ taken' = IF readCut THEN taken ELSE taken + 1
      /\ UNCHANGED <<down, up, open, sent, asked, drops, readCut, writeCut>>
  BY DEF TakeFrame
<1>3. out = <<>> /\ ~Writing
  BY <1>1, <1>2 DEF TypeOK, Reading, Writing
<1>4. /\ got' = <<>> /\ out' = <<>>
      /\ given' \in {given, Append(given, Payload)}
      /\ pc' \in {"closed", "idle", "session", "recv"}
      /\ ret' \in {ret, "ok", "refused", "unexpected"}
  <2>1. CASE SessionFrame
    BY <2>1 DEF SessionFrame, End
  <2>2. CASE pc = "recv" /\ MessageFrame
    BY <1>3, <2>2 DEF MessageFrame, End
  <2> QED BY <1>2, <2>1, <2>2 DEF TakeFrame, Reading
<1>5. given' \in Seq(Seq(Bytes))
  <2>1. Payload \in Seq(Bytes) /\ given \in Seq(Seq(Bytes))
    BY <1>1, <1>2, FrameInHand DEF TypeOK
  <2> DEFINE g == Append(given, Payload)
             B == Seq(Bytes)
  <2>2. g \in Seq(B)
    <3>1. Payload \in B /\ given \in Seq(B)
      BY <2>1
    <3> HIDE DEF B
    <3> QED BY <3>1
  <2> HIDE DEF g
  <2>3. given' \in {given, g}
    BY <1>4 DEF g
  <2> QED BY <2>1, <2>2, <2>3
<1>6. taken' \in 0 .. Len(sent) /\ InStep'
  <2>1. CASE readCut
    <3>1. taken' = taken
      BY <1>2, <2>1
    <3> QED BY <1>1, <1>2, <2>1, <3>1 DEF TypeOK, InStep
  <2>2. CASE ~readCut
    <3>1. Unread # <<>> /\ down = Stream(Tail(Unread))
      BY <1>2, <2>2, FrameInHand
    <3>2. Unread' = Tail(Unread) /\ taken' \in 0 .. Len(sent)
      BY <1>1, <1>2, <2>2, <3>1, UnreadTaken
    <3>3. <<>> \o down = down
      BY <1>1, ConcatEmptySeq DEF TypeOK
    <3> QED BY <1>2, <1>4, <3>1, <3>2, <3>3 DEF InStep
  <2> QED BY <1>1, <2>1, <2>2 DEF TypeOK
<1>7. ~Writing'
  BY <1>4 DEF Writing
<1>8. TypeOK'
  BY <1>1, <1>2, <1>4, <1>5, <1>6, <1>7 DEF TypeOK
<1>9. WithinFrame'
  BY <1>4 DEF WithinFrame
<1>10. OutInStep' /\ LastFrame'
  BY <1>2, <1>3, <1>4, <1>7 DEF IInv, OutInStep, LastFrame
<1> QED BY <1>6, <1>8, <1>9, <1>10 DEF IInv

\* The server sends a frame, or closes.
LEMMA InvServer ==
    ASSUME IInv, ServerSends \/ ServerCloses
    PROVE  IInv'
<1> USE NetBiosAssumption
<1>1. TypeOK
  BY DEF IInv
<1>2. CASE ServerSends
  <2>1. PICK f \in ServerFrames : down' = down \o Encode(f) /\ sent' = Append(sent, f)
    BY <1>2 DEF ServerSends
  <2>2. UNCHANGED <<pc, got, out, given, ret, up, open, taken, asked, drops, readCut, writeCut>>
    BY <1>2 DEF ServerSends, client
  <2>3. f \in Frames
    OBVIOUS
  <2> DEFINE e == Encode(f)
  <2>4. e \in Seq(Bytes) /\ down \in Seq(Bytes) /\ got \in Seq(Bytes)
    BY <1>1, <2>3, EncodeBytes DEF TypeOK
  <2>5. sent' \in Seq(Frames) /\ taken \in 0 .. Len(sent')
    <3>1. sent \in Seq(Frames) /\ taken \in 0 .. Len(sent)
      BY <1>1 DEF TypeOK
    <3> QED BY <2>1, <2>3, <3>1, AppendProperties
  <2>6. down' \in Seq(Bytes)
    <3> HIDE DEF e
    <3>1. down \o e \in Seq(Bytes)
      BY <2>4
    <3> QED BY <2>1, <3>1 DEF e
  <2>7. TypeOK'
    <3>1. (Reading' <=> Reading) /\ (Writing' <=> Writing)
      BY <2>2 DEF Reading, Writing
    <3> QED BY <1>1, <2>2, <2>5, <2>6, <3>1 DEF TypeOK
  <2>8. InStep'
    <3> SUFFICES ASSUME ~readCut PROVE got \o (down \o e) = Stream(Unread')
      BY <2>1, <2>2 DEF InStep
    <3>1. got \o down = Stream(Unread)
      BY DEF IInv, InStep
    <3>2. Unread' = Append(Unread, f) /\ Unread \in Seq(Frames)
      BY <1>1, <2>1, <2>2, <2>3, UnreadSent, UnreadType
    <3>3. Stream(Unread') = Stream(Unread) \o e
      BY <2>3, <3>2, StreamAppend
    <3> HIDE DEF e
    <3>4. (got \o down) \o e = got \o (down \o e)
      BY <2>4
    <3> QED BY <3>1, <3>3, <3>4
  <2>9. WithinFrame'
    BY <2>2 DEF IInv, WithinFrame, FrameLength
  <2>10. OutInStep' /\ LastFrame'
    BY <2>2 DEF IInv, OutInStep, LastFrame, Writing
  <2> QED BY <2>7, <2>8, <2>9, <2>10 DEF IInv
<1>3. CASE ServerCloses
  <2>1. UNCHANGED <<pc, got, out, given, ret, down, up, sent, taken, asked, drops,
                    readCut, writeCut>> /\ open' = FALSE
    BY <1>3 DEF ServerCloses, client, ghosts
  <2>2. (Reading' <=> Reading) /\ (Writing' <=> Writing)
    BY <2>1 DEF Reading, Writing
  <2>3. TypeOK'
    BY <1>1, <2>1, <2>2 DEF TypeOK
  <2> QED BY <2>1, <2>2, <2>3, InvQuiet
<1> QED BY <1>2, <1>3

\* Every step keeps the invariant.
LEMMA InvNext ==
    ASSUME IInv, [Next]_vars
    PROVE  IInv'
<1>1. CASE UNCHANGED vars
  <2>1. UNCHANGED <<pc, got, out, given, ret, down, up, open, sent, taken, asked, drops,
                    readCut, writeCut>>
    BY <1>1 DEF vars, client, ghosts
  <2>2. (Reading' <=> Reading) /\ (Writing' <=> Writing)
    BY <2>1 DEF Reading, Writing
  <2>3. TypeOK'
    BY <2>1, <2>2 DEF IInv, TypeOK
  <2> QED BY <2>1, <2>2, <2>3, InvQuiet
<1> QED BY <1>1, InvCalls, InvEnds, InvWrite, InvRead, InvTakeFrame, InvServer
        DEF Next, Progress

(* However the bytes come and go and wherever a call is dropped: as long as   *)
(* none was within a frame, NetBios::recv stands in the stream of the         *)
(* server's frames where the last one ended, and write_exactly in that of     *)
(* the client's.                                                              *)
THEOREM InStepAlways == Spec => []IInv
<1> QED BY InvInit, InvNext, PTL DEF Spec

\* Types; nothing of a frame is left over between calls.
THEOREM TypesOK == Spec => []TypeOK
<1>1. IInv => TypeOK
  BY DEF IInv
<1> QED BY <1>1, InStepAlways, PTL

-----------------------------------------------------------------------------
(* What comes in is a message channel.                                        *)

\* At the start nothing was sent and nothing is broken.
LEMMA ChannelInit ==
    ASSUME Init
    PROVE  Channel!Init
<1>1. Unread = <<>>
  BY DEF Init, Unread
<1>2. ~Broken
  BY DEF Init, Broken
<1> QED BY <1>1, <1>2, MessagesEmpty DEF Init, Channel!Init

\* What is broken stays so.
LEMMA StaysBroken ==
    ASSUME TypeOK, Next, Broken
    PROVE  Broken'
<1>1. CASE readCut
  <2>1. readCut'
    BY <1>1 DEF Next, OpenRaw, OpenSession, SendMessage, RecvMessage, Drop, Progress, Write,
                WriteFails, Read, RefuseLength, ReadFails, TakeFrame, ServerSends,
                ServerCloses, BeginWrite, ghosts
  <2> QED BY <2>1 DEF Broken
<1>2. CASE pc = "closed" /\ ret # "none"
  <2>1. ~Reading /\ ~Writing
    BY <1>2 DEF Reading, Writing
  <2>2. pc' = pc /\ ret' = ret
    BY <1>2, <2>1 DEF Next, OpenRaw, OpenSession, SendMessage, RecvMessage, Drop, Progress,
                Write, WriteFails, Read, RefuseLength, ReadFails, TakeFrame, ServerSends,
                ServerCloses, client
  <2> QED BY <1>2, <2>2 DEF Broken
<1> QED BY <1>1, <1>2 DEF Broken

\* A call that ends without a message breaks the channel or leaves it as it is.
LEMMA EndsQuietly ==
    ASSUME TypeOK, ~Broken, given' = given, MessagesIn(Unread') = MessagesIn(Unread)
    PROVE  [Channel!Next]_(Channel!cvars)
<1>1. ~Broken' \/ Broken'
  OBVIOUS
<1>2. CASE Broken' # Broken
  BY <1>2 DEF Channel!Next, Channel!Break, Broken
<1>3. CASE Broken' = Broken
  BY <1>3 DEF Channel!cvars
<1> QED BY <1>2, <1>3

\* A frame that is taken hands out its message, breaks the channel, or is none.
LEMMA ChannelTake ==
    ASSUME IInv, TakeFrame, ~Broken
    PROVE  [Channel!Next]_(Channel!cvars)
<1>1. TypeOK /\ ~readCut
  BY DEF IInv, Broken
<1>2. /\ Reading /\ Complete /\ taken' = taken + 1 /\ sent' = sent /\ readCut' = readCut
  BY <1>1 DEF TakeFrame
<1> DEFINE f == Head(Unread)
           ms == MessagesIn(Tail(Unread))
<1>3. /\ Unread # <<>> /\ Unread \in Seq(Frames)
      /\ got[1] = f.type /\ Payload = f.data
  BY <1>1, <1>2, FrameInHand, UnreadType
<1>4. Unread' = Tail(Unread)
  BY <1>1, <1>2, <1>3, UnreadTaken
<1>5. /\ ms \in Seq(Seq(Bytes))
      /\ MessagesIn(Unread) = IF FrameType[f.type] = "Message" THEN <<f.data>> \o ms ELSE ms
  BY <1>3, MessagesCons
<1>6. MessagesIn(Unread') = ms
  BY <1>4
<1>7. FrameType[f.type] = "Message" <=> Kind = "Message"
  BY <1>3 DEF Kind
<1>8. CASE pc = "session"
  <2>1. SessionFrame /\ given' = given
    BY <1>8 DEF TakeFrame, SessionFrame, End
  <2>2. CASE Kind = "PositiveResponse"
    <3>1. MessagesIn(Unread') = MessagesIn(Unread)
      BY <1>5, <1>6, <1>7, <2>2
    <3> QED BY <1>1, <2>1, <3>1, EndsQuietly
  <2>3. CASE Kind # "PositiveResponse"
    <3>1. Broken'
      BY <1>8, <2>1, <2>3 DEF SessionFrame, End, Opening, Broken
    <3> QED BY <2>1, <3>1 DEF Channel!Next, Channel!Break
  <2> QED BY <2>2, <2>3
<1>9. CASE pc # "session" /\ Kind = "Message"
  <2>1. /\ given' = Append(given, Payload) /\ pc' = "idle"
    BY <1>9 DEF TakeFrame, MessageFrame
  <2>2. ~Broken'
    BY <1>1, <1>2, <2>1 DEF Broken
  <2>3. MessagesIn(Unread) = <<f.data>> \o ms
    BY <1>5, <1>7, <1>9
  <2>4. f.data \in Seq(Bytes)
    BY <1>2, <1>3, FrameInHand
  <2> DEFINE q == MessagesIn(Unread)
  <2>5. q # <<>> /\ Head(q) = f.data /\ Tail(q) = ms
    <3> DEFINE d == f.data
               E == Seq(Bytes)
    <3>1. q = <<d>> \o ms /\ d \in E /\ ms \in Seq(E)
      BY <1>5, <2>3, <2>4
    <3> HIDE DEF q, d, ms, E
    <3>2. q # <<>> /\ Head(q) = d /\ Tail(q) = ms
      BY <3>1
    <3> QED BY <3>2 DEF d
  <2> HIDE DEF q, ms
  <2>6. q # <<>> /\ given' = Append(given, Head(q)) /\ MessagesIn(Unread') = Tail(q)
    BY <1>3, <1>6, <2>1, <2>5
  <2>7. Broken' = Broken
    <3>1. Broken \in BOOLEAN /\ Broken' \in BOOLEAN
      BY DEF Broken
    <3> QED BY <2>2, <3>1
  <2>8. Channel!Deliver
    BY <2>6, <2>7, Zenon DEF Channel!Deliver, q
  <2> QED BY <2>8, Zenon DEF Channel!Next
<1>10. CASE pc # "session" /\ Kind # "Message"
  <2>1. given' = given
    BY <1>10 DEF TakeFrame, MessageFrame, End
  <2>2. MessagesIn(Unread') = MessagesIn(Unread)
    BY <1>5, <1>6, <1>7, <1>10
  <2> QED BY <1>1, <2>1, <2>2, EndsQuietly
<1> QED BY <1>8, <1>9, <1>10

\* A frame that is sent submits its message, if it has one.
LEMMA ChannelSend ==
    ASSUME IInv, ServerSends, ~Broken
    PROVE  [Channel!Next]_(Channel!cvars)
<1>1. PICK f \in ServerFrames : sent' = Append(sent, f)
  BY DEF ServerSends
<1>2. UNCHANGED <<pc, given, ret, taken, readCut>>
  BY DEF ServerSends, client
<1>3. f \in Frames /\ TypeOK
  BY NetBiosAssumption DEF IInv
<1>4. Unread' = Append(Unread, f) /\ Unread \in Seq(Frames)
  BY <1>1, <1>2, <1>3, UnreadSent, UnreadType
<1>5. MessagesIn(Unread') = IF FrameType[f.type] = "Message"
                            THEN Append(MessagesIn(Unread), f.data)
                            ELSE MessagesIn(Unread)
  BY <1>3, <1>4, MessagesAppend
<1>6. ~Broken'
  BY <1>2 DEF Broken
<1>7. CASE FrameType[f.type] = "Message"
  <2>1. MessagesIn(Unread') = Append(MessagesIn(Unread), f.data)
    BY <1>5, <1>7
  <2>2. f.data \in {g.data : g \in ServerFrames}
    OBVIOUS
  <2>3. given' = given /\ Broken' = Broken
    <3>1. Broken \in BOOLEAN /\ Broken' \in BOOLEAN
      BY DEF Broken
    <3> QED BY <1>2, <1>6, <3>1
  <2>4. Channel!Submit
    BY <2>1, <2>2, <2>3, Zenon DEF Channel!Submit
  <2> QED BY <2>4, Zenon DEF Channel!Next
<1>8. CASE FrameType[f.type] # "Message"
  BY <1>2, <1>3, <1>5, <1>8, EndsQuietly
<1> QED BY <1>7, <1>8

\* Every step of the framing is a step of the channel or leaves it as it is.
LEMMA ChannelStep ==
    ASSUME IInv, [Next]_vars
    PROVE  [Channel!Next]_(Channel!cvars)
<1>1. TypeOK
  BY DEF IInv
<1>2. CASE UNCHANGED vars
  <2>1. UNCHANGED <<pc, given, ret, sent, taken, readCut>>
    BY <1>2 DEF vars, client, ghosts
  <2>2. Unread' = Unread /\ Broken' = Broken
    BY <2>1 DEF Unread, Broken
  <2> QED BY <2>1, <2>2 DEF Channel!cvars
<1>3. CASE Next /\ Broken
  <2>1. Broken'
    BY <1>1, <1>3, StaysBroken
  <2> QED BY <1>3, <2>1 DEF Channel!Next
<1>4. CASE Next /\ ~Broken /\ TakeFrame
  BY <1>4, ChannelTake
<1>5. CASE Next /\ ~Broken /\ ServerSends
  BY <1>5, ChannelSend
<1>6. CASE Next /\ ~Broken /\ ~TakeFrame /\ ~ServerSends
  <2>1. UNCHANGED <<given, sent, taken>>
    BY <1>6 DEF Next, OpenRaw, OpenSession, SendMessage, RecvMessage, Drop, Progress, Write,
                WriteFails, Read, RefuseLength, ReadFails, ServerCloses, BeginWrite, End,
                client, ghosts
  <2>2. Unread' = Unread
    BY <2>1 DEF Unread
  <2> QED BY <1>1, <1>6, <2>1, <2>2, EndsQuietly
<1> QED BY <1>2, <1>3, <1>4, <1>5, <1>6

(* recv_message hands out the server's messages whole, each once and in       *)
(* order, whatever other frames lie between them and however the bytes        *)
(* arrive, until a call is dropped within a frame or a frame is refused.      *)
THEOREM FramingIsChannel == Spec => ImplementsChannel
<1>1. Init => Channel!Init
  BY ChannelInit
<1>2. IInv /\ [Next]_vars => [Channel!Next]_(Channel!cvars)
  BY ChannelStep
<1> QED BY <1>1, <1>2, InStepAlways, PTL DEF Spec, ImplementsChannel, Channel!Spec

-----------------------------------------------------------------------------
(* What the server makes of the stream.                                       *)

\* A function on the places up to b that goes from each on to a later one.
Solves(f, b, C, e, x) ==
    f = [n \in 0 .. b |-> IF n \in C THEN <<>> ELSE x[n] \o f[e[n]]]

\* A recursion whose arguments only grow, up to a bound, has a solution.
LEMMA GrowingRecursion ==
    ASSUME NEW b \in Nat, NEW C, NEW e, NEW x,
           \A n \in 0 .. b : n \notin C => e[n] \in 0 .. b /\ e[n] > n
    PROVE  \E f : Solves(f, b, C, e, x)
<1> DEFINE Is(f, m) == f = [n \in 0 .. b |-> IF n + m < b \/ n \in C THEN <<>>
                                             ELSE x[n] \o f[e[n]]]
           S == {m \in Nat : \E f : Is(f, m)}
<1>1. 0 \in S
  <2> DEFINE f == [n \in 0 .. b |-> <<>>]
  <2>1. \A n \in 0 .. b : n + 0 < b \/ n \in C
    OBVIOUS
  <2>2. Is(f, 0)
    BY <2>1
  <2> QED BY <2>2
<1>2. ASSUME NEW m \in Nat \ {0}, m - 1 \in S
      PROVE  m \in S
  <2>1. PICK f : Is(f, m - 1)
    BY <1>2
  <2> DEFINE g == [n \in 0 .. b |-> IF n + m < b \/ n \in C THEN <<>> ELSE x[n] \o f[e[n]]]
  <2>2. \A n \in 0 .. b : n + (m - 1) >= b => g[n] = f[n]
    <3> SUFFICES ASSUME NEW n \in 0 .. b, n + (m - 1) >= b PROVE g[n] = f[n]
      OBVIOUS
    <3>1. f[n] = IF n + (m - 1) < b \/ n \in C THEN <<>> ELSE x[n] \o f[e[n]]
      BY <2>1, Zenon
    <3>2. ~(n + m < b) /\ ~(n + (m - 1) < b)
      OBVIOUS
    <3> QED BY <3>1, <3>2
  <2>3. \A n \in 0 .. b : ~(n + m < b \/ n \in C) => f[e[n]] = g[e[n]]
    <3> SUFFICES ASSUME NEW n \in 0 .. b, ~(n + m < b), n \notin C
                 PROVE  f[e[n]] = g[e[n]]
      OBVIOUS
    <3>1. e[n] \in 0 .. b /\ e[n] > n
      OBVIOUS
    <3>2. e[n] + (m - 1) >= b
      BY <3>1
    <3> QED BY <2>2, <3>1, <3>2, Zenon
  <2> DEFINE h == [n \in 0 .. b |-> IF n + m < b \/ n \in C THEN <<>> ELSE x[n] \o g[e[n]]]
  <2>4. g = h
    <3>1. \A n \in 0 .. b : (IF n + m < b \/ n \in C THEN <<>> ELSE x[n] \o f[e[n]])
                          = (IF n + m < b \/ n \in C THEN <<>> ELSE x[n] \o g[e[n]])
      <4> HIDE DEF g
      <4> QED BY <2>3
    <3> QED BY <3>1, Zenon
  <2>5. Is(g, m)
    BY <2>4, Zenon
  <2> QED BY <2>5
<1> HIDE DEF S
<1>3. b \in S
  BY <1>1, <1>2, NatSetInduction
<1>4. PICK f : Is(f, b)
  BY <1>3 DEF S
<1> DEFINE g == [n \in 0 .. b |-> IF n \in C THEN <<>> ELSE x[n] \o f[e[n]]]
<1>5. \A n \in 0 .. b : (n + b < b \/ n \in C) <=> n \in C
  OBVIOUS
<1>6. f = g
  BY <1>4, <1>5
<1> QED BY <1>6 DEF Solves

\* Where a frame ends.
LEMMA EndsLater ==
    ASSUME NEW bytes \in Seq(Bytes), NEW n \in 0 .. Len(bytes), ~CutOffAt(bytes, n)
    PROVE  EndAt(bytes, n) \in 0 .. Len(bytes) /\ EndAt(bytes, n) > n
<1>1. Len(bytes) >= n + 4
  BY DEF CutOffAt
<1>2. bytes[n + 2] \in Nat /\ bytes[n + 3] \in Nat /\ bytes[n + 4] \in Nat /\ Base \in Nat
  <2>1. \A i \in 1 .. Len(bytes) : bytes[i] \in Nat
    BY NetBiosAssumption DEF Bytes
  <2> QED BY <1>1, <2>1, NetBiosAssumption
<1> DEFINE len == (bytes[n + 2] * Base + bytes[n + 3]) * Base + bytes[n + 4]
<1>3. len \in Nat
  <2>1. \A x, y, z, w \in Nat : (x * w + y) * w + z \in Nat
    OBVIOUS
  <2> QED BY <1>2, <2>1
<1>4. EndAt(bytes, n) = n + 4 + len
  BY DEF EndAt
<1> HIDE DEF len
<1>5. EndAt(bytes, n) \in Nat /\ EndAt(bytes, n) > n
  BY <1>3, <1>4
<1> QED BY <1>5 DEF CutOffAt

\* The frames after a place are the one there and those after its end.
LEMMA FramesAfterStep ==
    ASSUME NEW bytes \in Seq(Bytes), NEW n \in 0 .. Len(bytes)
    PROVE  FramesAfter(bytes)[n] =
             IF CutOffAt(bytes, n) THEN <<>>
             ELSE <<FrameAt(bytes, n)>> \o FramesAfter(bytes)[EndAt(bytes, n)]
<1> DEFINE b == Len(bytes)
           C == {q \in 0 .. b : CutOffAt(bytes, q)}
           e == [q \in 0 .. b |-> EndAt(bytes, q)]
           x == [q \in 0 .. b |-> <<FrameAt(bytes, q)>>]
<1>1. b \in Nat
  OBVIOUS
<1>2. \A q \in 0 .. b : q \notin C => e[q] \in 0 .. b /\ e[q] > q
  BY EndsLater
<1> HIDE DEF C, e, x
<1>3. PICK f : Solves(f, b, C, e, x)
  <2> HIDE DEF b
  <2> QED BY <1>1, <1>2, GrowingRecursion
<1> DEFINE Is(F) == F = [q \in 0 .. Len(bytes) |->
                            IF CutOffAt(bytes, q) THEN <<>>
                            ELSE <<FrameAt(bytes, q)>> \o F[EndAt(bytes, q)]]
<1>4. Is(f)
  <2>1. \A q \in 0 .. b : (IF q \in C THEN <<>> ELSE x[q] \o f[e[q]])
                        = (IF CutOffAt(bytes, q) THEN <<>>
                           ELSE <<FrameAt(bytes, q)>> \o f[EndAt(bytes, q)])
    BY DEF C, e, x
  <2> QED BY <1>3, <2>1, Zenon DEF Solves
<1>5. Is(FramesAfter(bytes))
  <2> HIDE DEF Is
  <2>1. Is(CHOOSE F : Is(F))
    BY <1>4
  <2>2. FramesAfter(bytes) = CHOOSE F : Is(F)
    BY DEF FramesAfter, Is
  <2> QED BY <2>1, <2>2
<1> QED BY <1>5, Zenon

\* What is not a frame yet: the header is missing, or some of the data.
Partial(bytes) == Len(bytes) < 4 \/ Len(bytes) < 4 + LengthOf(bytes)

\* Three bytes say a number.
LEMMA LengthNat ==
    ASSUME NEW x \in Nat, NEW y \in Nat, NEW z \in Nat, NEW w \in Nat
    PROVE  (x * w + y) * w + z \in Nat
<1>1. x * w + y \in Nat
  OBVIOUS
<1> QED BY <1>1

\* A frame in the stream is read as it was encoded.
LEMMA FrameHere ==
    ASSUME NEW bytes \in Seq(Bytes), NEW n \in Nat, NEW h \in Frames,
           n + Len(Encode(h)) <= Len(bytes),
           \A i \in 1 .. Len(Encode(h)) : bytes[n + i] = Encode(h)[i]
    PROVE  /\ ~CutOffAt(bytes, n)
           /\ EndAt(bytes, n) = n + Len(Encode(h))
           /\ FrameAt(bytes, n) = h
<1> DEFINE e == Encode(h)
           m == Len(h.data)
<1>1. m \in Nat /\ h = [type |-> h.type, data |-> h.data] /\ h.data \in Seq(Bytes)
  BY DEF Frames
<1>2. /\ e \in Seq(Bytes) /\ Len(e) = 4 + m
      /\ e[1] = h.type /\ LengthOf(e) = m
      /\ SubSeq(e, 5, 4 + m) = h.data
  BY EncodeBytes
<1>3. /\ Len(bytes) >= n + 4 + m
      /\ \A i \in 1 .. 4 + m : bytes[n + i] = e[i]
  <2>1. n + Len(e) <= Len(bytes) /\ \A i \in 1 .. Len(e) : bytes[n + i] = e[i]
    OBVIOUS
  <2> HIDE DEF e, m
  <2>2. Len(bytes) >= n + 4 + m
    BY <1>1, <1>2, <2>1
  <2>3. \A i \in 1 .. 4 + m : bytes[n + i] = e[i]
    BY <1>2, <2>1, Zenon
  <2> QED BY <2>2, <2>3
<1> HIDE DEF e, m
<1>4. bytes[n + 1] = e[1] /\ bytes[n + 2] = e[2] /\ bytes[n + 3] = e[3] /\ bytes[n + 4] = e[4]
  <2>1. 1 \in 1 .. 4 + m /\ 2 \in 1 .. 4 + m /\ 3 \in 1 .. 4 + m /\ 4 \in 1 .. 4 + m
    BY <1>1
  <2> QED BY <1>3, <2>1, Zenon
<1>5. EndAt(bytes, n) = n + 4 + m
  BY <1>2, <1>4 DEF EndAt, LengthOf
<1>6. ~CutOffAt(bytes, n)
  <2>1. Len(bytes) \in Nat
    OBVIOUS
  <2> QED BY <1>1, <1>3, <1>5, <2>1 DEF CutOffAt
<1>7. SubSeq(bytes, n + 5, n + 4 + m) = h.data
  <2> DEFINE s == SubSeq(bytes, n + 5, n + 4 + m)
             t == SubSeq(e, 5, 4 + m)
  <2>1. s \in Seq(Bytes) /\ Len(s) = m /\ \A i \in 1 .. m : s[i] = bytes[n + 4 + i]
    <3>1. Len(bytes) \in Nat /\ n + 4 + m <= Len(bytes)
      BY <1>1, <1>3
    <3> DEFINE lo == n + 5
               hi == n + 4 + m
    <3>2. lo \in Int /\ hi \in Int /\ hi - lo + 1 = m
      BY <1>1
    <3>3. \A i \in lo .. hi : bytes[i] \in Bytes
      <4>1. \A i \in lo .. hi : i \in 1 .. Len(bytes)
        BY <1>1, <3>1
      <4> QED BY <4>1
    <3>4. s = SubSeq(bytes, lo, hi)
      OBVIOUS
    <3> HIDE DEF lo, hi, s
    <3>5. /\ SubSeq(bytes, lo, hi) \in Seq(Bytes)
          /\ Len(SubSeq(bytes, lo, hi)) = (IF lo <= hi THEN hi - lo + 1 ELSE 0)
          /\ \A i \in 1 .. hi - lo + 1 : SubSeq(bytes, lo, hi)[i] = bytes[lo + i - 1]
      BY <3>2, <3>3, SubSeqProperties
    <3>6. \A i \in 1 .. m : s[i] = bytes[lo + i - 1]
      BY <3>2, <3>4, <3>5
    <3>7. \A i \in 1 .. m : s[i] = bytes[n + 4 + i]
      <4>1. \A i \in 1 .. m : lo + i - 1 = n + 4 + i
        BY <1>1 DEF lo
      <4> QED BY <3>6, <4>1
    <3>8. Len(s) = m
      BY <1>1, <3>2, <3>4, <3>5
    <3> QED BY <3>4, <3>5, <3>7, <3>8
  <2>2. t \in Seq(Bytes) /\ Len(t) = m /\ \A i \in 1 .. m : t[i] = e[4 + i]
    <3>1. t \in Seq(Bytes) /\ Len(t) = m
      BY <1>1, <1>2
    <3>2. \A i \in 1 .. m : t[i] = e[4 + i]
      BY <1>1, <1>2
    <3> QED BY <3>1, <3>2
  <2>3. \A i \in 1 .. m : bytes[n + 4 + i] = e[4 + i]
    <3> SUFFICES ASSUME NEW i \in 1 .. m PROVE bytes[n + 4 + i] = e[4 + i]
      OBVIOUS
    <3>1. 4 + i \in 1 .. 4 + m /\ n + (4 + i) = n + 4 + i
      BY <1>1
    <3> QED BY <1>3, <3>1
  <2> HIDE DEF s, t
  <2>4. s = t
    BY <2>1, <2>2, <2>3, SeqEqual
  <2> QED BY <1>2, <2>4 DEF s, t
<1>8. FrameAt(bytes, n) = h
  BY <1>1, <1>2, <1>4, <1>5, <1>7 DEF FrameAt
<1> QED BY <1>1, <1>2, <1>5, <1>6, <1>8 DEF e

\* What is no frame yet is read as none.
LEMMA PartialHere ==
    ASSUME NEW bytes \in Seq(Bytes), NEW pre \in Seq(Bytes), NEW r \in Seq(Bytes),
           Partial(r), bytes = pre \o r
    PROVE  CutOffAt(bytes, Len(pre))
<1> DEFINE n == Len(pre)
           m == Len(r)
<1>1. /\ Len(bytes) = n + m
      /\ \A i \in 1 .. m : bytes[n + i] = r[i]
  BY ConcatParts
<1>2. n \in Nat /\ m \in Nat
  OBVIOUS
<1> HIDE DEF n, m
<1>3. ASSUME m < 4 PROVE CutOffAt(bytes, n)
  BY <1>1, <1>2, <1>3 DEF CutOffAt
<1>4. ASSUME m >= 4 PROVE CutOffAt(bytes, n)
  <2>1. bytes[n + 2] = r[2] /\ bytes[n + 3] = r[3] /\ bytes[n + 4] = r[4]
    <3>1. 2 \in 1 .. m /\ 3 \in 1 .. m /\ 4 \in 1 .. m
      BY <1>2, <1>4
    <3> QED BY <1>1, <3>1, Zenon
  <2> DEFINE len == LengthOf(r)
  <2>2. EndAt(bytes, n) = n + 4 + len
    BY <2>1 DEF EndAt, LengthOf
  <2>3. m < 4 + len
    BY <1>4, <1>2 DEF Partial, m
  <2>4. len \in Nat
    <3>1. \A i \in 1 .. m : r[i] \in Nat
      BY NetBiosAssumption DEF Bytes, m
    <3>2. r[2] \in Nat /\ r[3] \in Nat /\ r[4] \in Nat /\ Base \in Nat
      BY <1>2, <1>4, <3>1, NetBiosAssumption
    <3> QED BY <3>2, LengthNat DEF LengthOf
  <2> HIDE DEF len
  <2> QED BY <1>1, <1>2, <2>2, <2>3, <2>4 DEF CutOffAt
<1> QED BY <1>2, <1>3, <1>4 DEF n

\* A stream and the beginning of a frame are read as the frames of the stream.
LEMMA FramesOfStream ==
    ASSUME NEW bytes \in Seq(Bytes), NEW r \in Seq(Bytes), Partial(r)
    PROVE  \A fs \in Seq(Frames) : \A pre \in Seq(Bytes) :
             bytes = pre \o (Stream(fs) \o r) => FramesAfter(bytes)[Len(pre)] = fs
<1> DEFINE Good(fs) == \A pre \in Seq(Bytes) :
                         bytes = pre \o (Stream(fs) \o r) => FramesAfter(bytes)[Len(pre)] = fs
           S == {k \in Nat : \A fs \in Seq(Frames) : Len(fs) = k => Good(fs)}
<1>1. 0 \in S
  <2> SUFFICES ASSUME NEW fs \in Seq(Frames), Len(fs) = 0, NEW pre \in Seq(Bytes),
                      bytes = pre \o (Stream(fs) \o r)
               PROVE  FramesAfter(bytes)[Len(pre)] = fs
    OBVIOUS
  <2>1. fs = <<>>
    OBVIOUS
  <2>2. Stream(fs) \o r = r
    <3>1. Stream(fs) = <<>>
      BY <2>1, StreamType
    <3> QED BY <3>1, ConcatEmptySeq
  <2>3. CutOffAt(bytes, Len(pre))
    BY <2>2, PartialHere
  <2>4. Len(pre) \in 0 .. Len(bytes)
    BY <2>2, ConcatPlaces
  <2> QED BY <2>1, <2>3, <2>4, FramesAfterStep
<1>2. ASSUME NEW k \in Nat \ {0}, k - 1 \in S
      PROVE  k \in S
  <2> SUFFICES ASSUME NEW fs \in Seq(Frames), Len(fs) = k
               PROVE  Good(fs)
    OBVIOUS
  <2> DEFINE h == Head(fs)
             t == Tail(fs)
             e == Encode(h)
             st == Stream(t)
  <2>1. fs # <<>>
    OBVIOUS
  <2>2. h \in Frames /\ t \in Seq(Frames) /\ Len(t) = k - 1 /\ fs = <<h>> \o t
    <3> DEFINE E == Frames
    <3>1. fs \in Seq(E) /\ fs # <<>> /\ Len(fs) = k
      BY <2>1
    <3> HIDE DEF E
    <3>2. h \in E /\ t \in Seq(E) /\ Len(t) = k - 1
      BY <3>1
    <3>3. fs = <<h>> \o t
      BY <3>1
    <3> QED BY <3>2, <3>3 DEF E
  <2>3. Stream(fs) = e \o st
    BY <2>1, StreamCons
  <2>4. e \in Seq(Bytes) /\ st \in Seq(Bytes)
    BY <2>2, EncodeBytes, StreamType
  <2>5. Good(t)
    BY <1>2, <2>2
  <2> HIDE DEF h, t, e, st, Good
  <2>12. ASSUME NEW pre \in Seq(Bytes)
        PROVE  /\ pre \o (Stream(fs) \o r) = pre \o (e \o (st \o r))
               /\ pre \o (Stream(fs) \o r) = (pre \o e) \o (st \o r)
    <3>1. Regrouped(pre, e, st, r)
      BY <2>4, RegroupFour
    <3> QED BY <2>3, <3>1, Zenon DEF Regrouped
  <2> SUFFICES ASSUME NEW pre \in Seq(Bytes), bytes = pre \o (Stream(fs) \o r)
               PROVE  FramesAfter(bytes)[Len(pre)] = fs
    BY DEF Good
  <2> DEFINE n == Len(pre)
  <2>6. bytes = pre \o (e \o (st \o r)) /\ bytes = (pre \o e) \o (st \o r)
    BY <2>12
  <2>7. pre \o e \in Seq(Bytes) /\ Len(pre \o e) = n + Len(e) /\ st \o r \in Seq(Bytes)
    BY <2>4, ConcatPlaces
  <2>8. FramesAfter(bytes)[n + Len(e)] = t
    BY <2>5, <2>6, <2>7 DEF Good, st
  <2>9. ~CutOffAt(bytes, n) /\ EndAt(bytes, n) = n + Len(e) /\ FrameAt(bytes, n) = h
    <3> DEFINE w == st \o r
               ew == e \o w
    <3>1. Len(ew) = Len(e) + Len(w) /\ Len(w) \in Nat /\ ew \in Seq(Bytes)
      BY <2>4, <2>7, ConcatPlaces
    <3>2. \A i \in 1 .. Len(e) : ew[i] = e[i]
      BY <2>4, <2>7, ConcatPlaces
    <3>3. bytes = pre \o ew
      BY <2>6
    <3> HIDE DEF ew, w
    <3>4. Len(bytes) = n + Len(ew) /\ \A i \in 1 .. Len(ew) : bytes[n + i] = ew[i]
      <4>1. /\ Len(pre \o ew) = Len(pre) + Len(ew)
            /\ \A i \in 1 .. Len(ew) : (pre \o ew)[Len(pre) + i] = ew[i]
        <5>1. pre \in Seq(Bytes) /\ ew \in Seq(Bytes)
          BY <3>1
        <5>2. Len(pre \o ew) = Len(pre) + Len(ew)
          BY <5>1, ConcatPlaces
        <5>3. \A i \in 1 .. Len(ew) : (pre \o ew)[Len(pre) + i] = ew[i]
          BY <5>1, ConcatPlaces
        <5> QED BY <5>2, <5>3
      <4> QED BY <3>3, <4>1, Zenon
    <3>5. n \in Nat /\ Len(e) \in Nat
      BY <2>4
    <3> HIDE DEF n
    <3>6. n + Len(e) <= Len(bytes)
      BY <3>1, <3>4, <3>5
    <3>7. \A i \in 1 .. Len(e) : bytes[n + i] = e[i]
      <4>1. \A i \in 1 .. Len(e) : i \in 1 .. Len(ew)
        BY <3>1, <3>5
      <4> QED BY <3>2, <3>4, <4>1
    <3> QED BY <2>2, <3>5, <3>6, <3>7, FrameHere DEF e
  <2>10. n \in 0 .. Len(bytes)
    <3>1. e \o (st \o r) \in Seq(Bytes)
      BY <2>4, <2>7, ConcatPlaces
    <3> QED BY <2>6, <3>1, ConcatPlaces
  <2>11. FramesAfter(bytes)[n] = IF CutOffAt(bytes, n) THEN <<>>
                                 ELSE <<FrameAt(bytes, n)>> \o FramesAfter(bytes)[EndAt(bytes, n)]
    <3> HIDE DEF n
    <3> QED BY <2>10, FramesAfterStep
  <2> QED BY <2>2, <2>8, <2>9, <2>11
<1> HIDE DEF S, Good
<1>3. Nat \subseteq S
  BY <1>1, <1>2, NatSetInduction
<1>4. \A fs \in Seq(Frames) : Len(fs) \in S
  BY <1>3
<1> QED BY <1>4 DEF S, Good

\* Part of an encoded frame is not a frame yet.
LEMMA PartOfFrame ==
    ASSUME NEW f \in Frames, NEW k \in Nat, k < Len(Encode(f))
    PROVE  LET r == SubSeq(Encode(f), 1, k)
           IN  r \in Seq(Bytes) /\ Len(r) = k /\ Partial(r)
<1> DEFINE e == Encode(f)
           r == SubSeq(e, 1, k)
           m == Len(f.data)
<1>1. e \in Seq(Bytes) /\ Len(e) = 4 + m /\ LengthOf(e) = m /\ m \in Nat
  <2>1. m \in Nat
    BY DEF Frames
  <2> QED BY <2>1, EncodeBytes
<1>2. k < Len(e)
  OBVIOUS
<1> HIDE DEF e, m
<1>3. r \in Seq(Bytes) /\ Len(r) = k /\ \A i \in 1 .. k : r[i] = e[i]
  <2>1. Len(e) \in Nat /\ k <= Len(e)
    BY <1>1, <1>2
  <2>2. \A i \in 1 .. k : e[i] \in Bytes
    BY <1>1, <2>1
  <2>3. 1 \in Int /\ k \in Int
    OBVIOUS
  <2>4. /\ r \in Seq(Bytes)
        /\ Len(r) = IF 1 <= k THEN k - 1 + 1 ELSE 0
        /\ \A i \in 1 .. k - 1 + 1 : r[i] = e[1 + i - 1]
    BY <2>2, <2>3, SubSeqProperties
  <2> HIDE DEF r
  <2> QED BY <2>4
<1> HIDE DEF r
<1>4. Partial(r)
  <2>1. CASE k < 4
    BY <1>3, <2>1 DEF Partial
  <2>2. CASE k >= 4
    <3>1. r[2] = e[2] /\ r[3] = e[3] /\ r[4] = e[4]
      BY <1>3, <2>2
    <3>2. LengthOf(r) = m
      BY <1>1, <3>1 DEF LengthOf
    <3> QED BY <1>1, <1>2, <1>3, <3>2 DEF Partial
  <2> QED BY <2>1, <2>2
<1> QED BY <1>3, <1>4 DEF r, e

\* What the server has is the frames that are asked for and part of one more.
LEMMA UpWhole ==
    ASSUME IInv, ~writeCut, Writing
    PROVE  \E r \in Seq(Bytes) : Partial(r) /\ up = Stream(Front(asked)) \o r
<1>1. TypeOK /\ OutInStep /\ asked # <<>> /\ out # <<>>
  BY DEF IInv, LastFrame, TypeOK
<1> DEFINE f == asked[Len(asked)]
           e == Encode(f)
           s == Stream(Front(asked))
           k == Len(e) - Len(out)
           r == SubSeq(e, 1, k)
           o == SubSeq(e, k + 1, Len(e))
<1>2. /\ Front(asked) \in Seq(Frames) /\ f \in Frames
      /\ Stream(asked) = s \o e
  BY <1>1, LastAsked
<1>3. up \in Seq(Bytes) /\ out \in Seq(Bytes) /\ Len(out) \in Nat \ {0}
  BY <1>1 DEF TypeOK
<1>4. e \in Seq(Bytes) /\ Len(e) \in Nat
  BY <1>2, EncodeBytes
<1>5. Len(out) <= Len(e)
  BY DEF IInv, LastFrame
<1>6. k \in Nat /\ k < Len(e)
  <2> HIDE DEF e
  <2> QED BY <1>3, <1>4, <1>5
<1>7. r \in Seq(Bytes) /\ Len(r) = k /\ Partial(r)
  <2> HIDE DEF k
  <2> QED BY <1>2, <1>6, PartOfFrame
<1>8. s \in Seq(Bytes)
  BY <1>2, StreamType
<1>9. up \o out = s \o e
  BY <1>1, <1>2 DEF OutInStep
<1> HIDE DEF f, e, s
<1>10. e = r \o o /\ o \in Seq(Bytes) /\ Len(o) = Len(out)
  <2>1. k + Len(out) = Len(e)
    BY <1>3, <1>4
  <2> HIDE DEF k
  <2>2. r \o o = SubSeq(e, 1, Len(e))
    <3>1. 1 \in 1 .. Len(e) + 1 /\ k \in 1 - 1 .. Len(e) /\ Len(e) \in k .. Len(e)
      BY <1>4, <1>6
    <3> QED BY <1>4, <3>1, ConcatAdjacentSubSeq
  <2>3. SubSeq(e, 1, Len(e)) = e
    BY <1>4, SubSeqFull
  <2>4. o \in Seq(Bytes) /\ Len(o) = Len(e) - k
    <3>1. \A i \in k + 1 .. Len(e) : e[i] \in Bytes
      BY <1>4, <1>6
    <3>2. k + 1 \in Int /\ Len(e) \in Int
      BY <1>4, <1>6
    <3>3. /\ o \in Seq(Bytes)
          /\ Len(o) = IF k + 1 <= Len(e) THEN Len(e) - (k + 1) + 1 ELSE 0
      BY <3>1, <3>2, SubSeqProperties
    <3> HIDE DEF o
    <3> QED BY <1>4, <1>6, <3>3
  <2>5. Len(o) = Len(out)
    BY <1>3, <1>4, <1>6, <2>1, <2>4
  <2> QED BY <2>2, <2>3, <2>4, <2>5, Zenon
<1> HIDE DEF r, o
<1>11. up \o out = (s \o r) \o o
  BY <1>7, <1>8, <1>9, <1>10
<1> DEFINE sr == s \o r
           w == up \o out
<1>12. sr \in Seq(Bytes) /\ Len(sr) = Len(s) + Len(r)
  BY <1>7, <1>8
<1>13. Len(up) = Len(sr)
  <2>1. Len(up \o out) = Len(up) + Len(out)
    BY <1>3
  <2>2. Len(sr \o o) = Len(sr) + Len(o)
    BY <1>10, <1>12, ConcatPlaces
  <2>3. Len(up) \in Nat /\ Len(sr) \in Nat /\ Len(out) \in Nat
    BY <1>3, <1>12
  <2> QED BY <1>10, <1>11, <2>1, <2>2, <2>3
<1> HIDE DEF sr
<1>14. up = sr
  <2>1. w = up \o out /\ w = sr \o o
    BY <1>11 DEF sr
  <2> HIDE DEF w
  <2>2. up \in Seq(Bytes) /\ out \in Seq(Bytes) /\ sr \in Seq(Bytes) /\ o \in Seq(Bytes)
    BY <1>3, <1>10, <1>12
  <2>3. w = up \o out /\ w = sr \o o /\ Len(up) = Len(sr) => up = sr /\ out = o
    BY <2>2, SplitEqual
  <2> QED BY <1>13, <2>1, <2>3
<1> QED BY <1>7, <1>14 DEF sr, s

(* Why the requests arrive whole: what was sent and what is still to be       *)
(* written make up the stream of the frames that were asked for.              *)
LEMMA UpIsWhole ==
    ASSUME IInv
    PROVE  RequestsWhole
<1> SUFFICES ASSUME ~writeCut
             PROVE  SplitFrames = IF Writing THEN Front(asked) ELSE asked
  BY DEF RequestsWhole
<1>1. TypeOK /\ OutInStep /\ up \in Seq(Bytes) /\ asked \in Seq(Frames)
  BY DEF IInv, TypeOK
<1>2. <<>> \in Seq(Bytes) /\ Len(<<>>) = 0
  OBVIOUS
<1>3. CASE Writing
  <2>1. PICK r \in Seq(Bytes) : Partial(r) /\ up = Stream(Front(asked)) \o r
    BY <1>3, UpWhole
  <2>2. Front(asked) \in Seq(Frames)
    <3>1. asked # <<>>
      BY <1>3 DEF IInv, LastFrame
    <3> QED BY <1>1, <3>1, LastAsked
  <2>3. Stream(Front(asked)) \o r \in Seq(Bytes)
    BY <2>2, StreamType, ConcatPlaces
  <2>4. up = <<>> \o (Stream(Front(asked)) \o r)
    BY <2>1, <2>3, ConcatEmptySeq
  <2>5. \A fs \in Seq(Frames) : \A pre \in Seq(Bytes) :
          up = pre \o (Stream(fs) \o r) => FramesAfter(up)[Len(pre)] = fs
    BY <1>1, <2>1, FramesOfStream
  <2>6. FramesAfter(up)[Len(<<>>)] = Front(asked)
    <3> DEFINE g == Front(asked)
               n == <<>>
    <3>1. g \in Seq(Frames) /\ n \in Seq(Bytes) /\ up = n \o (Stream(g) \o r)
      BY <1>2, <2>2, <2>4
    <3> HIDE DEF g, n
    <3>2. FramesAfter(up)[Len(n)] = g
      BY <2>5, <3>1, Zenon
    <3> QED BY <3>2 DEF g, n
  <2> QED BY <1>2, <1>3, <2>6 DEF SplitFrames
<1>4. CASE ~Writing
  <2>1. out = <<>>
    BY <1>1, <1>4 DEF TypeOK
  <2>2. up = Stream(asked)
    BY <1>1, <2>1, NothingInHand
  <2>3. up = <<>> \o (Stream(asked) \o <<>>)
    BY <1>1, <2>2
  <2>4. Partial(<<>>)
    BY <1>2 DEF Partial
  <2>5. FramesAfter(up)[Len(<<>>)] = asked
    BY <1>1, <1>2, <2>3, <2>4, FramesOfStream, Zenon
  <2> QED BY <1>2, <1>4, <2>5 DEF SplitFrames
<1> QED BY <1>3, <1>4

(* The server reads exactly the frames that the client has written, as long   *)
(* as no call was dropped within one.                                         *)
THEOREM RequestsArriveWhole == Spec => []RequestsWhole
<1>1. IInv => RequestsWhole
  BY UpIsWhole
<1> QED BY <1>1, InStepAlways, PTL
=============================================================================
