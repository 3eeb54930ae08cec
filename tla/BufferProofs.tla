---------------------------- MODULE BufferProofs ----------------------------
(* Proofs about the two places where bytes are put one behind the other: the  *)
(* chunk queue, for all bytes, chunks, block lengths and bounds, and the      *)
(* reassembly of a Transact2 reply, for all lengths of the two buffers, all   *)
(* totals a server may announce, and all parts it may send.                   *)
EXTENDS StreamingBuffer, Reassembly, SequenceTheorems, WellFoundedInduction, TLAPS

-----------------------------------------------------------------------------
(* Induction over numbers, in the form of a set that holds all of them.       *)

\* A set of numbers that is not empty has a least one.
LEMMA LeastNat ==
    ASSUME NEW T \in SUBSET Nat, T # {}
    PROVE  \E n \in T : \A m \in T : n <= m
<1>1. IsWellFoundedOn(OpToRel(<, Nat), Nat)
  BY NatLessThanWellFounded
<1>2. PICK n \in T : \A m \in T : ~(<<m, n>> \in OpToRel(<, Nat))
  BY <1>1, WFMin, Zenon
<1>3. \A m \in T : ~(m < n)
  BY <1>2, Zenon DEF OpToRel
<1> QED BY <1>3

\* A set with 0, and with each number after one of its own, has them all.
LEMMA NatSetInduction ==
    ASSUME NEW S, 0 \in S, \A n \in Nat \ {0} : n - 1 \in S => n \in S
    PROVE  Nat \subseteq S
<1> SUFFICES ASSUME Nat \ S # {} PROVE FALSE
  OBVIOUS
<1>1. PICK n \in Nat \ S : \A m \in Nat \ S : n <= m
  BY LeastNat
<1>2. n # 0 /\ n - 1 \in Nat /\ n - 1 \in S
  BY <1>1
<1> QED BY <1>1, <1>2

\* The same with the successor of each.
LEMMA NatSetSuccessors ==
    ASSUME NEW S, 0 \in S, \A n \in Nat : n \in S => n + 1 \in S
    PROVE  Nat \subseteq S
<1>1. \A n \in Nat \ {0} : n - 1 \in S => n \in S
  OBVIOUS
<1> QED BY <1>1, NatSetInduction

-----------------------------------------------------------------------------
(* Sequences put one behind the other.                                        *)

\* The first i of some sequences, one behind the other, for every i.
Joins(ss) == CHOOSE f : f = [i \in 1 .. Len(ss) |->
                               IF i = 1 THEN ss[i] ELSE f[i - 1] \o ss[i]]

\* FlattenSeq is the last of them.
LEMMA FlattenIsJoin ==
    ASSUME NEW ss
    PROVE  FlattenSeq(ss) = IF Len(ss) = 0 THEN ss ELSE Joins(ss)[Len(ss)]
BY DEF FlattenSeq, Joins

\* There are such joins.
LEMMA JoinsExist ==
    ASSUME NEW ss, NEW n \in Nat
    PROVE  \E f : f = [i \in 1 .. n |-> IF i = 1 THEN ss[i] ELSE f[i - 1] \o ss[i]]
<1> DEFINE Is(f, m) == f = [i \in 1 .. m |-> IF i = 1 THEN ss[i] ELSE f[i - 1] \o ss[i]]
           S == {m \in Nat : \E f : Is(f, m)}
<1>1. 0 \in S
  <2> DEFINE f == [i \in 1 .. 0 |-> <<>>]
  <2>1. Is(f, 0)
    OBVIOUS
  <2> HIDE DEF f, Is
  <2> QED BY <2>1
<1>2. ASSUME NEW m \in Nat \ {0}, m - 1 \in S
      PROVE  m \in S
  <2>1. PICK f : Is(f, m - 1)
    BY <1>2
  <2> DEFINE last == IF m = 1 THEN ss[m] ELSE f[m - 1] \o ss[m]
             g == [i \in 1 .. m |-> IF i = m THEN last ELSE f[i]]
             h == [i \in 1 .. m |-> IF i = 1 THEN ss[i] ELSE g[i - 1] \o ss[i]]
  <2>2. ASSUME NEW i \in 1 .. m
        PROVE  g[i] = h[i]
    <3>1. \A q \in 1 .. m : q # 1 => q - 1 \in 1 .. m /\ g[q - 1] = f[q - 1]
      OBVIOUS
    <3>2. \A q \in 1 .. m : h[q] = IF q = 1 THEN ss[q] ELSE g[q - 1] \o ss[q]
      <4> HIDE DEF g
      <4> QED OBVIOUS
    <3>3. \A q \in 1 .. m : g[q] = IF q = m THEN last ELSE f[q]
      <4> HIDE DEF last
      <4> QED OBVIOUS
    <3>4. \A q \in 1 .. m - 1 : f[q] = IF q = 1 THEN ss[q] ELSE f[q - 1] \o ss[q]
      BY <2>1
    <3> HIDE DEF g, h
    <3>5. CASE i = m
      BY <3>1, <3>2, <3>3, <3>5
    <3>6. CASE i # m
      <4>1. i \in 1 .. m - 1
        BY <3>6
      <4> QED BY <3>1, <3>2, <3>3, <3>4, <3>6, <4>1
    <3> QED BY <3>5, <3>6
  <2>3. g = h
    <3> HIDE DEF Is
    <3> QED BY <2>2
  <2>4. Is(g, m)
    BY <2>3
  <2> HIDE DEF g, Is
  <2> QED BY <2>4
<1> HIDE DEF S
<1>3. Nat \subseteq S
  BY <1>1, <1>2, NatSetInduction
<1> QED BY <1>3 DEF S

\* Each has one sequence more than the one before.
LEMMA JoinSteps ==
    ASSUME NEW ss, NEW n \in Nat, n = Len(ss), NEW q \in 1 .. n
    PROVE  Joins(ss)[q] = IF q = 1 THEN ss[q] ELSE Joins(ss)[q - 1] \o ss[q]
<1> DEFINE j == Joins(ss)
<1>1. \E f : f = [i \in 1 .. n |-> IF i = 1 THEN ss[i] ELSE f[i - 1] \o ss[i]]
  BY JoinsExist
<1>2. j = [i \in 1 .. n |-> IF i = 1 THEN ss[i] ELSE j[i - 1] \o ss[i]]
  BY <1>1, Zenon DEF Joins
<1> HIDE DEF j
<1>3. j[q] = IF q = 1 THEN ss[q] ELSE j[q - 1] \o ss[q]
  BY <1>2
<1> QED BY <1>3 DEF j

\* They are sequences of the same elements.
LEMMA JoinTypes ==
    ASSUME NEW E, NEW ss \in Seq(Seq(E))
    PROVE  \A q \in 1 .. Len(ss) : Joins(ss)[q] \in Seq(E)
<1> DEFINE n == Len(ss)
           S == {q \in Nat : q \in 1 .. n => Joins(ss)[q] \in Seq(E)}
<1>1. 0 \in S
  OBVIOUS
<1>2. ASSUME NEW q \in Nat \ {0}, q - 1 \in S
      PROVE  q \in S
  <2> SUFFICES ASSUME q \in 1 .. n PROVE Joins(ss)[q] \in Seq(E)
    OBVIOUS
  <2>1. ss[q] \in Seq(E) /\ n \in Nat
    OBVIOUS
  <2>2. Joins(ss)[q] = IF q = 1 THEN ss[q] ELSE Joins(ss)[q - 1] \o ss[q]
    BY <2>1, JoinSteps
  <2>3. CASE q = 1
    BY <2>1, <2>2, <2>3
  <2>4. CASE q # 1
    <3>1. Joins(ss)[q - 1] \in Seq(E)
      BY <1>2, <2>4
    <3> QED BY <2>1, <2>2, <2>4, <3>1, ConcatProperties
  <2> QED BY <2>3, <2>4
<1> HIDE DEF S
<1>3. Nat \subseteq S
  BY <1>1, <1>2, NatSetInduction
<1> QED BY <1>3 DEF S

\* So is what FlattenSeq makes of them; of none it makes the empty sequence.
LEMMA FlattenType ==
    ASSUME NEW E, NEW ss \in Seq(Seq(E))
    PROVE  /\ FlattenSeq(ss) \in Seq(E)
           /\ ss = <<>> => FlattenSeq(ss) = <<>>
<1>1. CASE ss = <<>>
  <2>1. Len(ss) = 0
    BY <1>1
  <2>2. FlattenSeq(ss) = <<>>
    BY <1>1, <2>1, FlattenIsJoin, Zenon
  <2>3. <<>> \in Seq(E)
    OBVIOUS
  <2> QED BY <2>2, <2>3, Zenon
<1>2. CASE ss # <<>>
  <2>1. Len(ss) # 0 /\ Len(ss) \in 1 .. Len(ss)
    BY <1>2
  <2>2. Joins(ss)[Len(ss)] \in Seq(E)
    BY <2>1, JoinTypes
  <2>3. FlattenSeq(ss) = Joins(ss)[Len(ss)]
    BY <2>1, FlattenIsJoin, Zenon
  <2> QED BY <1>2, <2>2, <2>3, Zenon
<1> QED BY <1>1, <1>2

\* A sequence that is appended comes last.
LEMMA FlattenAppend ==
    ASSUME NEW E, NEW ss \in Seq(Seq(E)), NEW x \in Seq(E)
    PROVE  FlattenSeq(Append(ss, x)) = FlattenSeq(ss) \o x
<1> DEFINE tt == Append(ss, x)
           n == Len(ss)
<1>1. /\ tt \in Seq(Seq(E)) /\ Len(tt) = n + 1
      /\ \A i \in 1 .. n : tt[i] = ss[i]
      /\ tt[n + 1] = x /\ n \in Nat
  BY AppendProperties
<1> HIDE DEF tt
<1>2. \A q \in 1 .. n + 1 :
         Joins(tt)[q] = IF q = 1 THEN tt[q] ELSE Joins(tt)[q - 1] \o tt[q]
  <2> DEFINE k == n + 1
  <2>1. k \in Nat /\ k = Len(tt)
    BY <1>1
  <2> HIDE DEF k
  <2>2. \A q \in 1 .. k :
           Joins(tt)[q] = IF q = 1 THEN tt[q] ELSE Joins(tt)[q - 1] \o tt[q]
    BY <2>1, JoinSteps
  <2> QED BY <2>2 DEF k
<1>3. \A q \in 1 .. n : Joins(ss)[q] = IF q = 1 THEN ss[q] ELSE Joins(ss)[q - 1] \o ss[q]
  BY <1>1, JoinSteps
<1>4. FlattenSeq(tt) = Joins(tt)[n + 1]
  BY <1>1, FlattenIsJoin
<1>5. FlattenSeq(ss) = IF n = 0 THEN <<>> ELSE Joins(ss)[n]
  <2>1. n = 0 => ss = <<>>
    OBVIOUS
  <2> QED BY <2>1, FlattenIsJoin, Zenon
<1> DEFINE jt == Joins(tt)
           js == Joins(ss)
<1>6. \A q \in 1 .. n : jt[q] = js[q]
  <2> DEFINE S == {q \in Nat : q \in 1 .. n => jt[q] = js[q]}
  <2>1. 0 \in S
    OBVIOUS
  <2>2. ASSUME NEW q \in Nat \ {0}, q - 1 \in S
        PROVE  q \in S
    <3> SUFFICES ASSUME q \in 1 .. n PROVE jt[q] = js[q]
      OBVIOUS
    <3>1. jt[q] = IF q = 1 THEN tt[q] ELSE jt[q - 1] \o tt[q]
      BY <1>1, <1>2
    <3>2. js[q] = IF q = 1 THEN ss[q] ELSE js[q - 1] \o ss[q]
      BY <1>3
    <3>3. tt[q] = ss[q] /\ (q # 1 => jt[q - 1] = js[q - 1])
      BY <1>1, <2>2
    <3> QED BY <3>1, <3>2, <3>3
  <2> HIDE DEF S
  <2>3. Nat \subseteq S
    BY <2>1, <2>2, NatSetInduction
  <2> QED BY <1>1, <2>3 DEF S
<1>7. jt[n + 1] = IF n + 1 = 1 THEN x ELSE jt[n] \o x
  <2> DEFINE k == n + 1
  <2>1. k \in 1 .. n + 1 /\ k - 1 = n /\ tt[k] = x
    BY <1>1
  <2> HIDE DEF k
  <2>2. jt[k] = IF k = 1 THEN tt[k] ELSE jt[k - 1] \o tt[k]
    BY <1>2, <2>1, Zenon
  <2> QED BY <2>1, <2>2, Zenon DEF k
<1>8. CASE n = 0
  <2>1. <<>> \o x = x
    BY ConcatEmptySeq
  <2>2. FlattenSeq(tt) = x
    <3>1. n + 1 = 1
      BY <1>8
    <3> QED BY <1>4, <1>7, <3>1, Zenon
  <2> QED BY <1>5, <1>8, <2>1, <2>2 DEF tt
<1>9. CASE n # 0
  <2>1. n \in 1 .. n /\ n + 1 # 1
    BY <1>1, <1>9
  <2>2. jt[n] = js[n]
    BY <1>6, <2>1, Zenon
  <2>3. FlattenSeq(ss) = js[n]
    BY <1>5, <1>9, Zenon
  <2> QED BY <1>4, <1>7, <2>1, <2>2, <2>3, Zenon DEF tt
<1> QED BY <1>8, <1>9

\* The first of the sequences comes first.
LEMMA FlattenCons ==
    ASSUME NEW E, NEW ss \in Seq(Seq(E)), ss # <<>>
    PROVE  FlattenSeq(ss) = Head(ss) \o FlattenSeq(Tail(ss))
<1> DEFINE tt == Tail(ss)
           n == Len(ss)
           x == Head(ss)
<1>1. /\ tt \in Seq(Seq(E)) /\ Len(tt) = n - 1 /\ n \in Nat \ {0}
      /\ \A i \in 1 .. n - 1 : tt[i] = ss[i + 1]
      /\ x = ss[1] /\ x \in Seq(E)
  BY HeadTailProperties
<1> HIDE DEF tt, x
<1> DEFINE jt == Joins(tt)
           js == Joins(ss)
<1>2. \A q \in 1 .. n - 1 : jt[q] = IF q = 1 THEN tt[q] ELSE jt[q - 1] \o tt[q]
  <2>1. n - 1 \in Nat
    BY <1>1
  <2> QED BY <1>1, <2>1, JoinSteps
<1>3. \A q \in 1 .. n : js[q] = IF q = 1 THEN ss[q] ELSE js[q - 1] \o ss[q]
  BY <1>1, JoinSteps
<1>4. \A q \in 1 .. n - 1 : jt[q] \in Seq(E)
  BY <1>1, JoinTypes
<1>5. FlattenSeq(ss) = js[n]
  BY <1>1, FlattenIsJoin
<1>6. FlattenSeq(tt) = IF n = 1 THEN <<>> ELSE jt[n - 1]
  <2>1. CASE n = 1
    <3>1. Len(tt) = 0 /\ tt = <<>>
      BY <1>1, <2>1
    <3> QED BY <2>1, <3>1, FlattenIsJoin, Zenon
  <2>2. CASE n # 1
    <3>1. Len(tt) = n - 1 /\ n - 1 # 0
      BY <1>1, <2>2
    <3> QED BY <2>2, <3>1, FlattenIsJoin, Zenon
  <2> QED BY <2>1, <2>2
<1> HIDE DEF jt, js
<1>7. \A q \in 1 .. n : js[q] = IF q = 1 THEN x ELSE x \o jt[q - 1]
  <2> DEFINE S == {q \in Nat : q \in 1 .. n => js[q] = IF q = 1 THEN x ELSE x \o jt[q - 1]}
  <2>1. 0 \in S
    OBVIOUS
  <2>2. ASSUME NEW q \in Nat \ {0}, q - 1 \in S
        PROVE  q \in S
    <3> SUFFICES ASSUME q \in 1 .. n
                 PROVE  js[q] = IF q = 1 THEN x ELSE x \o jt[q - 1]
      OBVIOUS
    <3>1. CASE q = 1
      BY <1>1, <1>3, <3>1
    <3>2. CASE q # 1
      <4>1. js[q] = js[q - 1] \o ss[q]
        BY <1>3, <3>2
      <4> DEFINE p == q - 1
      <4>2. p \in 1 .. n - 1 /\ q = p + 1 /\ p \in 1 .. n
        BY <1>1, <3>2
      <4>3. tt[p] = ss[q] /\ tt[p] \in Seq(E)
        BY <1>1, <4>2
      <4>4. js[p] = IF p = 1 THEN x ELSE x \o jt[p - 1]
        BY <2>2, <4>2
      <4>5. jt[p] = IF p = 1 THEN tt[p] ELSE jt[p - 1] \o tt[p]
        BY <1>2, <4>2
      <4> HIDE DEF p
      <4>6. js[p] \o tt[p] = x \o jt[p]
        <5>1. CASE p = 1
          BY <4>4, <4>5, <5>1
        <5>2. CASE p # 1
          <6>1. p - 1 \in 1 .. n - 1
            BY <4>2, <5>2
          <6>2. jt[p - 1] \in Seq(E)
            BY <1>4, <6>1
          <6>3. (x \o jt[p - 1]) \o tt[p] = x \o (jt[p - 1] \o tt[p])
            <7> DEFINE y == jt[p - 1]
                       z == tt[p]
            <7>1. x \in Seq(E) /\ y \in Seq(E) /\ z \in Seq(E)
              BY <1>1, <4>3, <6>2
            <7> HIDE DEF y, z
            <7>2. (x \o y) \o z = x \o (y \o z)
              BY <7>1
            <7> QED BY <7>2 DEF y, z
          <6> QED BY <4>4, <4>5, <5>2, <6>3, Zenon
        <5> QED BY <5>1, <5>2
      <4> QED BY <3>2, <4>1, <4>3, <4>6, Zenon DEF p
    <3> QED BY <3>1, <3>2
  <2> HIDE DEF S
  <2>3. Nat \subseteq S
    BY <2>1, <2>2, NatSetInduction
  <2> QED BY <1>1, <2>3 DEF S
<1>8. js[n] = IF n = 1 THEN x ELSE x \o jt[n - 1]
  <2>1. n \in 1 .. n
    BY <1>1
  <2> QED BY <1>7, <2>1, Zenon
<1>9. x \o <<>> = x
  BY <1>1, ConcatEmptySeq
<1> QED BY <1>5, <1>6, <1>8, <1>9, Zenon DEF tt, x


\* Where the elements of two sequences are when one is put behind the other.
LEMMA ConcatPlaces ==
    ASSUME NEW E, NEW t \in Seq(E), NEW u \in Seq(E)
    PROVE  /\ t \o u \in Seq(E) /\ Len(t \o u) = Len(t) + Len(u)
           /\ \A i \in 1 .. Len(t) : (t \o u)[i] = t[i]
           /\ \A i \in 1 .. Len(u) : (t \o u)[Len(t) + i] = u[i]
<1>1. /\ t \o u \in Seq(E) /\ Len(t \o u) = Len(t) + Len(u)
      /\ \A i \in 1 .. Len(t) + Len(u) : (t \o u)[i] = IF i <= Len(t) THEN t[i]
                                                        ELSE u[i - Len(t)]
  BY ConcatProperties
<1> DEFINE v == t \o u
<1> HIDE DEF v
<1> QED BY <1>1 DEF v

-----------------------------------------------------------------------------
(* Taking from the front.                                                     *)

Chunk == Seq(Bytes) \ {<<>>}

\* What is put before some bytes is their beginning.
LEMMA TakeFront ==
    ASSUME NEW a \in Seq(Bytes), NEW b \in Seq(Bytes)
    PROVE  /\ a \o b \in Seq(Bytes) /\ Len(a \o b) = Len(a) + Len(b)
           /\ a = SubSeq(a \o b, 1, Len(a))
           /\ b = SubSeq(a \o b, Len(a) + 1, Len(a \o b))
<1> DEFINE v == a \o b
           n == Len(a)
           m == Len(b)
<1>1. n \in Nat /\ m \in Nat
  OBVIOUS
<1>2. /\ v \in Seq(Bytes) /\ Len(v) = n + m
      /\ \A i \in 1 .. n : v[i] = a[i]
      /\ \A i \in 1 .. m : v[n + i] = b[i]
  BY ConcatPlaces
<1> HIDE DEF v, n, m
<1>3. a = SubSeq(v, 1, n)
  <2> DEFINE u == SubSeq(v, 1, n)
  <2>1. u \in Seq(Bytes) /\ Len(u) = n /\ \A i \in 1 .. n : u[i] = v[i]
    BY <1>1, <1>2
  <2> HIDE DEF u
  <2>2. \A i \in 1 .. n : u[i] = a[i]
    BY <1>2, <2>1
  <2>3. u = a
    BY <2>1, <2>2, SeqEqual DEF n
  <2> QED BY <2>3 DEF u
<1>4. b = SubSeq(v, n + 1, n + m)
  <2> DEFINE u == SubSeq(v, n + 1, n + m)
  <2>1. u \in Seq(Bytes) /\ Len(u) = m /\ \A i \in 1 .. m : u[i] = v[n + i]
    <3> DEFINE lo == n + 1
               hi == n + m
    <3>1. \A i \in lo .. hi : v[i] \in Bytes
      BY <1>1, <1>2
    <3>2. lo \in Int /\ hi \in Int /\ hi - lo + 1 = m /\ u = SubSeq(v, lo, hi)
      BY <1>1
    <3> HIDE DEF lo, hi, u
    <3>3. /\ u \in Seq(Bytes)
          /\ Len(u) = IF lo <= hi THEN hi - lo + 1 ELSE 0
          /\ \A i \in 1 .. hi - lo + 1 : u[i] = v[lo + i - 1]
      BY <3>1, <3>2, SubSeqProperties
    <3>4. Len(u) = m
      BY <1>1, <3>2, <3>3
    <3>5. \A i \in 1 .. m : lo + i - 1 = n + i
      BY <1>1 DEF lo
    <3>6. \A i \in 1 .. m : u[i] = v[n + i]
      BY <3>2, <3>3, <3>5
    <3> QED BY <3>3, <3>4, <3>6
  <2> HIDE DEF u
  <2>2. \A i \in 1 .. m : u[i] = b[i]
    BY <1>2, <2>1
  <2>3. u = b
    BY <2>1, <2>2, SeqEqual DEF m
  <2> QED BY <2>3 DEF u
<1> QED BY <1>2, <1>3, <1>4 DEF v, n, m

\* Chunks are sequences of bytes, and so is what they hold.
LEMMA ChunksHold ==
    ASSUME NEW queue \in Seq(Chunk)
    PROVE  /\ queue \in Seq(Seq(Bytes))
           /\ FlattenSeq(queue) \in Seq(Bytes)
           /\ queue = <<>> => FlattenSeq(queue) = <<>>
<1>1. queue \in Seq(Seq(Bytes))
  <2> DEFINE B == Seq(Bytes)
  <2>1. queue \in Seq(B \ {<<>>})
    BY DEF Chunk
  <2> HIDE DEF B
  <2>2. queue \in Seq(B)
    BY <2>1
  <2> QED BY <2>2 DEF B
<1> QED BY <1>1, FlattenType

\* pop_bytes takes what it takes from the front, and leaves the rest.
LEMMA FrontParts ==
    ASSUME NEW queue \in Seq(Chunk), NEW max \in Nat
    PROVE  LET front == FrontOf(queue, max)
           IN  /\ front.taken \in Seq(Bytes) /\ Len(front.taken) <= max
               /\ front.left \in Seq(Chunk)
               /\ FlattenSeq(queue) = front.taken \o FlattenSeq(front.left)
               /\ front.taken = <<>> => max = 0 \/ queue = <<>>
               /\ queue # <<>> => \/ Len(front.taken) = max
                                  \/ Len(front.left) = Len(queue) - 1
<1> DEFINE front == FrontOf(queue, max)
           all == FlattenSeq(queue)
<1>1. all \in Seq(Bytes) /\ queue \in Seq(Seq(Bytes))
  BY ChunksHold
<1>2. CASE max = 0 \/ queue = <<>>
  <2>1. front = [taken |-> <<>>, left |-> queue]
    BY <1>2 DEF FrontOf
  <2>2. <<>> \o all = all
    BY <1>1, ConcatEmptySeq
  <2>3. <<>> \in Seq(Bytes) /\ Len(<<>>) = 0
    OBVIOUS
  <2>4. front.taken = <<>> /\ front.left = queue
    BY <2>1
  <2> HIDE DEF front
  <2> QED BY <1>2, <2>2, <2>3, <2>4 DEF front, all
<1>3. CASE max # 0 /\ queue # <<>>
  <2> DEFINE c == Head(queue)
             t == Tail(queue)
             n == Least(max, Len(c))
             s == SubSeq(c, 1, n)
             r == SubSeq(c, n + 1, Len(c))
             rest == FlattenSeq(t)
  <2>1. c \in Chunk /\ t \in Seq(Chunk) /\ Len(t) = Len(queue) - 1
    <3> DEFINE C == Chunk
    <3> HIDE DEF C
    <3>1. queue \in Seq(C) /\ queue # <<>>
      BY <1>3 DEF C
    <3>2. c \in C /\ t \in Seq(C) /\ Len(t) = Len(queue) - 1
      BY <3>1
    <3> QED BY <3>2 DEF C
  <2>2. c \in Seq(Bytes) /\ Len(c) \in Nat \ {0}
    BY <2>1 DEF Chunk
  <2>3. rest \in Seq(Bytes)
    BY <2>1, ChunksHold
  <2>4. all = c \o rest
    BY <1>1, <1>3, FlattenCons
  <2>5. front = [taken |-> s, left |-> IF n < Len(c) THEN <<r>> \o t ELSE t]
    BY <1>3 DEF FrontOf
  <2>6. n \in 1 .. Len(c) /\ n <= max /\ (n = max \/ n = Len(c))
    BY <1>3, <2>2 DEF Least
  <2> HIDE DEF c, t, n, front, rest, all
  <2>7. s \in Seq(Bytes) /\ Len(s) = n
    BY <2>2, <2>6
  <2>8. CASE n < Len(c)
    <3>1. r \in Seq(Bytes) /\ Len(r) = Len(c) - n
      BY <2>2, <2>6, <2>8
    <3>2. s \o r = c
      <4>1. s \o r = SubSeq(c, 1, Len(c))
        <5>1. 1 \in 1 .. Len(c) + 1 /\ n \in 1 - 1 .. Len(c) /\ Len(c) \in n .. Len(c)
          BY <2>2, <2>6
        <5> QED BY <2>2, <5>1, ConcatAdjacentSubSeq
      <4>2. SubSeq(c, 1, Len(c)) = c
        BY <2>2, SubSeqFull
      <4> QED BY <4>1, <4>2
    <3> HIDE DEF s, r
    <3> DEFINE q == <<r>> \o t
    <3>3. r \in Chunk
      BY <2>2, <2>6, <2>8, <3>1 DEF Chunk
    <3>4. q \in Seq(Chunk) /\ q # <<>> /\ Head(q) = r /\ Tail(q) = t
      <4> DEFINE C == Chunk
      <4>1. r \in C /\ t \in Seq(C)
        BY <2>1, <3>3
      <4> HIDE DEF C
      <4>2. q \in Seq(C) /\ q # <<>> /\ Head(q) = r /\ Tail(q) = t
        BY <4>1
      <4> QED BY <4>2 DEF C
    <3> HIDE DEF q
    <3>5. FlattenSeq(q) = r \o rest
      <4>1. q \in Seq(Seq(Bytes))
        BY <3>4, ChunksHold
      <4> QED BY <3>4, <4>1, FlattenCons DEF rest
    <3>6. all = s \o FlattenSeq(q)
      <4>1. (s \o r) \o rest = s \o (r \o rest)
        BY <2>3, <2>7, <3>1
      <4> QED BY <2>4, <3>2, <3>5, <4>1
    <3>7. front.taken = s /\ front.left = q
      BY <2>5, <2>8 DEF q
    <3>8. s # <<>> /\ Len(s) = max
      BY <2>6, <2>7, <2>8
    <3> QED BY <2>6, <2>7, <3>4, <3>6, <3>7, <3>8 DEF front, all
  <2>9. CASE n = Len(c)
    <3>1. s = c
      BY <2>2, <2>9, SubSeqFull
    <3>2. front.taken = s /\ front.left = t
      BY <2>2, <2>5, <2>9
    <3>3. s # <<>>
      BY <2>6, <2>7
    <3> HIDE DEF s
    <3> QED BY <2>1, <2>4, <2>6, <2>7, <3>1, <3>2, <3>3 DEF front, all, rest
  <2>10. n < Len(c) \/ n = Len(c)
    BY <2>2, <2>6
  <2> QED BY <2>8, <2>9, <2>10, Zenon
<1> QED BY <1>2, <1>3

\* The first n rounds.
AreRounds(f, queue, max, n) ==
    f = [k \in 0 .. n |-> IF k = 0 THEN [taken |-> <<>>, left |-> queue]
                          ELSE Round(f[k - 1], max)]

\* There are as many rounds as are asked for.
LEMMA RoundsExist ==
    ASSUME NEW queue, NEW max, NEW n \in Nat
    PROVE  \E f : AreRounds(f, queue, max, n)
<1> DEFINE Is(f, m) == f = [k \in 0 .. m |-> IF k = 0 THEN [taken |-> <<>>, left |-> queue]
                                             ELSE Round(f[k - 1], max)]
           S == {m \in Nat : \E f : Is(f, m)}
<1>1. 0 \in S
  <2> DEFINE f == [k \in 0 .. 0 |-> [taken |-> <<>>, left |-> queue]]
  <2>1. \A k \in 0 .. 0 : k = 0
    OBVIOUS
  <2>2. Is(f, 0)
    BY <2>1
  <2> QED BY <2>2
<1>2. ASSUME NEW m \in Nat \ {0}, m - 1 \in S
      PROVE  m \in S
  <2>1. PICK f : Is(f, m - 1)
    BY <1>2
  <2> DEFINE g == [k \in 0 .. m |-> IF k = 0 THEN [taken |-> <<>>, left |-> queue]
                                    ELSE Round(f[k - 1], max)]
             h == [k \in 0 .. m |-> IF k = 0 THEN [taken |-> <<>>, left |-> queue]
                                    ELSE Round(g[k - 1], max)]
  <2>2. \A k \in 0 .. m - 1 : g[k] = f[k]
    <3> SUFFICES ASSUME NEW k \in 0 .. m - 1 PROVE g[k] = f[k]
      OBVIOUS
    <3>1. f[k] = IF k = 0 THEN [taken |-> <<>>, left |-> queue] ELSE Round(f[k - 1], max)
      BY <2>1, Zenon
    <3>2. k \in 0 .. m
      OBVIOUS
    <3> QED BY <3>1, <3>2, Zenon
  <2>3. \A k \in 0 .. m : k # 0 => g[k - 1] = f[k - 1]
    <3> SUFFICES ASSUME NEW k \in 0 .. m, k # 0 PROVE g[k - 1] = f[k - 1]
      OBVIOUS
    <3>1. k - 1 \in 0 .. m - 1
      OBVIOUS
    <3> QED BY <2>2, <3>1, Zenon
  <2>4. g = h
    <3>1. \A k \in 0 .. m : (IF k = 0 THEN [taken |-> <<>>, left |-> queue]
                             ELSE Round(f[k - 1], max))
                          = (IF k = 0 THEN [taken |-> <<>>, left |-> queue]
                             ELSE Round(g[k - 1], max))
      <4> HIDE DEF g
      <4> QED BY <2>3, Zenon
    <3> QED BY <3>1, Zenon
  <2>5. Is(g, m)
    BY <2>4, Zenon
  <2> QED BY <2>5
<1> HIDE DEF S
<1>3. n \in S
  BY <1>1, <1>2, NatSetInduction
<1> QED BY <1>3 DEF S, AreRounds

\* The first round has nothing, and each goes on from the one before.
LEMMA RoundsStep ==
    ASSUME NEW queue, NEW max, Len(queue) \in Nat, NEW k \in 0 .. Len(queue)
    PROVE  Rounds(queue, max)[k] =
             IF k = 0 THEN [taken |-> <<>>, left |-> queue]
             ELSE Round(Rounds(queue, max)[k - 1], max)
<1>1. \E f : AreRounds(f, queue, max, Len(queue))
  BY RoundsExist
<1>2. AreRounds(Rounds(queue, max), queue, max, Len(queue))
  <2>1. Rounds(queue, max) = CHOOSE f : AreRounds(f, queue, max, Len(queue))
    BY DEF Rounds, AreRounds
  <2> QED BY <1>1, <2>1
<1> QED BY <1>2, Zenon DEF AreRounds

\* What has been taken and what is left of a queue are the queue.
Parts(had, queue, max) ==
    /\ had.taken \in Seq(Bytes) /\ had.left \in Seq(Chunk)
    /\ Len(had.taken) <= max
    /\ FlattenSeq(queue) = had.taken \o FlattenSeq(had.left)

\* A round takes from the front of what is left, and all of it sooner or later.
LEMMA RoundParts ==
    ASSUME NEW queue \in Seq(Chunk), NEW max \in Nat, NEW had, Parts(had, queue, max)
    PROVE  /\ Parts(Round(had, max), queue, max)
           /\ \/ Len(Round(had, max).taken) = max
              \/ Len(Round(had, max).left) = 0
              \/ Len(Round(had, max).left) = Len(had.left) - 1
<1> DEFINE t == had.taken
           l == had.left
           want == max - Len(t)
           front == FrontOf(l, want)
           n == front.taken
           r == front.left
           rest == FlattenSeq(r)
<1>1. /\ t \in Seq(Bytes) /\ l \in Seq(Chunk) /\ Len(t) <= max
      /\ FlattenSeq(queue) = t \o FlattenSeq(l) /\ Len(t) \in Nat /\ Len(l) \in Nat
  BY DEF Parts
<1>2. CASE Len(t) >= max \/ l = <<>>
  <2>1. Round(had, max) = had
    BY <1>2 DEF Round
  <2>2. Len(t) = max \/ Len(l) = 0
    <3> HIDE DEF t, l
    <3> QED BY <1>1, <1>2
  <2> QED BY <2>1, <2>2
<1>3. CASE ~(Len(t) >= max \/ l = <<>>)
  <2>1. Round(had, max) = [taken |-> t \o n, left |-> r]
    BY <1>3 DEF Round
  <2>2. want \in Nat \ {0} /\ Len(t) + want = max
    <3> HIDE DEF t, l
    <3> QED BY <1>1, <1>3
  <2> HIDE DEF want
  <2>3. /\ n \in Seq(Bytes) /\ Len(n) <= want /\ r \in Seq(Chunk)
        /\ FlattenSeq(l) = n \o rest
        /\ Len(n) = want \/ Len(r) = Len(l) - 1
    BY <1>1, <1>3, <2>2, FrontParts
  <2>4. rest \in Seq(Bytes)
    BY <2>3, ChunksHold
  <2> HIDE DEF t, l, n, r, rest
  <2>5. FlattenSeq(queue) = (t \o n) \o rest
    <3>1. t \o (n \o rest) = (t \o n) \o rest
      BY <1>1, <2>3, <2>4
    <3> QED BY <1>1, <2>3, <3>1
  <2>6. t \o n \in Seq(Bytes) /\ Len(t \o n) = Len(t) + Len(n) /\ Len(n) \in Nat
    BY <1>1, <2>3, ConcatPlaces
  <2> DEFINE tn == t \o n
  <2>7. Len(tn) <= max /\ (Len(tn) = max \/ Len(r) = Len(l) - 1)
    <3>1. Len(tn) = Len(t) + Len(n)
      BY <2>6
    <3>2. Len(n) <= want /\ (Len(n) = want \/ Len(r) = Len(l) - 1)
      BY <2>3
    <3>3. Len(t) \in Nat /\ Len(n) \in Nat
      BY <1>1, <2>6
    <3> HIDE DEF tn
    <3>4. Len(tn) <= max /\ (Len(n) = want => Len(tn) = max)
      BY <2>2, <3>1, <3>2, <3>3
    <3> QED BY <3>2, <3>4
  <2>8. Round(had, max).taken = tn /\ Round(had, max).left = r
    BY <2>1
  <2> HIDE DEF tn
  <2>9. FlattenSeq(queue) = tn \o rest /\ tn \in Seq(Bytes)
    BY <2>5, <2>6 DEF tn
  <2>10. Parts(Round(had, max), queue, max)
    BY <2>3, <2>7, <2>8, <2>9, Zenon DEF Parts, rest
  <2> QED BY <2>7, <2>8, <2>10 DEF l
<1> QED BY <1>2, <1>3

\* pop_block stops short of its block only when nothing is left.
LEMMA GatherParts ==
    ASSUME NEW queue \in Seq(Chunk), NEW max \in Nat
    PROVE  LET block == Gather(queue, max)
           IN  /\ Parts(block, queue, max)
               /\ Len(block.taken) = max \/ block.left = <<>>
<1> DEFINE n == Len(queue)
           round == Rounds(queue, max)
           Good(k) == /\ Parts(round[k], queue, max)
                      /\ Len(round[k].taken) = max \/ Len(round[k].left) <= n - k
           S == {k \in Nat : k <= n => Good(k)}
<1>1. n \in Nat
  OBVIOUS
<1>2. \A k \in 0 .. n : round[k] = IF k = 0 THEN [taken |-> <<>>, left |-> queue]
                                   ELSE Round(round[k - 1], max)
  BY <1>1, RoundsStep
<1>3. FlattenSeq(queue) \in Seq(Bytes)
  BY ChunksHold
<1> HIDE DEF round
<1>4. 0 \in S
  <2>1. round[0] = [taken |-> <<>>, left |-> queue]
    BY <1>1, <1>2
  <2>2. round[0].taken = <<>> /\ round[0].left = queue
    BY <2>1
  <2>3. <<>> \o FlattenSeq(queue) = FlattenSeq(queue)
    BY <1>3, ConcatEmptySeq
  <2>4. <<>> \in Seq(Bytes) /\ Len(<<>>) = 0 /\ 0 <= max
    OBVIOUS
  <2>5. Parts(round[0], queue, max)
    BY <2>2, <2>3, <2>4 DEF Parts
  <2>6. Len(round[0].left) <= n - 0
    BY <1>1, <2>2
  <2> QED BY <2>5, <2>6
<1>5. ASSUME NEW k \in Nat \ {0}, k - 1 \in S
      PROVE  k \in S
  <2> SUFFICES ASSUME k <= n PROVE Good(k)
    OBVIOUS
  <2> HIDE DEF n
  <2>1. k \in 0 .. n /\ k - 1 <= n
    BY <1>1
  <2> DEFINE had == round[k - 1]
  <2>2. Parts(had, queue, max) /\ (Len(had.taken) = max \/ Len(had.left) <= n - (k - 1))
    BY <1>5, <2>1
  <2>3. round[k] = Round(had, max)
    BY <1>2, <2>1, Zenon
  <2>4. /\ Parts(Round(had, max), queue, max)
        /\ \/ Len(Round(had, max).taken) = max
           \/ Len(Round(had, max).left) = 0
           \/ Len(Round(had, max).left) = Len(had.left) - 1
    BY <2>2, RoundParts
  <2>5. Len(had.left) \in Nat /\ Len(had.taken) \in Nat
    BY <2>2 DEF Parts
  <2>6. Len(had.taken) = max => Round(had, max) = had
    BY <2>5 DEF Round
  <2> HIDE DEF had
  <2>7. Len(round[k].taken) = max \/ Len(round[k].left) <= n - k
    <3>1. CASE Len(had.taken) = max
      BY <2>3, <2>6, <3>1
    <3>2. CASE Len(had.left) <= n - (k - 1)
      BY <1>1, <2>1, <2>3, <2>4, <2>5, <3>2
    <3> QED BY <2>2, <3>1, <3>2
  <2> QED BY <2>3, <2>4, <2>7
<1> HIDE DEF S, Good
<1>6. n \in S
  BY <1>1, <1>4, <1>5, NatSetInduction
<1>7. Good(n)
  BY <1>1, <1>6 DEF S
<1>8. /\ Parts(round[n], queue, max)
      /\ Len(round[n].taken) = max \/ Len(round[n].left) = 0
  <2>1. round[n].left \in Seq(Chunk) /\ Len(round[n].left) \in Nat
    BY <1>7 DEF Good, Parts
  <2>2. n - n = 0
    BY <1>1
  <2> HIDE DEF n
  <2> QED BY <1>7, <2>1, <2>2 DEF Good
<1>9. Len(round[n].left) = 0 => round[n].left = <<>>
  <2> DEFINE C == Chunk
             q == round[n].left
  <2>1. q \in Seq(C)
    BY <1>8 DEF Parts
  <2> HIDE DEF C, q
  <2>2. Len(q) = 0 => q = <<>>
    BY <2>1
  <2> QED BY <2>2 DEF q
<1>10. Gather(queue, max) = round[n]
  BY DEF Gather, round
<1> HIDE DEF n
<1> QED BY <1>8, <1>9, <1>10

-----------------------------------------------------------------------------
(* The queue of bytes.                                                        *)

Contents == FlattenSeq(chunks)

\* What is taken in parts is taken from the bytes.
LEMMA PopTakes ==
    ASSUME BufferInv, NEW popped, NEW max \in Nat, Parts(popped, chunks, max), Pop(popped)
    PROVE  /\ BufferInv'
           /\ Queue!Take(Len(popped.taken))
           /\ buffered' = Len(Contents')
           /\ Len(popped.taken) \in 0 .. Len(Contents)
<1> DEFINE t == popped.taken
           l == popped.left
           r == FlattenSeq(l)
<1>1. /\ t \in Seq(Bytes) /\ l \in Seq(Chunk) /\ Contents = t \o r
      /\ chunks' = l /\ buffered' = buffered - Len(t) /\ out' = t
  BY DEF Parts, Pop, Contents
<1>2. r \in Seq(Bytes)
  BY <1>1, ChunksHold
<1>3. Contents' = r
  BY <1>1 DEF Contents
<1>4. buffered = Len(Contents)
  BY DEF BufferInv, Contents
<1> HIDE DEF t, l, r
<1>5. /\ t \o r \in Seq(Bytes) /\ Len(t \o r) = Len(t) + Len(r)
      /\ t = SubSeq(t \o r, 1, Len(t))
      /\ r = SubSeq(t \o r, Len(t) + 1, Len(t \o r))
  BY <1>1, <1>2, TakeFront
<1>6. Len(t) \in Nat /\ Len(r) \in Nat
  BY <1>1, <1>2
<1>7. buffered' = Len(Contents') /\ Len(t) \in 0 .. Len(Contents)
  <2>1. Len(Contents) = Len(t) + Len(r)
    BY <1>1, <1>5
  <2> QED BY <1>1, <1>3, <1>4, <1>6, <2>1
<1>8. Queue!Take(Len(t))
  BY <1>1, <1>3, <1>5 DEF Queue!Take, Contents
<1>9. BufferInv'
  BY <1>1, <1>7 DEF BufferInv, Contents, Chunk
<1> QED BY <1>7, <1>8, <1>9 DEF t

\* At the start there is nothing.
LEMMA InitQueue ==
    ASSUME BufferInit
    PROVE  BufferInv /\ Queue!Init
<1>1. <<>> \in Seq(Chunk)
  OBVIOUS
<1>2. FlattenSeq(<<>>) = <<>>
  BY <1>1, ChunksHold
<1>3. Len(<<>>) = 0
  OBVIOUS
<1>4. BufferInv
  BY <1>1, <1>2, <1>3 DEF BufferInit, BufferInv, Chunk
<1>5. Queue!Init
  BY <1>2 DEF BufferInit, Queue!Init
<1> QED BY <1>4, <1>5

\* What is pushed comes last.
LEMMA PushGoesLast ==
    ASSUME BufferInv, NEW chunk \in Chunks, Push(chunk)
    PROVE  BufferInv' /\ Queue!Push(chunk) /\ buffered' = Len(Contents')
<1>1. /\ chunks \in Seq(Chunk) /\ chunk \in Seq(Bytes) /\ buffered = Len(Contents)
      /\ buffered' = buffered + Len(chunk) /\ out' = <<>>
  BY StreamingBufferAssumption DEF BufferInv, Chunk, Contents, Push
<1>2. Contents \in Seq(Bytes) /\ chunks \in Seq(Seq(Bytes))
  BY <1>1, ChunksHold DEF Contents
<1>3. chunks' \in Seq(Chunk) /\ Contents' = Contents \o chunk
  <2>1. CASE chunk = <<>>
    <3>1. chunks' = chunks
      BY <2>1 DEF Push
    <3>2. Contents \o <<>> = Contents
      BY <1>2, ConcatEmptySeq
    <3> QED BY <1>1, <2>1, <3>1, <3>2 DEF Contents
  <2>2. CASE chunk # <<>>
    <3>1. chunks' = Append(chunks, chunk)
      BY <2>2 DEF Push
    <3>2. FlattenSeq(Append(chunks, chunk)) = FlattenSeq(chunks) \o chunk
      BY <1>1, <1>2, FlattenAppend
    <3>3. chunk \in Chunk
      BY <1>1, <2>2 DEF Chunk
    <3>4. chunks' \in Seq(Chunk)
      <4> DEFINE C == Chunk
      <4>1. chunks \in Seq(C) /\ chunk \in C
        BY <1>1, <3>3
      <4> HIDE DEF C
      <4>2. chunks' \in Seq(C)
        BY <3>1, <4>1
      <4> QED BY <4>2 DEF C
    <3> QED BY <3>1, <3>2, <3>4 DEF Contents
  <2> QED BY <2>1, <2>2
<1>4. buffered' = Len(Contents')
  <2> DEFINE c == Contents
  <2>1. c \in Seq(Bytes) /\ Contents' = c \o chunk /\ buffered' = Len(c) + Len(chunk)
    BY <1>1, <1>2, <1>3
  <2> HIDE DEF c
  <2>2. Len(c \o chunk) = Len(c) + Len(chunk)
    BY <1>1, <2>1
  <2> QED BY <2>1, <2>2
<1>5. Queue!Push(chunk)
  BY <1>1, <1>3 DEF Queue!Push, Contents
<1> QED BY <1>3, <1>4, <1>5 DEF BufferInv, Chunk, Contents

\* pop_bytes takes some bytes, if any are asked for and there.
LEMMA PopBytesTakes ==
    ASSUME BufferInv, NEW max \in PopLens, PopBytes(max)
    PROVE  BufferInv' /\ Queue!PopBytes(max) /\ buffered' = Len(Contents')
<1> DEFINE front == FrontOf(chunks, max)
           n == Len(front.taken)
<1>1. chunks \in Seq(Chunk) /\ max \in Nat
  BY StreamingBufferAssumption DEF BufferInv, Chunk
<1>2. /\ front.taken \in Seq(Bytes) /\ Len(front.taken) <= max
      /\ front.left \in Seq(Chunk)
      /\ FlattenSeq(chunks) = front.taken \o FlattenSeq(front.left)
      /\ front.taken = <<>> => max = 0 \/ chunks = <<>>
  BY <1>1, FrontParts
<1>3. Pop(front)
  BY DEF PopBytes
<1> HIDE DEF front
<1>4. Parts(front, chunks, max)
  BY <1>2 DEF Parts
<1>5. /\ BufferInv' /\ Queue!Take(n) /\ buffered' = Len(Contents')
      /\ n \in 0 .. Len(Contents)
  BY <1>1, <1>3, <1>4, PopTakes
<1>6. n = 0 => max = 0 \/ Contents = <<>>
  <2>1. n = 0 => front.taken = <<>>
    BY <1>2
  <2>2. chunks = <<>> => Contents = <<>>
    BY <1>1, ChunksHold DEF Contents
  <2> QED BY <1>2, <2>1, <2>2
<1>7. n \in 0 .. max /\ n <= Len(Contents)
  <2>1. Contents \in Seq(Bytes)
    BY <1>1, ChunksHold DEF Contents
  <2>2. n \in Nat /\ Len(Contents) \in Nat
    BY <1>2, <2>1
  <2> HIDE DEF n
  <2> QED BY <1>1, <1>2, <1>5, <2>2 DEF n
<1> HIDE DEF n
<1>8. Queue!PopBytes(max)
  BY <1>5, <1>6, <1>7, Zenon DEF Queue!PopBytes, Contents
<1> QED BY <1>5, <1>8

\* pop_block takes all that is asked for and there.
LEMMA PopBlockTakes ==
    ASSUME BufferInv, NEW max \in PopLens, PopBlock(max)
    PROVE  BufferInv' /\ Queue!PopBlock(max) /\ buffered' = Len(Contents')
<1> DEFINE block == Gather(chunks, max)
           n == Len(block.taken)
<1>1. chunks \in Seq(Chunk) /\ max \in Nat
  BY StreamingBufferAssumption DEF BufferInv, Chunk
<1>2. Parts(block, chunks, max) /\ (n = max \/ block.left = <<>>)
  BY <1>1, GatherParts
<1>3. Pop(block)
  BY DEF PopBlock
<1> HIDE DEF block
<1>4. /\ BufferInv' /\ Queue!Take(n) /\ buffered' = Len(Contents')
      /\ n \in 0 .. Len(Contents)
  BY <1>1, <1>2, <1>3, PopTakes
<1>5. n <= max /\ block.taken \in Seq(Bytes) /\ Contents = block.taken \o FlattenSeq(block.left)
  BY <1>2 DEF Parts, Contents
<1>6. block.left = <<>> => n = Len(Contents)
  <2> SUFFICES ASSUME block.left = <<>> PROVE n = Len(Contents)
    OBVIOUS
  <2>1. FlattenSeq(block.left) = <<>>
    BY <1>2, ChunksHold DEF Parts
  <2>2. block.taken \o <<>> = block.taken
    BY <1>5, ConcatEmptySeq
  <2> QED BY <1>5, <2>1, <2>2
<1>7. n \in Nat /\ Len(Contents) \in Nat /\ n <= Len(Contents)
  <2>1. Contents \in Seq(Bytes)
    BY <1>1, ChunksHold DEF Contents
  <2> DEFINE c == Len(Contents)
  <2>2. c \in Nat /\ n \in 0 .. c
    BY <1>4, <2>1
  <2> HIDE DEF c, n
  <2>3. n \in Nat /\ n <= c
    BY <2>2
  <2> QED BY <2>2, <2>3 DEF c
<1> HIDE DEF n
<1>8. n = IF max <= Len(Contents) THEN max ELSE Len(Contents)
  <2> DEFINE c == Len(Contents)
  <2>1. n \in Nat /\ c \in Nat /\ n <= c /\ n <= max /\ (n = max \/ n = c)
    BY <1>2, <1>5, <1>6, <1>7
  <2> HIDE DEF c
  <2>2. n = IF max <= c THEN max ELSE c
    BY <1>1, <2>1
  <2> QED BY <2>2 DEF c
<1>9. Queue!PopBlock(max)
  BY <1>4, <1>8 DEF Queue!PopBlock, Contents
<1> QED BY <1>4, <1>9

\* Every operation is one of the queue of bytes.
LEMMA StepOfQueue ==
    ASSUME BufferInv, [BufferNext]_bvars
    PROVE  BufferInv' /\ [Queue!Next]_(Queue!qvars)
<1>1. ASSUME NEW chunk \in Chunks, Push(chunk)
      PROVE  BufferInv' /\ Queue!Next
  <2>1. BufferInv' /\ Queue!Push(chunk) /\ buffered' = Len(Contents')
    BY <1>1, PushGoesLast
  <2> QED BY <2>1 DEF Queue!Next, Contents
<1>2. ASSUME NEW max \in PopLens, PopBytes(max) \/ PopBlock(max)
      PROVE  BufferInv' /\ Queue!Next
  <2>1. /\ BufferInv' /\ buffered' = Len(Contents')
        /\ Queue!PopBytes(max) \/ Queue!PopBlock(max)
    BY <1>2, PopBytesTakes, PopBlockTakes
  <2> QED BY <2>1 DEF Queue!Next, Contents
<1>3. ASSUME Clear
      PROVE  BufferInv' /\ Queue!Next
  <2>1. chunks' = <<>> /\ buffered' = 0 /\ out' = <<>>
    BY <1>3 DEF Clear
  <2>2. <<>> \in Seq(Chunk) /\ FlattenSeq(<<>>) = <<>> /\ Len(<<>>) = 0
    <3>1. <<>> \in Seq(Chunk)
      OBVIOUS
    <3>2. FlattenSeq(<<>>) = <<>>
      BY <3>1, ChunksHold
    <3> QED BY <3>1, <3>2
  <2> QED BY <2>1, <2>2 DEF BufferInv, Chunk, Queue!Next, Queue!Clear
<1>4. CASE UNCHANGED bvars
  <2>1. UNCHANGED <<chunks, buffered, out>>
    BY <1>4 DEF bvars
  <2> QED BY <2>1 DEF BufferInv, Queue!qvars
<1> QED BY <1>1, <1>2, <1>3, <1>4 DEF BufferNext

(* No chunk is empty, and the counter that push_chunk and the pops keep up by *)
(* the side is the number of bytes in the chunks.                             *)
THEOREM CountedRight == BufferSpec => []BufferInv
<1>1. BufferInit => BufferInv
  BY InitQueue
<1>2. BufferInv /\ [BufferNext]_bvars => BufferInv'
  BY StepOfQueue
<1> QED BY <1>1, <1>2, PTL DEF BufferSpec

(* The chunks are a queue of bytes: split or gathered, none is lost, repeated *)
(* or out of order, and a block is short only when the buffer runs empty.     *)
THEOREM BufferIsByteQueue == BufferSpec => ImplementsByteQueue
<1>1. BufferInit => Queue!Init
  BY InitQueue
<1>2. BufferInv /\ [BufferNext]_bvars => [Queue!Next]_(Queue!qvars)
  BY StepOfQueue
<1> QED BY <1>1, <1>2, CountedRight, PTL DEF BufferSpec, ImplementsByteQueue, Queue!Spec

-----------------------------------------------------------------------------
(* Fragments of a reply.                                                      *)

\* Places below a bound have a greatest one.
LEMMA GreatestPlace ==
    ASSUME NEW K \in Nat, NEW T \in SUBSET (0 .. K - 1), T # {}
    PROVE  /\ Max(T) \in T
           /\ \A o \in T : o <= Max(T)
<1> DEFINE Back == {K - o : o \in T}
<1>1. Back \in SUBSET Nat /\ Back # {}
  OBVIOUS
<1>2. PICK n \in Back : \A m \in Back : n <= m
  BY <1>1, LeastNat
<1>3. PICK x \in T : n = K - x
  BY <1>2
<1>4. \A y \in T : x >= y
  BY <1>2, <1>3
<1> HIDE DEF Back
<1>5. /\ Max(T) \in T
      /\ \A y \in T : Max(T) >= y
  BY <1>4 DEF Max
<1> QED BY <1>5

-----------------------------------------------------------------------------
(* The buffer as it is put together.                                          *)

\* There is a function that puts the fragments together, up to any place.
LEMMA BufferExists ==
    ASSUME NEW c, NEW n \in Nat
    PROVE  \E f : f = [p \in 0 .. n |->
                          IF p = 0 THEN <<>> ELSE f[p - 1] \o Fragment(c, p - 1)]
<1> DEFINE Is(f, m) == f = [p \in 0 .. m |->
                               IF p = 0 THEN <<>> ELSE f[p - 1] \o Fragment(c, p - 1)]
           S == {m \in Nat : \E f : Is(f, m)}
<1>1. 0 \in S
  <2> DEFINE f == [p \in 0 .. 0 |-> <<>>]
  <2>1. Is(f, 0)
    OBVIOUS
  <2> HIDE DEF f
  <2> QED BY <2>1
<1>2. ASSUME NEW m \in Nat, m \in S
      PROVE  m + 1 \in S
  <2>1. PICK f : Is(f, m)
    BY <1>2
  <2> DEFINE g == [p \in 0 .. m + 1 |->
                     IF p = m + 1 THEN f[m] \o Fragment(c, m) ELSE f[p]]
             h == [p \in 0 .. m + 1 |->
                     IF p = 0 THEN <<>> ELSE g[p - 1] \o Fragment(c, p - 1)]
  <2>2. ASSUME NEW p \in 0 .. m + 1
        PROVE  g[p] = h[p]
    <3>1. CASE p = m + 1
      <4>1. m \in 0 .. m + 1 /\ m # m + 1 /\ g[m] = f[m]
        OBVIOUS
      <4>2. m + 1 \in 0 .. m + 1 /\ m + 1 # 0 /\ m + 1 - 1 = m
        OBVIOUS
      <4>3. g[m + 1] = f[m] \o Fragment(c, m)
        BY <4>2
      <4>4. h[m + 1] = g[m] \o Fragment(c, m)
        <5> HIDE DEF g
        <5> QED BY <4>2
      <4> QED BY <3>1, <4>1, <4>3, <4>4
    <3>2. CASE p # m + 1 /\ p # 0
      <4>1. p \in 0 .. m /\ p - 1 \in 0 .. m + 1 /\ p - 1 # m + 1
        BY <3>2
      <4>2. g[p] = f[p] /\ g[p - 1] = f[p - 1]
        BY <3>2, <4>1
      <4>3. f[p] = f[p - 1] \o Fragment(c, p - 1)
        BY <2>1, <3>2, <4>1
      <4> QED BY <3>2, <4>2, <4>3
    <3>3. CASE p = 0
      <4>1. 0 \in 0 .. m /\ f[0] = <<>>
        BY <2>1
      <4> QED BY <3>3, <4>1
    <3> QED BY <3>1, <3>2, <3>3
  <2>3. g = h
    <3> HIDE DEF Is
    <3> QED BY <2>2
  <2>4. Is(g, m + 1)
    BY <2>3
  <2> HIDE DEF g, Is
  <2> QED BY <2>4
<1> HIDE DEF S
<1>3. Nat \subseteq S
  BY <1>1, <1>2, NatSetSuccessors
<1> QED BY <1>3 DEF S

\* It is built one place after the other.
LEMMA BufferSteps ==
    ASSUME NEW c, End(c) \in Nat
    PROVE  /\ Buffers(c)[0] = <<>>
           /\ \A p \in 0 .. End(c) - 1 :
                 Buffers(c)[p + 1] = Buffers(c)[p] \o Fragment(c, p)
<1>1. Buffers(c) = [p \in 0 .. End(c) |->
                      IF p = 0 THEN <<>> ELSE Buffers(c)[p - 1] \o Fragment(c, p - 1)]
  <2>1. \E f : f = [p \in 0 .. End(c) |->
                          IF p = 0 THEN <<>> ELSE f[p - 1] \o Fragment(c, p - 1)]
    BY BufferExists
  <2> QED BY <2>1, Zenon DEF Buffers
<1> HIDE DEF Buffers
<1>2. ASSUME NEW p \in 0 .. End(c) - 1
      PROVE  Buffers(c)[p + 1] = Buffers(c)[p] \o Fragment(c, p)
  <2>1. p + 1 \in 0 .. End(c) /\ p + 1 # 0 /\ p + 1 - 1 = p
    OBVIOUS
  <2> QED BY <1>1, <2>1
<1> QED BY <1>1, <1>2

\* If each fragment has the bytes of its place and stands at it, so has the buffer.
LEMMA BufferTrue ==
    ASSUME NEW s \in Sides, NEW c, TrueCollector(c, s), InPlace(c)
    PROVE  /\ Held(c) \in Nat
           /\ Joined(c) = [i \in 1 .. Held(c) |-> i]
<1> USE ReassemblyAssumption
<1> DEFINE places == DOMAIN c.fragments
<1>1. /\ Size[s] \in Nat
      /\ places \subseteq 0 .. Size[s] - 1
  BY DEF TrueCollector
<1>2. /\ End(c) \in Nat
      /\ \A o \in places : o \in 0 .. End(c) - 1
  <2>1. CASE places = {}
    BY <2>1 DEF End
  <2>2. CASE places # {}
    <3>1. Max(places) \in places /\ \A o \in places : o <= Max(places)
      BY <1>1, <2>2, GreatestPlace
    <3>2. End(c) = 1 + Max(places)
      BY <2>2 DEF End
    <3> DEFINE last == Max(places)
    <3>3. last \in places /\ (\A o \in places : o <= last) /\ End(c) = 1 + last
      BY <3>1, <3>2
    <3> HIDE DEF places, last
    <3> QED BY <1>1, <3>3
  <2> QED BY <2>1, <2>2
<1> DEFINE B(p) == Buffers(c)[p]
           T(p) == TrueBytes(B(p), 0)
           S == {p \in Nat : p <= End(c) => T(p)}
<1>3. 0 \in S
  <2>1. B(0) = <<>>
    BY <1>2, BufferSteps
  <2>2. TrueBytes(<<>>, 0)
    BY DEF TrueBytes
  <2> QED BY <2>1, <2>2
<1>4. ASSUME NEW p \in Nat, p \in S
      PROVE  p + 1 \in S
  <2> SUFFICES ASSUME p + 1 <= End(c) PROVE T(p + 1)
    OBVIOUS
  <2>1. T(p) /\ p \in 0 .. End(c) - 1
    BY <1>2, <1>4
  <2>2. B(p + 1) = B(p) \o Fragment(c, p)
    BY <1>2, <2>1, BufferSteps
  <2>3. CASE p \notin places
    <3>1. Fragment(c, p) = <<>>
      BY <2>3 DEF Fragment
    <3>2. B(p + 1) = B(p)
      <4> HIDE DEF B
      <4> QED BY <2>1, <2>2, <3>1, ConcatEmptySeq DEF TrueBytes
    <3> QED BY <2>1, <3>2
  <2>4. CASE p \in places
    <3>1. Len(B(p)) = p
      BY <2>4 DEF InPlace, HeldBelow
    <3>2. TrueBytes(Fragment(c, p), p)
      BY <2>4 DEF Fragment, TrueCollector
    <3> DEFINE b == B(p)
               g == Fragment(c, p)
    <3>3. b \in Seq(Nat) /\ g \in Seq(Nat) /\ Len(b) = p
      BY <2>1, <3>1, <3>2 DEF TrueBytes
    <3>4. /\ \A i \in 1 .. Len(b) : b[i] = i
          /\ \A i \in 1 .. Len(g) : g[i] = p + i
      BY <2>1, <3>2 DEF TrueBytes
    <3>5. B(p + 1) = b \o g
      BY <2>2
    <3> HIDE DEF b, g, B
    <3>6. TrueBytes(b \o g, 0)
      BY <3>3, <3>4, ConcatProperties DEF TrueBytes
    <3> QED BY <3>5, <3>6
  <2> QED BY <2>3, <2>4
<1>5. T(End(c))
  <2> HIDE DEF S
  <2>1. Nat \subseteq S
    BY <1>3, <1>4, NatSetSuccessors
  <2>2. End(c) \in S
    BY <1>2, <2>1
  <2> QED BY <1>2, <2>2 DEF S
<1>6. Joined(c) \in Seq(Nat) /\ \A i \in 1 .. Len(Joined(c)) : Joined(c)[i] = i
  BY <1>5 DEF TrueBytes, Joined
<1>7. Held(c) = Len(Joined(c))
  BY DEF Held, HeldBelow, Joined
<1> HIDE DEF B, T
<1> QED BY <1>6, <1>7

-----------------------------------------------------------------------------
(* The parts a server sends.                                                  *)

\* A piece of a buffer is written with the places of its bytes.
LEMMA BytesTrue ==
    ASSUME NEW n \in Nat, NEW piece \in Pieces(n)
    PROVE  /\ BytesOf(piece) \in Seq(Nat)
           /\ piece[1] - 1 \in Nat
           /\ TrueBytes(BytesOf(piece), piece[1] - 1)
           /\ Len(BytesOf(piece)) > 0 => piece[1] - 1 \in 0 .. n - 1
<1>1. /\ piece[1] \in Nat \ {0} /\ piece[2] \in Nat
      /\ piece[2] >= piece[1] => piece[1] \in 1 .. n
      /\ piece[2] - piece[1] + 1 \in Nat
  BY DEF Pieces
<1> DEFINE from == piece[1]
           to == piece[2]
<1>2. BytesOf(piece) = [i \in 1 .. (to - from + 1) |-> from + i - 1]
  BY DEF BytesOf
<1>3. from \in Nat \ {0} /\ to \in Nat /\ to - from + 1 \in Nat
      /\ (to >= from => from \in 1 .. n)
  BY <1>1
<1> HIDE DEF from, to
<1>4. BytesOf(piece) \in Seq(Nat) /\ Len(BytesOf(piece)) = to - from + 1
  BY <1>2, <1>3
<1>5. \A i \in 1 .. Len(BytesOf(piece)) : BytesOf(piece)[i] = from - 1 + i
  BY <1>2, <1>3, <1>4
<1>6. Len(BytesOf(piece)) > 0 => from - 1 \in 0 .. n - 1
  BY <1>3, <1>4
<1> QED BY <1>3, <1>4, <1>5, <1>6 DEF TrueBytes, from

\* Where the elements of two sequences are when one is put behind the other.
LEMMA ConcatPlacesNat ==
    ASSUME NEW t \in Seq(Nat), NEW u \in Seq(Nat)
    PROVE  /\ t \o u \in Seq(Nat) /\ Len(t \o u) = Len(t) + Len(u)
           /\ \A i \in 1 .. Len(t) : (t \o u)[i] = t[i]
           /\ \A i \in 1 .. Len(u) : (t \o u)[Len(t) + i] = u[i]
<1>1. /\ t \o u \in Seq(Nat) /\ Len(t \o u) = Len(t) + Len(u)
      /\ \A i \in 1 .. Len(t) + Len(u) : (t \o u)[i] = IF i <= Len(t) THEN t[i]
                                                        ELSE u[i - Len(t)]
  BY ConcatProperties
<1> DEFINE v == t \o u
<1> HIDE DEF v
<1> QED BY <1>1 DEF v

\* The three pieces of the bytes of a part, one behind the other.
LEMMA BytesOfPart ==
    ASSUME NEW a \in Seq(Nat), NEW b \in Seq(Nat)
    PROVE  LET bytes == <<0>> \o a \o b
           IN  /\ bytes \in Seq(Nat)
               /\ Len(bytes) = 1 + Len(a) + Len(b)
               /\ SubSeq(bytes, 2, 1 + Len(a)) = a
               /\ SubSeq(bytes, 2 + Len(a), 1 + Len(a) + Len(b)) = b
<1> DEFINE z == <<0>>
           y == z \o a
           bytes == y \o b
<1>1. z \in Seq(Nat) /\ Len(z) = 1
  OBVIOUS
<1> HIDE DEF z
<1>2. /\ y \in Seq(Nat) /\ Len(y) = 1 + Len(a)
      /\ \A i \in 1 .. Len(a) : y[1 + i] = a[i]
  <2>1. /\ y \in Seq(Nat) /\ Len(y) = Len(z) + Len(a)
        /\ \A i \in 1 .. Len(a) : y[Len(z) + i] = a[i]
    BY <1>1, ConcatPlacesNat
  <2> HIDE DEF y
  <2> QED BY <1>1, <2>1
<1> HIDE DEF y
<1>3. /\ bytes \in Seq(Nat) /\ Len(bytes) = 1 + Len(a) + Len(b)
      /\ \A i \in 1 .. Len(a) : bytes[1 + i] = a[i]
      /\ \A i \in 1 .. Len(b) : bytes[1 + Len(a) + i] = b[i]
  <2>1. /\ bytes \in Seq(Nat) /\ Len(bytes) = Len(y) + Len(b)
        /\ \A i \in 1 .. Len(y) : bytes[i] = y[i]
        /\ \A i \in 1 .. Len(b) : bytes[Len(y) + i] = b[i]
    BY <1>2, ConcatPlacesNat
  <2> HIDE DEF bytes
  <2>2. ASSUME NEW i \in 1 .. Len(a)
        PROVE  bytes[1 + i] = a[i]
    <3>1. 1 + i \in 1 .. Len(y)
      BY <1>2
    <3> QED BY <1>2, <2>1, <3>1
  <2>3. ASSUME NEW i \in 1 .. Len(b)
        PROVE  bytes[1 + Len(a) + i] = b[i]
    BY <1>2, <2>1
  <2> QED BY <1>2, <2>1, <2>2, <2>3
<1> HIDE DEF bytes
<1>4. ASSUME NEW t \in Seq(Nat), NEW k \in Nat, k + Len(t) <= Len(bytes),
             \A i \in 1 .. Len(t) : bytes[k + i] = t[i]
      PROVE  SubSeq(bytes, k + 1, k + Len(t)) = t
  <2> DEFINE u == SubSeq(bytes, k + 1, k + Len(t))
  <2>1. \A i \in k + 1 .. k + Len(t) : bytes[i] \in Nat
    BY <1>3, <1>4
  <2>2. /\ u \in Seq(Nat) /\ Len(u) = Len(t)
        /\ \A i \in 1 .. Len(t) : u[i] = bytes[k + 1 + i - 1]
    BY <2>1, SubSeqProperties
  <2> HIDE DEF u
  <2>3. \A i \in 1 .. Len(t) : u[i] = t[i]
    BY <1>4, <2>2
  <2>4. u = t
    BY <2>2, <2>3, SeqEqual
  <2> QED BY <2>4 DEF u
<1>5. SubSeq(bytes, 2, 1 + Len(a)) = a
  BY <1>3, <1>4
<1>6. SubSeq(bytes, 2 + Len(a), 1 + Len(a) + Len(b)) = b
  <2>1. SubSeq(bytes, 1 + Len(a) + 1, 1 + Len(a) + Len(b)) = b
    <3>1. 1 + Len(a) \in Nat /\ 1 + Len(a) + Len(b) <= Len(bytes)
      BY <1>3
    <3> QED BY <1>3, <1>4, <3>1
  <2>2. 1 + Len(a) + 1 = 2 + Len(a)
    OBVIOUS
  <2> QED BY <2>1, <2>2
<1> QED BY <1>3, <1>5, <1>6 DEF bytes, y, z

-----------------------------------------------------------------------------
(* What a part is, and what of it gets past the checks.                       *)

\* A part as PartOf makes it, of pieces of the two buffers.
Made(p, f, t) ==
    /\ p.words = 10
    /\ p.total = t
    /\ p.count = [s \in Sides |-> Len(BytesOf(f[s]))]
    /\ p.bytes = <<0>> \o BytesOf(f["parameter"]) \o BytesOf(f["data"])
    /\ p.at = [s \in Sides |-> f[s][1] - 1]
    /\ DOMAIN p.offset = Sides
    /\ p.offset["parameter"] \in {0, 55 + 1}
    /\ p.offset["data"] \in {0, 55 + 1 + Len(BytesOf(f["parameter"]))}

\* That is how PartOf makes it.
LEMMA PartMade ==
    ASSUME NEW f, NEW t
    PROVE  Made(PartOf(f, t), f, t)
BY DEF Made, PartOf, Sides

\* What a server may send in place of a part.
Garbled(p) == {p, [p EXCEPT !.words = 8], [p EXCEPT !.bytes = Tail(@)],
               [p EXCEPT !.offset["data"] = 0]}

\* Of parts, garbled or not, the checks let true runs through and nothing else.
LEMMA PartTrue ==
    ASSUME NEW f \in Piecewise, NEW t \in [Sides -> Nat], t["parameter"] = Size["parameter"],
           NEW p \in Garbled(PartOf(f, t)), InFrame(p), ~Panics(p), NEW s \in Sides
    PROVE  TrueRun(Run(p, s), s)
<1> USE ReassemblyAssumption
<1> DEFINE m == PartOf(f, t)
           a == BytesOf(f["parameter"])
           b == BytesOf(f["data"])
<1>1. Made(m, f, t)
  BY PartMade
<1>2. m = PartOf(f, t)
  OBVIOUS
<1> HIDE DEF m
<1>3. /\ Size["parameter"] \in Nat /\ Size["data"] \in Nat
      /\ f["parameter"] \in Pieces(Size["parameter"])
      /\ f["data"] \in Pieces(Size["data"])
  BY DEF Piecewise, Sides
<1>4. /\ a \in Seq(Nat) /\ b \in Seq(Nat)
      /\ TrueBytes(a, f["parameter"][1] - 1) /\ TrueBytes(b, f["data"][1] - 1)
      /\ Len(a) > 0 => f["parameter"][1] - 1 \in 0 .. Size["parameter"] - 1
      /\ Len(b) > 0 => f["data"][1] - 1 \in 0 .. Size["data"] - 1
  BY <1>3, BytesTrue
<1> DEFINE z == <<0>> \o a \o b
<1>5. /\ z \in Seq(Nat) /\ Len(z) = 1 + Len(a) + Len(b)
      /\ SubSeq(z, 2, 1 + Len(a)) = a
      /\ SubSeq(z, 2 + Len(a), 1 + Len(a) + Len(b)) = b
  BY <1>4, BytesOfPart
<1>6. /\ m.words = 10 /\ m.total = t /\ m.bytes = z
      /\ m.count["parameter"] = Len(a) /\ m.count["data"] = Len(b)
      /\ m.at["parameter"] = f["parameter"][1] - 1 /\ m.at["data"] = f["data"][1] - 1
      /\ m.offset["parameter"] \in {0, 56}
      /\ m.offset["data"] \in {0, 56 + Len(a)}
      /\ DOMAIN m.offset = Sides
      /\ m = [words |-> m.words, total |-> m.total, count |-> m.count,
              bytes |-> m.bytes, at |-> m.at, offset |-> m.offset]
  BY <1>1, <1>2 DEF Made, Sides, PartOf
<1> HIDE DEF a, b, z
<1> DEFINE la == Len(a)
           lb == Len(b)
<1>0. la \in Nat /\ lb \in Nat
  BY <1>4
<1>7. p = m
  <2>1. CASE p = [m EXCEPT !.words = 8]
    <3>1. p.words = 8
      BY <2>1, <1>6
    <3> QED BY <3>1 DEF Panics
  <2>2. CASE p = [m EXCEPT !.bytes = Tail(@)]
    <3>1. /\ p.words = 10 /\ p.bytes = Tail(z)
          /\ p.offset["data"] = m.offset["data"] /\ p.count["data"] = Len(b)
      BY <2>2, <1>6
    <3>2. Len(p.bytes) = Len(a) + Len(b)
      <4>1. Len(z) = 1 + la + lb
        BY <1>5
      <4> HIDE DEF la, lb
      <4>2. z # <<>>
        BY <4>1, <1>0
      <4>3. Len(Tail(z)) = Len(z) - 1
        BY <4>2, <1>5, HeadTailProperties
      <4>4. Len(p.bytes) = la + lb
        BY <3>1, <4>1, <4>3, <1>0
      <4> QED BY <4>4 DEF la, lb
    <3>3. Start(p) = 55
      BY <3>1 DEF Start
    <3>4. p.offset["data"] >= 55
      BY <3>3 DEF InFrame, Sides
    <3>5. p.offset["data"] = 56 + Len(a)
      BY <3>1, <3>4, <1>6
    <3>6. p.offset["data"] - Start(p) + p.count["data"] > Len(p.bytes)
      BY <3>1, <3>2, <3>3, <3>5, <1>4
    <3> QED BY <3>6 DEF Panics, Sides
  <2>3. CASE p = [m EXCEPT !.offset["data"] = 0]
    <3>1. p.words = 10 /\ p.offset["data"] = 0
      BY <2>3, <1>6 DEF Sides
    <3>2. Start(p) = 55
      BY <3>1 DEF Start
    <3> QED BY <3>1, <3>2 DEF InFrame, Sides
  <2> QED BY <1>2, <2>1, <2>2, <2>3 DEF Garbled
<1>8. Start(p) = 55
  BY <1>6, <1>7 DEF Start
<1>9. p.offset["parameter"] = 56 /\ p.offset["data"] = 56 + Len(a)
  BY <1>6, <1>7, <1>8, <1>4 DEF InFrame, Sides
<1>10. Sliced(p, "parameter") = a
  <2>1. /\ p.offset["parameter"] - Start(p) + 1 = 2
        /\ p.offset["parameter"] - Start(p) + p.count["parameter"] = 1 + Len(a)
    BY <1>6, <1>7, <1>8, <1>9, <1>0
  <2> QED BY <1>5, <1>6, <1>7, <2>1 DEF Sliced
<1>11. Sliced(p, "data") = b
  <2>1. /\ p.offset["data"] - Start(p) + 1 = 2 + Len(a)
        /\ p.offset["data"] - Start(p) + p.count["data"] = 1 + Len(a) + Len(b)
    <3>1. p.offset["data"] = 56 + la /\ Start(p) = 55 /\ p.count["data"] = lb
      BY <1>6, <1>7, <1>8, <1>9
    <3> HIDE DEF la, lb
    <3>2. /\ p.offset["data"] - Start(p) + 1 = 2 + la
          /\ p.offset["data"] - Start(p) + p.count["data"] = 1 + la + lb
      BY <3>1, <1>0
    <3> QED BY <3>2 DEF la, lb
  <2> QED BY <1>5, <1>6, <1>7, <2>1 DEF Sliced
<1>12. CASE s = "parameter"
  <2>1. /\ Run(p, s).bytes = a /\ Run(p, s).at = f["parameter"][1] - 1
        /\ Run(p, s).total = Size["parameter"]
    BY <1>6, <1>7, <1>10, <1>12 DEF Run
  <2>2. a # <<>> => Len(a) > 0
    BY <1>4
  <2> QED BY <1>3, <1>4, <1>12, <2>1, <2>2 DEF TrueRun
<1>13. CASE s = "data"
  <2>1. /\ Run(p, s).bytes = b /\ Run(p, s).at = f["data"][1] - 1
        /\ Run(p, s).total = t["data"]
    BY <1>6, <1>7, <1>11, <1>13 DEF Run
  <2>2. b # <<>> => Len(b) > 0
    BY <1>4
  <2>3. t["data"] \in Nat
    BY DEF Sides
  <2> QED BY <1>3, <1>4, <1>13, <2>1, <2>2, <2>3 DEF TrueRun
<1> QED BY <1>12, <1>13 DEF Sides

-----------------------------------------------------------------------------
(* The invariant.                                                             *)

\* A fragment that is added stands at its place, and leaves the others alone.
LEMMA WithTrue ==
    ASSUME NEW s \in Sides, NEW c, TrueCollector(c, s), NEW run, TrueRun(run, s)
    PROVE  TrueCollector(With(c, run), s)
<1>1. With(c, run).total = run.total
  BY DEF With
<1>2. CASE run.bytes = <<>>
  <2>1. With(c, run).fragments = c.fragments
    BY <1>2 DEF With
  <2> QED BY <1>1, <2>1 DEF TrueCollector, TrueRun
<1>3. CASE run.bytes # <<>>
  <2>1. With(c, run).fragments = [o \in DOMAIN c.fragments \cup {run.at} |->
                                    IF o = run.at THEN run.bytes ELSE c.fragments[o]]
    BY <1>3 DEF With
  <2>2. ASSUME NEW o \in DOMAIN With(c, run).fragments
        PROVE  /\ o \in 0 .. Size[s] - 1
               /\ TrueBytes(With(c, run).fragments[o], o)
    <3>1. CASE o = run.at
      BY <1>3, <2>1, <3>1 DEF TrueRun
    <3>2. CASE o # run.at
      BY <2>1, <3>2 DEF TrueCollector
    <3> QED BY <3>1, <3>2
  <2> QED BY <1>1, <2>2 DEF TrueCollector, TrueRun
<1> QED BY <1>2, <1>3

\* The invariant holds at the start: nothing has come yet.
LEMMA InvInit == Init => IInv
<1> SUFFICES ASSUME Init PROVE IInv
  OBVIOUS
<1>1. TruePart
  BY DEF Init, TruePart
<1>2. \A s \in Sides : TrueCollector(collector[s], s)
  BY DEF Init, Empty, TrueCollector
<1>3. RightOrError
  BY DEF Init, RightOrError
<1> QED BY <1>1, <1>2, <1>3 DEF IInv

\* What a server sends is a part with true runs, or one that is refused.
LEMMA InvServer ==
    ASSUME IInv, Server
    PROVE  IInv'
<1> USE ReassemblyAssumption
<1>1. UNCHANGED <<pc, collector, result>> /\ pc = "collecting"
  BY DEF Server, client
<1>2. \E f \in Piecewise : \E t \in [Sides -> Nat] :
         t["parameter"] = Size["parameter"] /\ part' \in Garbled(PartOf(f, t))
  <2>1. CASE SendExact
    <3>1. PICK f \in Piecewise : part' = PartOf(f, Size)
      BY <2>1 DEF SendExact
    <3> QED BY <3>1 DEF Garbled
  <2>2. CASE SendAny
    <3>1. PICK f \in Piecewise, u \in Totals :
             part' \in Garbled(PartOf(f, [Size EXCEPT !["data"] = u]))
      BY <2>2 DEF SendAny, Garbled
    <3>2. /\ [Size EXCEPT !["data"] = u] \in [Sides -> Nat]
          /\ [Size EXCEPT !["data"] = u]["parameter"] = Size["parameter"]
      BY DEF Sides
    <3> QED BY <3>1, <3>2
  <2> QED BY <2>1, <2>2 DEF Server
<1>3. TruePart'
  <2> SUFFICES ASSUME InFrame(part'), ~Panics(part'), NEW s \in Sides
               PROVE  TrueRun(Run(part', s), s)
    BY DEF TruePart
  <2> QED BY <1>2, PartTrue
<1>4. (\A s \in Sides : TrueCollector(collector[s], s))'
  BY <1>1 DEF IInv
<1>5. RightOrError'
  BY <1>1 DEF RightOrError
<1> QED BY <1>3, <1>4, <1>5 DEF IInv

\* A part that is taken keeps the fragments true, and the buffers come of them.
LEMMA InvTake ==
    ASSUME IInv, Take
    PROVE  IInv'
<1> USE ReassemblyAssumption
<1>1. TruePart'
  BY DEF Take, TruePart
<1>2. CASE UNCHANGED <<collector, result>> /\ pc' # "done"
  <2>1. (\A s \in Sides : TrueCollector(collector[s], s))'
    BY <1>2 DEF IInv
  <2>2. RightOrError'
    BY <1>2 DEF RightOrError
  <2> QED BY <1>1, <2>1, <2>2 DEF IInv
<1>3. CASE /\ InFrame(part) /\ ~Panics(part)
           /\ collector' = After(part)
           /\ pc' # "done" \/ (/\ \A s \in Sides : Whole(collector'[s])
                               /\ result' = [s \in Sides |-> Joined(collector'[s])])
  <2>1. \A s \in Sides : TrueRun(Run(part, s), s)
    BY <1>3 DEF IInv, TruePart, Take
  <2>2. ASSUME NEW s \in Sides
        PROVE  TrueCollector(collector'[s], s)
    <3>1. collector'[s] = With(collector[s], Run(part, s))
      BY <1>3 DEF After
    <3> QED BY <2>1, <3>1, WithTrue DEF IInv
  <2>3. ASSUME NEW s \in Sides, pc' = "done"
        PROVE  result'[s] = [i \in 1 .. (IF s = "data" THEN collector'[s].total
                                         ELSE Size[s]) |-> i]
    <3> DEFINE c == collector'[s]
    <3>1. Whole(c) /\ result'[s] = Joined(c)
      BY <1>3, <2>3
    <3>2. TrueCollector(c, s)
      BY <2>2
    <3> HIDE DEF c
    <3>3. Held(c) = c.total /\ InPlace(c)
      BY <3>1 DEF Whole
    <3>4. Held(c) \in Nat /\ Joined(c) = [i \in 1 .. Held(c) |-> i]
      BY <3>2, <3>3, BufferTrue
    <3>5. s = "parameter" => c.total = Size[s]
      BY <3>2, <3>3, <3>4 DEF TrueCollector
    <3>6. result'[s] = [i \in 1 .. (IF s = "data" THEN c.total ELSE Size[s]) |-> i]
      BY <3>1, <3>3, <3>4, <3>5 DEF Sides
    <3> QED BY <3>6 DEF c
  <2>4. RightOrError'
    BY <2>3 DEF RightOrError
  <2> QED BY <1>1, <2>2, <2>4 DEF IInv
<1>4. CASE Misread(part)
  BY <1>2, <1>4 DEF Misread, Ends
<1>5. CASE ~Panics(part) /\ InFrame(part) /\ Refuse(part)
  BY <1>2, <1>5 DEF Refuse, Ends
<1>6. CASE ~Panics(part) /\ InFrame(part) /\ Collect(part)
  BY <1>3, <1>6 DEF Collect, Take
<1>7. CASE ~Panics(part) /\ InFrame(part) /\ Finish(part)
  BY <1>3, <1>7 DEF Finish
<1> QED BY <1>4, <1>5, <1>6, <1>7 DEF Take

(* Whatever the server sends, in whatever pieces and order: the fragments the *)
(* collectors keep have the bytes of their places, of every part that gets    *)
(* past Transact2::create and Collector::add.                                 *)
THEOREM TrueFragments == Spec => []IInv
<1>1. IInv /\ [Next]_vars => IInv'
  <2> SUFFICES ASSUME IInv, [Next]_vars PROVE IInv'
    OBVIOUS
  <2>1. CASE UNCHANGED vars
    BY <2>1 DEF vars, client, IInv, TruePart, RightOrError
  <2> QED BY <2>1, InvServer, InvTake DEF Next
<1> QED BY <1>1, InvInit, PTL DEF Spec

(* A call that ends well has both buffers as the server has them, as long as  *)
(* announced: Collector::get leaves nothing out, doubled or out of place.     *)
THEOREM BuffersRight == Spec => []RightOrError
<1>1. IInv => RightOrError
  BY DEF IInv
<1> QED BY <1>1, TrueFragments, PTL
=============================================================================
