---------------------------- MODULE BrowserProofs ----------------------------
(* Proofs about the listing, the summaries and the presentations of media     *)
(* entries for all directories, names, sizes and words, and about the browser *)
(* that shows them.                                                           *)
EXTENDS BrowserProps, SequenceTheorems, FunctionTheorems, FiniteSetTheorems,
        WellFoundedInduction, TLAPS

-----------------------------------------------------------------------------
(* Induction over numbers, in the form of a set that holds all of them.       *)

\* A set of numbers that is not empty has a least one.
LEMMA LeastNat ==
    ASSUME NEW T \in SUBSET Nat, T # {}
    PROVE  \E n \in T : \A m \in T : n <= m
<1>1. IsWellFoundedOn(OpToRel(<, Nat), Nat)
  BY NatLessThanWellFounded
<1>2. PICK n \in T : \A m \in T : ~(<<m, n>> \in OpToRel(<, Nat))
  BY <1>1, WFMin, Zenon
<1>3. \A m \in T : ~(m < n)
  BY <1>2, Zenon DEF OpToRel
<1> QED BY <1>3

\* A set with 0, and with each number after one of its own, has them all.
LEMMA NatSetInduction ==
    ASSUME NEW S, 0 \in S, \A n \in Nat \ {0} : n - 1 \in S => n \in S
    PROVE  Nat \subseteq S
<1> SUFFICES ASSUME Nat \ S # {} PROVE FALSE
  OBVIOUS
<1>1. PICK n \in Nat \ S : \A m \in Nat \ S : n <= m
  BY LeastNat
<1>2. n # 0 /\ n - 1 \in Nat /\ n - 1 \in S
  BY <1>1
<1> QED BY <1>1, <1>2

-----------------------------------------------------------------------------
(* Strict total orders, as sets of pairs, and sets put in order by them.      *)

Ordered(R, S) == /\ \A x \in S : <<x, x>> \notin R
                 /\ \A x, y, z \in S : <<x, y>> \in R /\ <<y, z>> \in R => <<x, z>> \in R
                 /\ \A x, y \in S : x # y => <<x, y>> \in R \/ <<y, x>> \in R

\* A finite set that is not empty has a last element.
LEMMA LastElement ==
    ASSUME NEW R, NEW S, IsFiniteSet(S), S # {}, Ordered(R, S)
    PROVE  \E m \in S : \A x \in S \ {m} : <<x, m>> \in R
<1> DEFINE K == {n \in Nat : \A T \in SUBSET S : IsFiniteSet(T) /\ Cardinality(T) = n /\ T # {} =>
                               \E m \in T : \A x \in T \ {m} : <<x, m>> \in R}
<1>1. 0 \in K
  BY FS_EmptySet
<1>2. ASSUME NEW n \in Nat \ {0}, n - 1 \in K
      PROVE  n \in K
  <2> SUFFICES ASSUME NEW T \in SUBSET S, IsFiniteSet(T), Cardinality(T) = n, T # {}
               PROVE  \E m \in T : \A x \in T \ {m} : <<x, m>> \in R
    OBVIOUS
  <2>1. PICK y \in T : TRUE
    OBVIOUS
  <2> DEFINE U == T \ {y}
  <2>2. U \in SUBSET S /\ IsFiniteSet(U) /\ Cardinality(U) = n - 1
    BY <2>1, FS_RemoveElement
  <2>3. CASE U = {}
    BY <2>1, <2>3
  <2>4. CASE U # {}
    <3>1. PICK m \in U : \A x \in U \ {m} : <<x, m>> \in R
      BY <1>2, <2>2, <2>4
    <3>2. y \in S /\ m \in S /\ y # m /\ m \in T
      BY <2>1, <2>2
    <3>3. CASE <<y, m>> \in R
      BY <3>1, <3>2, <3>3
    <3>4. CASE <<m, y>> \in R
      <4>1. ASSUME NEW x \in T \ {y}
            PROVE  <<x, y>> \in R
        <5>1. CASE x = m
          BY <3>4, <5>1
        <5>2. CASE x # m
          <6>1. <<x, m>> \in R /\ x \in S
            BY <3>1, <4>1, <5>2
          <6> QED BY <3>2, <3>4, <6>1 DEF Ordered
        <5> QED BY <5>1, <5>2
      <4> QED BY <2>1, <4>1
    <3> QED BY <3>2, <3>3, <3>4 DEF Ordered
  <2> QED BY <2>3, <2>4
<1> HIDE DEF K
<1>3. Nat \subseteq K
  BY <1>1, <1>2, NatSetInduction
<1>4. Cardinality(S) \in Nat
  BY FS_CardinalityType
<1> QED BY <1>3, <1>4 DEF K

\* A finite set can be put in order.
LEMMA CanBeOrdered ==
    ASSUME NEW R, NEW S, IsFiniteSet(S), Ordered(R, S)
    PROVE  \E s \in [1 .. Cardinality(S) -> S] :
             \A i, j \in 1 .. Cardinality(S) : i < j => <<s[i], s[j]>> \in R
<1> DEFINE K == {n \in Nat : \A T \in SUBSET S : IsFiniteSet(T) /\ Cardinality(T) = n =>
                               \E s \in [1 .. n -> T] :
                                  \A i, j \in 1 .. n : i < j => <<s[i], s[j]>> \in R}
<1>1. 0 \in K
  <2> SUFFICES ASSUME NEW T \in SUBSET S
               PROVE  \E s \in [1 .. 0 -> T] :
                         \A i, j \in 1 .. 0 : i < j => <<s[i], s[j]>> \in R
    OBVIOUS
  <2> DEFINE s == [i \in 1 .. 0 |-> 0]
  <2>1. s \in [1 .. 0 -> T]
    OBVIOUS
  <2>2. \A i, j \in 1 .. 0 : i < j => <<s[i], s[j]>> \in R
    OBVIOUS
  <2> HIDE DEF s
  <2> QED BY <2>1, <2>2
<1>2. ASSUME NEW n \in Nat \ {0}, n - 1 \in K
      PROVE  n \in K
  <2> SUFFICES ASSUME NEW T \in SUBSET S, IsFiniteSet(T), Cardinality(T) = n
               PROVE  \E s \in [1 .. n -> T] :
                         \A i, j \in 1 .. n : i < j => <<s[i], s[j]>> \in R
    OBVIOUS
  <2>1. T # {}
    BY FS_EmptySet
  <2>2. Ordered(R, T)
    BY DEF Ordered
  <2>3. PICK m \in T : \A x \in T \ {m} : <<x, m>> \in R
    BY <2>1, <2>2, LastElement
  <2> DEFINE U == T \ {m}
  <2>4. U \in SUBSET S /\ IsFiniteSet(U) /\ Cardinality(U) = n - 1
    BY <2>3, FS_RemoveElement
  <2>5. PICK u \in [1 .. n - 1 -> U] : \A i, j \in 1 .. n - 1 : i < j => <<u[i], u[j]>> \in R
    BY <1>2, <2>4
  <2> DEFINE s == [i \in 1 .. n |-> IF i = n THEN m ELSE u[i]]
  <2>6. s \in [1 .. n -> T]
    BY <2>3, <2>5
  <2>7. ASSUME NEW i \in 1 .. n, NEW j \in 1 .. n, i < j
        PROVE  <<s[i], s[j]>> \in R
    <3>1. i \in 1 .. n - 1 /\ s[i] = u[i] /\ u[i] \in T \ {m}
      BY <2>5, <2>7
    <3>2. CASE j = n
      BY <2>3, <3>1, <3>2
    <3>3. CASE j # n
      <4>1. j \in 1 .. n - 1 /\ s[j] = u[j]
        BY <3>3
      <4> QED BY <2>5, <2>7, <3>1, <4>1
    <3> QED BY <3>2, <3>3
  <2> HIDE DEF s
  <2> QED BY <2>6, <2>7
<1> HIDE DEF K
<1>3. Nat \subseteq K
  BY <1>1, <1>2, NatSetInduction
<1>4. Cardinality(S) \in Nat
  BY FS_CardinalityType
<1> QED BY <1>3, <1>4 DEF K

\* A sequence that has the elements of a set, each once, in the order of an R.
Puts(s, S, R) ==
    /\ s \in [1 .. Cardinality(S) -> S]
    /\ \A i, j \in 1 .. Cardinality(S) : i < j => <<s[i], s[j]>> \in R

InOrderOf(s, S, R) ==
    /\ Puts(s, S, R) /\ Cardinality(S) \in Nat
    /\ \A i, j \in 1 .. Cardinality(S) : s[i] = s[j] => i = j
    /\ \A x \in S : \E i \in 1 .. Cardinality(S) : s[i] = x

\* Put in order, a set has each of its elements once.
LEMMA OrderedHasAll ==
    ASSUME NEW R, NEW S, IsFiniteSet(S), Ordered(R, S), NEW s, Puts(s, S, R)
    PROVE  InOrderOf(s, S, R)
<1>0. /\ s \in [1 .. Cardinality(S) -> S]
      /\ \A i, j \in 1 .. Cardinality(S) : i < j => <<s[i], s[j]>> \in R
  BY DEF Puts
<1> DEFINE n == Cardinality(S)
<1>1. n \in Nat
  BY FS_CardinalityType
<1>2. ASSUME NEW i \in 1 .. n, NEW j \in 1 .. n, s[i] = s[j]
      PROVE  i = j
  <2>1. s[i] \in S /\ <<s[i], s[i]>> \notin R
    BY <1>0 DEF Ordered
  <2> QED BY <1>0, <1>1, <1>2, <2>1
<1>3. s \in Injection(1 .. n, S)
  BY <1>0, <1>2, Fun_IsInj
<1>4. IsFiniteSet(1 .. n) /\ Cardinality(1 .. n) = n
  BY <1>1, FS_Interval
<1>5. s \in Surjection(1 .. n, S)
  BY <1>3, <1>4, FS_Injection
<1>6. \A x \in S : \E i \in 1 .. n : s[i] = x
  BY <1>5 DEF Surjection
<1> QED BY <1>1, <1>2, <1>6 DEF InOrderOf

\* Numbers by their size.
Smaller == {p \in Nat \X Nat : p[1] < p[2]}

\* InOrder of numbers puts them in order.
LEMMA NumbersInOrder ==
    ASSUME NEW S \in SUBSET Nat, IsFiniteSet(S)
    PROVE  InOrderOf(InOrder(S, <), S, Smaller)
<1> DEFINE n == Cardinality(S)
           Is(s) == \A i, j \in DOMAIN s : i < j => s[i] < s[j]
           s == CHOOSE t \in [1 .. n -> S] : Is(t)
<1>1. Ordered(Smaller, S)
  BY DEF Ordered, Smaller
<1>2. PICK t \in [1 .. n -> S] : \A i, j \in 1 .. n : i < j => <<t[i], t[j]>> \in Smaller
  BY <1>1, CanBeOrdered
<1>3. Is(t)
  BY <1>2 DEF Smaller
<1> HIDE DEF Is
<1>4. s \in [1 .. n -> S] /\ Is(s)
  BY <1>2, <1>3
<1>5. InOrder(S, <) = s
  BY DEF InOrder, Is
<1> HIDE DEF s
<1>6. Puts(s, S, Smaller)
  BY <1>4 DEF Is, Smaller, Puts
<1> QED BY <1>1, <1>5, <1>6, OrderedHasAll
-----------------------------------------------------------------------------
(* The lexicographic order, of the sequences over a set that is ordered.      *)

\* Two sequences agree on n places, and the (n + 1)-th decides.
DecidedAt(a, b, R, n) == /\ n \in Nat /\ n <= Len(a) /\ n <= Len(b)
                         /\ \A i \in 1 .. n : a[i] = b[i]
                         /\ \/ n = Len(a) /\ n < Len(b)
                            \/ n < Len(a) /\ n < Len(b) /\ <<a[n + 1], b[n + 1]>> \in R

LexOrder(E, R) == {p \in Seq(E) \X Seq(E) : \E n \in Nat : DecidedAt(p[1], p[2], R, n)}

\* Membership, spelled out.
LEMMA LexMember ==
    ASSUME NEW E, NEW R, NEW a \in Seq(E), NEW b \in Seq(E)
    PROVE  <<a, b>> \in LexOrder(E, R) <=> \E n \in Nat : DecidedAt(a, b, R, n)
BY DEF LexOrder

\* Of two decisions the earlier one counts.
LEMMA LexTransitive ==
    ASSUME NEW E, NEW R, Ordered(R, E), NEW a \in Seq(E), NEW b \in Seq(E), NEW c \in Seq(E),
           <<a, b>> \in LexOrder(E, R), <<b, c>> \in LexOrder(E, R)
    PROVE  <<a, c>> \in LexOrder(E, R)
<1>1. PICK n \in Nat : DecidedAt(a, b, R, n)
  BY LexMember
<1>2. PICK m \in Nat : DecidedAt(b, c, R, m)
  BY LexMember
<1>3. Len(a) \in Nat /\ Len(b) \in Nat /\ Len(c) \in Nat
  OBVIOUS
<1>4. CASE n < m
  <2>1. n < Len(b) /\ n < Len(c) /\ b[n + 1] = c[n + 1]
    BY <1>2, <1>3, <1>4 DEF DecidedAt
  <2>2. \A i \in 1 .. n : a[i] = c[i]
    BY <1>1, <1>2, <1>4 DEF DecidedAt
  <2>3. DecidedAt(a, c, R, n)
    BY <1>1, <1>3, <2>1, <2>2 DEF DecidedAt
  <2> QED BY <2>3, LexMember
<1>5. CASE m < n
  <2>1. m < Len(b) /\ m < Len(a) /\ a[m + 1] = b[m + 1]
    BY <1>1, <1>3, <1>5 DEF DecidedAt
  <2>2. \A i \in 1 .. m : a[i] = c[i]
    BY <1>1, <1>2, <1>5 DEF DecidedAt
  <2>3. DecidedAt(a, c, R, m)
    BY <1>2, <1>3, <2>1, <2>2 DEF DecidedAt
  <2> QED BY <2>3, LexMember
<1>6. CASE m = n
  <2>1. n < Len(b) /\ n < Len(c) /\ <<b[n + 1], c[n + 1]>> \in R
    BY <1>1, <1>2, <1>3, <1>6 DEF DecidedAt
  <2>2. \A i \in 1 .. n : a[i] = c[i]
    BY <1>1, <1>2, <1>6 DEF DecidedAt
  <2>3. CASE n < Len(a)
    <3>1. a[n + 1] \in E /\ b[n + 1] \in E /\ c[n + 1] \in E
      BY <1>3, <2>1, <2>3
    <3>2. <<a[n + 1], b[n + 1]>> \in R
      BY <1>1, <2>3 DEF DecidedAt
    <3>3. <<a[n + 1], c[n + 1]>> \in R
      BY <2>1, <3>1, <3>2 DEF Ordered
    <3>4. DecidedAt(a, c, R, n)
      BY <1>3, <2>1, <2>2, <2>3, <3>3 DEF DecidedAt
    <3> QED BY <3>4, LexMember
  <2>4. CASE n = Len(a)
    <3>1. DecidedAt(a, c, R, n)
      BY <1>3, <2>1, <2>2, <2>4 DEF DecidedAt
    <3> QED BY <3>1, LexMember
  <2> QED BY <1>1, <1>3, <2>3, <2>4 DEF DecidedAt
<1> QED BY <1>4, <1>5, <1>6

\* Of two sequences one comes first.
LEMMA LexTotal ==
    ASSUME NEW E, NEW R, Ordered(R, E), NEW a \in Seq(E), NEW b \in Seq(E), a # b
    PROVE  <<a, b>> \in LexOrder(E, R) \/ <<b, a>> \in LexOrder(E, R)
<1> DEFINE D == {n \in Nat : n < Len(a) /\ n < Len(b) /\ a[n + 1] # b[n + 1]}
<1>1. Len(a) \in Nat /\ Len(b) \in Nat
  OBVIOUS
<1>2. CASE D = {}
  <2>1. \A i \in Nat \ {0} : i <= Len(a) /\ i <= Len(b) => a[i] = b[i]
    <3> SUFFICES ASSUME NEW i \in Nat \ {0}, i <= Len(a) /\ i <= Len(b)
                 PROVE  a[i] = b[i]
      OBVIOUS
    <3>1. i - 1 \in Nat /\ i - 1 < Len(a) /\ i - 1 < Len(b) /\ (i - 1) + 1 = i
      BY <1>1
    <3> QED BY <1>2, <3>1
  <2>2. Len(a) # Len(b)
    BY <1>1, <2>1
  <2>3. CASE Len(a) < Len(b)
    <3>1. DecidedAt(a, b, R, Len(a))
      BY <1>1, <2>1, <2>3 DEF DecidedAt
    <3> QED BY <1>1, <3>1, LexMember
  <2>4. CASE Len(b) < Len(a)
    <3>1. DecidedAt(b, a, R, Len(b))
      BY <1>1, <2>1, <2>4 DEF DecidedAt
    <3> QED BY <1>1, <3>1, LexMember
  <2> QED BY <1>1, <2>2, <2>3, <2>4
<1>3. CASE D # {}
  <2>1. PICK n \in D : \A m \in D : n <= m
    BY <1>3, LeastNat
  <2>2. n \in Nat /\ n < Len(a) /\ n < Len(b) /\ a[n + 1] # b[n + 1]
    BY <2>1
  <2>3. \A i \in 1 .. n : a[i] = b[i]
    <3> SUFFICES ASSUME NEW i \in 1 .. n
                 PROVE  a[i] = b[i]
      OBVIOUS
    <3>1. i - 1 \in Nat /\ i - 1 < n /\ i - 1 < Len(a) /\ i - 1 < Len(b) /\ (i - 1) + 1 = i
      BY <1>1, <2>2
    <3>2. i - 1 \notin D
      BY <2>1, <2>2, <3>1
    <3> QED BY <3>1, <3>2
  <2>4. a[n + 1] \in E /\ b[n + 1] \in E
    BY <1>1, <2>2
  <2>5. <<a[n + 1], b[n + 1]>> \in R \/ <<b[n + 1], a[n + 1]>> \in R
    BY <2>2, <2>4 DEF Ordered
  <2>6. DecidedAt(a, b, R, n) \/ DecidedAt(b, a, R, n)
    BY <1>1, <2>2, <2>3, <2>5 DEF DecidedAt
  <2> QED BY <2>2, <2>6, LexMember
<1> QED BY <1>2, <1>3

\* It is a strict total order.
LEMMA LexOrdered ==
    ASSUME NEW E, NEW R, Ordered(R, E)
    PROVE  Ordered(LexOrder(E, R), Seq(E))
<1>1. ASSUME NEW a \in Seq(E), <<a, a>> \in LexOrder(E, R)
      PROVE  FALSE
  <2>1. PICK n \in Nat : DecidedAt(a, a, R, n)
    BY <1>1, LexMember
  <2>2. n < Len(a) /\ <<a[n + 1], a[n + 1]>> \in R
    BY <2>1 DEF DecidedAt
  <2>3. a[n + 1] \in E
    BY <2>2
  <2> QED BY <2>2, <2>3 DEF Ordered
<1> QED BY <1>1, LexTransitive, LexTotal DEF Ordered
-----------------------------------------------------------------------------
(* The runs of a name.                                                        *)

\* A run is not empty, and has digits only or none.
Digits(r) == \A p \in 1 .. Len(r) : IsDigit(r[p])
NoDigits(r) == \A p \in 1 .. Len(r) : ~IsDigit(r[p])
Run == {r \in Seq(Nat) : r # <<>> /\ (Digits(r) \/ NoDigits(r))}

\* Without an end between its places, a stretch of a name has digits only or none.
LEMMA StretchIsRun ==
    ASSUME NEW name \in Seq(Nat), NEW b \in 1 .. Len(name), NEW e \in b .. Len(name),
           \A j \in b .. e - 1 : j \notin RunEnds(name)
    PROVE  SubSeq(name, b, e) \in Run
<1> DEFINE r == SubSeq(name, b, e)
           D(p) == IsDigit(name[p])
<1>1. r \in Seq(Nat) /\ Len(r) = e - b + 1 /\ Len(r) \in Nat \ {0}
  OBVIOUS
<1>2. ASSUME NEW p \in 1 .. Len(r)
      PROVE  r[p] = name[b + p - 1]
  OBVIOUS
<1>3. ASSUME NEW j \in b .. e - 1
      PROVE  D(j) <=> D(j + 1)
  <2>1. j \in DOMAIN name /\ j \notin RunEnds(name)
    OBVIOUS
  <2> QED BY <2>1 DEF RunEnds
<1> HIDE DEF r
<1> DEFINE K == {k \in Nat : b + k <= e => (D(b + k) <=> D(b))}
<1>4. 0 \in K
  OBVIOUS
<1>5. ASSUME NEW k \in Nat \ {0}, k - 1 \in K
      PROVE  k \in K
  <2> SUFFICES ASSUME b + k <= e
               PROVE  D(b + k) <=> D(b)
    OBVIOUS
  <2>1. b + (k - 1) \in b .. e - 1 /\ b + (k - 1) + 1 = b + k
    OBVIOUS
  <2>2. D(b + (k - 1)) <=> D(b)
    BY <1>5, <2>1
  <2> HIDE DEF D
  <2> QED BY <1>3, <2>1, <2>2
<1> HIDE DEF K, D
<1>6. Nat \subseteq K
  BY <1>4, <1>5, NatSetInduction
<1>7. ASSUME NEW p \in 1 .. Len(r)
      PROVE  IsDigit(r[p]) <=> D(b)
  <2>1. p - 1 \in K /\ b + (p - 1) <= e /\ b + (p - 1) = b + p - 1
    BY <1>1, <1>6
  <2>2. D(b + (p - 1)) <=> D(b)
    BY <2>1 DEF K
  <2> QED BY <1>2, <2>1, <2>2 DEF D
<1>8. r # <<>>
  BY <1>1
<1>9. Digits(r) \/ NoDigits(r)
  BY <1>7 DEF Digits, NoDigits
<1> QED BY <1>1, <1>8, <1>9 DEF Run, r

\* The runs of a name are runs.
LEMMA RunsOfName ==
    ASSUME NEW name \in Seq(Nat)
    PROVE  Runs(name) \in Seq(Run)
<1> DEFINE S == RunEnds(name)
           ends == InOrder(S, <)
           n == Cardinality(S)
           from(i) == IF i = 1 THEN 1 ELSE ends[i - 1] + 1
<1>1. S \in SUBSET (1 .. Len(name)) /\ S \in SUBSET Nat
  BY DEF RunEnds
<1>2. IsFiniteSet(S)
  BY <1>1, FS_Interval, FS_Subset
<1>3. InOrderOf(ends, S, Smaller)
  BY <1>1, <1>2, NumbersInOrder
<1>4. /\ n \in Nat /\ ends \in [1 .. n -> S]
      /\ \A i, j \in 1 .. n : i < j => ends[i] < ends[j]
      /\ \A x \in S : \E i \in 1 .. n : ends[i] = x
  BY <1>3 DEF InOrderOf, Puts, Smaller
<1> HIDE DEF S, ends, n
<1>5. ASSUME NEW i \in 1 .. n
      PROVE  SubSeq(name, from(i), ends[i]) \in Run
  <2>1. ends[i] \in 1 .. Len(name) /\ (i # 1 => i - 1 \in 1 .. n)
    <3>1. ends[i] \in S
      BY <1>4
    <3>2. i # 1 => i - 1 \in 1 .. n
      BY <1>4
    <3> QED BY <1>1, <3>1, <3>2
  <2>2. i # 1 => ends[i - 1] \in 1 .. Len(name) /\ ends[i - 1] < ends[i]
    <3> SUFFICES ASSUME i # 1
                 PROVE  ends[i - 1] \in 1 .. Len(name) /\ ends[i - 1] < ends[i]
      OBVIOUS
    <3>1. i - 1 \in 1 .. n /\ i - 1 < i
      BY <2>1
    <3>2. ends[i - 1] \in S
      BY <1>4, <3>1
    <3> QED BY <1>1, <1>4, <3>1, <3>2
  <2>3. from(i) \in 1 .. Len(name) /\ ends[i] \in from(i) .. Len(name)
    BY <2>1, <2>2
  <2>4. ASSUME NEW j \in from(i) .. ends[i] - 1, j \in S
        PROVE  FALSE
    <3>1. PICK k \in 1 .. n : ends[k] = j
      BY <1>4, <2>4
    <3>2. k < i
      <4>1. CASE i < k
        <5>1. ends[i] < ends[k]
          BY <1>4, <4>1
        <5> QED BY <2>1, <3>1, <5>1, <2>4, <2>3
      <4>2. CASE i = k
        BY <2>1, <2>3, <2>4, <3>1, <4>2
      <4> QED BY <4>1, <4>2
    <3>3. i # 1 /\ i - 1 \in 1 .. n /\ k <= i - 1
      BY <1>4, <3>1, <3>2
    <3>4. ends[k] <= ends[i - 1]
      <4>1. CASE k = i - 1
        BY <2>2, <3>3, <4>1
      <4>2. CASE k < i - 1
        <5>1. ends[k] < ends[i - 1]
          BY <1>4, <3>3, <4>2
        <5> QED BY <1>1, <2>2, <2>4, <3>1, <3>3, <5>1
      <4> QED BY <3>3, <4>1, <4>2
    <3> QED BY <2>1, <2>2, <2>3, <2>4, <3>1, <3>3, <3>4
  <2> HIDE DEF from
  <2> QED BY <2>3, <2>4, StretchIsRun DEF S
<1>6. Runs(name) = [i \in 1 .. n |-> SubSeq(name, from(i), ends[i])]
  BY <1>4 DEF Runs, S, ends
<1> HIDE DEF from
<1> QED BY <1>4, <1>5, <1>6
-----------------------------------------------------------------------------
(* Numbers by their digits and by their value.                                *)

Digit == 0 .. 9

\* Significant drops zeros from the front, and leaves one digit at least.
LEMMA SignificantOf ==
    ASSUME NEW v \in Seq(Digit), v # <<>>, NEW z, z = Len(v) - Len(Significant(v))
    PROVE  /\ Significant(v) \in Seq(Digit) /\ Len(Significant(v)) \in 1 .. Len(v)
           /\ Significant(v)[1] # 0 \/ Significant(v) = <<0>>
           /\ \A i \in 1 .. z : v[i] = 0
           /\ \A i \in 1 .. Len(Significant(v)) : Significant(v)[i] = v[z + i]
<1> DEFINE first == {i \in DOMAIN v : v[i] # 0}
           a == Significant(v)
           n == Len(v)
<1>1. n \in Nat \ {0} /\ DOMAIN v = 1 .. n /\ \A i \in 1 .. n : v[i] \in Digit
  OBVIOUS
<1>2. CASE first = {}
  <2>1. a = <<0>>
    BY <1>2 DEF Significant
  <2>2. \A i \in 1 .. n : v[i] = 0
    BY <1>1, <1>2
  <2> HIDE DEF a, first
  <2>3. a \in Seq(Digit) /\ Len(a) = 1 /\ a[1] = 0
    BY <2>1 DEF Digit
  <2>4. z = n - 1
    BY <2>3 DEF a
  <2> QED BY <1>1, <2>1, <2>2, <2>3, <2>4 DEF a
<1>3. CASE first # {}
  <2>1. PICK m \in first : \A j \in first : m <= j
    <3>1. first \in SUBSET Nat
      BY <1>1
    <3> QED BY <1>3, <3>1, LeastNat
  <2>2. Min(first) = m
    <3>1. \A x \in first : (\A j \in first : x <= j) => x = m
      BY <1>1, <2>1
    <3> HIDE DEF first
    <3> QED BY <2>1, <3>1 DEF Min
  <2>3. a = SubSeq(v, m, n)
    <3> HIDE DEF first
    <3>1. a = SubSeq(v, Min(first), n)
      BY <1>3 DEF Significant, first
    <3> QED BY <2>2, <3>1
  <2>4. m \in 1 .. n /\ v[m] # 0
    BY <2>1
  <2>5. \A i \in 1 .. m - 1 : v[i] = 0
    <3> SUFFICES ASSUME NEW i \in 1 .. m - 1, v[i] # 0
                 PROVE  FALSE
      OBVIOUS
    <3>1. i \in 1 .. n /\ ~(m <= i)
      BY <2>4
    <3>2. i \in first
      BY <1>1, <3>1
    <3> QED BY <2>1, <3>1, <3>2
  <2> HIDE DEF a, first
  <2>6. /\ a \in Seq(Digit) /\ Len(a) = n - m + 1
        /\ \A i \in 1 .. n - m + 1 : a[i] = v[m + i - 1]
    BY <1>1, <2>3, <2>4
  <2>7. z = m - 1
    BY <1>1, <2>4, <2>6 DEF a
  <2>8. a[1] # 0
    <3>1. 1 \in 1 .. n - m + 1 /\ m + 1 - 1 = m
      BY <1>1, <2>4
    <3> QED BY <2>4, <2>6, <3>1
  <2>9. \A i \in 1 .. Len(a) : a[i] = v[z + i]
    <3> SUFFICES ASSUME NEW i \in 1 .. Len(a)
                 PROVE  a[i] = v[z + i]
      OBVIOUS
    <3>1. i \in 1 .. n - m + 1
      BY <2>6
    <3>2. m + i - 1 = z + i
      <4>1. m \in Int /\ i \in Int
        BY <1>1, <2>4, <3>1
      <4> QED BY <2>7, <4>1
    <3> QED BY <2>6, <3>1, <3>2
  <2>10. Len(a) \in 1 .. n
    BY <1>1, <2>4, <2>6
  <2> QED BY <2>5, <2>6, <2>7, <2>8, <2>9, <2>10 DEF a
<1> QED BY <1>2, <1>3

\* There is a function of the values of the first digits.
LEMMA ValuesExist ==
    ASSUME NEW d, NEW n \in Nat
    PROVE  \E f : f = [k \in 0 .. n |-> IF k = 0 THEN 0 ELSE 10 * f[k - 1] + d[k]]
<1> DEFINE Is(f, m) == f = [k \in 0 .. m |-> IF k = 0 THEN 0 ELSE 10 * f[k - 1] + d[k]]
           S == {m \in Nat : \E f : Is(f, m)}
<1>1. 0 \in S
  <2> DEFINE f == [k \in 0 .. 0 |-> 0]
  <2>1. Is(f, 0)
    OBVIOUS
  <2> HIDE DEF f
  <2> QED BY <2>1
<1>2. ASSUME NEW m \in Nat \ {0}, m - 1 \in S
      PROVE  m \in S
  <2>1. PICK f : Is(f, m - 1)
    BY <1>2
  <2> DEFINE g == [k \in 0 .. m |-> IF k = m THEN 10 * f[m - 1] + d[m] ELSE f[k]]
             h == [k \in 0 .. m |-> IF k = 0 THEN 0 ELSE 10 * g[k - 1] + d[k]]
  <2>2. ASSUME NEW k \in 0 .. m
        PROVE  g[k] = h[k]
    <3>1. CASE k = m
      <4>1. m - 1 \in 0 .. m /\ m - 1 # m /\ g[m - 1] = f[m - 1]
        OBVIOUS
      <4>2. m \in 0 .. m /\ m # 0
        OBVIOUS
      <4>3. g[m] = 10 * f[m - 1] + d[m]
        BY <4>2
      <4>4. h[m] = 10 * g[m - 1] + d[m]
        <5> HIDE DEF g
        <5> QED BY <4>2
      <4> QED BY <3>1, <4>1, <4>3, <4>4
    <3>2. CASE k # m /\ k # 0
      <4>1. k \in 0 .. m - 1 /\ k - 1 \in 0 .. m /\ k - 1 # m
        BY <3>2
      <4>2. g[k] = f[k] /\ g[k - 1] = f[k - 1]
        BY <3>2, <4>1
      <4>3. f[k] = 10 * f[k - 1] + d[k]
        BY <2>1, <3>2, <4>1
      <4> QED BY <3>2, <4>2, <4>3
    <3>3. CASE k = 0 /\ k # m
      <4>1. 0 \in 0 .. m - 1 /\ f[0] = 0
        BY <2>1
      <4> QED BY <3>3, <4>1
    <3> QED BY <3>1, <3>2, <3>3
  <2>3. g = h
    <3> HIDE DEF Is
    <3> QED BY <2>2
  <2>4. Is(g, m)
    BY <2>3
  <2> HIDE DEF g, Is
  <2> QED BY <2>4
<1> HIDE DEF S
<1>3. Nat \subseteq S
  BY <1>1, <1>2, NatSetInduction
<1> QED BY <1>3 DEF S

\* It goes on by one digit at a time.
LEMMA ValuesStep ==
    ASSUME NEW d \in Seq(Digit)
    PROVE  /\ Values(d)[0] = 0
           /\ \A k \in 1 .. Len(d) : Values(d)[k] = 10 * Values(d)[k - 1] + d[k]
           /\ \A k \in 0 .. Len(d) : Values(d)[k] \in Nat
<1> DEFINE n == Len(d)
           V == Values(d)
<1>1. V = [k \in 0 .. n |-> IF k = 0 THEN 0 ELSE 10 * V[k - 1] + d[k]]
  <2>1. \E f : f = [k \in 0 .. n |-> IF k = 0 THEN 0 ELSE 10 * f[k - 1] + d[k]]
    <3>1. n \in Nat
      OBVIOUS
    <3> QED BY <3>1, ValuesExist
  <2> QED BY <2>1, Zenon DEF Values
<1> HIDE DEF V
<1>2. n \in Nat /\ \A k \in 1 .. n : d[k] \in Digit
  OBVIOUS
<1> HIDE DEF n
<1>3. V[0] = 0
  BY <1>1, <1>2
<1>4. \A k \in 1 .. n : V[k] = 10 * V[k - 1] + d[k]
  BY <1>1, <1>2
<1> DEFINE K == {k \in Nat : k <= n => V[k] \in Nat}
<1>5. 0 \in K
  BY <1>3
<1>6. ASSUME NEW k \in Nat \ {0}, k - 1 \in K
      PROVE  k \in K
  <2> SUFFICES ASSUME k <= n
               PROVE  V[k] \in Nat
    OBVIOUS
  <2>1. k \in 1 .. n /\ V[k - 1] \in Nat /\ d[k] \in 0 .. 9
    BY <1>2, <1>6 DEF Digit
  <2>2. V[k] = 10 * V[k - 1] + d[k]
    BY <1>4, <2>1
  <2> QED BY <2>1, <2>2
<1> HIDE DEF K
<1>7. Nat \subseteq K
  BY <1>5, <1>6, NatSetInduction
<1>8. \A k \in 0 .. n : V[k] \in Nat
  BY <1>2, <1>7 DEF K
<1> QED BY <1>3, <1>4, <1>8 DEF V, n

\* Another digit behind does not change which is less.
LEMMA TenTimes ==
    ASSUME NEW x \in Nat, NEW y \in Nat, x < y, NEW p \in 0 .. 9, NEW q \in 0 .. 9
    PROVE  10 * x + p < 10 * y + q
OBVIOUS

\* Zeros in front do not count.
LEMMA ValueOfSignificant ==
    ASSUME NEW v \in Seq(Digit), v # <<>>
    PROVE  Value(v) = Value(Significant(v))
<1> DEFINE a == Significant(v)
           n == Len(v)
           c == Len(a)
           z == n - c
           V == Values(v)
           A == Values(a)
<1>1. /\ a \in Seq(Digit) /\ c \in 1 .. n
      /\ \A i \in 1 .. z : v[i] = 0
      /\ \A i \in 1 .. c : a[i] = v[z + i]
  BY SignificantOf
<1>2. n \in Nat \ {0}
  OBVIOUS
<1> HIDE DEF a
<1>3. /\ V[0] = 0 /\ \A k \in 1 .. n : V[k] = 10 * V[k - 1] + v[k]
      /\ A[0] = 0 /\ \A k \in 1 .. c : A[k] = 10 * A[k - 1] + a[k]
  BY <1>1, ValuesStep
<1>4. \A k \in 0 .. c : A[k] \in Nat
  BY <1>1, ValuesStep
<1> HIDE DEF n, c, V, A
<1>5. z \in Nat /\ z + c = n
  BY <1>1, <1>2
<1> HIDE DEF z
<1> DEFINE K == {k \in Nat : k <= z => V[k] = 0}
           L == {k \in Nat : k <= c => V[z + k] = A[k]}
<1>6. 0 \in K
  BY <1>3
<1>7. ASSUME NEW k \in Nat \ {0}, k - 1 \in K
      PROVE  k \in K
  <2> SUFFICES ASSUME k <= z
               PROVE  V[k] = 0
    OBVIOUS
  <2>1. k \in 1 .. z /\ k \in 1 .. n /\ V[k - 1] = 0
    BY <1>1, <1>5, <1>7
  <2>2. V[k] = 10 * 0 + 0
    BY <1>1, <1>3, <2>1
  <2> QED BY <2>2
<1> HIDE DEF K
<1>8. z \in K
  BY <1>5, <1>6, <1>7, NatSetInduction
<1>9. 0 \in L
  <2>1. V[z] = 0 /\ z + 0 = z
    BY <1>5, <1>8 DEF K
  <2> QED BY <1>3, <2>1
<1>10. ASSUME NEW k \in Nat \ {0}, k - 1 \in L
       PROVE  k \in L
  <2> SUFFICES ASSUME k <= c
               PROVE  V[z + k] = A[k]
    OBVIOUS
  <2>1. k \in 1 .. c /\ z + k \in 1 .. n /\ z + k - 1 = z + (k - 1) /\ k - 1 <= c
    BY <1>1, <1>5
  <2>2. V[z + (k - 1)] = A[k - 1]
    BY <1>10, <2>1
  <2> DEFINE j == z + k
  <2>3. j \in 1 .. n /\ j - 1 = z + (k - 1) /\ a[k] = v[j]
    BY <1>1, <1>5, <2>1
  <2> HIDE DEF j
  <2>4. V[j] = 10 * V[j - 1] + v[j] /\ A[k] = 10 * A[k - 1] + a[k]
    BY <1>3, <2>1, <2>3
  <2>5. V[j - 1] = A[k - 1]
    BY <2>2, <2>3
  <2>6. V[j] = A[k]
    BY <2>3, <2>4, <2>5
  <2> QED BY <2>6 DEF j
<1> HIDE DEF L
<1>11. c \in L
  BY <1>1, <1>9, <1>10, NatSetInduction
<1>12. V[n] = A[c]
  BY <1>1, <1>5, <1>11 DEF L
<1> QED BY <1>12 DEF Value, V, A, n, c, a

\* Of two numbers the one with more digits is greater, if it has no zeros in front.
LEMMA LongerIsMore ==
    ASSUME NEW a \in Seq(Digit), NEW b \in Seq(Digit), Len(a) < Len(b), b[1] # 0
    PROVE  Value(a) < Value(b)
<1> DEFINE n == Len(a)
           m == Len(b)
           d == m - n
           A == Values(a)
           B == Values(b)
<1>1. n \in Nat /\ m \in Nat /\ n < m
  OBVIOUS
<1>2. /\ A[0] = 0 /\ \A k \in 1 .. n : A[k] = 10 * A[k - 1] + a[k]
      /\ B[0] = 0 /\ \A k \in 1 .. m : B[k] = 10 * B[k - 1] + b[k]
      /\ \A k \in 0 .. n : A[k] \in Nat
      /\ \A k \in 0 .. m : B[k] \in Nat
  BY ValuesStep
<1>3. (\A k \in 1 .. n : a[k] \in 0 .. 9) /\ (\A k \in 1 .. m : b[k] \in 0 .. 9) /\ b[1] >= 1
  <2>1. \A k \in 1 .. n : a[k] \in Digit
    OBVIOUS
  <2>2. \A k \in 1 .. m : b[k] \in Digit
    OBVIOUS
  <2>3. 1 \in 1 .. m
    BY <1>1
  <2>4. b[1] \in Digit /\ b[1] # 0
    BY <2>2, <2>3
  <2> HIDE DEF n, m
  <2> QED BY <2>1, <2>2, <2>4 DEF Digit
<1> HIDE DEF n, m, A, B
<1>4. d \in Nat \ {0} /\ d + n = m
  BY <1>1
<1> HIDE DEF d
<1> DEFINE K == {k \in Nat : k + 1 <= m => B[k + 1] >= 1}
           L == {k \in Nat : k <= n => A[k] < B[d + k]}
<1>5. 0 \in K
  <2>1. B[1] = 10 * B[0] + b[1]
    <3>1. 1 \in 1 .. m /\ 1 - 1 = 0
      BY <1>1
    <3> QED BY <1>2, <3>1
  <2> QED BY <1>2, <1>3, <2>1
<1>6. ASSUME NEW k \in Nat \ {0}, k - 1 \in K
      PROVE  k \in K
  <2> SUFFICES ASSUME k + 1 <= m
               PROVE  B[k + 1] >= 1
    OBVIOUS
  <2>1. k + 1 \in 1 .. m /\ (k - 1) + 1 = k /\ (k + 1) - 1 = k /\ k <= m /\ k \in 0 .. m
    BY <1>1
  <2>2. B[k] >= 1 /\ B[k] \in Nat
    BY <1>2, <1>6, <2>1
  <2>3. B[k + 1] = 10 * B[k] + b[k + 1] /\ b[k + 1] \in 0 .. 9
    BY <1>2, <1>3, <2>1
  <2> QED BY <2>2, <2>3
<1> HIDE DEF K
<1>7. d - 1 \in K
  BY <1>4, <1>5, <1>6, NatSetInduction
<1>8. 0 \in L
  <2>1. d - 1 \in Nat /\ (d - 1) + 1 = d /\ d <= m /\ d + 0 = d /\ d \in 0 .. m
    BY <1>1, <1>4
  <2>2. B[d] >= 1 /\ B[d] \in Nat
    BY <1>2, <1>7, <2>1 DEF K
  <2>3. A[0] < B[d + 0]
    BY <1>2, <2>1, <2>2
  <2> QED BY <2>3
<1>9. ASSUME NEW k \in Nat \ {0}, k - 1 \in L
      PROVE  k \in L
  <2> SUFFICES ASSUME k <= n
               PROVE  A[k] < B[d + k]
    OBVIOUS
  <2>1. /\ k \in 1 .. n /\ d + k \in 1 .. m /\ d + k - 1 = d + (k - 1) /\ k - 1 <= n
        /\ k - 1 \in 0 .. n /\ d + (k - 1) \in 0 .. m
    BY <1>1, <1>4
  <2>2. A[k - 1] < B[d + (k - 1)]
    BY <1>9, <2>1
  <2>3. A[k] = 10 * A[k - 1] + a[k] /\ a[k] \in 0 .. 9 /\ A[k - 1] \in Nat
    BY <1>2, <1>3, <2>1
  <2> DEFINE j == d + k
  <2>4. j \in 1 .. m /\ j - 1 = d + (k - 1) /\ j - 1 \in 0 .. m
    BY <1>1, <1>4, <2>1
  <2>5. A[k - 1] < B[j - 1]
    BY <2>2, <2>4
  <2> HIDE DEF j
  <2>6. B[j] = 10 * B[j - 1] + b[j] /\ b[j] \in 0 .. 9 /\ B[j - 1] \in Nat
    BY <1>2, <1>3, <2>4
  <2>7. A[k] < B[j]
    BY <2>3, <2>5, <2>6, TenTimes
  <2> QED BY <2>7 DEF j
<1> HIDE DEF L
<1>10. n \in L
  BY <1>1, <1>8, <1>9, NatSetInduction
<1>11. A[n] < B[m]
  BY <1>1, <1>4, <1>10 DEF L
<1> QED BY <1>11 DEF Value, A, B, n, m

\* Of two numbers with as many digits the first digit that differs decides.
LEMMA FirstDigitDecides ==
    ASSUME NEW a \in Seq(Digit), NEW b \in Seq(Digit), Len(a) = Len(b),
           NEW m \in Nat, m < Len(a), \A i \in 1 .. m : a[i] = b[i], a[m + 1] < b[m + 1]
    PROVE  Value(a) < Value(b)
<1> DEFINE n == Len(a)
           A == Values(a)
           B == Values(b)
<1>1. n \in Nat /\ m < n /\ Len(b) = n
  OBVIOUS
<1>2. /\ A[0] = 0 /\ \A k \in 1 .. n : A[k] = 10 * A[k - 1] + a[k]
      /\ B[0] = 0 /\ \A k \in 1 .. n : B[k] = 10 * B[k - 1] + b[k]
      /\ \A k \in 0 .. n : A[k] \in Nat
      /\ \A k \in 0 .. n : B[k] \in Nat
  BY ValuesStep
<1>3. (\A k \in 1 .. n : a[k] \in 0 .. 9) /\ (\A k \in 1 .. n : b[k] \in 0 .. 9)
  <2>1. \A k \in 1 .. n : a[k] \in Digit /\ b[k] \in Digit
    OBVIOUS
  <2> HIDE DEF n
  <2> QED BY <2>1 DEF Digit
<1> HIDE DEF n, A, B
<1> DEFINE K == {k \in Nat : k <= m => A[k] = B[k]}
           L == {k \in Nat : m + 1 + k <= n => A[m + 1 + k] < B[m + 1 + k]}
<1>4. 0 \in K
  BY <1>2
<1>5. ASSUME NEW k \in Nat \ {0}, k - 1 \in K
      PROVE  k \in K
  <2> SUFFICES ASSUME k <= m
               PROVE  A[k] = B[k]
    OBVIOUS
  <2>1. k \in 1 .. m /\ k \in 1 .. n /\ A[k - 1] = B[k - 1]
    BY <1>1, <1>5
  <2>2. a[k] = b[k]
    BY <2>1
  <2> QED BY <1>2, <2>1, <2>2
<1> HIDE DEF K
<1>6. m \in K
  BY <1>4, <1>5, NatSetInduction
<1>7. 0 \in L
  <2>1. m + 1 \in 1 .. n /\ m + 1 - 1 = m /\ m + 1 + 0 = m + 1 /\ m \in 0 .. n
    BY <1>1
  <2>2. A[m] = B[m] /\ A[m] \in Nat
    BY <1>2, <1>6, <2>1 DEF K
  <2>3. A[m + 1] = 10 * A[m] + a[m + 1] /\ B[m + 1] = 10 * B[m] + b[m + 1]
    BY <1>2, <2>1
  <2>4. a[m + 1] \in 0 .. 9 /\ b[m + 1] \in 0 .. 9 /\ a[m + 1] < b[m + 1]
    BY <1>3, <2>1
  <2>5. A[m + 1] < B[m + 1]
    <3> DEFINE x == A[m]
               y == B[m]
               p == a[m + 1]
               q == b[m + 1]
    <3>1. x = y /\ x \in Nat /\ p \in 0 .. 9 /\ q \in 0 .. 9 /\ p < q
      BY <2>2, <2>4
    <3>2. A[m + 1] = 10 * x + p /\ B[m + 1] = 10 * y + q
      BY <2>3
    <3> HIDE DEF x, y, p, q
    <3>3. 10 * x + p < 10 * y + q
      BY <3>1
    <3> QED BY <3>2, <3>3
  <2> QED BY <2>1, <2>5
<1>8. ASSUME NEW k \in Nat \ {0}, k - 1 \in L
      PROVE  k \in L
  <2> SUFFICES ASSUME m + 1 + k <= n
               PROVE  A[m + 1 + k] < B[m + 1 + k]
    OBVIOUS
  <2>1. /\ m + 1 + k \in 1 .. n /\ m + 1 + k - 1 = m + 1 + (k - 1) /\ m + 1 + (k - 1) <= n
        /\ m + 1 + (k - 1) \in 0 .. n
    BY <1>1
  <2> DEFINE j == m + 1 + k
  <2>2. A[m + 1 + (k - 1)] < B[m + 1 + (k - 1)]
    BY <1>8, <2>1
  <2>3. j \in 1 .. n /\ j - 1 = m + 1 + (k - 1) /\ j - 1 \in 0 .. n
    BY <2>1
  <2>4. A[j - 1] < B[j - 1]
    BY <2>2, <2>3
  <2> HIDE DEF j
  <2>5. /\ A[j] = 10 * A[j - 1] + a[j] /\ a[j] \in 0 .. 9 /\ A[j - 1] \in Nat
        /\ B[j] = 10 * B[j - 1] + b[j] /\ b[j] \in 0 .. 9 /\ B[j - 1] \in Nat
    BY <1>2, <1>3, <2>3
  <2>6. A[j] < B[j]
    BY <2>4, <2>5, TenTimes
  <2> QED BY <2>6 DEF j
<1> HIDE DEF L
<1>9. n - m - 1 \in L
  <2>1. n - m - 1 \in Nat
    BY <1>1
  <2> QED BY <1>7, <1>8, <2>1, NatSetInduction
<1>10. A[n] < B[n]
  <2>1. m + 1 + (n - m - 1) = n
    BY <1>1
  <2> QED BY <1>1, <1>9, <2>1 DEF L
<1> QED BY <1>1, <1>10 DEF Value, A, B, n
-----------------------------------------------------------------------------
(* Tokens.  The derived order of tokens is the order of their runs.           *)

Token(r) == IF IsDigit(r[1]) THEN Number(r) ELSE Text(r)
TokenOrder == LexOrder(Nat, Smaller)

\* Numbers are ordered, and so are sequences of them.
LEMMA TokensOrdered == Ordered(TokenOrder, Seq(Nat))
<1>1. Ordered(Smaller, Nat)
  BY DEF Ordered, Smaller
<1> QED BY <1>1, LexOrdered DEF TokenOrder

\* The order of the code is that set.
LEMMA TokenBeforeIs ==
    ASSUME NEW a \in Seq(Nat), NEW b \in Seq(Nat)
    PROVE  TokenBefore(a, b) <=> <<a, b>> \in TokenOrder
<1>1. Len(a) \in Nat /\ Len(b) \in Nat
  OBVIOUS
<1>2. \A i \in 1 .. Len(a) : a[i] \in Nat
  OBVIOUS
<1>3. \A i \in 1 .. Len(b) : b[i] \in Nat
  OBVIOUS
<1>4. ASSUME NEW n \in Nat, n < Len(a), n < Len(b)
      PROVE  a[n + 1] < b[n + 1] <=> <<a[n + 1], b[n + 1]>> \in Smaller
  <2>1. n + 1 \in 1 .. Len(a) /\ n + 1 \in 1 .. Len(b)
    BY <1>1, <1>4
  <2>2. a[n + 1] \in Nat /\ b[n + 1] \in Nat
    BY <1>2, <1>3, <2>1
  <2> QED BY <2>2 DEF Smaller
<1>5. TokenBefore(a, b) <=> \E n \in Nat : DecidedAt(a, b, Smaller, n)
  <2>1. ASSUME TokenBefore(a, b)
        PROVE  \E n \in Nat : DecidedAt(a, b, Smaller, n)
    <3>1. PICK n \in 0 .. Len(a) :
             /\ n <= Len(b) /\ \A i \in 1 .. n : a[i] = b[i]
             /\ \/ n = Len(a) /\ n < Len(b)
                \/ n < Len(a) /\ n < Len(b) /\ a[n + 1] < b[n + 1]
      BY <2>1 DEF TokenBefore, Lexicographic
    <3>2. n \in Nat /\ n <= Len(a)
      BY <1>1
    <3>3. DecidedAt(a, b, Smaller, n)
      BY <1>4, <3>1, <3>2 DEF DecidedAt
    <3> QED BY <3>2, <3>3
  <2>2. ASSUME NEW n \in Nat, DecidedAt(a, b, Smaller, n)
        PROVE  TokenBefore(a, b)
    <3>1. /\ n \in 0 .. Len(a) /\ n <= Len(b) /\ \A i \in 1 .. n : a[i] = b[i]
          /\ \/ n = Len(a) /\ n < Len(b)
             \/ n < Len(a) /\ n < Len(b) /\ a[n + 1] < b[n + 1]
      BY <1>1, <1>4, <2>2 DEF DecidedAt
    <3> QED BY <3>1 DEF TokenBefore, Lexicographic
  <2> QED BY <2>1, <2>2
<1> QED BY <1>5, LexMember DEF TokenOrder

\* A digit stays one in small letters, and nothing becomes one.
LEMMA LowercaseKeepsDigits ==
    ASSUME NEW c \in Nat
    PROVE  Lowercase(c) \in Nat /\ (IsDigit(Lowercase(c)) <=> IsDigit(c))
BY MediaAssumption DEF MediaAssumption, Lowercase, IsDigit

\* What is where in the token of a number.
LEMMA NumberPlaces ==
    ASSUME NEW v \in Seq(Digit), v # <<>>
    PROVE  /\ Number(v) \in Seq(Nat) /\ Len(Number(v)) = Len(Significant(v)) + 3
           /\ Number(v)[1] = 0 /\ Number(v)[2] = Len(Significant(v))
           /\ \A i \in 1 .. Len(Significant(v)) : Number(v)[2 + i] = Significant(v)[i]
           /\ Number(v)[3 + Len(Significant(v))] = Len(v)
<1> DEFINE s == Significant(v)
           n == Len(v)
<1>1. s \in Seq(Digit) /\ n \in Nat
  BY SignificantOf
<1>2. Number(v) = <<0, Len(s)>> \o s \o <<n>>
  BY DEF Number
<1> HIDE DEF s, n
<1>3. s \in Seq(Nat) /\ Len(s) \in Nat
  BY <1>1 DEF Digit
<1> DEFINE t == <<0, Len(s)>> \o s
           u == t \o <<n>>
<1>4. /\ t \in Seq(Nat) /\ Len(t) = Len(s) + 2 /\ t[1] = 0 /\ t[2] = Len(s)
      /\ \A i \in 1 .. Len(s) : t[2 + i] = s[i]
  BY <1>3
<1> HIDE DEF t
<1>5. /\ u \in Seq(Nat) /\ Len(u) = Len(t) + 1 /\ u[Len(t) + 1] = n
      /\ \A i \in 1 .. Len(t) : u[i] = t[i]
  BY <1>1, <1>4
<1>6. Number(v) = u
  BY <1>2 DEF t
<1> HIDE DEF u
<1>7. u[1] = 0 /\ u[2] = Len(s) /\ u[3 + Len(s)] = n /\ Len(u) = Len(s) + 3
  BY <1>3, <1>4, <1>5
<1>8. ASSUME NEW i \in 1 .. Len(s)
      PROVE  u[2 + i] = s[i]
  <2>1. 2 + i \in 1 .. Len(t)
    BY <1>3, <1>4
  <2> QED BY <1>4, <1>5, <2>1
<1> QED BY <1>5, <1>6, <1>7, <1>8 DEF s, n

\* The letters of a text in small.
LEMMA SmallLetters ==
    ASSUME NEW v \in Seq(Nat), NEW s, s = [i \in DOMAIN v |-> Lowercase(v[i])]
    PROVE  s \in Seq(Nat) /\ Len(s) = Len(v) /\ \A i \in 1 .. Len(v) : s[i] = Lowercase(v[i])
<1>1. \A i \in 1 .. Len(v) : v[i] \in Nat
  OBVIOUS
<1> DEFINE n == Len(v)
<1>2. n \in Nat /\ s = [i \in 1 .. n |-> Lowercase(v[i])]
  OBVIOUS
<1> HIDE DEF n
<1>3. \A i \in 1 .. n : Lowercase(v[i]) \in Nat
  BY <1>1, LowercaseKeepsDigits DEF n
<1>4. s \in Seq(Nat) /\ Len(s) = n /\ \A i \in 1 .. n : s[i] = Lowercase(v[i])
  <2>1. s \in [1 .. n -> Nat]
    BY <1>2, <1>3
  <2> QED BY <1>2, <2>1
<1> QED BY <1>4 DEF n

\* What is where in the token of a text.
LEMMA TextPlaces ==
    ASSUME NEW v \in Seq(Nat)
    PROVE  /\ Text(v) \in Seq(Nat) /\ Len(Text(v)) = Len(v) + 1 /\ Text(v)[1] = 1
           /\ \A i \in 1 .. Len(v) : Text(v)[1 + i] = Lowercase(v[i])
<1> DEFINE s == [i \in DOMAIN v |-> Lowercase(v[i])]
<1>1. s \in Seq(Nat) /\ Len(s) = Len(v) /\ \A i \in 1 .. Len(v) : s[i] = Lowercase(v[i])
  BY SmallLetters
<1>2. Text(v) = <<1>> \o s
  BY DEF Text
<1> HIDE DEF s
<1> QED BY <1>1, <1>2

\* The value of a token that is a number is at least nothing.
LEMMA ValueIsNat ==
    ASSUME NEW v \in Seq(Digit)
    PROVE  Value(v) \in Nat
<1>1. Len(v) \in Nat /\ Len(v) \in 0 .. Len(v)
  OBVIOUS
<1> QED BY <1>1, ValuesStep DEF Value

\* What a reader takes to come first of two numbers.
NumberBefore(v, w) == Value(v) < Value(w) \/ (Value(v) = Value(w) /\ Len(v) < Len(w))

\* Digits are numbers.
LEMMA DigitsAreNumbers ==
    ASSUME NEW v \in Seq(Digit)
    PROVE  v \in Seq(Nat)
BY DEF Digit

\* Sequences of one length that agree everywhere are the same.
LEMMA SameDigits ==
    ASSUME NEW a \in Seq(Nat), NEW b \in Seq(Nat), Len(a) = Len(b),
           \A i \in 1 .. Len(a) : a[i] = b[i]
    PROVE  a = b
OBVIOUS

\* A number whose token comes first is less, or it is as great and shorter.
LEMMA NumberTokenBefore ==
    ASSUME NEW v \in Seq(Digit), NEW w \in Seq(Digit), v # <<>>, w # <<>>,
           <<Number(v), Number(w)>> \in TokenOrder
    PROVE  NumberBefore(v, w)
<1> DEFINE s == Significant(v)
           t == Significant(w)
           a == Number(v)
           b == Number(w)
           k == Len(s)
           l == Len(t)
<1>1. /\ a \in Seq(Nat) /\ Len(a) = k + 3 /\ a[1] = 0 /\ a[2] = k
      /\ \A i \in 1 .. k : a[2 + i] = s[i]
      /\ a[3 + k] = Len(v)
  BY NumberPlaces
<1>2. /\ b \in Seq(Nat) /\ Len(b) = l + 3 /\ b[1] = 0 /\ b[2] = l
      /\ \A i \in 1 .. l : b[2 + i] = t[i]
      /\ b[3 + l] = Len(w)
  BY NumberPlaces
<1>3. s \in Seq(Digit) /\ k \in 1 .. Len(v) /\ Value(v) = Value(s)
  BY SignificantOf, ValueOfSignificant
<1>4. t \in Seq(Digit) /\ l \in 1 .. Len(w) /\ Value(w) = Value(t) /\ (t[1] # 0 \/ t = <<0>>)
  BY SignificantOf, ValueOfSignificant
<1>5. k \in Nat \ {0} /\ l \in Nat \ {0}
  BY <1>3, <1>4
<1>6. PICK n \in Nat : DecidedAt(a, b, Smaller, n)
  BY <1>1, <1>2, LexMember DEF TokenOrder
<1>7. t = <<0>> => l = 1
  OBVIOUS
<1>8. s \in Seq(Nat) /\ t \in Seq(Nat)
  <2> HIDE DEF s, t, k, l
  <2> QED BY <1>3, <1>4, DigitsAreNumbers
<1> HIDE DEF s, t, a, b, k, l
<1>9. CASE n = 0
  <2>1. a[1] < b[1]
    BY <1>1, <1>2, <1>5, <1>6, <1>9 DEF DecidedAt, Smaller
  <2> QED BY <1>1, <1>2, <2>1
<1>10. CASE n = 1
  <2>1. a[2] < b[2]
    BY <1>1, <1>2, <1>5, <1>6, <1>10 DEF DecidedAt, Smaller
  <2>2. k < l /\ l # 1
    BY <1>1, <1>2, <1>5, <2>1
  <2>3. t[1] # 0
    BY <1>4, <1>7, <2>2
  <2>4. Value(s) < Value(t)
    BY <1>3, <1>4, <2>2, <2>3, LongerIsMore DEF k, l
  <2> QED BY <1>3, <1>4, <2>4 DEF NumberBefore
<1>11. CASE n >= 2
  <2>1. k = l
    <3>1. a[2] = b[2]
      BY <1>6, <1>11 DEF DecidedAt
    <3> QED BY <1>1, <1>2, <3>1
  <2> DEFINE m == n - 2
  <2>2. m \in Nat /\ n = 2 + m
    BY <1>11
  <2>3. n < k + 3 /\ <<a[n + 1], b[n + 1]>> \in Smaller
    BY <1>1, <1>2, <1>5, <1>6, <2>1 DEF DecidedAt
  <2>4. a[n + 1] < b[n + 1]
    BY <2>3 DEF Smaller
  <2>5. \A i \in 1 .. m : i <= k => s[i] = t[i]
    <3> SUFFICES ASSUME NEW i \in 1 .. m, i <= k
                 PROVE  s[i] = t[i]
      OBVIOUS
    <3>1. 2 + i \in 1 .. n /\ i \in 1 .. k
      BY <2>2
    <3>2. a[2 + i] = b[2 + i]
      BY <1>6, <3>1 DEF DecidedAt
    <3> QED BY <1>1, <1>2, <2>1, <3>1, <3>2
  <2> HIDE DEF m
  <2>6. CASE m < k
    <3> DEFINE j == m + 1
    <3>1. n + 1 = 2 + j /\ j \in 1 .. k
      BY <2>2, <2>6, <1>5
    <3> HIDE DEF j
    <3>2. a[2 + j] = s[j] /\ b[2 + j] = t[j]
      BY <1>1, <1>2, <2>1, <3>1
    <3>3. s[m + 1] < t[m + 1]
      BY <2>4, <3>1, <3>2 DEF j
    <3>4. \A i \in 1 .. m : s[i] = t[i]
      BY <2>2, <2>5, <2>6, <1>5
    <3>5. Len(s) = Len(t) /\ m < Len(s)
      BY <2>1, <2>6 DEF k, l
    <3>6. Value(s) < Value(t)
      BY <1>3, <1>4, <2>2, <3>3, <3>4, <3>5, FirstDigitDecides
    <3> QED BY <1>3, <1>4, <3>6 DEF NumberBefore
  <2>7. CASE m >= k
    <3>1. m = k /\ n + 1 = 3 + k
      BY <1>5, <2>2, <2>3, <2>7
    <3>2. Len(v) < Len(w)
      BY <1>1, <1>2, <2>1, <2>4, <3>1
    <3>3. \A i \in 1 .. k : s[i] = t[i]
      BY <1>5, <2>5, <3>1
    <3>4. s = t
      <4>1. Len(s) = Len(t) /\ \A i \in 1 .. Len(s) : s[i] = t[i]
        BY <2>1, <3>3 DEF k, l
      <4> QED BY <1>8, <4>1, SameDigits
    <3> QED BY <1>3, <1>4, <3>2, <3>4 DEF NumberBefore
  <2> QED BY <1>5, <2>2, <2>6, <2>7
<1> QED BY <1>9, <1>10, <1>11

\* Numbers with one token have one value and are as long; they are the same.
LEMMA NumberTokenSame ==
    ASSUME NEW v \in Seq(Digit), NEW w \in Seq(Digit), v # <<>>, w # <<>>,
           Number(v) = Number(w)
    PROVE  v = w
<1> DEFINE s == Significant(v)
           t == Significant(w)
           k == Len(s)
           z == Len(v) - k
<1>1. /\ Number(v)[2] = k /\ Number(v)[3 + k] = Len(v)
      /\ \A i \in 1 .. k : Number(v)[2 + i] = s[i]
  BY NumberPlaces
<1>2. /\ Number(w)[2] = Len(t) /\ Number(w)[3 + Len(t)] = Len(w)
      /\ \A i \in 1 .. Len(t) : Number(w)[2 + i] = t[i]
  BY NumberPlaces
<1>3. k \in 1 .. Len(v) /\ (\A i \in 1 .. z : v[i] = 0) /\ (\A i \in 1 .. k : s[i] = v[z + i])
  BY SignificantOf
<1>4. k = Len(t) /\ Len(v) = Len(w) /\ \A i \in 1 .. k : s[i] = t[i]
  <2>1. k = Len(t)
    BY <1>1, <1>2
  <2> HIDE DEF s, t, k
  <2> QED BY <1>1, <1>2, <2>1
<1>5. z = Len(w) - Len(t)
  BY <1>4
<1>6. (\A i \in 1 .. z : w[i] = 0) /\ (\A i \in 1 .. Len(t) : t[i] = w[z + i])
  BY <1>5, SignificantOf
<1>7. Len(v) \in Nat /\ v \in Seq(Nat) /\ w \in Seq(Nat)
  BY DEF Digit
<1>8. z + k = Len(v) /\ z \in Nat
  BY <1>3, <1>7
<1> HIDE DEF s, t, k, z
<1>9. ASSUME NEW i \in 1 .. Len(v)
      PROVE  v[i] = w[i]
  <2>1. CASE i <= z
    BY <1>3, <1>6, <1>8, <2>1
  <2>2. CASE i > z
    <3>1. i - z \in 1 .. k /\ z + (i - z) = i
      BY <1>3, <1>7, <1>8, <2>2
    <3>2. s[i - z] = v[z + (i - z)] /\ t[i - z] = w[z + (i - z)] /\ s[i - z] = t[i - z]
      BY <1>3, <1>4, <1>6, <3>1
    <3> QED BY <3>1, <3>2
  <2> QED BY <1>8, <2>1, <2>2
<1> QED BY <1>4, <1>7, <1>9, SameDigits

\* Of two numbers the token of the one comes first that comes first for a reader.
LEMMA NumbersByValue ==
    ASSUME NEW v \in Seq(Digit), NEW w \in Seq(Digit), v # <<>>, w # <<>>
    PROVE  NumberBefore(v, w) <=> <<Number(v), Number(w)>> \in TokenOrder
<1>1. Number(v) \in Seq(Nat) /\ Number(w) \in Seq(Nat)
  BY NumberPlaces
<1>2. /\ Value(v) \in Nat /\ Value(w) \in Nat /\ Len(v) \in Nat /\ Len(w) \in Nat
  BY ValueIsNat
<1>3. ASSUME NumberBefore(v, w)
      PROVE  <<Number(v), Number(w)>> \in TokenOrder
  <2>1. ~NumberBefore(w, v) /\ v # w
    BY <1>2, <1>3 DEF NumberBefore
  <2>2. Number(v) # Number(w)
    BY <2>1, NumberTokenSame
  <2>3. ~(<<Number(w), Number(v)>> \in TokenOrder)
    BY <2>1, NumberTokenBefore
  <2> QED BY <1>1, <2>2, <2>3, TokensOrdered DEF Ordered
<1> QED BY <1>3, NumberTokenBefore

\* Of two texts the token of the one comes first that comes first by its letters.
LEMMA TextsByLetters ==
    ASSUME NEW v \in Seq(Nat), NEW w \in Seq(Nat)
    PROVE  WordBefore(v, w) <=> <<Text(v), Text(w)>> \in TokenOrder
<1> DEFINE s == [i \in DOMAIN v |-> Lowercase(v[i])]
           t == [i \in DOMAIN w |-> Lowercase(w[i])]
           a == Text(v)
           b == Text(w)
<1>1. s \in Seq(Nat) /\ Len(s) = Len(v) /\ \A i \in 1 .. Len(v) : s[i] = Lowercase(v[i])
  BY SmallLetters
<1>2. t \in Seq(Nat) /\ Len(t) = Len(w) /\ \A i \in 1 .. Len(w) : t[i] = Lowercase(w[i])
  BY SmallLetters
<1>3. /\ a \in Seq(Nat) /\ Len(a) = Len(v) + 1 /\ a[1] = 1
      /\ \A i \in 1 .. Len(v) : a[1 + i] = Lowercase(v[i])
  BY TextPlaces
<1>4. /\ b \in Seq(Nat) /\ Len(b) = Len(w) + 1 /\ b[1] = 1
      /\ \A i \in 1 .. Len(w) : b[1 + i] = Lowercase(w[i])
  BY TextPlaces
<1>5. WordBefore(v, w) <=> <<s, t>> \in TokenOrder
  <2>1. WordBefore(v, w) <=> TokenBefore(s, t)
    BY DEF WordBefore, TokenBefore
  <2> HIDE DEF s, t
  <2> QED BY <1>1, <1>2, <2>1, TokenBeforeIs
<1>6. Len(v) \in Nat /\ Len(w) \in Nat
  OBVIOUS
<1> HIDE DEF s, t, a, b
<1>7. /\ Len(a) = Len(s) + 1 /\ \A i \in 1 .. Len(s) : a[1 + i] = s[i]
      /\ Len(b) = Len(t) + 1 /\ \A i \in 1 .. Len(t) : b[1 + i] = t[i]
      /\ Len(s) \in Nat /\ Len(t) \in Nat
  BY <1>1, <1>2, <1>3, <1>4, <1>6
<1>8. ASSUME NEW n \in Nat, DecidedAt(s, t, Smaller, n)
      PROVE  DecidedAt(a, b, Smaller, n + 1)
  <2>1. \A i \in 1 .. n + 1 : a[i] = b[i]
    <3> SUFFICES ASSUME NEW i \in 1 .. n + 1
                 PROVE  a[i] = b[i]
      OBVIOUS
    <3>1. CASE i = 1
      BY <1>3, <1>4, <3>1
    <3>2. CASE i # 1
      <4> DEFINE j == i - 1
      <4>1. j \in 1 .. n /\ j \in 1 .. Len(s) /\ j \in 1 .. Len(t) /\ i = 1 + j
        BY <1>7, <1>8, <3>2 DEF DecidedAt
      <4> HIDE DEF j
      <4>2. s[j] = t[j]
        BY <1>8, <4>1 DEF DecidedAt
      <4> QED BY <1>7, <4>1, <4>2
    <3> QED BY <3>1, <3>2
  <2>2. CASE n = Len(s) /\ n < Len(t)
    BY <1>7, <2>1, <2>2 DEF DecidedAt
  <2>3. CASE n < Len(s) /\ n < Len(t) /\ <<s[n + 1], t[n + 1]>> \in Smaller
    <3> DEFINE j == n + 1
    <3>1. j \in 1 .. Len(s) /\ j \in 1 .. Len(t) /\ j \in Nat /\ j < Len(a) /\ j < Len(b)
      BY <1>7, <2>3
    <3>2. <<s[j], t[j]>> \in Smaller /\ \A i \in 1 .. j : a[i] = b[i]
      BY <2>1, <2>3
    <3> HIDE DEF j
    <3>3. a[1 + j] = s[j] /\ b[1 + j] = t[j] /\ 1 + j = j + 1
      BY <1>7, <3>1
    <3>4. <<a[j + 1], b[j + 1]>> \in Smaller
      BY <3>2, <3>3
    <3>5. DecidedAt(a, b, Smaller, j)
      BY <3>1, <3>2, <3>4 DEF DecidedAt
    <3> QED BY <3>5 DEF j
  <2> QED BY <1>8, <2>2, <2>3 DEF DecidedAt
<1>9. ASSUME NEW n \in Nat, DecidedAt(a, b, Smaller, n)
      PROVE  n # 0 /\ DecidedAt(s, t, Smaller, n - 1)
  <2>1. n # 0
    <3> SUFFICES ASSUME n = 0 PROVE FALSE
      OBVIOUS
    <3>1. <<a[1], b[1]>> \in Smaller
      BY <1>7, <1>9 DEF DecidedAt
    <3> QED BY <1>3, <1>4, <3>1 DEF Smaller
  <2>2. ASSUME NEW i \in 1 .. n - 1
        PROVE  s[i] = t[i]
    <3>1. 1 + i \in 1 .. n /\ i \in 1 .. Len(s) /\ i \in 1 .. Len(t)
      BY <1>7, <1>9 DEF DecidedAt
    <3>2. a[1 + i] = b[1 + i]
      BY <1>9, <3>1 DEF DecidedAt
    <3> QED BY <1>7, <3>1, <3>2
  <2>3. CASE n = Len(a) /\ n < Len(b)
    BY <1>7, <2>1, <2>2, <2>3 DEF DecidedAt
  <2>4. CASE n < Len(a) /\ n < Len(b) /\ <<a[n + 1], b[n + 1]>> \in Smaller
    <3>1. n \in 1 .. Len(s) /\ n \in 1 .. Len(t) /\ n + 1 = 1 + n /\ (n - 1) + 1 = n
      BY <1>7, <2>1, <2>4
    <3>2. a[1 + n] = s[n] /\ b[1 + n] = t[n]
      BY <1>7, <3>1
    <3>3. <<s[n], t[n]>> \in Smaller
      BY <2>4, <3>1, <3>2
    <3>4. n - 1 \in Nat /\ n - 1 < Len(s) /\ n - 1 < Len(t)
      BY <1>7, <3>1
    <3> QED BY <2>1, <2>2, <3>1, <3>3, <3>4 DEF DecidedAt
  <2> QED BY <1>9, <2>1, <2>3, <2>4 DEF DecidedAt
<1>10. <<s, t>> \in TokenOrder => <<a, b>> \in TokenOrder
  <2> SUFFICES ASSUME <<s, t>> \in TokenOrder
               PROVE  <<a, b>> \in TokenOrder
    OBVIOUS
  <2>1. PICK n \in Nat : DecidedAt(s, t, Smaller, n)
    BY <1>1, <1>2, LexMember DEF TokenOrder
  <2>2. DecidedAt(a, b, Smaller, n + 1) /\ n + 1 \in Nat
    BY <1>8, <2>1
  <2> QED BY <1>3, <1>4, <2>2, LexMember DEF TokenOrder
<1>11. <<a, b>> \in TokenOrder => <<s, t>> \in TokenOrder
  <2> SUFFICES ASSUME <<a, b>> \in TokenOrder
               PROVE  <<s, t>> \in TokenOrder
    OBVIOUS
  <2>1. PICK n \in Nat : DecidedAt(a, b, Smaller, n)
    BY <1>3, <1>4, LexMember DEF TokenOrder
  <2>2. DecidedAt(s, t, Smaller, n - 1) /\ n - 1 \in Nat
    BY <1>9, <2>1
  <2> QED BY <1>1, <1>2, <2>2, LexMember DEF TokenOrder
<1> QED BY <1>5, <1>10, <1>11 DEF a, b

\* Texts with one token have the same letters.
LEMMA TextTokenSame ==
    ASSUME NEW v \in Seq(Nat), NEW w \in Seq(Nat)
    PROVE  Text(v) = Text(w) <=> [i \in DOMAIN v |-> Lowercase(v[i])]
                                     = [i \in DOMAIN w |-> Lowercase(w[i])]
<1> DEFINE s == [i \in DOMAIN v |-> Lowercase(v[i])]
           t == [i \in DOMAIN w |-> Lowercase(w[i])]
<1>1. Text(v) = <<1>> \o s /\ Text(w) = <<1>> \o t
  BY DEF Text
<1>2. s = t => Text(v) = Text(w)
  BY <1>1
<1>3. ASSUME Text(v) = Text(w)
      PROVE  s = t
  <2>1. Len(v) = Len(w)
    <3>1. Len(Text(v)) = Len(v) + 1 /\ Len(Text(w)) = Len(w) + 1
      BY TextPlaces
    <3>2. Len(v) \in Nat /\ Len(w) \in Nat
      OBVIOUS
    <3> QED BY <1>3, <3>1, <3>2
  <2>2. \A i \in 1 .. Len(v) : Lowercase(v[i]) = Lowercase(w[i])
    <3>1. \A i \in 1 .. Len(v) : Text(v)[1 + i] = Lowercase(v[i])
      BY TextPlaces
    <3>2. \A i \in 1 .. Len(w) : Text(w)[1 + i] = Lowercase(w[i])
      BY TextPlaces
    <3> QED BY <1>3, <2>1, <3>1, <3>2
  <2> QED BY <2>1, <2>2
<1> QED BY <1>2, <1>3

\* A run that begins with a digit is a number, another is none.
LEMMA RunIsOne ==
    ASSUME NEW r \in Run
    PROVE  /\ r \in Seq(Nat) /\ r # <<>> /\ 1 \in 1 .. Len(r)
           /\ IsDigit(r[1]) => r \in Seq(Digit) /\ Token(r) = Number(r)
           /\ ~IsDigit(r[1]) => Token(r) = Text(r)
<1>1. r \in Seq(Nat) /\ r # <<>> /\ 1 \in 1 .. Len(r) /\ (Digits(r) \/ NoDigits(r))
  BY DEF Run
<1>2. ASSUME IsDigit(r[1])
      PROVE  r \in Seq(Digit)
  <2>1. Digits(r)
    BY <1>1, <1>2 DEF NoDigits
  <2>2. \A i \in 1 .. Len(r) : r[i] \in Nat
    BY <1>1
  <2>3. \A i \in 1 .. Len(r) : r[i] \in Digit
    BY <2>1, <2>2 DEF Digits, IsDigit, Digit
  <2> QED BY <1>1, <2>3
<1> QED BY <1>1, <1>2 DEF Token

\* Tokens are sequences of numbers, and tell runs of digits from others.
LEMMA TokenIs ==
    ASSUME NEW r \in Run
    PROVE  /\ Token(r) \in Seq(Nat) /\ 1 <= Len(Token(r))
           /\ Token(r)[1] = IF IsDigit(r[1]) THEN 0 ELSE 1
<1>1. CASE IsDigit(r[1])
  <2>1. r \in Seq(Digit) /\ r # <<>> /\ Token(r) = Number(r)
    BY <1>1, RunIsOne
  <2>2. Len(Significant(r)) \in Nat
    BY <2>1, SignificantOf
  <2> QED BY <1>1, <2>1, <2>2, NumberPlaces
<1>2. CASE ~IsDigit(r[1])
  <2>1. r \in Seq(Nat) /\ Token(r) = Text(r)
    BY <1>2, RunIsOne
  <2>2. Len(r) \in Nat
    BY <2>1
  <2> QED BY <1>2, <2>1, <2>2, TextPlaces
<1> QED BY <1>1, <1>2

\* A number comes before a text.
LEMMA NumbersFirst ==
    ASSUME NEW r \in Run, NEW q \in Run, IsDigit(r[1]), ~IsDigit(q[1])
    PROVE  <<Token(r), Token(q)>> \in TokenOrder
<1>1. Token(r) \in Seq(Nat) /\ 1 <= Len(Token(r)) /\ Token(r)[1] = 0
  BY TokenIs
<1>2. Token(q) \in Seq(Nat) /\ 1 <= Len(Token(q)) /\ Token(q)[1] = 1
  BY TokenIs
<1>3. DecidedAt(Token(r), Token(q), Smaller, 0)
  <2>1. Len(Token(r)) \in Nat /\ Len(Token(q)) \in Nat
    BY <1>1, <1>2
  <2>2. <<Token(r)[0 + 1], Token(q)[0 + 1]>> \in Smaller
    BY <1>1, <1>2 DEF Smaller
  <2> QED BY <1>1, <1>2, <2>1, <2>2 DEF DecidedAt
<1> QED BY <1>1, <1>2, <1>3, LexMember DEF TokenOrder

\* Runs that a reader takes for the same are those with one token.
LEMMA SameRunIs ==
    ASSUME NEW r \in Run, NEW q \in Run
    PROVE  SameRun(r, q) <=> Token(r) = Token(q)
<1>1. r \in Seq(Nat) /\ q \in Seq(Nat) /\ r # <<>> /\ q # <<>>
  BY RunIsOne
<1>2. CASE IsDigit(r[1]) /\ IsDigit(q[1])
  <2>1. r \in Seq(Digit) /\ q \in Seq(Digit) /\ Token(r) = Number(r) /\ Token(q) = Number(q)
    BY <1>2, RunIsOne
  <2>2. Number(r) = Number(q) => r = q
    BY <1>1, <2>1, NumberTokenSame
  <2>3. SameRun(r, q) <=> r = q
    BY <1>2 DEF SameRun
  <2> QED BY <2>1, <2>2, <2>3
<1>3. CASE ~IsDigit(r[1]) /\ ~IsDigit(q[1])
  <2>1. Token(r) = Text(r) /\ Token(q) = Text(q)
    BY <1>3, RunIsOne
  <2>2. SameRun(r, q) <=> Text(r) = Text(q)
    BY <1>1, <1>3, TextTokenSame DEF SameRun
  <2> QED BY <2>1, <2>2
<1>4. CASE IsDigit(r[1]) /\ ~IsDigit(q[1])
  <2>1. Token(r) # Token(q)
    BY <1>4, TokenIs
  <2>2. ~SameRun(r, q)
    BY <1>4 DEF SameRun
  <2> QED BY <2>1, <2>2
<1>5. CASE ~IsDigit(r[1]) /\ IsDigit(q[1])
  <2>1. Token(r) # Token(q)
    BY <1>5, TokenIs
  <2>2. ~SameRun(r, q)
    <3> SUFFICES ASSUME SameRun(r, q) PROVE FALSE
      OBVIOUS
    <3>1. [i \in DOMAIN r |-> Lowercase(r[i])] = [i \in DOMAIN q |-> Lowercase(q[i])]
      BY <1>5 DEF SameRun
    <3>2. 1 \in DOMAIN r /\ 1 \in DOMAIN q /\ r[1] \in Nat /\ q[1] \in Nat
      BY <1>1
    <3>3. Lowercase(r[1]) = Lowercase(q[1])
      BY <3>1, <3>2
    <3> QED BY <1>5, <3>2, <3>3, LowercaseKeepsDigits
  <2> QED BY <2>1, <2>2
<1> QED BY <1>2, <1>3, <1>4, <1>5

\* Of two runs the token of the one comes first that comes first for a reader.
LEMMA RunBeforeIs ==
    ASSUME NEW r \in Run, NEW q \in Run
    PROVE  RunBefore(r, q) <=> <<Token(r), Token(q)>> \in TokenOrder
<1>1. r \in Seq(Nat) /\ q \in Seq(Nat) /\ r # <<>> /\ q # <<>>
  BY RunIsOne
<1>2. CASE IsDigit(r[1]) /\ IsDigit(q[1])
  <2>1. r \in Seq(Digit) /\ q \in Seq(Digit) /\ Token(r) = Number(r) /\ Token(q) = Number(q)
    BY <1>2, RunIsOne
  <2>2. RunBefore(r, q) <=> NumberBefore(r, q)
    BY <1>2 DEF RunBefore, NumberBefore
  <2> QED BY <1>1, <2>1, <2>2, NumbersByValue
<1>3. CASE ~IsDigit(r[1]) /\ ~IsDigit(q[1])
  <2>1. Token(r) = Text(r) /\ Token(q) = Text(q)
    BY <1>3, RunIsOne
  <2>2. RunBefore(r, q) <=> WordBefore(r, q)
    BY <1>3 DEF RunBefore
  <2> QED BY <1>1, <2>1, <2>2, TextsByLetters
<1>4. CASE IsDigit(r[1]) /\ ~IsDigit(q[1])
  <2>1. RunBefore(r, q)
    BY <1>4 DEF RunBefore
  <2> QED BY <1>4, <2>1, NumbersFirst
<1>5. CASE ~IsDigit(r[1]) /\ IsDigit(q[1])
  <2>1. ~RunBefore(r, q)
    BY <1>5 DEF RunBefore
  <2>2. <<Token(q), Token(r)>> \in TokenOrder
    BY <1>5, NumbersFirst
  <2>3. Token(r) \in Seq(Nat) /\ Token(q) \in Seq(Nat)
    BY TokenIs
  <2>4. ~(<<Token(r), Token(q)>> \in TokenOrder)
    BY <2>2, <2>3, TokensOrdered DEF Ordered
  <2> QED BY <2>1, <2>4
<1> QED BY <1>2, <1>3, <1>4, <1>5
-----------------------------------------------------------------------------
(* Names.  Their keys are in the order in which a reader looks for them.      *)

NameOrder == LexOrder(Seq(Nat), TokenOrder)

\* Keys are ordered, whatever their length.
LEMMA NamesOrdered == Ordered(NameOrder, Seq(Seq(Nat)))
BY TokensOrdered, LexOrdered DEF NameOrder

\* A key has one token for each run of its name.
LEMMA KeyIs ==
    ASSUME NEW name \in Seq(Nat), NEW k, k = NaturalNameKey(name), NEW v, v = Runs(name)
    PROVE  /\ v \in Seq(Run) /\ k \in Seq(Seq(Nat)) /\ Len(k) = Len(v)
           /\ \A i \in 1 .. Len(v) : v[i] \in Run /\ k[i] = Token(v[i])
<1>1. v \in Seq(Run)
  BY RunsOfName
<1>2. k = [i \in DOMAIN v |-> Token(v[i])]
  BY DEF NaturalNameKey, Token
<1>3. Len(v) \in Nat /\ DOMAIN v = 1 .. Len(v) /\ \A i \in 1 .. Len(v) : v[i] \in Run
  BY <1>1
<1> DEFINE n == Len(v)
<1>4. \A i \in 1 .. n : Token(v[i]) \in Seq(Nat)
  BY <1>3, TokenIs
<1> HIDE DEF n
<1>5. k \in [1 .. n -> Seq(Nat)]
  BY <1>2, <1>3, <1>4 DEF n
<1>6. k \in Seq(Seq(Nat)) /\ Len(k) = n
  BY <1>3, <1>5 DEF n
<1> QED BY <1>1, <1>2, <1>3, <1>6 DEF n

\* The order of the keys that the code sorts by is that set.
LEMMA KeysBeforeIs ==
    ASSUME NEW k \in Seq(Seq(Nat)), NEW l \in Seq(Seq(Nat))
    PROVE  Lexicographic(k, l, TokenBefore) <=> <<k, l>> \in NameOrder
<1>1. Len(k) \in Nat /\ Len(l) \in Nat
  OBVIOUS
<1>2. (\A i \in 1 .. Len(k) : k[i] \in Seq(Nat)) /\ (\A i \in 1 .. Len(l) : l[i] \in Seq(Nat))
  OBVIOUS
<1>3. ASSUME NEW n \in Nat, n < Len(k), n < Len(l)
      PROVE  TokenBefore(k[n + 1], l[n + 1]) <=> <<k[n + 1], l[n + 1]>> \in TokenOrder
  <2>1. n + 1 \in 1 .. Len(k) /\ n + 1 \in 1 .. Len(l)
    BY <1>1, <1>3
  <2>2. k[n + 1] \in Seq(Nat) /\ l[n + 1] \in Seq(Nat)
    BY <1>2, <2>1
  <2> QED BY <2>2, TokenBeforeIs
<1>4. ASSUME Lexicographic(k, l, TokenBefore)
      PROVE  \E n \in Nat : DecidedAt(k, l, TokenOrder, n)
  <2>1. PICK n \in 0 .. Len(k) :
           /\ n <= Len(l) /\ \A i \in 1 .. n : k[i] = l[i]
           /\ \/ n = Len(k) /\ n < Len(l)
              \/ n < Len(k) /\ n < Len(l) /\ TokenBefore(k[n + 1], l[n + 1])
    BY <1>4 DEF Lexicographic
  <2>2. n \in Nat /\ n <= Len(k)
    BY <1>1
  <2>3. DecidedAt(k, l, TokenOrder, n)
    BY <1>3, <2>1, <2>2 DEF DecidedAt
  <2> QED BY <2>2, <2>3
<1>5. ASSUME NEW n \in Nat, DecidedAt(k, l, TokenOrder, n)
      PROVE  Lexicographic(k, l, TokenBefore)
  <2>1. /\ n \in 0 .. Len(k) /\ n <= Len(l) /\ \A i \in 1 .. n : k[i] = l[i]
        /\ \/ n = Len(k) /\ n < Len(l)
           \/ n < Len(k) /\ n < Len(l) /\ TokenBefore(k[n + 1], l[n + 1])
    BY <1>1, <1>3, <1>5 DEF DecidedAt
  <2> QED BY <2>1 DEF Lexicographic
<1>6. <<k, l>> \in NameOrder <=> \E n \in Nat : DecidedAt(k, l, TokenOrder, n)
  BY LexMember DEF NameOrder
<1> QED BY <1>4, <1>5, <1>6

\* A reader's order of names is the order of their keys.
LEMMA NameBeforeIs ==
    ASSUME NEW a \in Seq(Nat), NEW b \in Seq(Nat)
    PROVE  NameBefore(a, b) <=> <<NaturalNameKey(a), NaturalNameKey(b)>> \in NameOrder
<1> DEFINE v == Runs(a)
           w == Runs(b)
           k == NaturalNameKey(a)
           l == NaturalNameKey(b)
<1>1. /\ v \in Seq(Run) /\ k \in Seq(Seq(Nat)) /\ Len(k) = Len(v)
      /\ \A i \in 1 .. Len(v) : v[i] \in Run /\ k[i] = Token(v[i])
  BY KeyIs
<1>2. /\ w \in Seq(Run) /\ l \in Seq(Seq(Nat)) /\ Len(l) = Len(w)
      /\ \A i \in 1 .. Len(w) : w[i] \in Run /\ l[i] = Token(w[i])
  BY KeyIs
<1>3. NameBefore(a, b) <=>
        \E n \in 0 .. Len(v) :
           /\ n <= Len(w) /\ \A i \in 1 .. n : SameRun(v[i], w[i])
           /\ \/ n = Len(v) /\ n < Len(w)
              \/ n < Len(v) /\ n < Len(w) /\ RunBefore(v[n + 1], w[n + 1])
  BY DEF NameBefore
<1> HIDE DEF v, w, k, l
<1>4. Len(v) \in Nat /\ Len(w) \in Nat
  BY <1>1, <1>2
<1>5. ASSUME NEW i \in 1 .. Len(v), i \in 1 .. Len(w)
      PROVE  /\ SameRun(v[i], w[i]) <=> k[i] = l[i]
             /\ RunBefore(v[i], w[i]) <=> <<k[i], l[i]>> \in TokenOrder
  <2>1. v[i] \in Run /\ w[i] \in Run /\ k[i] = Token(v[i]) /\ l[i] = Token(w[i])
    BY <1>1, <1>2, <1>5
  <2>2. SameRun(v[i], w[i]) <=> Token(v[i]) = Token(w[i])
    BY <2>1, SameRunIs
  <2>3. RunBefore(v[i], w[i]) <=> <<Token(v[i]), Token(w[i])>> \in TokenOrder
    BY <2>1, RunBeforeIs
  <2> QED BY <2>1, <2>2, <2>3
<1>6. ASSUME NEW n \in 0 .. Len(v), n <= Len(w)
      PROVE  (\A i \in 1 .. n : SameRun(v[i], w[i])) <=> (\A i \in 1 .. n : k[i] = l[i])
  <2>1. \A i \in 1 .. n : i \in 1 .. Len(v) /\ i \in 1 .. Len(w)
    BY <1>4, <1>6
  <2> QED BY <1>5, <2>1
<1>7. ASSUME NEW n \in 0 .. Len(v), n < Len(v), n < Len(w)
      PROVE  RunBefore(v[n + 1], w[n + 1]) <=> <<k[n + 1], l[n + 1]>> \in TokenOrder
  <2>1. n + 1 \in 1 .. Len(v) /\ n + 1 \in 1 .. Len(w)
    BY <1>4, <1>7
  <2> QED BY <1>5, <2>1
<1>8. ASSUME NEW n \in 0 .. Len(v), n <= Len(w),
             \A i \in 1 .. n : SameRun(v[i], w[i]),
             \/ n = Len(v) /\ n < Len(w)
             \/ n < Len(v) /\ n < Len(w) /\ RunBefore(v[n + 1], w[n + 1])
      PROVE  \E m \in Nat : DecidedAt(k, l, TokenOrder, m)
  <2>1. n \in Nat /\ n <= Len(v)
    BY <1>4
  <2>2. DecidedAt(k, l, TokenOrder, n)
    BY <1>1, <1>2, <1>6, <1>7, <1>8, <2>1 DEF DecidedAt
  <2> QED BY <2>1, <2>2
<1>9. ASSUME NEW n \in Nat, DecidedAt(k, l, TokenOrder, n)
      PROVE  /\ n \in 0 .. Len(v) /\ n <= Len(w)
             /\ \A i \in 1 .. n : SameRun(v[i], w[i])
             /\ \/ n = Len(v) /\ n < Len(w)
                \/ n < Len(v) /\ n < Len(w) /\ RunBefore(v[n + 1], w[n + 1])
  <2>1. n \in 0 .. Len(v) /\ n <= Len(w)
    BY <1>1, <1>2, <1>4, <1>9 DEF DecidedAt
  <2>2. \A i \in 1 .. n : SameRun(v[i], w[i])
    BY <1>6, <1>9, <2>1 DEF DecidedAt
  <2> QED BY <1>1, <1>2, <1>7, <1>9, <2>1, <2>2 DEF DecidedAt
<1>10. <<k, l>> \in NameOrder <=> \E n \in Nat : DecidedAt(k, l, TokenOrder, n)
  BY <1>1, <1>2, LexMember DEF NameOrder
<1> QED BY <1>3, <1>8, <1>9, <1>10 DEF k, l

\* Names of the same runs.
SameName(a, b) == /\ Len(Runs(a)) = Len(Runs(b))
                  /\ \A i \in 1 .. Len(Runs(a)) : SameRun(Runs(a)[i], Runs(b)[i])

\* The natural order is one that a list can be sorted by: no name comes before
\* itself, what comes before the earlier comes before the later, and of two names
\* one comes first unless they have the same runs.
THEOREM NaturalOrder ==
    \A a, b, c \in Seq(Nat) :
        /\ ~NameBefore(a, a)
        /\ NameBefore(a, b) /\ NameBefore(b, c) => NameBefore(a, c)
        /\ NameBefore(a, b) \/ NameBefore(b, a) \/ SameName(a, b)
<1> SUFFICES ASSUME NEW a \in Seq(Nat), NEW b \in Seq(Nat), NEW c \in Seq(Nat)
             PROVE  /\ ~NameBefore(a, a)
                    /\ NameBefore(a, b) /\ NameBefore(b, c) => NameBefore(a, c)
                    /\ NameBefore(a, b) \/ NameBefore(b, a) \/ SameName(a, b)
  OBVIOUS
<1> DEFINE k == NaturalNameKey(a)
           l == NaturalNameKey(b)
           m == NaturalNameKey(c)
           v == Runs(a)
           w == Runs(b)
<1>1. /\ v \in Seq(Run) /\ k \in Seq(Seq(Nat)) /\ Len(k) = Len(v)
      /\ \A i \in 1 .. Len(v) : v[i] \in Run /\ k[i] = Token(v[i])
  BY KeyIs
<1>2. /\ w \in Seq(Run) /\ l \in Seq(Seq(Nat)) /\ Len(l) = Len(w)
      /\ \A i \in 1 .. Len(w) : w[i] \in Run /\ l[i] = Token(w[i])
  BY KeyIs
<1>3. m \in Seq(Seq(Nat))
  BY KeyIs
<1>4. /\ NameBefore(a, a) <=> <<k, k>> \in NameOrder
      /\ NameBefore(a, b) <=> <<k, l>> \in NameOrder
      /\ NameBefore(b, a) <=> <<l, k>> \in NameOrder
      /\ NameBefore(b, c) <=> <<l, m>> \in NameOrder
      /\ NameBefore(a, c) <=> <<k, m>> \in NameOrder
  BY NameBeforeIs
<1>5. SameName(a, b) <=> Len(v) = Len(w) /\ \A i \in 1 .. Len(v) : SameRun(v[i], w[i])
  BY DEF SameName
<1> HIDE DEF k, l, m, v, w
<1>6. k = l => SameName(a, b)
  <2> SUFFICES ASSUME k = l PROVE SameName(a, b)
    OBVIOUS
  <2>1. Len(v) = Len(w)
    BY <1>1, <1>2
  <2>2. ASSUME NEW i \in 1 .. Len(v)
        PROVE  SameRun(v[i], w[i])
    <3>1. v[i] \in Run /\ w[i] \in Run /\ Token(v[i]) = Token(w[i])
      BY <1>1, <1>2, <2>1
    <3> QED BY <3>1, SameRunIs
  <2> QED BY <1>5, <2>1, <2>2
<1> QED BY <1>1, <1>2, <1>3, <1>4, <1>6, NamesOrdered DEF Ordered
-----------------------------------------------------------------------------
(* The order of entries: folders first, then by name, then as they came.      *)

IsDirectory(e) == "directory" \in e.attributes
EntryBefore(e, f) == KeyBefore(DirectorySortKey(e), DirectorySortKey(f))
InPlace(dir, i, j) == EntryBefore(dir[i], dir[j]) \/ (~EntryBefore(dir[j], dir[i]) /\ i < j)
Places(dir) == {p \in (1 .. Len(dir)) \X (1 .. Len(dir)) : InPlace(dir, p[1], p[2])}

\* What comes first of two entries.
LEMMA EntryBeforeIs ==
    ASSUME NEW e \in DirEntries, NEW f \in DirEntries
    PROVE  EntryBefore(e, f) <=>
             \/ IsDirectory(e) /\ ~IsDirectory(f)
             \/ /\ IsDirectory(e) <=> IsDirectory(f)
                /\ <<NaturalNameKey(e.name), NaturalNameKey(f.name)>> \in NameOrder
<1> DEFINE k == NaturalNameKey(e.name)
           l == NaturalNameKey(f.name)
<1>1. e.name \in Seq(Nat) /\ f.name \in Seq(Nat)
  BY DEF DirEntries
<1>2. k \in Seq(Seq(Nat)) /\ l \in Seq(Seq(Nat))
  BY <1>1, KeyIs
<1>3. /\ DirectorySortKey(e).file = ~IsDirectory(e) /\ DirectorySortKey(e).name = k
      /\ DirectorySortKey(f).file = ~IsDirectory(f) /\ DirectorySortKey(f).name = l
  BY DEF DirectorySortKey, IsDirectory
<1> HIDE DEF k, l
<1>4. Lexicographic(k, l, TokenBefore) <=> <<k, l>> \in NameOrder
  BY <1>2, KeysBeforeIs
<1>5. EntryBefore(e, f) <=>
        \/ IsDirectory(e) /\ ~IsDirectory(f)
        \/ (IsDirectory(e) <=> IsDirectory(f)) /\ Lexicographic(k, l, TokenBefore)
  <2>1. EntryBefore(e, f) <=>
          \/ ~DirectorySortKey(e).file /\ DirectorySortKey(f).file
          \/ /\ DirectorySortKey(e).file = DirectorySortKey(f).file
             /\ Lexicographic(DirectorySortKey(e).name, DirectorySortKey(f).name, TokenBefore)
    BY DEF EntryBefore, KeyBefore
  <2> QED BY <1>3, <2>1, Zenon
<1> QED BY <1>4, <1>5 DEF k, l

\* An order of entries that need not tell them apart.
LEMMA EntriesOrdered ==
    ASSUME NEW e \in DirEntries, NEW f \in DirEntries, NEW g \in DirEntries
    PROVE  /\ ~EntryBefore(e, e)
           /\ EntryBefore(e, f) => ~EntryBefore(f, e)
           /\ EntryBefore(e, f) /\ EntryBefore(f, g) => EntryBefore(e, g)
           /\ EntryBefore(e, f) /\ ~EntryBefore(g, f) => EntryBefore(e, g)
           /\ EntryBefore(f, g) /\ ~EntryBefore(f, e) => EntryBefore(e, g)
           /\ ~EntryBefore(f, e) /\ ~EntryBefore(g, f) => ~EntryBefore(g, e)
<1> DEFINE k == NaturalNameKey(e.name)
           l == NaturalNameKey(f.name)
           m == NaturalNameKey(g.name)
           Before(x, y) == <<x, y>> \in NameOrder
<1>1. e.name \in Seq(Nat) /\ f.name \in Seq(Nat) /\ g.name \in Seq(Nat)
  BY DEF DirEntries
<1>2. k \in Seq(Seq(Nat)) /\ l \in Seq(Seq(Nat)) /\ m \in Seq(Seq(Nat))
  BY <1>1, KeyIs
<1>3. /\ EntryBefore(e, e) <=> Before(k, k)
      /\ EntryBefore(e, f) <=> \/ IsDirectory(e) /\ ~IsDirectory(f)
                               \/ (IsDirectory(e) <=> IsDirectory(f)) /\ Before(k, l)
      /\ EntryBefore(f, e) <=> \/ IsDirectory(f) /\ ~IsDirectory(e)
                               \/ (IsDirectory(f) <=> IsDirectory(e)) /\ Before(l, k)
      /\ EntryBefore(e, g) <=> \/ IsDirectory(e) /\ ~IsDirectory(g)
                               \/ (IsDirectory(e) <=> IsDirectory(g)) /\ Before(k, m)
      /\ EntryBefore(g, e) <=> \/ IsDirectory(g) /\ ~IsDirectory(e)
                               \/ (IsDirectory(g) <=> IsDirectory(e)) /\ Before(m, k)
      /\ EntryBefore(f, g) <=> \/ IsDirectory(f) /\ ~IsDirectory(g)
                               \/ (IsDirectory(f) <=> IsDirectory(g)) /\ Before(l, m)
      /\ EntryBefore(g, f) <=> \/ IsDirectory(g) /\ ~IsDirectory(f)
                               \/ (IsDirectory(g) <=> IsDirectory(f)) /\ Before(m, l)
  BY EntryBeforeIs
<1> HIDE DEF k, l, m
<1>4. /\ ~Before(k, k) /\ ~Before(l, l) /\ ~Before(m, m)
      /\ Before(k, l) \/ Before(l, k) \/ k = l
      /\ Before(l, m) \/ Before(m, l) \/ l = m
  BY <1>2, NamesOrdered DEF Ordered
<1>5. /\ Before(k, l) => ~Before(l, k)
      /\ Before(l, m) => ~Before(m, l)
      /\ Before(k, m) => ~Before(m, k)
  BY <1>2, NamesOrdered DEF Ordered
<1>6. /\ Before(k, l) /\ Before(l, m) => Before(k, m)
      /\ Before(m, l) /\ Before(l, k) => Before(m, k)
  BY <1>2, NamesOrdered DEF Ordered
<1> HIDE DEF Before
<1> QED BY <1>3, <1>4, <1>5, <1>6

\* With the places for those that come as early, it is total.
LEMMA PlacesOrdered ==
    ASSUME NEW dir \in Seq(DirEntries)
    PROVE  Ordered(Places(dir), 1 .. Len(dir))
<1> DEFINE D == 1 .. Len(dir)
<1>1. \A i \in D : dir[i] \in DirEntries /\ i \in Nat
  OBVIOUS
<1>2. \A i, j \in D : <<i, j>> \in Places(dir) <=> InPlace(dir, i, j)
  BY DEF Places
<1> HIDE DEF D
<1>3. ASSUME NEW i \in D
      PROVE  ~InPlace(dir, i, i)
  BY <1>1, EntriesOrdered DEF InPlace
<1>4. ASSUME NEW i \in D, NEW j \in D, NEW h \in D, InPlace(dir, i, j), InPlace(dir, j, h)
      PROVE  InPlace(dir, i, h)
  <2> DEFINE e == dir[i]
             f == dir[j]
             g == dir[h]
  <2>1. e \in DirEntries /\ f \in DirEntries /\ g \in DirEntries
    BY <1>1
  <2>2. /\ EntryBefore(e, f) \/ (~EntryBefore(f, e) /\ i < j)
        /\ EntryBefore(f, g) \/ (~EntryBefore(g, f) /\ j < h)
    BY <1>4 DEF InPlace
  <2>3. i < j /\ j < h => i < h
    BY <1>1
  <2> HIDE DEF e, f, g
  <2>4. EntryBefore(e, g) \/ (~EntryBefore(g, e) /\ i < h)
    <3>1. /\ EntryBefore(e, f) /\ EntryBefore(f, g) => EntryBefore(e, g)
          /\ EntryBefore(e, f) /\ ~EntryBefore(g, f) => EntryBefore(e, g)
          /\ EntryBefore(f, g) /\ ~EntryBefore(f, e) => EntryBefore(e, g)
          /\ ~EntryBefore(f, e) /\ ~EntryBefore(g, f) => ~EntryBefore(g, e)
      BY <2>1, EntriesOrdered
    <3> QED BY <2>2, <2>3, <3>1
  <2> QED BY <2>4 DEF InPlace, e, g
<1>5. ASSUME NEW i \in D, NEW j \in D, i # j
      PROVE  InPlace(dir, i, j) \/ InPlace(dir, j, i)
  <2>1. i < j \/ j < i
    BY <1>1, <1>5
  <2> QED BY <2>1 DEF InPlace
<1>6. Ordered(Places(dir), D)
  BY <1>2, <1>3, <1>4, <1>5 DEF Ordered
<1> QED BY <1>6 DEF D

\* Sorted, the entries of a directory are in that order, each once.
LEMMA Sorted ==
    ASSUME NEW dir \in Seq(DirEntries)
    PROVE  \E s : /\ InOrderOf(s, 1 .. Len(dir), Places(dir))
                  /\ SortEntries(dir) = [i \in 1 .. Len(dir) |-> dir[s[i]]]
<1> DEFINE D == DOMAIN dir
           key == [i \in D |-> DirectorySortKey(dir[i])]
           Precedes(i, j) == KeyBefore(key[i], key[j]) \/ (~KeyBefore(key[j], key[i]) /\ i < j)
           Is(s) == \A i, j \in DOMAIN s : i < j => Precedes(s[i], s[j])
           order == CHOOSE s \in [1 .. Cardinality(D) -> D] : Is(s)
<1>1. D = 1 .. Len(dir) /\ IsFiniteSet(D)
  <2>1. Len(dir) \in Nat /\ D = 1 .. Len(dir)
    OBVIOUS
  <2> QED BY <2>1, FS_Interval
<1>2. SortEntries(dir) = [i \in D |-> dir[order[i]]]
  BY DEF SortEntries, InOrder
<1>3. \A i, j \in D : Precedes(i, j) <=> <<i, j>> \in Places(dir)
  BY <1>1 DEF Places, InPlace, EntryBefore
<1> HIDE DEF D, key, Precedes
<1>4. Ordered(Places(dir), D)
  BY <1>1, PlacesOrdered
<1>5. PICK s \in [1 .. Cardinality(D) -> D] :
         \A i, j \in 1 .. Cardinality(D) : i < j => <<s[i], s[j]>> \in Places(dir)
  BY <1>1, <1>4, CanBeOrdered
<1>6. Is(s)
  BY <1>3, <1>5
<1> HIDE DEF Is
<1>7. order \in [1 .. Cardinality(D) -> D] /\ Is(order)
  BY <1>5, <1>6
<1> HIDE DEF order
<1>8. Puts(order, D, Places(dir))
  <2>1. ASSUME NEW i \in 1 .. Cardinality(D), NEW j \in 1 .. Cardinality(D), i < j
        PROVE  <<order[i], order[j]>> \in Places(dir)
    <3>1. order[i] \in D /\ order[j] \in D /\ Precedes(order[i], order[j])
      BY <1>7, <2>1 DEF Is
    <3> QED BY <1>3, <3>1
  <2> QED BY <1>7, <2>1 DEF Puts
<1>9. InOrderOf(order, D, Places(dir))
  BY <1>1, <1>4, <1>8, OrderedHasAll
<1> QED BY <1>1, <1>2, <1>9
-----------------------------------------------------------------------------
(* What is listed: of the entries of a directory those that are media, each   *)
(* once, in their order.                                                      *)

MediaOf(dir) == {i \in 1 .. Len(dir) : IsMediaEntry(dir[i])}

\* The places in the directory of what is listed.
Arranges(src, dir) ==
    LET n == Cardinality(MediaOf(dir)) IN
    /\ n \in Nat /\ src \in [1 .. n -> MediaOf(dir)]
    /\ \A i, j \in 1 .. n : src[i] = src[j] => i = j
    /\ \A x \in MediaOf(dir) : \E i \in 1 .. n : src[i] = x
    /\ \A i, j \in 1 .. n : i < j => InPlace(dir, src[i], src[j])
    /\ MediaEntriesOf(dir) = [i \in 1 .. n |-> MediaEntry(dir[src[i]])]

\* Every listing is such an arrangement.
LEMMA ListingArranged ==
    ASSUME NEW dir \in Seq(DirEntries)
    PROVE  \E src : Arranges(src, dir)
<1> DEFINE S == MediaOf(dir)
           n == Cardinality(S)
           kept == InOrder(S, <)
           media == [i \in 1 .. n |-> dir[kept[i]]]
<1>1. S \in SUBSET (1 .. Len(dir)) /\ S \in SUBSET Nat
  BY DEF MediaOf
<1>2. IsFiniteSet(S)
  <2>1. Len(dir) \in Nat
    OBVIOUS
  <2>2. IsFiniteSet(1 .. Len(dir))
    BY <2>1, FS_Interval
  <2> HIDE DEF S
  <2> QED BY <1>1, <2>2, FS_Subset
<1>3. InOrderOf(kept, S, Smaller)
  BY <1>1, <1>2, NumbersInOrder
<1>4. RetainMedia(dir) = [i \in DOMAIN kept |-> dir[kept[i]]]
  <2>1. {i \in DOMAIN dir : IsMediaEntry(dir[i])} = S
    BY DEF MediaOf
  <2>2. IndicesWhere(dir, IsMediaEntry) = kept
    <3>1. IndicesWhere(dir, IsMediaEntry)
             = InOrder({i \in DOMAIN dir : IsMediaEntry(dir[i])}, <)
      BY DEF IndicesWhere, InOrder
    <3> QED BY <2>1, <3>1
  <2> QED BY <2>2 DEF RetainMedia
<1>5. \A i \in 1 .. Len(dir) : dir[i] \in DirEntries
  OBVIOUS
<1> HIDE DEF S, n, kept
<1>6. /\ n \in Nat /\ kept \in [1 .. n -> S]
      /\ \A i, j \in 1 .. n : i < j => kept[i] < kept[j]
      /\ \A i, j \in 1 .. n : kept[i] = kept[j] => i = j
      /\ \A x \in S : \E i \in 1 .. n : kept[i] = x
  BY <1>3 DEF InOrderOf, Puts, Smaller, n
<1>7. /\ RetainMedia(dir) = media /\ media \in Seq(DirEntries) /\ Len(media) = n
      /\ \A i \in 1 .. n : media[i] = dir[kept[i]]
  <2>1. \A i \in 1 .. n : dir[kept[i]] \in DirEntries
    BY <1>1, <1>5, <1>6
  <2>2. media \in [1 .. n -> DirEntries]
    BY <2>1
  <2> QED BY <1>4, <1>6, <2>2
<1> HIDE DEF media
<1>8. PICK order : /\ InOrderOf(order, 1 .. n, Places(media))
                   /\ SortEntries(media) = [i \in 1 .. n |-> media[order[i]]]
  BY <1>7, Sorted
<1>9. /\ order \in [1 .. n -> 1 .. n]
      /\ \A i, j \in 1 .. n : i < j => InPlace(media, order[i], order[j])
      /\ \A i, j \in 1 .. n : order[i] = order[j] => i = j
      /\ \A x \in 1 .. n : \E i \in 1 .. n : order[i] = x
  <2>1. Cardinality(1 .. n) = n
    BY <1>6, FS_Interval
  <2> QED BY <1>8, <2>1 DEF InOrderOf, Puts, Places
<1> DEFINE src == [i \in 1 .. n |-> kept[order[i]]]
<1>10. src \in [1 .. n -> S]
  BY <1>6, <1>9
<1>11. \A i \in 1 .. n : src[i] = kept[order[i]] /\ order[i] \in 1 .. n
  BY <1>9
<1>12. MediaEntriesOf(dir) = [i \in 1 .. n |-> MediaEntry(dir[src[i]])]
  <2>1. NextMedia(dir) = [i \in 1 .. n |-> media[order[i]]]
    BY <1>7, <1>8 DEF NextMedia
  <2>2. \A i \in 1 .. n : media[order[i]] = dir[src[i]]
    BY <1>7, <1>11
  <2> HIDE DEF src
  <2>3. NextMedia(dir) = [i \in 1 .. n |-> dir[src[i]]]
    BY <2>1, <2>2
  <2> QED BY <2>3 DEF MediaEntriesOf
<1> HIDE DEF src
<1>13. \A i, j \in 1 .. n : src[i] = src[j] => i = j
  BY <1>6, <1>9, <1>11
<1>14. ASSUME NEW x \in S
       PROVE  \E i \in 1 .. n : src[i] = x
  <2>1. PICK k \in 1 .. n : kept[k] = x
    BY <1>6
  <2>2. PICK i \in 1 .. n : order[i] = k
    BY <1>9, <2>1
  <2> QED BY <1>11, <2>1, <2>2
<1>15. ASSUME NEW i \in 1 .. n, NEW j \in 1 .. n, i < j
       PROVE  InPlace(dir, src[i], src[j])
  <2> DEFINE p == order[i]
             q == order[j]
  <2>1. p \in 1 .. n /\ q \in 1 .. n /\ src[i] = kept[p] /\ src[j] = kept[q]
    BY <1>11
  <2>2. InPlace(media, p, q)
    BY <1>9, <1>15
  <2> HIDE DEF p, q
  <2>3. media[p] = dir[src[i]] /\ media[q] = dir[src[j]]
    BY <1>7, <2>1
  <2>4. p < q => src[i] < src[j]
    BY <1>6, <2>1
  <2> QED BY <2>2, <2>3, <2>4 DEF InPlace
<1>16. Arranges(src, dir)
  BY <1>6, <1>10, <1>12, <1>13, <1>14, <1>15 DEF Arranges, S, n
<1> QED BY <1>16
-----------------------------------------------------------------------------
(* The summary of a folder: which videos are films, and the largest of them.  *)

\* A sequence of the elements of a set, each once.
SequenceOf(s, S) == /\ s \in Seq(S) /\ s \in Seq(Nat)
                    /\ Len(s) = Cardinality(S) /\ ToSet(s) = S

\* The sequence of some numbers has them, and is as long as they are many.
LEMMA SequenceOfNumbers ==
    ASSUME NEW S \in SUBSET Nat, IsFiniteSet(S)
    PROVE  SequenceOf(InOrder(S, <), S)
<1> DEFINE n == Cardinality(S)
           s == InOrder(S, <)
<1>1. InOrderOf(s, S, Smaller)
  BY NumbersInOrder
<1> HIDE DEF s
<1>2. n \in Nat /\ s \in [1 .. n -> S] /\ \A x \in S : \E i \in 1 .. n : s[i] = x
  BY <1>1 DEF InOrderOf, Puts
<1> HIDE DEF n
<1>3. s \in Seq(S) /\ Len(s) = n /\ DOMAIN s = 1 .. n
  BY <1>2
<1>4. s \in Seq(Nat)
  <2>1. s \in [1 .. n -> Nat]
    BY <1>2
  <2> QED BY <1>2, <2>1
<1>5. ToSet(s) = S
  BY <1>2, <1>3 DEF ToSet
<1> QED BY <1>3, <1>4, <1>5 DEF SequenceOf, n, s

\* The least of some numbers is one of them.
LEMMA MinIsOne ==
    ASSUME NEW T \in SUBSET Nat, T # {}
    PROVE  Min(T) \in T
<1>1. \E m \in T : \A n \in T : m <= n
  BY LeastNat
<1> QED BY <1>1 DEF Min

\* A list of words and kinds has a kind for a name if the name has one of its words.
LEMMA FirstKindIs ==
    ASSUME NEW pairs \in Seq(STRING \X STRING), NEW words
    PROVE  FirstKind(pairs, words) # None <=> \E pair \in ToSet(pairs) : pair[1] \in words
<1> DEFINE found == {i \in DOMAIN pairs : pairs[i][1] \in words}
<1>1. FirstKind(pairs, words) = IF found = {} THEN None ELSE pairs[Min(found)][2]
  BY DEF FirstKind, FirstOf
<1>2. \A i \in DOMAIN pairs : i \in Nat /\ pairs[i] \in STRING \X STRING
  OBVIOUS
<1>3. found # {} <=> \E pair \in ToSet(pairs) : pair[1] \in words
  BY DEF ToSet
<1>4. found \in SUBSET Nat /\ found \in SUBSET (DOMAIN pairs)
  BY <1>2
<1> HIDE DEF found
<1>5. found # {} => pairs[Min(found)][2] \in STRING
  BY <1>2, <1>4, MinIsOne
<1>6. None \notin STRING
  BY NoneAssumption DEF NoneAssumption
<1> QED BY <1>1, <1>3, <1>5, <1>6

\* A name has a kind of extra if it has one of the words.
LEMMA ExtraKindIs ==
    ASSUME NEW marks
    PROVE  ExtraKind(marks) # None <=> marks \cap Words # {}
<1>1. FlagKinds \in Seq(STRING \X STRING) /\ MarkerKinds \in Seq(STRING \X STRING)
  BY KindsAssumption DEF KindsAssumption
<1> DEFINE flag == FirstKind(FlagKinds, marks)
           marker == FirstKind(MarkerKinds, marks)
<1>2. flag # None <=> \E pair \in ToSet(FlagKinds) : pair[1] \in marks
  BY <1>1, FirstKindIs
<1>3. marker # None <=> \E pair \in ToSet(MarkerKinds) : pair[1] \in marks
  BY <1>1, FirstKindIs
<1>4. ExtraKind(marks) = IF flag # None THEN flag ELSE marker
  BY DEF ExtraKind
<1> HIDE DEF flag, marker
<1>5. marks \cap Words # {} <=> \E pair \in ToSet(FlagKinds) \cup ToSet(MarkerKinds) :
                                   pair[1] \in marks
  BY DEF Words
<1> QED BY <1>2, <1>3, <1>4, <1>5

\* The largest of some videos is one of them, and none is larger.
LEMMA LargestIs ==
    ASSUME NEW E, NEW S \in SUBSET Nat, IsFiniteSet(S), NEW s, SequenceOf(s, S),
           \A i \in S : E[i].size \in Nat
    PROVE  /\ S = {} => LargestVideo(E, s) = None
           /\ S # {} => /\ LargestVideo(E, s) \in S
                        /\ \A i \in S : E[i].size <= E[LargestVideo(E, s)].size
<1> DEFINE Less(i, j) == E[i].size < E[j].size \/ (E[i].size = E[j].size /\ i < j)
           Is(i) == \A j \in S : E[j].size < E[i].size \/ (E[j].size = E[i].size /\ j <= i)
           R == {p \in S \X S : Less(p[1], p[2])}
           m == LargestVideo(E, s)
<1>1. s \in Seq(S) /\ Len(s) = Cardinality(S) /\ ToSet(s) = S
  BY DEF SequenceOf
<1>2. s = <<>> <=> S = {}
  <2>1. Cardinality(S) = 0 <=> S = {}
    BY FS_EmptySet
  <2>2. s = <<>> <=> Len(s) = 0
    BY <1>1
  <2> QED BY <1>1, <2>1, <2>2
<1>3. m = IF S = {} THEN None ELSE CHOOSE i \in S : Is(i)
  BY <1>1, <1>2 DEF LargestVideo
<1>4. \A i \in S : i \in Nat
  OBVIOUS
<1>5. \A i, j \in S : <<i, j>> \in R <=> Less(i, j)
  OBVIOUS
<1> HIDE DEF R, m
<1>6. Ordered(R, S)
  <2>1. ASSUME NEW i \in S
        PROVE  <<i, i>> \notin R
    BY <1>4, <1>5
  <2>2. ASSUME NEW i \in S, NEW j \in S, NEW k \in S, Less(i, j), Less(j, k)
        PROVE  Less(i, k)
    <3> DEFINE x == E[i].size
               y == E[j].size
               z == E[k].size
    <3>1. x \in Nat /\ y \in Nat /\ z \in Nat /\ i \in Nat /\ j \in Nat /\ k \in Nat
      BY <1>4
    <3>2. (x < y \/ (x = y /\ i < j)) /\ (y < z \/ (y = z /\ j < k))
      BY <2>2
    <3> HIDE DEF x, y, z
    <3>3. x < z \/ (x = z /\ i < k)
      BY <3>1, <3>2
    <3> QED BY <3>3 DEF x, z
  <2>3. ASSUME NEW i \in S, NEW j \in S, i # j
        PROVE  Less(i, j) \/ Less(j, i)
    <3> DEFINE x == E[i].size
               y == E[j].size
    <3>1. x \in Nat /\ y \in Nat /\ i \in Nat /\ j \in Nat
      BY <1>4
    <3> HIDE DEF x, y
    <3>2. (x < y \/ (x = y /\ i < j)) \/ (y < x \/ (y = x /\ j < i))
      BY <2>3, <3>1
    <3> QED BY <3>2 DEF x, y
  <2> HIDE DEF Less
  <2> QED BY <1>5, <2>1, <2>2, <2>3 DEF Ordered
<1>7. ASSUME S # {}
      PROVE  \E i \in S : Is(i)
  <2>1. PICK i \in S : \A j \in S \ {i} : <<j, i>> \in R
    BY <1>6, <1>7, LastElement
  <2>2. ASSUME NEW j \in S
        PROVE  E[j].size < E[i].size \/ (E[j].size = E[i].size /\ j <= i)
    <3>1. CASE j = i
      BY <1>4, <3>1
    <3>2. CASE j # i
      <4>1. Less(j, i)
        BY <1>5, <2>1, <3>2
      <4> QED BY <1>4, <4>1
    <3> QED BY <3>1, <3>2
  <2> QED BY <2>2
<1> HIDE DEF Is, Less
<1>8. S # {} => m \in S /\ Is(m)
  BY <1>3, <1>7
<1>9. ASSUME S # {}, NEW i \in S
      PROVE  E[i].size <= E[m].size
  <2>1. E[i].size < E[m].size \/ E[i].size = E[m].size
    BY <1>8, <1>9 DEF Is
  <2>2. E[i].size \in Nat /\ E[m].size \in Nat
    BY <1>8, <1>9
  <2> QED BY <2>1, <2>2
<1> QED BY <1>3, <1>8, <1>9 DEF m

\* A sequence has the elements of a set, each once; and the places of some of them.
Spreads(src, n, M) == /\ n \in Nat /\ src \in [1 .. n -> M]
                      /\ \A i, j \in 1 .. n : src[i] = src[j] => i = j
                      /\ \A x \in M : \E i \in 1 .. n : src[i] = x
PlacesOf(src, T, n) == {i \in 1 .. n : src[i] \in T}

\* There are as many places as elements.
LEMMA AsManyPlaces ==
    ASSUME NEW n, NEW M, NEW src, Spreads(src, n, M), NEW T \in SUBSET M
    PROVE  /\ IsFiniteSet(PlacesOf(src, T, n)) /\ IsFiniteSet(T)
           /\ Cardinality(PlacesOf(src, T, n)) = Cardinality(T)
           /\ \A x \in T : \E i \in PlacesOf(src, T, n) : src[i] = x
<1> DEFINE P == {i \in 1 .. n : src[i] \in T}
           f == [i \in P |-> src[i]]
<1>0. /\ n \in Nat /\ src \in [1 .. n -> M]
      /\ \A i, j \in 1 .. n : src[i] = src[j] => i = j
      /\ \A x \in M : \E i \in 1 .. n : src[i] = x
  BY DEF Spreads
<1>1. IsFiniteSet(P)
  <2>1. IsFiniteSet(1 .. n)
    BY <1>0, FS_Interval
  <2>2. P \in SUBSET (1 .. n)
    OBVIOUS
  <2> HIDE DEF P
  <2> QED BY <2>1, <2>2, FS_Subset
<1>2. f \in [P -> T] /\ \A i, j \in P : f[i] = f[j] => i = j
  BY <1>0
<1>3. \A x \in T : \E i \in P : f[i] = x
  BY <1>0
<1>6. \A x \in T : \E i \in P : src[i] = x
  BY <1>0
<1> HIDE DEF f, P
<1>4. f \in Injection(P, T)
  BY <1>2, Fun_IsInj
<1>5. f \in Surjection(P, T)
  BY <1>2, <1>3 DEF Surjection
<1>7. IsFiniteSet(T) /\ Cardinality(P) = Cardinality(T)
  BY <1>1, <1>4, <1>5, FS_Surjection
<1> QED BY <1>1, <1>6, <1>7 DEF P, PlacesOf

IsVideoFile(e) == ~e.hides /\ e.attributes = {} /\ e.ext \in VideoExtensions

\* The kinds of media entries, and that video files are media entries.
LEMMA KindIs ==
    ASSUME NEW e \in DirEntries
    PROVE  /\ IsVideoFile(e) => IsMediaEntry(e)
           /\ IsMediaEntry(e) =>
                /\ KindOf(e) = "Video" <=> IsVideoFile(e)
                /\ KindOf(e) = "Folder" <=> IsDirectory(e)
                /\ KindOf(e) = "Audio" <=> ~IsDirectory(e) /\ e.ext \in AudioExtensions
                /\ KindOf(e) \in {"Video", "Folder", "Audio"}
<1> DEFINE A == AudioExtensions
           V == VideoExtensions
           S == SubtitleExtensions
<1>1. A \cap V = {} /\ S \cap (A \cup V) = {} /\ None \notin A \cup V
  BY MediaAssumption DEF MediaAssumption
<1>2. e.attributes \in SUBSET {"directory", "hidden", "system"} /\ e.hides \in BOOLEAN
  BY DEF DirEntries
<1>3. IsMediaEntry(e) <=>
        /\ ~e.hides /\ e.attributes \cap {"hidden", "system"} = {}
        /\ \/ "directory" \in e.attributes
           \/ e.ext # None /\ e.ext \in A \cup V /\ e.ext \notin S
  BY DEF IsMediaEntry, IsHiddenEntry, IsMediaExtension
<1>4. KindOf(e) = IF "directory" \in e.attributes THEN "Folder"
                  ELSE IF e.ext \in A THEN "Audio" ELSE "Video"
  BY DEF KindOf
<1>5. IsVideoFile(e) <=> ~e.hides /\ e.attributes = {} /\ e.ext \in V
  BY DEF IsVideoFile
<1> HIDE DEF A, V, S
<1>6. IsVideoFile(e) => IsMediaEntry(e)
  BY <1>1, <1>3, <1>5
<1>7. ASSUME IsMediaEntry(e)
      PROVE  e.attributes = {} <=> "directory" \notin e.attributes
  BY <1>2, <1>3, <1>7
<1>8. ASSUME IsMediaEntry(e)
      PROVE  /\ KindOf(e) = "Video" <=> IsVideoFile(e)
             /\ KindOf(e) = "Folder" <=> IsDirectory(e)
             /\ KindOf(e) = "Audio" <=> ~IsDirectory(e) /\ e.ext \in A
             /\ KindOf(e) \in {"Video", "Folder", "Audio"}
  <2>1. IsDirectory(e) <=> "directory" \in e.attributes
    BY DEF IsDirectory
  <2>2. CASE "directory" \in e.attributes
    BY <1>4, <1>5, <2>1, <2>2
  <2>3. CASE "directory" \notin e.attributes
    <3>1. ~e.hides /\ e.attributes = {} /\ e.ext \in A \cup V
      BY <1>3, <1>7, <1>8, <2>3
    <3>2. KindOf(e) = IF e.ext \in A THEN "Audio" ELSE "Video"
      BY <1>4, <2>3
    <3> QED BY <1>1, <1>5, <2>1, <2>3, <3>1, <3>2
  <2> QED BY <2>2, <2>3
<1> QED BY <1>6, <1>8 DEF A

\* A listing has one entry for each place, and knows what it is.
LEMMA ListedIs ==
    ASSUME NEW dir \in Seq(DirEntries), NEW src, Arranges(src, dir),
           NEW E, E = MediaEntriesOf(dir)
    PROVE  /\ Len(E) = Cardinality(MediaOf(dir)) /\ DOMAIN E = 1 .. Len(E) /\ Len(E) \in Nat
           /\ \A i \in 1 .. Len(E) :
                /\ src[i] \in 1 .. Len(dir) /\ dir[src[i]] \in DirEntries
                /\ E[i].name = dir[src[i]].name /\ E[i].size = dir[src[i]].size
                /\ E[i].size \in Nat
                /\ IsFolder(E[i]) <=> IsDirectory(dir[src[i]])
                /\ IsAudio(E[i]) <=> ~IsDirectory(dir[src[i]])
                                     /\ dir[src[i]].ext \in AudioExtensions
                /\ IsPrimary(E[i]) <=> src[i] \in Films(dir)
                /\ IsLikelyExtra(E[i]) <=> src[i] \in Videos(dir) \ Films(dir)
<1> DEFINE n == Cardinality(MediaOf(dir))
<1>1. /\ n \in Nat /\ src \in [1 .. n -> MediaOf(dir)]
      /\ E = [i \in 1 .. n |-> MediaEntry(dir[src[i]])]
  BY DEF Arranges
<1>2. DOMAIN E = 1 .. n /\ Len(E) = n
  BY <1>1
<1>3. \A k \in 1 .. Len(dir) : dir[k] \in DirEntries
  OBVIOUS
<1> HIDE DEF n
<1>4. ASSUME NEW i \in 1 .. n
      PROVE  /\ src[i] \in 1 .. Len(dir) /\ dir[src[i]] \in DirEntries
             /\ E[i].name = dir[src[i]].name /\ E[i].size = dir[src[i]].size
             /\ E[i].size \in Nat
             /\ IsFolder(E[i]) <=> IsDirectory(dir[src[i]])
             /\ IsAudio(E[i]) <=> ~IsDirectory(dir[src[i]])
                                  /\ dir[src[i]].ext \in AudioExtensions
             /\ IsPrimary(E[i]) <=> src[i] \in Films(dir)
             /\ IsLikelyExtra(E[i]) <=> src[i] \in Videos(dir) \ Films(dir)
  <2> DEFINE k == src[i]
             e == dir[k]
  <2>1. k \in 1 .. Len(dir) /\ IsMediaEntry(e) /\ e \in DirEntries
    BY <1>1, <1>3 DEF MediaOf
  <2>2. E[i] = MediaEntry(e)
    BY <1>1
  <2>3. k \in Videos(dir) <=> IsVideoFile(e)
    BY <2>1 DEF Videos, IsVideoFile
  <2>4. k \in Films(dir) <=> IsVideoFile(e) /\ e.marks \cap Words = {}
    BY <2>3 DEF Films
  <2> HIDE DEF k, e
  <2>5. /\ E[i].name = e.name /\ E[i].size = e.size /\ E[i].marks = e.marks
        /\ E[i].kind = KindOf(e)
    BY <2>2 DEF MediaEntry
  <2>6. e.size \in Nat
    BY <2>1 DEF DirEntries
  <2>7. /\ KindOf(e) = "Video" <=> IsVideoFile(e)
        /\ KindOf(e) = "Folder" <=> IsDirectory(e)
        /\ KindOf(e) = "Audio" <=> ~IsDirectory(e) /\ e.ext \in AudioExtensions
    BY <2>1, KindIs
  <2>8. ExtraKind(e.marks) # None <=> e.marks \cap Words # {}
    BY ExtraKindIs
  <2>9. IsLikelyExtra(E[i]) <=> IsVideoFile(e) /\ e.marks \cap Words # {}
    BY <2>5, <2>7, <2>8 DEF IsLikelyExtra, IsVideo
  <2>10. IsPrimary(E[i]) <=> IsVideoFile(e) /\ e.marks \cap Words = {}
    BY <2>5, <2>7, <2>9 DEF IsPrimary, IsVideo
  <2>11. /\ IsFolder(E[i]) <=> IsDirectory(e)
         /\ IsAudio(E[i]) <=> ~IsDirectory(e) /\ e.ext \in AudioExtensions
    BY <2>5, <2>7 DEF IsFolder, IsAudio
  <2> QED BY <2>1, <2>3, <2>4, <2>5, <2>6, <2>9, <2>10, <2>11 DEF k, e
<1> QED BY <1>1, <1>2, <1>4 DEF n

\* The summary of a listing has its films, its extras and its tracks, and of
\* the films a largest.
SummaryTrue(s, E, src, dir) ==
    LET films == PlacesOf(src, Films(dir), Len(E)) IN
    /\ SequenceOf(s.primary, films)
    /\ SequenceOf(s.extras, PlacesOf(src, Videos(dir) \ Films(dir), Len(E)))
    /\ SequenceOf(s.audio, {i \in 1 .. Len(E) : IsAudio(E[i])})
    /\ films = {} => s.main = None
    /\ films # {} => s.main \in films /\ \A i \in films : E[i].size <= E[s.main].size
    /\ s \in Summaries

\* So it is for every directory.
LEMMA SummaryIs ==
    ASSUME NEW dir \in Seq(DirEntries), NEW src, Arranges(src, dir),
           NEW E, E = MediaEntriesOf(dir)
    PROVE  SummaryTrue(FolderSummary(E), E, src, dir)
<1> DEFINE n == Len(E)
           F == PlacesOf(src, Films(dir), n)
           X == PlacesOf(src, Videos(dir) \ Films(dir), n)
           A == {i \in 1 .. n : IsAudio(E[i])}
           s == FolderSummary(E)
<1>1. /\ DOMAIN E = 1 .. n /\ n \in Nat
      /\ \A i \in 1 .. n : /\ E[i].size \in Nat
                           /\ IsPrimary(E[i]) <=> src[i] \in Films(dir)
                           /\ IsLikelyExtra(E[i]) <=> src[i] \in Videos(dir) \ Films(dir)
  BY ListedIs
<1> HIDE DEF n
<1>2. /\ F \in SUBSET (1 .. n) /\ X \in SUBSET (1 .. n) /\ A \in SUBSET (1 .. n)
      /\ F \in SUBSET Nat /\ X \in SUBSET Nat /\ A \in SUBSET Nat
  BY <1>1 DEF PlacesOf
<1>3. /\ F = {i \in DOMAIN E : IsPrimary(E[i])}
      /\ X = {i \in DOMAIN E : IsLikelyExtra(E[i])}
      /\ A = {i \in DOMAIN E : IsAudio(E[i])}
  BY <1>1 DEF PlacesOf
<1>4. PrimaryVideos(E) = InOrder(F, <)
  <2>1. PrimaryVideos(E) = InOrder({i \in DOMAIN E : IsPrimary(E[i])}, <)
    BY DEF PrimaryVideos, IndicesWhere, InOrder
  <2> QED BY <1>3, <2>1
<1>5. IndicesWhere(E, IsLikelyExtra) = InOrder(X, <)
  <2>1. IndicesWhere(E, IsLikelyExtra) = InOrder({i \in DOMAIN E : IsLikelyExtra(E[i])}, <)
    BY DEF IndicesWhere, InOrder
  <2> QED BY <1>3, <2>1
<1>6. IndicesWhere(E, IsAudio) = InOrder(A, <)
  <2>1. IndicesWhere(E, IsAudio) = InOrder({i \in DOMAIN E : IsAudio(E[i])}, <)
    BY DEF IndicesWhere, InOrder
  <2> QED BY <1>3, <2>1
<1> HIDE DEF F, X, A
<1>7. IsFiniteSet(F) /\ IsFiniteSet(X) /\ IsFiniteSet(A)
  <2>1. IsFiniteSet(1 .. n)
    BY <1>1, FS_Interval
  <2> QED BY <1>2, <2>1, FS_Subset
<1> DEFINE primary == PrimaryVideos(E)
           extras == IndicesWhere(E, IsLikelyExtra)
           audio == IndicesWhere(E, IsAudio)
           main == LargestVideo(E, primary)
<1>8. SequenceOf(primary, F) /\ SequenceOf(extras, X) /\ SequenceOf(audio, A)
  BY <1>2, <1>4, <1>5, <1>6, <1>7, SequenceOfNumbers
<1>9. s = [main |-> main, primary |-> primary, extras |-> extras, audio |-> audio]
  BY DEF FolderSummary
<1> HIDE DEF primary, extras, audio, main, s
<1>10. /\ F = {} => main = None
       /\ F # {} => main \in F /\ \A i \in F : E[i].size <= E[main].size
  <2>1. \A i \in F : E[i].size \in Nat
    BY <1>1, <1>2
  <2> QED BY <1>2, <1>7, <1>8, <2>1, LargestIs DEF main
<1>11. s \in Summaries
  <2>1. primary \in Seq(Nat) /\ extras \in Seq(Nat) /\ audio \in Seq(Nat)
    BY <1>8 DEF SequenceOf
  <2>2. main \in Nat \cup {None}
    BY <1>2, <1>10
  <2> QED BY <1>9, <2>1, <2>2 DEF Summaries
<1>12. s.main = main /\ s.primary = primary /\ s.extras = extras /\ s.audio = audio
  BY <1>9
<1>13. SummaryTrue(s, E, src, dir)
  BY <1>8, <1>10, <1>11, <1>12 DEF SummaryTrue, F, X, A, n
<1> QED BY <1>13 DEF s

\* The videos of a directory are listed.
LEMMA VideosListed ==
    ASSUME NEW dir \in Seq(DirEntries)
    PROVE  Films(dir) \subseteq Videos(dir) /\ Videos(dir) \subseteq MediaOf(dir)
<1>1. \A k \in 1 .. Len(dir) : dir[k] \in DirEntries
  OBVIOUS
<1>2. ASSUME NEW k \in Videos(dir)
      PROVE  k \in MediaOf(dir)
  <2>1. k \in 1 .. Len(dir) /\ IsVideoFile(dir[k])
    BY <1>2 DEF Videos, IsVideoFile
  <2>2. IsMediaEntry(dir[k])
    BY <1>1, <2>1, KindIs
  <2> QED BY <2>1, <2>2 DEF MediaOf
<1> QED BY <1>2 DEF Films

\* There are as many places of listed entries as entries.
LEMMA ListedCount ==
    ASSUME NEW dir \in Seq(DirEntries), NEW src, Arranges(src, dir),
           NEW n, n = Len(MediaEntriesOf(dir)), NEW T \in SUBSET MediaOf(dir)
    PROVE  /\ IsFiniteSet(PlacesOf(src, T, n)) /\ IsFiniteSet(T)
           /\ Cardinality(PlacesOf(src, T, n)) = Cardinality(T)
           /\ \A x \in T : \E i \in PlacesOf(src, T, n) : src[i] = x
<1>1. n = Cardinality(MediaOf(dir)) /\ n \in Nat
  BY ListedIs
<1>2. Spreads(src, n, MediaOf(dir))
  BY <1>1 DEF Arranges, Spreads
<1> QED BY <1>2, AsManyPlaces

\* A folder can be collapsed if it holds one film, and then that is its main one.
LEMMA CollapsesIs ==
    ASSUME NEW dir \in Seq(DirEntries), NEW E, E = MediaEntriesOf(dir)
    PROVE  /\ FolderSummary(E) \in Summaries
           /\ CanCollapse(FolderSummary(E)) <=> Cardinality(Films(dir)) = 1
           /\ CanCollapse(FolderSummary(E)) =>
                 \E film \in Films(dir) : E[FolderSummary(E).main].name = dir[film].name
<1> DEFINE s == FolderSummary(E)
<1>1. PICK src : Arranges(src, dir)
  BY ListingArranged
<1> DEFINE n == Len(E)
           F == PlacesOf(src, Films(dir), n)
<1>2. SummaryTrue(s, E, src, dir)
  BY <1>1, SummaryIs
<1>3. \A i \in 1 .. n : E[i].name = dir[src[i]].name
  BY <1>1, ListedIs
<1>4. Films(dir) \in SUBSET MediaOf(dir)
  BY VideosListed
<1>5. Cardinality(F) = Cardinality(Films(dir)) /\ IsFiniteSet(F)
  BY <1>1, <1>4, ListedCount
<1> HIDE DEF s, n
<1>6. F \in SUBSET (1 .. n) /\ \A i \in F : src[i] \in Films(dir)
  BY DEF PlacesOf
<1>7. /\ s \in Summaries /\ Len(s.primary) = Cardinality(F)
      /\ F # {} => s.main \in F
  BY <1>2 DEF SummaryTrue, SequenceOf, n
<1> HIDE DEF F
<1>8. CanCollapse(s) <=> Cardinality(Films(dir)) = 1
  BY <1>5, <1>7 DEF CanCollapse
<1>9. ASSUME CanCollapse(s)
      PROVE  \E film \in Films(dir) : E[s.main].name = dir[film].name
  <2>1. F # {}
    BY <1>5, <1>8, <1>9, FS_EmptySet
  <2> QED BY <1>3, <1>6, <1>7, <2>1
<1> QED BY <1>7, <1>8, <1>9 DEF s
-----------------------------------------------------------------------------
(* The browser.                                                               *)

\* What the disk holds are directories.
LEMMA AreDirectories ==
    ASSUME NEW dir \in Folders \cup Children
    PROVE  dir \in Directories /\ dir \in Seq(DirEntries)
BY BrowserAssumption DEF BrowserAssumption, Directories

\* A first batch is as much of a directory as one batch can have.
LEMMA FirstBatchIs ==
    ASSUME NEW dir \in Seq(DirEntries)
    PROVE  /\ FirstBatch(dir) \in Seq(DirEntries) /\ Len(FirstBatch(dir)) <= Len(dir)
           /\ \A i \in 1 .. Len(FirstBatch(dir)) : FirstBatch(dir)[i] = dir[i]
           /\ Len(dir) <= FirstBatchLen => FirstBatch(dir) = dir
<1> DEFINE n == Len(dir)
           m == IF n < FirstBatchLen THEN n ELSE FirstBatchLen
           b == SubSeq(dir, 1, m)
<1>1. FirstBatchLen \in Nat /\ n \in Nat
  BY BrowserAssumption DEF BrowserAssumption
<1>2. m \in Nat /\ m <= n /\ (n <= FirstBatchLen => m = n)
  BY <1>1
<1>3. FirstBatch(dir) = b
  BY DEF FirstBatch
<1> HIDE DEF m
<1>4. b \in Seq(DirEntries) /\ Len(b) = m /\ \A i \in 1 .. m : b[i] = dir[i]
  BY <1>1, <1>2
<1>5. m = n => b = dir
  BY <1>1
<1> HIDE DEF b
<1> QED BY <1>2, <1>3, <1>4, <1>5

\* A name stands for one entry of a folder.
LEMMA PlaceIs ==
    ASSUME folder \in Directories, NEW i \in 1 .. Len(folder)
    PROVE  Place(folder[i].name) = i
<1>1. folder \in Seq(DirEntries) /\ \A j, k \in DOMAIN folder :
                                        j # k => folder[j].name # folder[k].name
  BY DEF Directories
<1>2. DOMAIN folder = 1 .. Len(folder)
  BY <1>1
<1>3. \A j \in DOMAIN folder : folder[j].name = folder[i].name <=> j = i
  BY <1>1, <1>2
<1> QED BY <1>2, <1>3 DEF Place

\* What an entry says of the entry of the folder that it stands for.
EntryOf(src, i) ==
    /\ src[i] \in 1 .. Len(folder) /\ folder[src[i]] \in DirEntries
    /\ entries[i].name = folder[src[i]].name
    /\ Place(entries[i].name) = src[i]
    /\ IsFolder(entries[i]) <=> IsDirectory(folder[src[i]])

\* What is listed of a folder stands for entries of the folder, in their order.
LEMMA ListedOfFolder ==
    ASSUME folder \in Folders, entries = Listed(folder),
           NEW src, Arranges(src, FirstBatch(folder))
    PROVE  /\ Len(entries) \in Nat /\ DOMAIN entries = 1 .. Len(entries)
           /\ \A i \in 1 .. Len(entries) : EntryOf(src, i)
           /\ \A i, j \in 1 .. Len(entries) : i < j => InPlace(folder, src[i], src[j])
<1> DEFINE b == FirstBatch(folder)
           n == Len(entries)
<1>1. folder \in Directories /\ folder \in Seq(DirEntries)
  BY AreDirectories
<1>2. /\ b \in Seq(DirEntries) /\ Len(b) <= Len(folder)
      /\ \A i \in 1 .. Len(b) : b[i] = folder[i]
  BY <1>1, FirstBatchIs
<1>3. Len(b) \in Nat /\ Len(folder) \in Nat
  BY <1>1, <1>2
<1>4. entries = MediaEntriesOf(b)
  BY DEF Listed
<1> HIDE DEF b
<1>5. /\ n = Cardinality(MediaOf(b)) /\ DOMAIN entries = 1 .. n /\ n \in Nat
      /\ \A i \in 1 .. n : /\ src[i] \in 1 .. Len(b) /\ b[src[i]] \in DirEntries
                           /\ entries[i].name = b[src[i]].name
                           /\ IsFolder(entries[i]) <=> IsDirectory(b[src[i]])
  BY <1>2, <1>4, ListedIs DEF b
<1>6. \A i, j \in 1 .. n : i < j => InPlace(b, src[i], src[j])
  BY <1>5 DEF Arranges, b
<1> HIDE DEF n
<1>7. ASSUME NEW i \in 1 .. n
      PROVE  src[i] \in 1 .. Len(folder) /\ b[src[i]] = folder[src[i]]
  <2>1. src[i] \in 1 .. Len(b)
    BY <1>5
  <2> QED BY <1>2, <1>3, <2>1
<1>8. ASSUME NEW i \in 1 .. n
      PROVE  EntryOf(src, i)
  <2>1. /\ src[i] \in 1 .. Len(folder) /\ folder[src[i]] \in DirEntries
        /\ entries[i].name = folder[src[i]].name
        /\ IsFolder(entries[i]) <=> IsDirectory(folder[src[i]])
    BY <1>5, <1>7
  <2>2. Place(folder[src[i]].name) = src[i]
    BY <1>1, <2>1, PlaceIs
  <2> QED BY <2>1, <2>2 DEF EntryOf
<1>9. ASSUME NEW i \in 1 .. n, NEW j \in 1 .. n, i < j
      PROVE  InPlace(folder, src[i], src[j])
  <2>1. InPlace(b, src[i], src[j])
    BY <1>6, <1>9
  <2> QED BY <1>7, <2>1 DEF InPlace
<1> QED BY <1>5, <1>8, <1>9 DEF n

\* What is in the folder that an entry stands for, and its summary.
LEMMA InsideIs ==
    ASSUME folder \in Folders, inside \in [Subfolders -> Children], entries = Listed(folder),
           NEW i \in 1 .. Len(entries), IsFolder(entries[i])
    PROVE  Inside(entries[i]) \in Children /\ Summed(i) \in Summaries
<1>1. folder \in Seq(DirEntries)
  BY AreDirectories
<1>2. PICK src : Arranges(src, FirstBatch(folder))
  BY <1>1, FirstBatchIs, ListingArranged
<1>3. EntryOf(src, i)
  BY <1>2, ListedOfFolder
<1>4. src[i] \in Subfolders
  BY <1>1, <1>3 DEF EntryOf, Subfolders, IsDirectory
<1>5. Inside(entries[i]) = inside[Place(entries[i].name)]
  BY DEF Inside, Place
<1>6. Inside(entries[i]) = inside[src[i]]
  BY <1>3, <1>5 DEF EntryOf
<1>7. Inside(entries[i]) \in Children
  BY <1>4, <1>6
<1> DEFINE dir == Inside(entries[i])
<1>8. dir \in Seq(DirEntries)
  BY <1>7, AreDirectories
<1>9. Summed(i) = FolderSummary(MediaEntriesOf(FirstBatch(dir)))
  BY DEF Summed, Listed
<1> HIDE DEF dir
<1>10. FirstBatch(dir) \in Seq(DirEntries)
  BY <1>8, FirstBatchIs
<1>11. FolderSummary(MediaEntriesOf(FirstBatch(dir))) \in Summaries
  BY <1>10, CollapsesIs
<1> QED BY <1>7, <1>9, <1>11

\* Nothing has been listed at first.
LEMMA InitInvariant == Init => IInv
<1> SUFFICES ASSUME Init PROVE IInv
  OBVIOUS
<1>1. /\ folder \in Folders /\ inside \in [Subfolders -> Children] /\ scan \in BOOLEAN
      /\ pc = "start" /\ entries = <<>> /\ summaries = <<>>
  BY DEF Init
<1>2. summaries \in Seq(Nat \X Summaries)
  BY <1>1
<1> QED BY <1>1, <1>2 DEF IInv

\* A listing has a length.
LEMMA ListedLength ==
    ASSUME folder \in Folders
    PROVE  Len(Listed(folder)) \in Nat
<1>1. folder \in Seq(DirEntries)
  BY AreDirectories
<1>2. FirstBatch(folder) \in Seq(DirEntries)
  BY <1>1, FirstBatchIs
<1>3. PICK src : Arranges(src, FirstBatch(folder))
  BY <1>2, ListingArranged
<1> QED BY <1>2, <1>3, ListedIs DEF Listed

\* A summary is kept only of a folder that can be collapsed, with its index.
LEMMA StepKeepsScanPoint ==
    ASSUME IInv, pc = "scan", at <= Len(entries), at' = at + 1,
           UNCHANGED <<folder, inside, scan, entries>>,
           \/ ~IsFolder(entries[at]) /\ summaries' = summaries
           \/ /\ IsFolder(entries[at])
              /\ summaries' = IF CanCollapse(Summed(at))
                              THEN Append(summaries, <<at, Summed(at)>>) ELSE summaries
    PROVE  ScanPoint' /\ summaries' \in Seq(Nat \X Summaries)
<1> DEFINE C(i) == Collapses(i)
           S(i) == Summed(i)
           n == Len(entries)
<1>1. /\ entries = Listed(folder) /\ at \in 1 .. n + 1 /\ (~scan => at = n + 1)
      /\ \A i \in 1 .. at - 1 : C(i) => \E k \in DOMAIN summaries : summaries[k] = <<i, S(i)>>
      /\ \A k \in DOMAIN summaries : \E i \in 1 .. at - 1 : C(i) /\ summaries[k] = <<i, S(i)>>
  BY DEF IInv, ScanPoint
<1>2. /\ folder \in Folders /\ inside \in [Subfolders -> Children] /\ scan \in BOOLEAN
      /\ summaries \in Seq(Nat \X Summaries)
  BY DEF IInv
<1>3. n \in Nat
  BY <1>1, <1>2, ListedLength
<1>4. \A i : S(i)' = S(i) /\ (C(i)' <=> C(i))
  BY DEF Collapses, Summed, Inside
<1>5. scan /\ at \in 1 .. n
  BY <1>1, <1>3
<1>6. C(at) <=> IsFolder(entries[at]) /\ CanCollapse(S(at))
  BY <1>5 DEF Collapses
<1>7. IsFolder(entries[at]) => S(at) \in Summaries
  BY <1>1, <1>2, <1>5, InsideIs
<1>8. summaries' = IF C(at) THEN Append(summaries, <<at, S(at)>>) ELSE summaries
  BY <1>6
<1> HIDE DEF C, S, n
<1>9. /\ summaries' \in Seq(Nat \X Summaries)
      /\ \A k \in DOMAIN summaries : k \in DOMAIN summaries' /\ summaries'[k] = summaries[k]
      /\ C(at) => \E k \in DOMAIN summaries' : summaries'[k] = <<at, S(at)>>
      /\ \A k \in DOMAIN summaries' : \/ k \in DOMAIN summaries
                                      \/ C(at) /\ summaries'[k] = <<at, S(at)>>
  <2>1. CASE ~C(at)
    BY <1>2, <1>8, <2>1
  <2>2. CASE C(at)
    <3> DEFINE x == <<at, S(at)>>
    <3>1. x \in Nat \X Summaries
      BY <1>5, <1>6, <1>7, <2>2
    <3> HIDE DEF x
    <3>2. summaries' = Append(summaries, x)
      BY <1>8, <2>2 DEF x
    <3>3. /\ summaries' \in Seq(Nat \X Summaries)
          /\ Len(summaries') = Len(summaries) + 1 /\ Len(summaries) \in Nat
          /\ \A k \in 1 .. Len(summaries) : summaries'[k] = summaries[k]
          /\ summaries'[Len(summaries) + 1] = x
      BY <1>2, <3>1, <3>2
    <3>4. DOMAIN summaries = 1 .. Len(summaries) /\ DOMAIN summaries' = 1 .. Len(summaries) + 1
      BY <1>2, <3>3
    <3>5. \A k \in DOMAIN summaries' : k \in DOMAIN summaries \/ k = Len(summaries) + 1
      BY <3>3, <3>4
    <3>6. Len(summaries) + 1 \in DOMAIN summaries'
      BY <3>3, <3>4
    <3>7. \A k \in DOMAIN summaries : k \in DOMAIN summaries' /\ summaries'[k] = summaries[k]
      BY <3>3, <3>4
    <3> QED BY <2>2, <3>3, <3>5, <3>6, <3>7 DEF x
  <2> QED BY <2>1, <2>2
<1>10. /\ entries' = Listed(folder') /\ at' \in 1 .. Len(entries') + 1
       /\ ~scan' => at' = Len(entries') + 1
  BY <1>1, <1>3, <1>5 DEF n
<1>11. at' - 1 = at /\ at - 1 \in Nat /\ \A i \in 1 .. at : i = at \/ i \in 1 .. at - 1
  BY <1>3, <1>5
<1>12. ASSUME NEW i \in 1 .. at, C(i)
       PROVE  \E k \in DOMAIN summaries' : summaries'[k] = <<i, S(i)>>
  <2>1. CASE i = at
    BY <1>9, <1>12, <2>1
  <2>2. CASE i \in 1 .. at - 1
    <3>1. PICK k \in DOMAIN summaries : summaries[k] = <<i, S(i)>>
      BY <1>1, <1>12, <2>2
    <3> QED BY <1>9, <3>1
  <2> QED BY <1>11, <2>1, <2>2
<1>13. ASSUME NEW k \in DOMAIN summaries'
       PROVE  \E i \in 1 .. at : C(i) /\ summaries'[k] = <<i, S(i)>>
  <2>1. CASE k \in DOMAIN summaries
    <3>1. PICK i \in 1 .. at - 1 : C(i) /\ summaries[k] = <<i, S(i)>>
      BY <1>1, <2>1
    <3>2. i \in 1 .. at
      BY <1>5, <1>11
    <3> QED BY <1>9, <2>1, <3>1, <3>2
  <2>2. CASE C(at) /\ summaries'[k] = <<at, S(at)>>
    BY <1>3, <1>5, <2>2
  <2> QED BY <1>9, <2>1, <2>2
<1>14. /\ \A i \in 1 .. at' - 1 :
             Collapses(i)' => \E k \in DOMAIN summaries' : summaries'[k] = <<i, Summed(i)'>>
       /\ \A k \in DOMAIN summaries' :
             \E i \in 1 .. at' - 1 : Collapses(i)' /\ summaries'[k] = <<i, Summed(i)'>>
  BY <1>4, <1>11, <1>12, <1>13 DEF C, S
<1> QED BY <1>9, <1>10, <1>14 DEF ScanPoint

\* Every step keeps the invariant.
LEMMA InvariantStep ==
    ASSUME IInv, [Next]_vars
    PROVE  IInv'
<1>1. /\ folder \in Folders /\ inside \in [Subfolders -> Children] /\ scan \in BOOLEAN
      /\ pc \in {"start", "scan", "shown", "failed"}
      /\ summaries \in Seq(Nat \X Summaries)
      /\ pc = "start" => entries = <<>> /\ summaries = <<>>
      /\ pc \in {"scan", "shown"} => ScanPoint
      /\ pc = "failed" => entries \in {<<>>, Listed(folder)}
      /\ pc = "shown" => at > Len(entries) /\ shown = Presentations(entries, summaries)
  BY DEF IInv
<1>2. ASSUME UNCHANGED disk
      PROVE  folder' \in Folders /\ inside' \in [Subfolders' -> Children] /\ scan' \in BOOLEAN
  BY <1>1, <1>2 DEF disk, Subfolders
<1>3. CASE ListFolder
  <2>1. /\ pc = "start" /\ pc' = "scan" /\ entries' = Listed(folder)
        /\ at' = IF scan THEN 1 ELSE Len(entries') + 1
        /\ UNCHANGED disk /\ summaries' = <<>> /\ folder' = folder /\ scan' = scan
    BY <1>1, <1>3 DEF ListFolder, disk
  <2>2. Len(entries') \in Nat
    BY <1>1, <2>1, ListedLength
  <2>3. /\ entries' = Listed(folder') /\ at' \in 1 .. Len(entries') + 1
        /\ ~scan' => at' = Len(entries') + 1
    BY <2>1, <2>2
  <2>4. ASSUME NEW i \in 1 .. at' - 1
        PROVE  ~Collapses(i)'
    <3>1. ~scan'
      BY <2>1, <2>4
    <3> QED BY <3>1 DEF Collapses
  <2>5. DOMAIN summaries' = {} /\ summaries' \in Seq(Nat \X Summaries)
    BY <2>1
  <2>6. ScanPoint'
    BY <2>3, <2>4, <2>5 DEF ScanPoint
  <2> QED BY <1>2, <2>1, <2>5, <2>6 DEF IInv
<1>4. CASE SkipFile
  <2>1. /\ pc = "scan" /\ pc' = "scan" /\ at <= Len(entries) /\ at' = at + 1
        /\ ~IsFolder(entries[at]) /\ summaries' = summaries
        /\ UNCHANGED <<folder, inside, scan, entries>> /\ UNCHANGED disk
    BY <1>4 DEF SkipFile, IsFolder, disk
  <2>2. ScanPoint' /\ summaries' \in Seq(Nat \X Summaries)
    BY <2>1, StepKeepsScanPoint
  <2> QED BY <1>2, <2>1, <2>2 DEF IInv
<1>5. CASE ScanFolder
  <2>1. /\ pc = "scan" /\ pc' = "scan" /\ at <= Len(entries) /\ at' = at + 1
        /\ IsFolder(entries[at])
        /\ summaries' = IF CanCollapse(Summed(at))
                        THEN Append(summaries, <<at, Summed(at)>>) ELSE summaries
        /\ UNCHANGED <<folder, inside, scan, entries>> /\ UNCHANGED disk
    BY <1>5 DEF ScanFolder, IsFolder, disk, Summed
  <2>2. ScanPoint' /\ summaries' \in Seq(Nat \X Summaries)
    BY <2>1, StepKeepsScanPoint
  <2> QED BY <1>2, <2>1, <2>2 DEF IInv
<1>6. ASSUME UNCHANGED <<disk, entries, at, summaries>>
      PROVE  ScanPoint' <=> ScanPoint
  BY <1>6 DEF ScanPoint, Collapses, Summed, Inside, disk
<1>7. CASE Show
  <2>1. /\ pc = "scan" /\ pc' = "shown" /\ at > Len(entries)
        /\ shown' = Presentations(entries, summaries)
        /\ UNCHANGED <<disk, entries, at, summaries>> /\ UNCHANGED disk
        /\ at' = at /\ entries' = entries /\ summaries' = summaries
    BY <1>7 DEF Show
  <2>2. ScanPoint'
    BY <1>1, <1>6, <2>1
  <2> QED BY <1>1, <1>2, <2>1, <2>2 DEF IInv
<1>8. CASE Fail
  <2>1. /\ pc' = "failed" /\ pc \in {"start", "scan"}
        /\ UNCHANGED disk /\ entries' = entries /\ summaries' = summaries /\ folder' = folder
    BY <1>8 DEF Fail, disk
  <2>2. entries' \in {<<>>, Listed(folder')}
    BY <1>1, <2>1 DEF ScanPoint
  <2> QED BY <1>1, <1>2, <2>1, <2>2 DEF IInv
<1>9. CASE UNCHANGED vars
  <2>1. /\ UNCHANGED disk /\ UNCHANGED <<disk, entries, at, summaries>>
        /\ pc' = pc /\ entries' = entries /\ summaries' = summaries /\ at' = at
        /\ shown' = shown /\ folder' = folder
    BY <1>9 DEF vars, disk
  <2> QED BY <1>1, <1>2, <1>6, <2>1 DEF IInv
<1> QED BY <1>3, <1>4, <1>5, <1>7, <1>8, <1>9 DEF Next

\* The summaries that are kept are those of the folders that hold one film as
\* they were listed, each with the index of its folder; and what is shown is made
\* of them.
THEOREM SummariesKept == Spec => []IInv
<1> QED BY InitInvariant, InvariantStep, PTL DEF Spec

\* In every listing folders come first, and of two folders or files the one that
\* a reader looks for first, by the value of its numbers and the letters of its
\* words; names that differ in neither stay as the server sent them.
THEOREM InReadersOrder == Spec => []ListedInOrder
<1>1. IInv => ListedInOrder
  <2> SUFFICES ASSUME IInv, NEW i \in DOMAIN entries, NEW j \in DOMAIN entries, i < j
               PROVE  /\ IsFolder(entries[j]) => IsFolder(entries[i])
                      /\ IsFolder(entries[i]) = IsFolder(entries[j]) =>
                           \/ NameBefore(entries[i].name, entries[j].name)
                           \/ /\ ~NameBefore(entries[j].name, entries[i].name)
                              /\ Place(entries[i].name) < Place(entries[j].name)
    BY DEF ListedInOrder
  <2>1. folder \in Folders /\ entries = Listed(folder)
    BY DEF IInv, ScanPoint
  <2>2. PICK src : Arranges(src, FirstBatch(folder))
    <3>1. folder \in Seq(DirEntries)
      BY <2>1, AreDirectories
    <3> QED BY <3>1, FirstBatchIs, ListingArranged
  <2>3. /\ i \in 1 .. Len(entries) /\ j \in 1 .. Len(entries)
        /\ EntryOf(src, i) /\ EntryOf(src, j) /\ InPlace(folder, src[i], src[j])
    BY <2>1, <2>2, ListedOfFolder
  <2> DEFINE e == folder[src[i]]
             f == folder[src[j]]
             k == NaturalNameKey(e.name)
             l == NaturalNameKey(f.name)
             InOrd == src[i] < src[j]
  <2>4. /\ e \in DirEntries /\ f \in DirEntries
        /\ entries[i].name = e.name /\ entries[j].name = f.name
        /\ IsFolder(entries[i]) <=> IsDirectory(e)
        /\ IsFolder(entries[j]) <=> IsDirectory(f)
        /\ Place(entries[i].name) < Place(entries[j].name) <=> InOrd
    BY <2>3 DEF EntryOf
  <2>5. EntryBefore(e, f) \/ (~EntryBefore(f, e) /\ InOrd)
    BY <2>3 DEF InPlace
  <2> HIDE DEF e, f, k, l, InOrd
  <2>6. e.name \in Seq(Nat) /\ f.name \in Seq(Nat)
    BY <2>4 DEF DirEntries
  <2>7. /\ EntryBefore(e, f) <=>
             \/ IsDirectory(e) /\ ~IsDirectory(f)
             \/ (IsDirectory(e) <=> IsDirectory(f)) /\ <<k, l>> \in NameOrder
        /\ EntryBefore(f, e) <=>
             \/ IsDirectory(f) /\ ~IsDirectory(e)
             \/ (IsDirectory(f) <=> IsDirectory(e)) /\ <<l, k>> \in NameOrder
    BY <2>4, EntryBeforeIs DEF k, l
  <2>8. /\ NameBefore(e.name, f.name) <=> <<k, l>> \in NameOrder
        /\ NameBefore(f.name, e.name) <=> <<l, k>> \in NameOrder
    BY <2>6, NameBeforeIs DEF k, l
  <2>9. IsFolder(entries[j]) => IsFolder(entries[i])
    BY <2>4, <2>5, <2>7
  <2>10. ASSUME IsFolder(entries[i]) <=> IsFolder(entries[j])
         PROVE  NameBefore(e.name, f.name) \/ (~NameBefore(f.name, e.name) /\ InOrd)
    BY <2>4, <2>5, <2>7, <2>8, <2>10
  <2> QED BY <2>4, <2>9, <2>10
<1> QED BY <1>1, SummariesKept, PTL

\* The places of some entries of a listing are the entries of the folder.
LEMMA NamedAre ==
    ASSUME NEW n, NEW M, NEW src, Spreads(src, n, M), NEW T \in SUBSET M,
           NEW s, ToSet(s) = PlacesOf(src, T, n),
           \A i \in 1 .. n : Place(entries[i].name) = src[i]
    PROVE  {Place(entries[i].name) : i \in ToSet(s)} = T
<1>1. \A x \in T : \E i \in ToSet(s) : src[i] = x
  BY AsManyPlaces
<1>2. \A i \in ToSet(s) : i \in 1 .. n /\ src[i] \in T
  BY DEF PlacesOf
<1> QED BY <1>1, <1>2

\* What a summary says of a whole folder is true.
LEMMA ListedWhole ==
    ASSUME folder \in Folders, Len(folder) <= FirstBatchLen, entries = Listed(folder)
    PROVE  LET summary == FolderSummary(entries)
               Named(indices) == {Place(entries[i].name) : i \in ToSet(indices)}
           IN  /\ Named(summary.primary) = Films(folder)
               /\ Named(summary.primary \o summary.extras) = Videos(folder)
               /\ Len(summary.primary) + Len(summary.extras) = Cardinality(Videos(folder))
               /\ \A i \in DOMAIN entries : i \in ToSet(summary.audio) <=>
                       folder[Place(entries[i].name)].ext \in AudioExtensions
                       /\ ~IsFolder(entries[i])
               /\ summary.main = None <=> Films(folder) = {}
               /\ summary.main # None =>
                     /\ Place(entries[summary.main].name) \in Films(folder)
                     /\ \A i \in Films(folder) : folder[i].size <= entries[summary.main].size
<1> DEFINE s == FolderSummary(entries)
           n == Len(entries)
           M == MediaOf(folder)
           V == Videos(folder)
           F == Films(folder)
           X == V \ F
<1>1. folder \in Seq(DirEntries) /\ FirstBatch(folder) = folder
  BY AreDirectories, FirstBatchIs
<1>2. PICK src : Arranges(src, folder)
  BY <1>1, ListingArranged
<1>3. entries = MediaEntriesOf(folder)
  BY <1>1 DEF Listed
<1>4. /\ n = Cardinality(M) /\ n \in Nat /\ DOMAIN entries = 1 .. n
      /\ \A i \in 1 .. n : /\ IsFolder(entries[i]) <=> IsDirectory(folder[src[i]])
                           /\ IsAudio(entries[i]) <=> ~IsDirectory(folder[src[i]])
                                                /\ folder[src[i]].ext \in AudioExtensions
                           /\ entries[i].size = folder[src[i]].size
  BY <1>1, <1>2, <1>3, ListedIs
<1>5. SummaryTrue(s, entries, src, folder)
  BY <1>1, <1>2, <1>3, SummaryIs
<1>6. F \in SUBSET M /\ X \in SUBSET M /\ V = F \cup X /\ F \cap X = {}
  BY <1>1, VideosListed
<1>7. Spreads(src, n, M)
  BY <1>2, <1>4 DEF Arranges, Spreads
<1>8. \A i \in 1 .. n : Place(entries[i].name) = src[i]
  <2>1. Arranges(src, FirstBatch(folder))
    BY <1>1, <1>2
  <2> QED BY <2>1, ListedOfFolder DEF EntryOf
<1> HIDE DEF s, n, M, V, F, X
<1> DEFINE PF == PlacesOf(src, F, n)
           PX == PlacesOf(src, X, n)
           Named(indices) == {Place(entries[i].name) : i \in ToSet(indices)}
<1>9. /\ SequenceOf(s.primary, PF) /\ SequenceOf(s.extras, PX)
      /\ SequenceOf(s.audio, {i \in 1 .. n : IsAudio(entries[i])})
      /\ PF = {} => s.main = None
      /\ PF # {} => s.main \in PF /\ \A i \in PF : entries[i].size <= entries[s.main].size
  BY <1>5 DEF SummaryTrue, n, V, F, X
<1>10. /\ IsFiniteSet(F) /\ Cardinality(PF) = Cardinality(F)
       /\ \A x \in F : \E i \in PF : src[i] = x
       /\ IsFiniteSet(X) /\ Cardinality(PX) = Cardinality(X)
  BY <1>6, <1>7, AsManyPlaces
<1>11. PF \in SUBSET (1 .. n) /\ \A i \in PF : src[i] \in F
  BY DEF PlacesOf
<1>12. None \notin Nat
  BY NoneAssumption DEF NoneAssumption
<1> DEFINE a == s.primary
           b == s.extras
           c == s.audio
<1>13. /\ ToSet(a) = PF /\ ToSet(b) = PX /\ ToSet(c) = {i \in 1 .. n : IsAudio(entries[i])}
       /\ Len(a) = Cardinality(PF) /\ Len(b) = Cardinality(PX)
       /\ a \in Seq(Nat) /\ b \in Seq(Nat)
  BY <1>9 DEF SequenceOf
<1>14. Named(a) = F
  BY <1>6, <1>7, <1>8, <1>13, NamedAre
<1>15. Named(b) = X
  BY <1>6, <1>7, <1>8, <1>13, NamedAre
<1> HIDE DEF a, b, c, PF, PX
<1>16. Named(a \o b) = V
  <2>1. ToSet(a \o b) = ToSet(a) \cup ToSet(b)
    <3>0. a \in Seq(Nat) /\ b \in Seq(Nat)
      BY <1>13
    <3>1. /\ DOMAIN (a \o b) = 1 .. Len(a) + Len(b) /\ Len(a) \in Nat /\ Len(b) \in Nat
          /\ DOMAIN a = 1 .. Len(a) /\ DOMAIN b = 1 .. Len(b)
      BY <3>0
    <3>2. \A i \in 1 .. Len(a) : (a \o b)[i] = a[i]
      BY <1>13
    <3>3. \A i \in 1 .. Len(b) : (a \o b)[Len(a) + i] = b[i]
      BY <1>13
    <3>4. \A i \in 1 .. Len(a) + Len(b) :
             \/ i \in 1 .. Len(a)
             \/ i - Len(a) \in 1 .. Len(b) /\ Len(a) + (i - Len(a)) = i
      BY <3>1
    <3> DEFINE z == a \o b
    <3>5. /\ \A i \in 1 .. Len(a) : z[i] = a[i] /\ i \in DOMAIN z
          /\ \A i \in 1 .. Len(b) : z[Len(a) + i] = b[i] /\ Len(a) + i \in DOMAIN z
          /\ DOMAIN z = 1 .. Len(a) + Len(b)
      BY <3>1, <3>2, <3>3
    <3> HIDE DEF z
    <3>6. ToSet(z) \subseteq ToSet(a) \cup ToSet(b)
      <4> SUFFICES ASSUME NEW i \in DOMAIN z
                   PROVE  z[i] \in ToSet(a) \cup ToSet(b)
        BY DEF ToSet
      <4>1. CASE i \in 1 .. Len(a)
        BY <3>1, <3>5, <4>1 DEF ToSet
      <4>2. CASE i - Len(a) \in 1 .. Len(b) /\ Len(a) + (i - Len(a)) = i
        <5>1. z[i] = b[i - Len(a)]
          BY <3>5, <4>2
        <5> QED BY <3>1, <4>2, <5>1 DEF ToSet
      <4> QED BY <3>4, <3>5, <4>1, <4>2
    <3>7. ToSet(a) \subseteq ToSet(z)
      BY <3>1, <3>5 DEF ToSet
    <3>8. ToSet(b) \subseteq ToSet(z)
      BY <3>1, <3>5 DEF ToSet
    <3> QED BY <3>6, <3>7, <3>8 DEF z
  <2>2. Named(a \o b) = Named(a) \cup Named(b)
    BY <2>1
  <2> QED BY <1>6, <1>14, <1>15, <2>2
<1>17. Len(a) + Len(b) = Cardinality(V)
  <2>1. Cardinality(F \cup X) = Cardinality(F) + Cardinality(X) - Cardinality(F \cap X)
    BY <1>10, FS_Union
  <2>2. Cardinality(F \cap X) = 0
    BY <1>6, FS_EmptySet
  <2>3. Cardinality(F) \in Nat /\ Cardinality(X) \in Nat
    BY <1>10, FS_CardinalityType
  <2> QED BY <1>6, <1>10, <1>13, <2>1, <2>2, <2>3
<1>18. \A i \in DOMAIN entries : i \in ToSet(c) <=>
           folder[Place(entries[i].name)].ext \in AudioExtensions /\ ~IsFolder(entries[i])
  BY <1>4, <1>8, <1>13
<1>19. PF # {} <=> F # {}
  BY <1>10, <1>11
<1>20. s.main = None <=> F = {}
  <2>1. CASE PF = {}
    BY <1>9, <1>19, <2>1
  <2>2. CASE PF # {}
    <3>1. s.main \in PF
      BY <1>9, <2>2
    <3>2. s.main \in 1 .. n
      BY <1>11, <3>1
    <3>3. s.main # None
      BY <1>4, <1>12, <3>2
    <3> QED BY <1>19, <2>2, <3>3
  <2> QED BY <2>1, <2>2
<1>21. ASSUME s.main # None
       PROVE  /\ Place(entries[s.main].name) \in F
              /\ \A k \in F : folder[k].size <= entries[s.main].size
  <2>1. /\ s.main \in PF /\ s.main \in 1 .. n
        /\ \A i \in PF : entries[i].size <= entries[s.main].size
    BY <1>9, <1>11, <1>21
  <2>2. ASSUME NEW k \in F
        PROVE  folder[k].size <= entries[s.main].size
    <3>1. PICK i \in PF : src[i] = k
      BY <1>10
    <3>2. entries[i].size = folder[k].size
      BY <1>4, <1>11, <3>1
    <3> QED BY <2>1, <3>2
  <2> QED BY <1>8, <1>11, <2>1, <2>2
<1> QED BY <1>14, <1>16, <1>17, <1>18, <1>20, <1>21 DEF s, a, b, c, F, V

\* If the server sends each folder in one batch, a listing has every folder,
\* track and video of it and nothing else, each once, and its summary splits the
\* videos into films and extras and names a largest film.
THEOREM ListingsTrue == Spec => [](WholeBatches => EntriesTrue)
<1>1. IInv => (WholeBatches => EntriesTrue)
  <2> SUFFICES ASSUME IInv, WholeBatches, pc \notin {"start", "failed"}
               PROVE  EntriesTrue
    BY DEF EntriesTrue
  <2>1. folder \in Folders /\ entries = Listed(folder) /\ Len(folder) <= FirstBatchLen
    BY DEF IInv, ScanPoint, WholeBatches
  <2> QED BY <2>1, ListedWhole DEF EntriesTrue
<1> QED BY <1>1, SummariesKept, PTL

\* What is kept for an index is found again.
LEMMA SummaryFound ==
    ASSUME IInv, pc = "shown", NEW i \in DOMAIN entries
    PROVE  /\ i \in 1 .. Len(entries) /\ entries = Listed(folder)
           /\ SummaryOf(summaries, i) = IF Collapses(i) THEN Summed(i) ELSE None
<1> DEFINE C(j) == Collapses(j)
           S(j) == Summed(j)
           n == Len(entries)
           found == {k \in DOMAIN summaries : summaries[k][1] = i}
<1>1. /\ entries = Listed(folder) /\ at \in 1 .. n + 1 /\ at > n
      /\ \A j \in 1 .. at - 1 : C(j) => \E k \in DOMAIN summaries : summaries[k] = <<j, S(j)>>
      /\ \A k \in DOMAIN summaries : \E j \in 1 .. at - 1 : C(j) /\ summaries[k] = <<j, S(j)>>
      /\ summaries \in Seq(Nat \X Summaries) /\ folder \in Folders
  BY DEF IInv, ScanPoint
<1>2. n \in Nat /\ DOMAIN entries = 1 .. n
  <2>1. folder \in Seq(DirEntries) /\ FirstBatch(folder) \in Seq(DirEntries)
    BY <1>1, AreDirectories, FirstBatchIs
  <2>2. PICK src : Arranges(src, FirstBatch(folder))
    BY <2>1, ListingArranged
  <2> QED BY <1>1, <2>2, ListedOfFolder
<1>3. SummaryOf(summaries, i) = IF found = {} THEN None ELSE summaries[Min(found)][2]
  BY DEF SummaryOf, FirstOf
<1> HIDE DEF C, S, n
<1>4. i \in 1 .. n /\ at - 1 = n
  BY <1>1, <1>2
<1>5. \A k \in found : C(i) /\ summaries[k][2] = S(i)
  <2> SUFFICES ASSUME NEW k \in found
               PROVE  C(i) /\ summaries[k][2] = S(i)
    OBVIOUS
  <2>1. PICK j \in 1 .. at - 1 : C(j) /\ summaries[k] = <<j, S(j)>>
    BY <1>1
  <2>2. j = i
    BY <2>1
  <2> QED BY <2>1, <2>2
<1>6. C(i) => found # {}
  <2> SUFFICES ASSUME C(i) PROVE found # {}
    OBVIOUS
  <2>1. PICK k \in DOMAIN summaries : summaries[k] = <<i, S(i)>>
    BY <1>1, <1>4
  <2>2. k \in found
    BY <2>1
  <2> QED BY <2>2
<1>7. found \in SUBSET Nat
  BY <1>1
<1> HIDE DEF found
<1>8. SummaryOf(summaries, i) = IF C(i) THEN S(i) ELSE None
  <2>1. CASE found = {}
    BY <1>3, <1>6, <2>1
  <2>2. CASE found # {}
    <3>1. Min(found) \in found
      BY <1>7, <2>2, MinIsOne
    <3> QED BY <1>3, <1>5, <2>2, <3>1
  <2> QED BY <2>1, <2>2
<1> QED BY <1>1, <1>4, <1>8 DEF C, S, n

\* Those and only those folders are presented as films, when folders are looked
\* into, whose first batch has one, however many there are in the folder; and the
\* main video of such a folder is that film.
THEOREM FilmsOfBatch == Spec => []MoviesOfBatch
<1>1. IInv => MoviesOfBatch
  <2> SUFFICES ASSUME IInv, pc = "shown", NEW i \in DOMAIN entries
               PROVE  LET batch == FirstBatch(Inside(entries[i])) IN
                      /\ shown[i].index = i
                      /\ shown[i].as = "MovieFolder" <=>
                            scan /\ IsFolder(entries[i]) /\ Cardinality(Films(batch)) = 1
                      /\ shown[i].as = "MovieFolder" =>
                            \E film \in Films(batch) :
                               MediaEntriesOf(batch)[shown[i].summary.main].name
                                   = batch[film].name
    BY DEF MoviesOfBatch
  <2> DEFINE s == Summed(i)
             e == entries[i]
             batch == FirstBatch(Inside(e))
             found == SummaryOf(summaries, i)
  <2>1. i \in 1 .. Len(entries) /\ entries = Listed(folder)
    BY SummaryFound
  <2>2. found = IF Collapses(i) THEN s ELSE None
    BY SummaryFound
  <2>3. shown[i] = Presentation(i, e, found)
    BY DEF IInv, Presentations
  <2>4. Collapses(i) <=> scan /\ IsFolder(e) /\ CanCollapse(s)
    BY DEF Collapses
  <2>5. folder \in Folders /\ inside \in [Subfolders -> Children] /\ None \notin Summaries
    BY NoneAssumption DEF IInv, NoneAssumption
  <2>6. ASSUME IsFolder(e)
        PROVE  /\ s \in Summaries
               /\ CanCollapse(s) <=> Cardinality(Films(batch)) = 1
               /\ CanCollapse(s) => \E film \in Films(batch) :
                                       MediaEntriesOf(batch)[s.main].name = batch[film].name
    <3>1. Inside(e) \in Children /\ s \in Summaries
      BY <2>1, <2>5, <2>6, InsideIs
    <3>2. batch \in Seq(DirEntries)
      BY <3>1, AreDirectories, FirstBatchIs
    <3>3. s = FolderSummary(MediaEntriesOf(batch))
      BY DEF Summed, Listed
    <3> HIDE DEF batch, s
    <3>4. /\ CanCollapse(FolderSummary(MediaEntriesOf(batch))) <=> Cardinality(Films(batch)) = 1
          /\ CanCollapse(FolderSummary(MediaEntriesOf(batch))) =>
                \E film \in Films(batch) :
                   MediaEntriesOf(batch)[FolderSummary(MediaEntriesOf(batch)).main].name
                       = batch[film].name
      BY <3>2, CollapsesIs
    <3> QED BY <3>1, <3>3, <3>4
  <2>7. /\ shown[i].index = i
        /\ shown[i].as = IF e.kind # "Folder" THEN "PlayableFile"
                         ELSE IF found # None /\ CanCollapse(found) THEN "MovieFolder"
                              ELSE "Folder"
        /\ shown[i].summary = IF e.kind = "Folder" /\ found # None /\ CanCollapse(found)
                              THEN found ELSE None
    BY <2>3 DEF Presentation
  <2>8. IsFolder(e) <=> e.kind = "Folder"
    BY DEF IsFolder
  <2> HIDE DEF s, e, batch, found
  <2>9. CASE ~Collapses(i)
    <3>1. found = None
      BY <2>2, <2>9
    <3>2. shown[i].as # "MovieFolder"
      BY <2>7, <3>1
    <3> QED BY <2>4, <2>6, <2>7, <2>9, <3>2 DEF e, batch
  <2>10. CASE Collapses(i)
    <3>1. IsFolder(e) /\ found = s /\ CanCollapse(s) /\ s \in Summaries /\ scan
      BY <2>2, <2>4, <2>6, <2>10
    <3>2. found # None
      BY <2>5, <3>1
    <3>3. shown[i].as = "MovieFolder" /\ shown[i].summary = s
      BY <2>7, <2>8, <3>1, <3>2
    <3> QED BY <2>6, <2>7, <3>1, <3>3 DEF e, batch
  <2> QED BY <2>9, <2>10
<1> QED BY <1>1, SummariesKept, PTL

\* If the server sends each folder in one batch, those and only those folders are
\* presented as films, when folders are looked into, that hold one; and the main
\* video of such a folder is that film.
THEOREM FilmsExact == Spec => [](WholeBatches => MoviesExact)
<1>1. IInv /\ MoviesOfBatch => (WholeBatches => MoviesExact)
  <2> SUFFICES ASSUME IInv, MoviesOfBatch, WholeBatches, pc = "shown",
                      NEW i \in DOMAIN entries
               PROVE  LET dir == Inside(entries[i]) IN
                      /\ shown[i].index = i
                      /\ shown[i].as = "MovieFolder" <=>
                            scan /\ IsFolder(entries[i]) /\ Cardinality(Films(dir)) = 1
                      /\ shown[i].as = "MovieFolder" =>
                            \E film \in Films(dir) :
                                MediaEntriesOf(dir)[shown[i].summary.main].name = dir[film].name
    BY DEF MoviesExact
  <2> DEFINE dir == Inside(entries[i])
             batch == FirstBatch(dir)
  <2>1. /\ shown[i].index = i
        /\ shown[i].as = "MovieFolder" <=>
              scan /\ IsFolder(entries[i]) /\ Cardinality(Films(batch)) = 1
        /\ shown[i].as = "MovieFolder" =>
              \E film \in Films(batch) :
                 MediaEntriesOf(batch)[shown[i].summary.main].name = batch[film].name
    BY DEF MoviesOfBatch
  <2>2. ASSUME IsFolder(entries[i])
        PROVE  batch = dir
    <3>1. folder \in Folders /\ inside \in [Subfolders -> Children]
      BY DEF IInv
    <3>2. i \in 1 .. Len(entries) /\ entries = Listed(folder)
      BY SummaryFound
    <3>3. dir \in Children
      BY <2>2, <3>1, <3>2, InsideIs
    <3>4. dir \in Seq(DirEntries) /\ Len(dir) <= FirstBatchLen
      BY <3>3, AreDirectories DEF WholeBatches
    <3> QED BY <3>4, FirstBatchIs
  <2> HIDE DEF dir, batch
  <2> QED BY <2>1, <2>2 DEF dir
<1> QED BY <1>1, SummariesKept, FilmsOfBatch, PTL
=============================================================================
