------------------------------ MODULE Induction ------------------------------
(***************************************************************************)
(* Induction where no operator can be passed as a parameter: what holds of *)
(* the numbers up to n is the set of those it holds of.  From it, that a   *)
(* function defined by recursion exists, what the iterations that          *)
(* LivePoints and Closure count out arrive at, what sequences that are     *)
(* joined hold, and that a finite set of numbers has a largest one.        *)
(***************************************************************************)
EXTENDS Integers, SequencesExt, SequenceTheorems, FiniteSetTheorems, WellFoundedInduction, TLAPS

\* A set of numbers that is not empty has a least one.
LEMMA LeastNumber ==
  ASSUME NEW T, T \subseteq Nat, T # {}
  PROVE  \E n \in T : \A m \in T : n <= m
<1> DEFINE Less == OpToRel(<, Nat)
<1>1. IsWellFoundedOn(Less, Nat)
  BY NatLessThanWellFounded, Zenon
<1>2. \A x, y \in Nat : <<y, x>> \in Less <=> y < x
  BY DEF OpToRel
<1> HIDE DEF Less
<1>3. PICK x \in T : \A y \in T : ~ (<<y, x>> \in Less)
  BY <1>1, WFMin, Zenon
<1>4. \A y \in T : ~ (y < x)
  BY <1>2, <1>3, Zenon
<1> QED
  BY <1>4

\* A set that has 0, and with a number below n the next one, has the numbers up to n.
LEMMA Induct ==
  ASSUME NEW n \in Nat, NEW S, 0 \in S, \A k \in 0..n : k \in S /\ k < n => k + 1 \in S
  PROVE  0..n \subseteq S
<1> DEFINE T == {k \in 0..n : k \notin S}
<1> SUFFICES ASSUME T # {} PROVE FALSE
  OBVIOUS
<1>1. T \subseteq Nat
  OBVIOUS
<1> HIDE DEF T
<1>2. PICK k \in T : \A m \in T : k <= m
  BY <1>1, LeastNumber
<1> USE DEF T
<1>3. k # 0 /\ k - 1 \in 0..n /\ k - 1 \notin T
  BY <1>2
<1> QED
  BY <1>3

\* The recursive function r[k \in 0..n] == IF k = 0 THEN a ELSE g[k][r[k - 1]].
IsRecursion(r, n, a, g) == r = [k \in 0..n |-> IF k = 0 THEN a ELSE g[k][r[k - 1]]]

\* Every recursive function on the numbers up to n exists.
LEMMA Recurs ==
  ASSUME NEW S, NEW n \in Nat, NEW a \in S,
         NEW g \in [1..n -> [S -> S]]
  PROVE  \E r : IsRecursion(r, n, a, g) /\ \A k \in 0..n : r[k] \in S
<1> DEFINE Defines(f, m) == \A k \in 0..m : f[k] = IF k = 0 THEN a ELSE g[k][f[k - 1]]
           T == {m \in 0..n : \E f \in [0..m -> S] : Defines(f, m)}
<1>1. 0 \in T
  <2> DEFINE one == [k \in 0..0 |-> a]
  <2>1. one \in [0..0 -> S] /\ Defines(one, 0) /\ 0 \in 0..n
    OBVIOUS
  <2> HIDE DEF one, Defines
  <2> QED BY <2>1
<1>2. ASSUME NEW m \in 0..n, m \in T, m < n
      PROVE  m + 1 \in T
  <2>1. PICK f \in [0..m -> S] : Defines(f, m)
    BY <1>2
  <2> DEFINE h == [k \in 0..(m + 1) |-> IF k = m + 1 THEN g[m + 1][f[m]] ELSE f[k]]
  <2>a. m + 1 \in 1..n /\ f[m] \in S
    BY <1>2
  <2>2. h \in [0..(m + 1) -> S]
    BY <2>a
  <2>3. \A k \in 0..m : h[k] = f[k]
    OBVIOUS
  <2>4. h[m + 1] = g[m + 1][f[m]]
    OBVIOUS
  <2> HIDE DEF h
  <2>5. ASSUME NEW k \in 0..(m + 1)
        PROVE  h[k] = IF k = 0 THEN a ELSE g[k][h[k - 1]]
    <3>1. CASE k = m + 1
      BY <2>3, <2>4, <3>1
    <3>2. CASE k # m + 1 /\ k # 0
      <4>1. k \in 0..m /\ k - 1 \in 0..m
        BY <3>2
      <4> QED BY <2>1, <2>3, <3>2, <4>1
    <3>3. CASE k = 0
      BY <2>1, <2>3, <3>3
    <3> QED BY <3>1, <3>2, <3>3
  <2>6. Defines(h, m + 1) /\ m + 1 \in 0..n
    BY <1>2, <2>5
  <2> HIDE DEF Defines
  <2> QED BY <2>2, <2>6
<1> HIDE DEF T
<1>3. 0..n \subseteq T
  BY <1>1, <1>2, Induct
<1> USE DEF T
<1>4. PICK f \in [0..n -> S] : Defines(f, n)
  BY <1>3
<1>5. IsRecursion(f, n, a, g)
  BY <1>4 DEF IsRecursion
<1> QED BY <1>5

\* The recursive function r[k \in 0..n] == IF k = 0 THEN a ELSE g[r[k - 1]].
IsIteration(r, n, a, g) == r = [k \in 0..n |-> IF k = 0 THEN a ELSE g[r[k - 1]]]

\* Every operation can be iterated, from any value of its domain.
LEMMA Iterates ==
  ASSUME NEW S, NEW g \in [S -> S], NEW a \in S, NEW n \in Nat
  PROVE  \E r : IsIteration(r, n, a, g) /\ \A k \in 0..n : r[k] \in S
<1> DEFINE h == [k \in 1..n |-> g]
<1>1. h \in [1..n -> [S -> S]] /\ \A k \in 1..n : h[k] = g
  OBVIOUS
<1> HIDE DEF h
<1>3. PICK r : IsRecursion(r, n, a, h) /\ \A k \in 0..n : r[k] \in S
  BY <1>1, Recurs
<1>4. \A k \in 0..n : (IF k = 0 THEN a ELSE h[k][r[k - 1]]) = IF k = 0 THEN a ELSE g[r[k - 1]]
  BY <1>1, <1>3
<1>5. IsIteration(r, n, a, g)
  BY <1>3, <1>4 DEF IsRecursion, IsIteration
<1> QED BY <1>3, <1>5

\* Where the sequences ss[1] to ss[n] begin in one that joins them: behind o[j - 1].
Begin(o, ss, n) ==
  /\ o \in [0..n -> Nat] /\ o[0] = 0
  /\ \A j \in 1..n : o[j] = o[j - 1] + Len(ss[j])

Joins(q, ss, o, n) ==
  /\ Len(q) = o[n]
  /\ \A j \in 1..n : \A i \in 1..Len(ss[j]) :
       o[j - 1] + i \in 1..Len(q) /\ q[o[j - 1] + i] = ss[j][i]
  /\ \A x \in 1..Len(q) : \E j \in 1..n : x - o[j - 1] \in 1..Len(ss[j])

LEMMA Begins ==
  ASSUME NEW n \in Nat, NEW ss, \A j \in 1..n : Len(ss[j]) \in Nat
  PROVE  \E o : Begin(o, ss, n)
<1> DEFINE g == [k \in 1..n |-> [m \in Nat |-> m + Len(ss[k])]]
<1>1. g \in [1..n -> [Nat -> Nat]] /\ \A k \in 1..n, m \in Nat : g[k][m] = m + Len(ss[k])
  OBVIOUS
<1> HIDE DEF g
<1>2. PICK o : IsRecursion(o, n, 0, g) /\ \A k \in 0..n : o[k] \in Nat
  BY <1>1, Recurs
<1>3. o \in [0..n -> Nat] /\ o[0] = 0
  BY <1>2 DEF IsRecursion
<1>4. ASSUME NEW j \in 1..n PROVE o[j] = o[j - 1] + Len(ss[j])
  <2>1. j \in 0..n /\ j # 0 /\ j - 1 \in 0..n
    OBVIOUS
  <2>2. o[j] = g[j][o[j - 1]]
    BY <1>2, <2>1 DEF IsRecursion
  <2> QED BY <1>1, <1>3, <2>1, <2>2
<1> QED BY <1>3, <1>4 DEF Begin

\* One more sequence behind those that are joined.
LEMMA JoinsOneMore ==
  ASSUME NEW S, NEW n \in Nat, NEW k \in 0..n, k < n,
         NEW ss, \A j \in 1..n : ss[j] \in Seq(S),
         NEW o, Begin(o, ss, n), NEW q \in Seq(S), Joins(q, ss, o, k)
  PROVE  Joins(q \o ss[k + 1], ss, o, k + 1)
<1> DEFINE t == ss[k + 1]
           p == q \o t
<1>1. k + 1 \in 1..n /\ t \in Seq(S) /\ o[k + 1] = o[k] + Len(t) /\ o[k] \in Nat
  <2>1. k + 1 \in 1..n /\ (k + 1) - 1 = k
    OBVIOUS
  <2> QED BY <2>1 DEF Begin
<1>2. Len(q) \in Nat /\ Len(t) \in Nat /\ Len(q) = o[k]
  BY <1>1, LenProperties DEF Joins
<1>3. /\ Len(p) = Len(q) + Len(t)
      /\ \A i \in 1..Len(q) + Len(t) : p[i] = IF i <= Len(q) THEN q[i] ELSE t[i - Len(q)]
  BY <1>1, ConcatProperties
<1> HIDE DEF t, p
<1>4. Len(p) = o[k + 1]
  BY <1>1, <1>2, <1>3
<1>5. ASSUME NEW j \in 1..k + 1, NEW i \in 1..Len(ss[j])
      PROVE  o[j - 1] + i \in 1..Len(p) /\ p[o[j - 1] + i] = ss[j][i]
  <2>1. CASE j = k + 1
    <3>1. o[j - 1] = Len(q) /\ ss[j] = t /\ i \in 1..Len(t)
      BY <1>2, <2>1 DEF t
    <3>2. Len(q) + i \in 1..Len(q) + Len(t) /\ ~ (Len(q) + i <= Len(q)) /\ (Len(q) + i) - Len(q) = i
      BY <1>2, <3>1
    <3> QED BY <1>3, <3>1, <3>2
  <2>2. CASE j # k + 1
    <3>1. j \in 1..k
      BY <2>2
    <3>2. o[j - 1] + i \in 1..Len(q) /\ q[o[j - 1] + i] = ss[j][i]
      BY <3>1 DEF Joins
    <3>3. o[j - 1] + i \in 1..Len(q) + Len(t) /\ o[j - 1] + i <= Len(q)
      BY <1>2, <3>2
    <3> QED BY <1>3, <3>2, <3>3
  <2> QED BY <2>1, <2>2
<1>6. ASSUME NEW x \in 1..Len(p)
      PROVE  \E j \in 1..k + 1 : x - o[j - 1] \in 1..Len(ss[j])
  <2>1. CASE x <= Len(q)
    <3>1. x \in 1..Len(q)
      BY <2>1
    <3>2. PICK j \in 1..k : x - o[j - 1] \in 1..Len(ss[j])
      BY <3>1 DEF Joins
    <3> QED BY <3>2
  <2>2. CASE ~ (x <= Len(q))
    <3>1. x - o[k] \in 1..Len(t)
      BY <1>2, <1>3, <2>2
    <3>2. k + 1 \in 1..k + 1 /\ (k + 1) - 1 = k /\ ss[k + 1] = t
      BY DEF t
    <3> QED BY <3>1, <3>2
  <2> QED BY <2>1, <2>2
<1> QED BY <1>4, <1>5, <1>6 DEF Joins, p, t

\* FlattenSeq joins the sequences it is given.
LEMMA FlattenJoins ==
  ASSUME NEW S, NEW ss \in Seq(Seq(S))
  PROVE  /\ FlattenSeq(ss) \in Seq(S)
         /\ \E o : Begin(o, ss, Len(ss)) /\ Joins(FlattenSeq(ss), ss, o, Len(ss))
<1> DEFINE n == Len(ss)
           Next(f) == [i \in 1..n |-> IF i = 1 THEN ss[i] ELSE f[i - 1] \o ss[i]]
           flatten == CHOOSE f : f = Next(f)
<1>1. n \in Nat /\ \A j \in 1..n : ss[j] \in Seq(S) /\ Len(ss[j]) \in Nat
  BY LenProperties, ElementOfSeq
<1>2. PICK o : Begin(o, ss, n)
  BY <1>1, Begins
<1>3. FlattenSeq(ss) = IF n = 0 THEN ss ELSE flatten[n]
  BY DEF FlattenSeq
<1>4. flatten = Next(flatten)
  <2> DEFINE g == [k \in 1..n |-> [s \in Seq(S) |-> s \o ss[k]]]
  <2>1. g \in [1..n -> [Seq(S) -> Seq(S)]]
    BY <1>1, ConcatProperties
  <2>2. \A k \in 1..n, s \in Seq(S) : g[k][s] = s \o ss[k]
    OBVIOUS
  <2> HIDE DEF g
  <2>3. <<>> \in Seq(S)
    OBVIOUS
  <2>4. PICK r : IsRecursion(r, n, <<>>, g) /\ \A k \in 0..n : r[k] \in Seq(S)
    BY <1>1, <2>1, <2>3, Recurs
  <2> DEFINE w == [i \in 1..n |-> r[i]]
  <2>5. ASSUME NEW i \in 1..n
        PROVE  w[i] = IF i = 1 THEN ss[i] ELSE w[i - 1] \o ss[i]
    <3>1. i \in 0..n /\ i # 0 /\ i - 1 \in 0..n
      BY <1>1
    <3>2. r[i] = g[i][r[i - 1]] /\ r[i - 1] \in Seq(S)
      BY <2>4, <3>1 DEF IsRecursion
    <3>3. w[i] = r[i - 1] \o ss[i]
      BY <2>2, <3>2
    <3>4. CASE i = 1
      <4>1. r[0] = <<>>
        BY <1>1, <2>4 DEF IsRecursion
      <4>2. i - 1 = 0 /\ ss[i] \in Seq(S)
        BY <1>1, <3>4
      <4>3. <<>> \o ss[i] = ss[i]
        BY <4>2, ConcatEmptySeq
      <4>4. w[i] = ss[i]
        BY <3>3, <4>1, <4>2, <4>3
      <4> QED BY <3>4, <4>4
    <3>5. CASE i # 1
      <4>1. i - 1 \in 1..n
        BY <1>1, <3>5
      <4> QED BY <3>3, <3>5, <4>1
    <3> QED BY <3>4, <3>5
  <2>6. w = Next(w)
    BY <2>5
  <2> HIDE DEF w, Next
  <2> QED BY <2>6
<1>5. \A i \in 1..n : flatten[i] = IF i = 1 THEN ss[i] ELSE flatten[i - 1] \o ss[i]
  <2> HIDE DEF flatten
  <2> QED BY <1>4
<1> HIDE DEF flatten, Next
<1>6. CASE n = 0
  <2>1. ss = <<>> /\ FlattenSeq(ss) = <<>>
    BY <1>3, <1>6
  <2>2. Joins(<<>>, ss, o, 0)
    BY <1>2 DEF Joins, Begin
  <2>3. FlattenSeq(ss) \in Seq(S)
    BY <2>1, EmptySeq
  <2>4. Joins(FlattenSeq(ss), ss, o, n)
    BY <1>6, <2>1, <2>2
  <2> HIDE DEF n
  <2> QED BY <1>2, <2>3, <2>4 DEF n
<1>7. CASE n # 0
  <2> DEFINE T == {k \in 0..n : k # 0 => flatten[k] \in Seq(S) /\ Joins(flatten[k], ss, o, k)}
  <2>1. 0 \in T
    OBVIOUS
  <2>2. ASSUME NEW k \in 0..n, k \in T, k < n
        PROVE  k + 1 \in T
    <3>1. k + 1 \in 1..n /\ (k + 1) - 1 = k
      BY <1>1, <2>2
    <3>2. CASE k = 0
      <4>1. flatten[1] = ss[1] /\ ss[1] \in Seq(S)
        BY <1>1, <1>5, <3>1, <3>2
      <4>2. Joins(<<>>, ss, o, 0)
        BY <1>2 DEF Joins, Begin
      <4>a. <<>> \in Seq(S) /\ Joins(<<>>, ss, o, k)
        BY <3>2, <4>2
      <4>3. Joins(<<>> \o ss[k + 1], ss, o, k + 1)
        BY <1>1, <1>2, <2>2, <4>a, JoinsOneMore
      <4>4. <<>> \o ss[1] = ss[1]
        BY <4>1, ConcatEmptySeq
      <4> QED BY <3>1, <3>2, <4>1, <4>3, <4>4
    <3>3. CASE k # 0
      <4>1. flatten[k + 1] = flatten[k] \o ss[k + 1]
        <5>1. k + 1 # 1
          BY <3>3
        <5>2. flatten[k + 1] = flatten[(k + 1) - 1] \o ss[k + 1]
          BY <1>5, <3>1, <5>1
        <5> QED BY <3>1, <5>2
      <4>2. flatten[k] \in Seq(S) /\ Joins(flatten[k], ss, o, k)
        BY <2>2, <3>3
      <4>3. Joins(flatten[k] \o ss[k + 1], ss, o, k + 1)
        BY <1>1, <1>2, <2>2, <4>2, JoinsOneMore
      <4>4. flatten[k] \o ss[k + 1] \in Seq(S)
        BY <1>1, <3>1, <4>2, ConcatProperties
      <4>5. k + 1 \in 0..n
        BY <3>1
      <4> QED BY <4>1, <4>3, <4>4, <4>5
    <3> QED BY <3>2, <3>3
  <2> HIDE DEF T
  <2>3. 0..n \subseteq T
    BY <1>1, <2>1, <2>2, Induct
  <2>4. n \in 0..n
    BY <1>1
  <2>5. flatten[n] \in Seq(S) /\ Joins(flatten[n], ss, o, n)
    BY <1>7, <2>3, <2>4 DEF T
  <2> QED BY <1>2, <1>3, <1>7, <2>5
<1> QED BY <1>6, <1>7

\* Iterating a monotone operation on sets, from where it adds, as often as there are
\* elements to add, arrives where it adds nothing more.
Monotone(g, U) ==
  /\ \A s \in SUBSET U : g[s] \in SUBSET U
  /\ \A s, t \in SUBSET U : s \subseteq t => g[s] \subseteq g[t]

Grows(r, n, a, g, U) ==
  /\ IsFiniteSet(U) /\ n \in Nat /\ Cardinality(U) <= n
  /\ Monotone(g, U) /\ a \subseteq U /\ a \subseteq g[a]
  /\ IsIteration(r, n, a, g)

Settles(r, n, a, g, U) == r[n] \subseteq U /\ a \subseteq r[n] /\ g[r[n]] = r[n]

LEMMA IterationSettles ==
  ASSUME NEW r, NEW n, NEW a, NEW g, NEW U, Grows(r, n, a, g, U)
  PROVE  Settles(r, n, a, g, U)
<1> USE DEF Grows, Monotone, Settles
<1>a. r[0] = a /\ \A k \in 1..n : r[k] = g[r[k - 1]]
  BY DEF IsIteration
<1>b. \A k \in 0..n : r[k] \in SUBSET U
  <2> DEFINE T == {k \in 0..n : r[k] \in SUBSET U}
  <2>1. 0 \in T
    BY <1>a
  <2>2. \A k \in 0..n : k \in T /\ k < n => k + 1 \in T
    BY <1>a
  <2> HIDE DEF T
  <2>3. 0..n \subseteq T
    BY <2>1, <2>2, Induct
  <2> QED BY <2>3 DEF T
<1>0. ASSUME NEW k \in 0..n, k < n
      PROVE  k + 1 \in 1..n /\ k + 1 \in 0..n /\ r[k + 1] = g[r[k]]
  <2>1. k + 1 \in 1..n /\ (k + 1) - 1 = k
    BY <1>0
  <2> QED BY <1>a, <2>1
<1>1. \A k \in 0..n : r[k] \subseteq g[r[k]]
  <2> DEFINE T == {k \in 0..n : r[k] \subseteq g[r[k]]}
  <2>1. 0 \in T
    BY <1>a
  <2>2. ASSUME NEW k \in 0..n, k \in T, k < n
        PROVE  k + 1 \in T
    BY <1>0, <1>b, <2>2
  <2> HIDE DEF T
  <2>3. 0..n \subseteq T
    BY <2>1, <2>2, Induct
  <2> QED BY <2>3 DEF T
<1>2. r[0] \subseteq r[n]
  <2> DEFINE T == {k \in 0..n : r[0] \subseteq r[k]}
  <2>1. 0 \in T
    OBVIOUS
  <2>2. \A k \in 0..n : k \in T /\ k < n => k + 1 \in T
    BY <1>0, <1>1
  <2> HIDE DEF T
  <2>3. 0..n \subseteq T
    BY <2>1, <2>2, Induct
  <2> QED BY <2>3 DEF T
<1>3. SUFFICES ASSUME g[r[n]] # r[n] PROVE FALSE
  BY <1>2, <1>a, <1>b
<1>4. ASSUME NEW k \in 0..n, g[r[k]] = r[k] PROVE FALSE
  <2> DEFINE T == {j \in 0..n : j >= k => r[j] = r[k]}
  <2>1. 0 \in T
    OBVIOUS
  <2>2. ASSUME NEW j \in 0..n, j \in T, j < n
        PROVE  j + 1 \in T
    <3>1. j + 1 >= k => j + 1 = k \/ j >= k
      OBVIOUS
    <3> QED BY <1>0, <1>4, <2>2, <3>1
  <2> HIDE DEF T
  <2>3. 0..n \subseteq T
    BY <2>1, <2>2, Induct
  <2>4. r[n] = r[k]
    BY <2>3 DEF T
  <2> QED BY <1>3, <1>4, <2>4
<1>5. \A s \in SUBSET U : IsFiniteSet(s) /\ Cardinality(s) \in Nat
  BY FS_Subset, FS_CardinalityType
<1>6. \A k \in 0..n : Cardinality(r[k]) >= k
  <2> DEFINE T == {k \in 0..n : Cardinality(r[k]) >= k}
  <2>1. 0 \in T
    BY <1>b, <1>5
  <2>2. ASSUME NEW k \in 0..n, k \in T, k < n
        PROVE  k + 1 \in T
    <3>1. r[k] \subseteq r[k + 1] /\ r[k] # r[k + 1] /\ r[k] \in SUBSET U /\ r[k + 1] \in SUBSET U
      BY <1>0, <1>1, <1>b, <1>4, <2>2
    <3>2. Cardinality(r[k]) < Cardinality(r[k + 1])
      <4>1. PICK big, small : big = r[k + 1] /\ small = r[k]
        OBVIOUS
      <4>2. Cardinality(small) <= Cardinality(big) /\ Cardinality(small) # Cardinality(big)
        BY <1>5, <3>1, <4>1, FS_Subset
      <4>3. Cardinality(small) \in Nat /\ Cardinality(big) \in Nat
        BY <1>5, <3>1, <4>1
      <4> QED BY <4>1, <4>2, <4>3
    <3> QED BY <1>5, <2>2, <3>1, <3>2
  <2> HIDE DEF T
  <2>3. 0..n \subseteq T
    BY <2>1, <2>2, Induct
  <2> QED BY <2>3 DEF T
<1>7. r[n] = U
  <2>1. r[n] \in SUBSET U /\ Cardinality(r[n]) >= n
    BY <1>6, <1>b
  <2>2. Cardinality(r[n]) <= Cardinality(U)
    BY <2>1, FS_Subset
  <2>3. Cardinality(r[n]) = Cardinality(U)
    BY <1>5, <2>1, <2>2
  <2> QED BY <2>1, <2>3, FS_Subset
<1>8. g[U] \subseteq U /\ U \subseteq g[U]
  BY <1>1, <1>7
<1> QED BY <1>3, <1>7, <1>8

\* What is not left by adding is not left by adding often.
LEMMA IterationStaysWithin ==
  ASSUME NEW n, n \in Nat, NEW g, NEW a, NEW r, IsIteration(r, n, a, g),
         NEW L, a \subseteq L, \A s \in SUBSET L : g[s] \subseteq L
  PROVE  r[n] \subseteq L
<1> DEFINE T == {k \in 0..n : r[k] \subseteq L}
<1>0. r[0] = a /\ \A k \in 1..n : r[k] = g[r[k - 1]]
  BY DEF IsIteration
<1>1. 0 \in T
  BY <1>0
<1>2. \A k \in 0..n : k \in T /\ k < n => k + 1 \in T
  BY <1>0
<1> HIDE DEF T
<1>3. 0..n \subseteq T
  BY <1>1, <1>2, Induct
<1> QED BY <1>3 DEF T

-----------------------------------------------------------------------------
\* What the elements of a finite set are mapped to is finite.
LEMMA ImageIsFinite ==
  ASSUME NEW S, IsFiniteSet(S), NEW g
  PROVE  IsFiniteSet({g[x] : x \in S})
<1> DEFINE T == {g[x] : x \in S}
           h == [x \in S |-> g[x]]
<1>1. h \in [S -> T] /\ \A x \in S : h[x] = g[x]
  OBVIOUS
<1>2. h \in Surjection(S, T)
  BY <1>1 DEF Surjection
<1> HIDE DEF h, T
<1>3. IsFiniteSet(T)
  BY <1>2, FS_Surjection
<1> QED BY <1>3 DEF T

\* A finite set of numbers that is not empty has a largest one.
LEMMA LargestNumber ==
  ASSUME NEW S, S \subseteq Nat, S # {}, IsFiniteSet(S)
  PROVE  \E n \in S : \A m \in S : m <= n
<1>1. PICK n \in Nat : ExistsSurjection(1..n, S)
  BY FS_NatSurjection
<1>2. PICK f \in Surjection(1..n, S) : TRUE
  BY <1>1 DEF ExistsSurjection
<1>3. f \in [1..n -> S] /\ \A x \in S : \E k \in 1..n : f[k] = x
  BY <1>2 DEF Surjection
<1> DEFINE T == {k \in 0..n : \E b \in Nat : \A i \in 1..k : f[i] <= b}
<1>4. 0 \in T
  OBVIOUS
<1>5. ASSUME NEW k \in 0..n, k \in T, k < n
      PROVE  k + 1 \in T
  <2>1. PICK b \in Nat : \A i \in 1..k : f[i] <= b
    BY <1>5
  <2>a. k + 1 \in 1..n
    BY <1>5
  <2>2. k + 1 \in 1..n /\ f[k + 1] \in Nat
    BY <1>3, <2>a
  <2>3. PICK c \in Nat : b <= c /\ f[k + 1] <= c
    <3>1. CASE b <= f[k + 1]
      BY <2>2, <3>1
    <3>2. CASE f[k + 1] <= b
      BY <2>2, <3>2
    <3> QED BY <2>2, <3>1, <3>2
  <2>4. ASSUME NEW i \in 1..(k + 1) PROVE f[i] <= c
    <3>1. CASE i = k + 1
      BY <2>3, <3>1
    <3>2. CASE i # k + 1
      <4>1. i \in 1..k /\ i \in 1..n
        BY <1>5, <3>2
      <4>2. f[i] \in Nat /\ f[i] <= b
        BY <1>3, <2>1, <4>1
      <4> QED BY <2>3, <4>2
    <3> QED BY <3>1, <3>2
  <2>5. \A i \in 1..(k + 1) : f[i] <= c
    BY <2>4
  <2>6. k + 1 \in 0..n
    BY <2>2
  <2>7. \E d \in Nat : \A i \in 1..(k + 1) : f[i] <= d
    BY <2>5
  <2> QED BY <2>6, <2>7, Zenon
<1> HIDE DEF T
<1>6. 0..n \subseteq T
  BY <1>4, <1>5, Induct
<1>7. PICK b \in Nat : \A i \in 1..n : f[i] <= b
  <2>1. n \in T
    BY <1>6
  <2> QED BY <2>1 DEF T
<1> DEFINE B == {c \in Nat : \A x \in S : x <= c}
<1>8. b \in B
  BY <1>3, <1>7
<1>9. B \subseteq Nat /\ B # {}
  BY <1>8
<1> HIDE DEF B
<1>10. PICK c \in B : \A m \in B : c <= m
  BY <1>9, LeastNumber
<1>11. c \in Nat /\ \A x \in S : x <= c
  BY <1>10 DEF B
<1>12. c \in S
  <2>1. SUFFICES ASSUME c \notin S PROVE FALSE
    OBVIOUS
  <2>2. \A x \in S : x \in Nat /\ x < c
    BY <1>11, <2>1
  <2>a. PICK y \in S : TRUE
    OBVIOUS
  <2>b. c - 1 \in Nat
    BY <1>11, <2>2, <2>a
  <2>3. c - 1 \in Nat /\ \A x \in S : x <= c - 1
    BY <1>11, <2>2, <2>b
  <2>4. c - 1 \in B
    BY <2>3 DEF B
  <2> QED BY <1>10, <1>11, <2>4
<1> QED BY <1>11, <1>12
=============================================================================
