---------------------------- MODULE ImageProofs ----------------------------
(***************************************************************************)
(* The image of a build is whole: for every set of source files and every  *)
(* order of their assignment, a build of one invocation without object     *)
(* files leaves in the image exactly the instructions and data that the    *)
(* assembler read.  What is read, what the tree holds and what the program *)
(* holds are counted against each other through every pass: the counts     *)
(* balance, names are apart once the locals are exposed, and main begins   *)
(* the program once it was moved to the top.                               *)
(***************************************************************************)
EXTENDS VasmProofs

-----------------------------------------------------------------------------
(* Sums over sequences that are joined and selected from.                  *)

\* A sequence of natural numbers, and its sum.
LEMMA NumbersAre ==
  ASSUME NEW n \in Nat, NEW q, q = [i \in 1..n |-> q[i]], \A i \in 1..n : q[i] \in Nat
  PROVE  q \in Seq(Nat) /\ Len(q) = n /\ SumOf(q) \in Nat
BY NatSum

\* The numbers r are the sums of the numbers p and q.
Pairs(p, q, r, n) ==
  /\ n \in Nat
  /\ \A k \in 1..n : p[k] \in Nat /\ q[k] \in Nat /\ r[k] = p[k] + q[k]
  /\ p = [k \in 1..n |-> p[k]] /\ q = [k \in 1..n |-> q[k]] /\ r = [k \in 1..n |-> r[k]]

LEMMA PairsSum ==
  ASSUME NEW p, NEW q, NEW r, NEW n, Pairs(p, q, r, n)
  PROVE  SumOf(r) = SumOf(p) + SumOf(q) /\ SumOf(p) \in Nat /\ SumOf(q) \in Nat
<1>0. /\ n \in Nat
      /\ \A k \in 1..n : p[k] \in Nat /\ q[k] \in Nat /\ r[k] = p[k] + q[k]
      /\ p = [k \in 1..n |-> p[k]] /\ q = [k \in 1..n |-> q[k]] /\ r = [k \in 1..n |-> r[k]]
  BY DEF Pairs
<1>1. p \in Seq(Nat) /\ q \in Seq(Nat) /\ r \in Seq(Nat) /\ Len(p) = n /\ Len(q) = n /\ Len(r) = n
  <2>0. n \in Nat
    BY <1>0
  <2>1. \A f : f = [k \in 1..n |-> f[k]] /\ (\A k \in 1..n : f[k] \in Nat) => f \in Seq(Nat) /\ Len(f) = n
    BY <2>0
  <2>2. \A k \in 1..n : r[k] \in Nat
    BY <1>0
  <2> QED BY <1>0, <2>1, <2>2
<1>2. PICK s : IsSum(s, p) /\ SumOf(p) = s[n]
  BY <1>1, SumIs
<1>3. PICK t : IsSum(t, q) /\ SumOf(q) = t[n]
  BY <1>1, SumIs
<1> DEFINE u == [k \in 0..n |-> s[k] + t[k]]
<1>4. IsSum(u, r)
  <2>1. /\ s \in [0..n -> Nat] /\ s[0] = 0 /\ \A k \in 1..n : s[k] = s[k - 1] + p[k]
        /\ t \in [0..n -> Nat] /\ t[0] = 0 /\ \A k \in 1..n : t[k] = t[k - 1] + q[k]
    BY <1>0, <1>1, <1>2, <1>3 DEF IsSum
  <2>2. u \in [0..n -> Nat] /\ \A k \in 0..n : u[k] = s[k] + t[k]
    BY <2>1
  <2> HIDE DEF u
  <2>3. \A k \in 1..n : k \in 0..n /\ k - 1 \in 0..n
    BY <1>0
  <2>4. ASSUME NEW k \in 1..n PROVE u[k] = u[k - 1] + r[k]
    <3>1. /\ s[k] = s[k - 1] + p[k] /\ t[k] = t[k - 1] + q[k] /\ r[k] = p[k] + q[k]
          /\ u[k] = s[k] + t[k] /\ u[k - 1] = s[k - 1] + t[k - 1]
          /\ s[k - 1] \in Nat /\ t[k - 1] \in Nat /\ p[k] \in Nat /\ q[k] \in Nat
      BY <1>0, <2>1, <2>2, <2>3
    <3> QED BY <3>1
  <2>5. u[0] = 0
    <3>1. n \in Nat
      BY <1>0
    <3>2. 0 \in 0..n
      BY <3>1
    <3> QED BY <2>1, <2>2, <3>2
  <2> QED BY <1>0, <1>1, <2>2, <2>4, <2>5 DEF IsSum
<1>5. SumOf(r) = u[n]
  BY <1>0, <1>1, <1>4, SumFrom
<1>6. u[n] = s[n] + t[n]
  BY <1>0
<1>7. SumOf(p) \in Nat /\ SumOf(q) \in Nat
  BY <1>1, SumIs
<1> QED BY <1>2, <1>3, <1>5, <1>6, <1>7

\* The weights w of the sequences that are joined.
JoinedBy(S, v, ss, w) ==
  /\ v \in [S -> Nat] /\ ss \in Seq(Seq(S))
  /\ w \in Seq(Nat) /\ Len(w) = Len(ss)
  /\ \A k \in 1..Len(ss) : w[k] = SumOf(Weights(ss[k], v))

LEMMA JoinedWeight ==
  ASSUME NEW S, NEW v, NEW ss, NEW w, JoinedBy(S, v, ss, w)
  PROVE  FlattenSeq(ss) \in Seq(S) /\ SumOf(Weights(FlattenSeq(ss), v)) = SumOf(w)
<1>1. /\ v \in [S -> Nat] /\ ss \in Seq(Seq(S))
      /\ w \in Seq(Nat) /\ Len(w) = Len(ss)
      /\ \A k \in 1..Len(ss) : w[k] = SumOf(Weights(ss[k], v))
  BY DEF JoinedBy
<1>2. FlattenSeq(ss) \in Seq(S)
  BY <1>1, WeightOfJoined
<1>3. SumOf(Weights(FlattenSeq(ss), v)) = SumOf(w)
  BY <1>1, WeightOfJoined
<1> QED BY <1>2, <1>3

\* What the sequences of a sequence hold.
Elements(ss) == UNION {Range(ss[j]) : j \in 1..Len(ss)}

LEMMA ElementsAre ==
  ASSUME NEW ss, IsSeq(ss), \A j \in 1..Len(ss) : IsSeq(ss[j])
  PROVE  /\ ss \in Seq(Seq(Elements(ss)))
         /\ \A j \in 1..Len(ss) : \A i \in 1..Len(ss[j]) : ss[j][i] \in Elements(ss)
         /\ \A e \in Elements(ss) : \E j \in 1..Len(ss) : \E i \in 1..Len(ss[j]) : e = ss[j][i]
<1> DEFINE n == Len(ss)
           S == Elements(ss)
<1>1. n \in Nat /\ DOMAIN ss = 1..n
  BY DomainOfSeq
<1>2. \A j \in 1..n : ss[j] \in Seq(S) /\ DOMAIN ss[j] = 1..Len(ss[j])
  <2> TAKE j \in 1..n
  <2>1. ss[j] \in Seq(Range(ss[j])) /\ Range(ss[j]) \subseteq S
    BY DEF IsSeq, Elements
  <2> HIDE DEF S
  <2> QED BY <2>1, DomainOfSeq
<1>3. ss \in Seq(Seq(S))
  <2> HIDE DEF S
  <2>1. ss = [j \in 1..n |-> ss[j]]
    BY <1>1 DEF IsSeq
  <2> QED BY <1>1, <1>2, <2>1
<1>4. ASSUME NEW j \in 1..n, NEW i \in 1..Len(ss[j]) PROVE ss[j][i] \in S
  BY <1>2 DEF Elements, Range
<1>5. ASSUME NEW e \in S PROVE \E j \in 1..n : \E i \in 1..Len(ss[j]) : e = ss[j][i]
  BY <1>2 DEF Elements, Range
<1> QED BY <1>3, <1>4, <1>5

\* What joined sequences weigh, for weights of their elements.
JoinedAs(ss, v, w) ==
  /\ IsSeq(ss) /\ \A j \in 1..Len(ss) : IsSeq(ss[j])
  /\ v \in [Elements(ss) -> Nat]
  /\ w = [j \in 1..Len(ss) |-> w[j]]
  /\ \A j \in 1..Len(ss) : w[j] = SumOf(Weights(ss[j], v))

LEMMA JoinedWeighs ==
  ASSUME NEW ss, NEW v, NEW w, JoinedAs(ss, v, w)
  PROVE  /\ IsSeq(FlattenSeq(ss))
         /\ SumOf(Weights(FlattenSeq(ss), v)) = SumOf(w) /\ SumOf(w) \in Nat
         /\ \A j \in 1..Len(ss) : w[j] \in Nat
<1>0. /\ IsSeq(ss) /\ \A j \in 1..Len(ss) : IsSeq(ss[j])
      /\ v \in [Elements(ss) -> Nat]
      /\ w = [j \in 1..Len(ss) |-> w[j]]
      /\ \A j \in 1..Len(ss) : w[j] = SumOf(Weights(ss[j], v))
  BY DEF JoinedAs
<1> DEFINE n == Len(ss)
           S == Elements(ss)
<1>1. n \in Nat /\ ss \in Seq(Seq(S)) /\ \A j \in 1..n : ss[j] \in Seq(S)
  BY <1>0, ElementsAre, DomainOfSeq, ElementOfSeq
<1> HIDE DEF S
<1>2. ASSUME NEW j \in 1..n PROVE w[j] \in Nat
  <2>1. Weigh(Weights(ss[j], v), ss[j], v)
    BY <1>0, <1>1, WeightsAre DEF S
  <2> QED BY <1>0, <2>1 DEF Weigh
<1>3. w \in Seq(Nat) /\ Len(w) = n /\ SumOf(w) \in Nat
  BY <1>0, <1>1, <1>2, NatSum
<1>4. FlattenSeq(ss) \in Seq(S) /\ SumOf(Weights(FlattenSeq(ss), v)) = SumOf(w)
  <2>1. v \in [S -> Nat] /\ Len(w) = Len(ss)
    BY <1>0, <1>3 DEF S
  <2>2. JoinedBy(S, v, ss, w)
    BY <1>0, <1>1, <1>3, <2>1 DEF JoinedBy
  <2> QED BY <2>2, JoinedWeight, Zenon
<1>5. IsSeq(FlattenSeq(ss))
  BY <1>4, SeqIsSeq
<1> QED BY <1>2, <1>3, <1>4, <1>5

\* The sequences of one element or none that Selected joins.
Ones(q, T) == [i \in DOMAIN q |-> IF i \in T THEN <<q[i]>> ELSE <<>>]

LEMMA OnesAre ==
  ASSUME NEW q, IsSeq(q), NEW T
  PROVE  /\ IsSeq(Ones(q, T)) /\ Len(Ones(q, T)) = Len(q)
         /\ \A i \in 1..Len(q) :
              /\ IsSeq(Ones(q, T)[i])
              /\ i \in T => Ones(q, T)[i] = <<q[i]>> /\ Len(Ones(q, T)[i]) = 1
              /\ i \notin T => Ones(q, T)[i] = <<>> /\ Len(Ones(q, T)[i]) = 0
         /\ Elements(Ones(q, T)) \subseteq Range(q)
<1> DEFINE o == Ones(q, T)
<1>1. DOMAIN q = 1..Len(q) /\ Len(q) \in Nat
  BY DomainOfSeq
<1>2. /\ o = [i \in 1..Len(q) |-> o[i]]
      /\ \A i \in 1..Len(q) : o[i] = IF i \in T THEN <<q[i]>> ELSE <<>>
  BY <1>1 DEF Ones
<1> HIDE DEF o
<1>3. IsSeq(o) /\ Len(o) = Len(q)
  BY <1>1, <1>2, MapIsSeq
<1>4. ASSUME NEW i \in 1..Len(q)
      PROVE  /\ IsSeq(o[i])
             /\ i \in T => o[i] = <<q[i]>> /\ Len(o[i]) = 1
             /\ i \notin T => o[i] = <<>> /\ Len(o[i]) = 0
  <2>1. IsSeq(<<q[i]>>) /\ Len(<<q[i]>>) = 1 /\ IsSeq(<<>>) /\ Len(<<>>) = 0
    BY OneIsSeq, EmptyIsSeq
  <2> QED BY <1>2, <2>1
<1>5. ASSUME NEW e \in Elements(o) PROVE e \in Range(q)
  <2>a. \A j \in 1..Len(o) : IsSeq(o[j])
    BY <1>3, <1>4
  <2>1. PICK j \in 1..Len(o) : \E i \in 1..Len(o[j]) : e = o[j][i]
    BY <1>3, <1>5, <2>a, ElementsAre, Zenon
  <2>2. PICK i \in 1..Len(o[j]) : e = o[j][i]
    BY <2>1
  <2>3. j \in T /\ i = 1 /\ o[j] = <<q[j]>>
    BY <1>3, <1>4, <2>2
  <2>4. e = q[j]
    BY <2>2, <2>3, OneIsSeq
  <2> QED BY <1>1, <1>3, <2>4 DEF Range
<1> QED BY <1>3, <1>4, <1>5 DEF o

\* The selected elements of a sequence weigh what they weigh in it.
PickedWeights(q, T, v) == [i \in 1..Len(q) |-> IF i \in T THEN v[q[i]] ELSE 0]

LEMMA PickedWeigh ==
  ASSUME NEW q, IsSeq(q), NEW T, NEW v, v \in [Range(q) -> Nat]
  PROVE  /\ SumOf(Weights(FlattenSeq(Ones(q, T)), v)) = SumOf(PickedWeights(q, T, v))
         /\ SumOf(PickedWeights(q, T, v)) \in Nat
<1> DEFINE o == Ones(q, T)
           S == Range(q)
           n == Len(q)
           F == FlattenSeq(o)
           w == PickedWeights(q, T, v)
<1>0. w = [i \in 1..n |-> IF i \in T THEN v[q[i]] ELSE 0]
  BY DEF PickedWeights
<1> HIDE DEF w
<1>1. /\ IsSeq(o) /\ Len(o) = n /\ n \in Nat /\ DOMAIN q = 1..n
      /\ \A i \in 1..n : /\ IsSeq(o[i])
                         /\ i \in T => o[i] = <<q[i]>> /\ Len(o[i]) = 1
                         /\ i \notin T => o[i] = <<>> /\ Len(o[i]) = 0
      /\ Elements(o) \subseteq S
  BY OnesAre, DomainOfSeq
<1>a. \A i \in 1..n : q[i] \in S
  BY <1>1 DEF Range
<1> HIDE DEF o, S
<1>2. o \in Seq(Seq(S))
  <2>1. \A i \in 1..n : o[i] \in Seq(S)
    <3> TAKE i \in 1..n
    <3>1. CASE i \in T
      <4>1. q[i] \in S /\ o[i] = <<q[i]>>
        BY <1>1, <1>a, <3>1
      <4>2. \A x \in S : <<x>> \in Seq(S)
        OBVIOUS
      <4> QED BY <4>1, <4>2, Zenon
    <3>2. CASE i \notin T
      <4>1. o[i] = <<>>
        BY <1>1, <3>2
      <4>2. <<>> \in Seq(S)
        OBVIOUS
      <4> QED BY <4>1, <4>2, Zenon
    <3> QED BY <3>1, <3>2
  <2>2. o = [i \in 1..n |-> o[i]]
    BY <1>1 DEF IsSeq
  <2> QED BY <1>1, <2>1, <2>2
<1>3. ASSUME NEW i \in 1..n PROVE w[i] \in Nat /\ w[i] = SumOf(Weights(o[i], v))
  <2>0. v \in [S -> Nat]
    BY DEF S
  <2>1. CASE i \in T
    <3>1. o[i] = <<q[i]>> /\ w[i] = v[q[i]] /\ w[i] \in Nat
      BY <1>0, <1>1, <1>a, <2>0, <2>1
    <3> DEFINE k == w[i]
               u == Weights(o[i], v)
    <3>2. /\ Len(o[i]) = 1 /\ o[i][1] = q[i]
      BY <3>1, OneIsSeq
    <3>3. u = [j \in 1..1 |-> k]
      <4>1. u = [j \in 1..1 |-> v[o[i][j]]]
        BY <3>2 DEF Weights
      <4>2. \A j \in 1..1 : v[o[i][j]] = k
        BY <3>1, <3>2
      <4> QED BY <4>1, <4>2
    <3> HIDE DEF u, k
    <3>4. SumOf(u) = k
      <4>1. k \in Nat
        BY <3>1 DEF k
      <4>2. u \in Seq(Nat) /\ Len(u) = 1 /\ u[1] = k
        BY <3>3, <4>1
      <4>3. PICK s : IsSum(s, u) /\ SumOf(u) = s[Len(u)]
        BY <4>2, SumIs
      <4>4. 1 \in 1..Len(u) /\ 1 - 1 = 0
        BY <4>2
      <4>5. s[1] = s[0] + u[1] /\ s[0] = 0
        BY <4>3, <4>4 DEF IsSum
      <4> QED BY <4>1, <4>2, <4>3, <4>5
    <3> QED BY <3>1, <3>4 DEF u, k
  <2>2. CASE i \notin T
    <3>1. o[i] = <<>> /\ Len(o[i]) = 0 /\ w[i] = 0
      BY <1>0, <1>1, <2>2
    <3>2. Weights(o[i], v) = <<>>
      <4>1. Weights(o[i], v) = [j \in 1..0 |-> v[o[i][j]]]
        BY <3>1 DEF Weights
      <4> QED BY <4>1
    <3> QED BY <3>1, <3>2, SumOfNone
  <2> QED BY <2>1, <2>2
<1>4. w = [i \in 1..n |-> w[i]]
  BY <1>0
<1>5. w \in Seq(Nat) /\ Len(w) = n /\ SumOf(w) \in Nat
  BY <1>1, <1>3, <1>4, NatSum
<1>6. SumOf(Weights(F, v)) = SumOf(w)
  <2>1. v \in [S -> Nat]
    BY DEF S
  <2>2. Len(w) = Len(o) /\ \A k \in 1..Len(o) : w[k] = SumOf(Weights(o[k], v))
    BY <1>1, <1>3, <1>5
  <2>3. JoinedBy(S, v, o, w)
    BY <1>2, <1>5, <2>1, <2>2 DEF JoinedBy
  <2> QED BY <2>3, JoinedWeight, Zenon
<1> QED BY <1>5, <1>6 DEF o, w

LEMMA SelectedIs ==
  ASSUME NEW q
  PROVE  /\ Selected(q, IsInstruction) = FlattenSeq(Ones(q, {i \in DOMAIN q : IsInstruction(q[i])}))
         /\ Selected(q, InSection) = FlattenSeq(Ones(q, {i \in DOMAIN q : InSection(q[i])}))
         /\ Selected(q, IsConstant) = FlattenSeq(Ones(q, {i \in DOMAIN q : IsConstant(q[i])}))
         /\ Selected(q, IsShared) = FlattenSeq(Ones(q, {i \in DOMAIN q : IsShared(q[i])}))
         /\ Selected(q, IsNamed) = FlattenSeq(Ones(q, {i \in DOMAIN q : IsNamed(q[i])}))
         /\ Selected(q, IsDefinition) = FlattenSeq(Ones(q, {i \in DOMAIN q : IsDefinition(q[i])}))
         /\ Selected(q, IsPrototype) = FlattenSeq(Ones(q, {i \in DOMAIN q : IsPrototype(q[i])}))
         /\ Selected(q, IsGlobals) = FlattenSeq(Ones(q, {i \in DOMAIN q : IsGlobals(q[i])}))
<1>1. ASSUME NEW T, NEW ss, ss = [i \in DOMAIN q |-> IF i \in T THEN <<q[i]>> ELSE <<>>]
      PROVE  FlattenSeq(ss) = FlattenSeq(Ones(q, T))
  BY <1>1, Zenon DEF Ones
<1>2. Selected(q, IsInstruction) = FlattenSeq(Ones(q, {i \in DOMAIN q : IsInstruction(q[i])}))
  <2> DEFINE T == {i \in DOMAIN q : IsInstruction(q[i])}
             ss == [i \in DOMAIN q |-> IF IsInstruction(q[i]) THEN <<q[i]>> ELSE <<>>]
  <2>1. Selected(q, IsInstruction) = FlattenSeq(ss)
    BY Zenon DEF Selected
  <2>2. ss = [i \in DOMAIN q |-> IF i \in T THEN <<q[i]>> ELSE <<>>]
    OBVIOUS
  <2> HIDE DEF ss, T
  <2> QED BY <1>1, <2>1, <2>2, Zenon DEF T
<1>3. Selected(q, InSection) = FlattenSeq(Ones(q, {i \in DOMAIN q : InSection(q[i])}))
  <2> DEFINE T == {i \in DOMAIN q : InSection(q[i])}
             ss == [i \in DOMAIN q |-> IF InSection(q[i]) THEN <<q[i]>> ELSE <<>>]
  <2>1. Selected(q, InSection) = FlattenSeq(ss)
    BY Zenon DEF Selected
  <2>2. ss = [i \in DOMAIN q |-> IF i \in T THEN <<q[i]>> ELSE <<>>]
    OBVIOUS
  <2> HIDE DEF ss, T
  <2> QED BY <1>1, <2>1, <2>2, Zenon DEF T
<1>4. Selected(q, IsConstant) = FlattenSeq(Ones(q, {i \in DOMAIN q : IsConstant(q[i])}))
  <2> DEFINE T == {i \in DOMAIN q : IsConstant(q[i])}
             ss == [i \in DOMAIN q |-> IF IsConstant(q[i]) THEN <<q[i]>> ELSE <<>>]
  <2>1. Selected(q, IsConstant) = FlattenSeq(ss)
    BY Zenon DEF Selected
  <2>2. ss = [i \in DOMAIN q |-> IF i \in T THEN <<q[i]>> ELSE <<>>]
    OBVIOUS
  <2> HIDE DEF ss, T
  <2> QED BY <1>1, <2>1, <2>2, Zenon DEF T
<1>5. Selected(q, IsShared) = FlattenSeq(Ones(q, {i \in DOMAIN q : IsShared(q[i])}))
  <2> DEFINE T == {i \in DOMAIN q : IsShared(q[i])}
             ss == [i \in DOMAIN q |-> IF IsShared(q[i]) THEN <<q[i]>> ELSE <<>>]
  <2>1. Selected(q, IsShared) = FlattenSeq(ss)
    BY Zenon DEF Selected
  <2>2. ss = [i \in DOMAIN q |-> IF i \in T THEN <<q[i]>> ELSE <<>>]
    OBVIOUS
  <2> HIDE DEF ss, T
  <2> QED BY <1>1, <2>1, <2>2, Zenon DEF T
<1>6. Selected(q, IsNamed) = FlattenSeq(Ones(q, {i \in DOMAIN q : IsNamed(q[i])}))
  <2> DEFINE T == {i \in DOMAIN q : IsNamed(q[i])}
             ss == [i \in DOMAIN q |-> IF IsNamed(q[i]) THEN <<q[i]>> ELSE <<>>]
  <2>1. Selected(q, IsNamed) = FlattenSeq(ss)
    BY Zenon DEF Selected
  <2>2. ss = [i \in DOMAIN q |-> IF i \in T THEN <<q[i]>> ELSE <<>>]
    OBVIOUS
  <2> HIDE DEF ss, T
  <2> QED BY <1>1, <2>1, <2>2, Zenon DEF T
<1>7. Selected(q, IsDefinition) = FlattenSeq(Ones(q, {i \in DOMAIN q : IsDefinition(q[i])}))
  <2> DEFINE T == {i \in DOMAIN q : IsDefinition(q[i])}
             ss == [i \in DOMAIN q |-> IF IsDefinition(q[i]) THEN <<q[i]>> ELSE <<>>]
  <2>1. Selected(q, IsDefinition) = FlattenSeq(ss)
    BY Zenon DEF Selected
  <2>2. ss = [i \in DOMAIN q |-> IF i \in T THEN <<q[i]>> ELSE <<>>]
    OBVIOUS
  <2> HIDE DEF ss, T
  <2> QED BY <1>1, <2>1, <2>2, Zenon DEF T
<1>8. Selected(q, IsPrototype) = FlattenSeq(Ones(q, {i \in DOMAIN q : IsPrototype(q[i])}))
  <2> DEFINE T == {i \in DOMAIN q : IsPrototype(q[i])}
             ss == [i \in DOMAIN q |-> IF IsPrototype(q[i]) THEN <<q[i]>> ELSE <<>>]
  <2>1. Selected(q, IsPrototype) = FlattenSeq(ss)
    BY Zenon DEF Selected
  <2>2. ss = [i \in DOMAIN q |-> IF i \in T THEN <<q[i]>> ELSE <<>>]
    OBVIOUS
  <2> HIDE DEF ss, T
  <2> QED BY <1>1, <2>1, <2>2, Zenon DEF T
<1>9. Selected(q, IsGlobals) = FlattenSeq(Ones(q, {i \in DOMAIN q : IsGlobals(q[i])}))
  <2> DEFINE T == {i \in DOMAIN q : IsGlobals(q[i])}
             ss == [i \in DOMAIN q |-> IF IsGlobals(q[i]) THEN <<q[i]>> ELSE <<>>]
  <2>1. Selected(q, IsGlobals) = FlattenSeq(ss)
    BY Zenon DEF Selected
  <2>2. ss = [i \in DOMAIN q |-> IF i \in T THEN <<q[i]>> ELSE <<>>]
    OBVIOUS
  <2> HIDE DEF ss, T
  <2> QED BY <1>1, <2>1, <2>2, Zenon DEF T
<1> HIDE DEF Selected
<1> QED BY <1>2, <1>3, <1>4, <1>5, <1>6, <1>7, <1>8, <1>9

\* The numbers g of the selected elements p of q, and the numbers w of q.
PickedBy(q, T, p, g, v, w) ==
  /\ IsSeq(q) /\ p = FlattenSeq(Ones(q, T)) /\ v \in [Range(q) -> Nat]
  /\ g = [k \in 1..Len(p) |-> g[k]] /\ \A k \in 1..Len(p) : g[k] = v[p[k]]
  /\ w = [i \in 1..Len(q) |-> w[i]]
  /\ \A i \in 1..Len(q) : w[i] = IF i \in T THEN v[q[i]] ELSE 0

LEMMA PickedSum ==
  ASSUME NEW q, NEW T, NEW p, NEW g, NEW v, NEW w, PickedBy(q, T, p, g, v, w)
  PROVE  SumOf(g) = SumOf(w) /\ SumOf(w) \in Nat
<1>0. /\ IsSeq(q) /\ p = FlattenSeq(Ones(q, T)) /\ v \in [Range(q) -> Nat]
      /\ g = [k \in 1..Len(p) |-> g[k]] /\ \A k \in 1..Len(p) : g[k] = v[p[k]]
      /\ w = [i \in 1..Len(q) |-> w[i]]
      /\ \A i \in 1..Len(q) : w[i] = IF i \in T THEN v[q[i]] ELSE 0
  BY DEF PickedBy
<1>1. w = PickedWeights(q, T, v)
  BY <1>0 DEF PickedWeights
<1>2. SumOf(Weights(p, v)) = SumOf(w) /\ SumOf(w) \in Nat
  <2>1. SumOf(Weights(FlattenSeq(Ones(q, T)), v)) = SumOf(w) /\ SumOf(w) \in Nat
    BY <1>0, <1>1, PickedWeigh, Zenon
  <2> QED BY <1>0, <2>1
<1>3. g = Weights(p, v)
  BY <1>0 DEF Weights
<1> QED BY <1>2, <1>3

LEMMA PickedOf ==
  ASSUME NEW q, IsSeq(q), NEW T, T \subseteq DOMAIN q
  PROVE  Picks(FlattenSeq(Ones(q, T)), q, T)
BY FlattenedPicks DEF Ones

-----------------------------------------------------------------------------
(* How often an id or a name occurs in a program, and in what was read: m  *)
(* says what is counted, m.is = "id" or "name", and m.of, which one.       *)

StmtCounts(s, m) == IF IsInstruction(s) /\ s.id = m.of THEN 1 ELSE 0
CellCounts(c, m) == IF c.id = m.of THEN 1 ELSE 0

FunctionCounts(f, m) ==
  IF m.is = "id" THEN SumOf([i \in 1..Len(f.stmts) |-> StmtCounts(f.stmts[i], m)])
  ELSE IF f.name = m.of THEN 1 ELSE 0

DatumCounts(d, m) ==
  IF m.is = "id" THEN SumOf([i \in 1..Len(d.cells) |-> CellCounts(d.cells[i], m)])
  ELSE IF IsNamed(d) /\ d.label = m.of THEN 1 ELSE 0

FunctionsCount(q, m) == SumOf([i \in 1..Len(q) |-> FunctionCounts(q[i], m)])
DataCount(q, m)      == SumOf([i \in 1..Len(q) |-> DatumCounts(q[i], m)])

\* The variables of a function that are kept with the globals.
Keptly(item) == Selected(FunctionVariables(item.name, item.locals), InSection)

ItemCounts(item, m) ==
  IF item.is = "function" THEN FunctionCounts(item, m) + DataCount(Keptly(item), m)
  ELSE IF item.is = "globals" THEN DataCount(item.vars, m)
  ELSE IF m.is # "id" /\ item.name = m.of THEN 1 ELSE 0

ItemsCount(q, m) == SumOf([i \in 1..Len(q) |-> ItemCounts(q[i], m)])

LEMMA FunctionCountsIs ==
  ASSUME NEW f, IsSeq(f.stmts), NEW m
  PROVE  FunctionCounts(f, m) \in Nat
<1> DEFINE w == [i \in 1..Len(f.stmts) |-> StmtCounts(f.stmts[i], m)]
<1>1. Len(f.stmts) \in Nat
  BY DomainOfSeq
<1>2. w = [i \in 1..Len(f.stmts) |-> w[i]] /\ \A i \in 1..Len(f.stmts) : w[i] \in Nat
  BY DEF StmtCounts
<1> HIDE DEF w
<1>3. SumOf(w) \in Nat
  BY <1>1, <1>2, NatSum
<1> QED BY <1>3 DEF FunctionCounts, w

LEMMA DatumCountsIs ==
  ASSUME NEW d, IsDatum(d), NEW m
  PROVE  DatumCounts(d, m) \in Nat
<1> DEFINE w == [i \in 1..Len(d.cells) |-> CellCounts(d.cells[i], m)]
<1>1. Len(d.cells) \in Nat
  BY ShapesAre, ListsAre, DomainOfSeq
<1>2. w = [i \in 1..Len(d.cells) |-> w[i]] /\ \A i \in 1..Len(d.cells) : w[i] \in Nat
  BY DEF CellCounts
<1> HIDE DEF w
<1>3. SumOf(w) \in Nat
  BY <1>1, <1>2, NatSum
<1> QED BY <1>3 DEF DatumCounts, w

\* The numbers of a list.
DataNumbers(q, m) == [i \in 1..Len(q) |-> DatumCounts(q[i], m)]
FunctionNumbers(q, m) == [i \in 1..Len(q) |-> FunctionCounts(q[i], m)]

LEMMA DataCountIs ==
  ASSUME NEW q, DataList(q), NEW m
  PROVE  /\ DataCount(q, m) \in Nat /\ DataCount(q, m) = SumOf(DataNumbers(q, m))
         /\ Len(q) \in Nat /\ DataNumbers(q, m) \in Seq(Nat) /\ Len(DataNumbers(q, m)) = Len(q)
         /\ DataNumbers(q, m) = [i \in 1..Len(q) |-> DataNumbers(q, m)[i]]
         /\ \A i \in 1..Len(q) : /\ DataNumbers(q, m)[i] = DatumCounts(q[i], m)
                                 /\ DataNumbers(q, m)[i] \in Nat
<1> DEFINE w == DataNumbers(q, m)
<1>1. IsSeq(q) /\ Len(q) \in Nat /\ \A i \in 1..Len(q) : IsDatum(q[i])
  BY ListsAre, DomainOfSeq
<1>2. /\ w = [i \in 1..Len(q) |-> w[i]]
      /\ \A i \in 1..Len(q) : w[i] = DatumCounts(q[i], m)
  BY DEF DataNumbers
<1>3. DataCount(q, m) = SumOf(w)
  BY Zenon DEF DataCount, DataNumbers
<1> HIDE DEF w
<1>4. \A i \in 1..Len(q) : w[i] \in Nat
  BY <1>1, <1>2, DatumCountsIs
<1>5. w \in Seq(Nat) /\ Len(w) = Len(q) /\ SumOf(w) \in Nat
  BY <1>1, <1>2, <1>4, NatSum
<1> QED BY <1>1, <1>2, <1>3, <1>4, <1>5 DEF w

LEMMA FunctionsCountIs ==
  ASSUME NEW q, FunctionList(q), NEW m
  PROVE  /\ FunctionsCount(q, m) \in Nat /\ FunctionsCount(q, m) = SumOf(FunctionNumbers(q, m))
         /\ Len(q) \in Nat
         /\ FunctionNumbers(q, m) \in Seq(Nat) /\ Len(FunctionNumbers(q, m)) = Len(q)
         /\ FunctionNumbers(q, m) = [i \in 1..Len(q) |-> FunctionNumbers(q, m)[i]]
         /\ \A i \in 1..Len(q) : /\ FunctionNumbers(q, m)[i] = FunctionCounts(q[i], m)
                                 /\ FunctionNumbers(q, m)[i] \in Nat
<1> DEFINE w == FunctionNumbers(q, m)
<1>1. IsSeq(q) /\ Len(q) \in Nat /\ \A i \in 1..Len(q) : IsSeq(q[i].stmts)
  BY ListsAre, DomainOfSeq DEF FunctionList, IsFunction
<1>2. /\ w = [i \in 1..Len(q) |-> w[i]]
      /\ \A i \in 1..Len(q) : w[i] = FunctionCounts(q[i], m)
  BY DEF FunctionNumbers
<1>3. FunctionsCount(q, m) = SumOf(w)
  BY Zenon DEF FunctionsCount, FunctionNumbers
<1> HIDE DEF w
<1>4. \A i \in 1..Len(q) : w[i] \in Nat
  BY <1>1, <1>2, FunctionCountsIs
<1>5. w \in Seq(Nat) /\ Len(w) = Len(q) /\ SumOf(w) \in Nat
  BY <1>1, <1>2, <1>4, NatSum
<1> QED BY <1>1, <1>2, <1>3, <1>4, <1>5 DEF w

\* The numbers c are the m numbers a and behind them the n numbers b.
Halves(a, b, c, m, n) ==
  /\ m \in Nat /\ n \in Nat
  /\ a = [i \in 1..m |-> a[i]] /\ \A i \in 1..m : a[i] \in Nat
  /\ b = [i \in 1..n |-> b[i]] /\ \A i \in 1..n : b[i] \in Nat
  /\ c = [i \in 1..(m + n) |-> c[i]]
  /\ \A i \in 1..(m + n) : c[i] = IF i <= m THEN a[i] ELSE b[i - m]

LEMMA HalvesSum ==
  ASSUME NEW a, NEW b, NEW c, NEW m, NEW n, Halves(a, b, c, m, n)
  PROVE  SumOf(c) = SumOf(a) + SumOf(b)
<1>0. /\ m \in Nat /\ n \in Nat
      /\ a = [i \in 1..m |-> a[i]] /\ \A i \in 1..m : a[i] \in Nat
      /\ b = [i \in 1..n |-> b[i]] /\ \A i \in 1..n : b[i] \in Nat
      /\ c = [i \in 1..(m + n) |-> c[i]]
      /\ \A i \in 1..(m + n) : c[i] = IF i <= m THEN a[i] ELSE b[i - m]
  BY DEF Halves
<1>1. /\ a \in Seq(Nat) /\ Len(a) = m /\ SumOf(a) \in Nat
      /\ b \in Seq(Nat) /\ Len(b) = n /\ SumOf(b) \in Nat
  BY <1>0, NatSum
<1>2. /\ a \o b \in Seq(Nat) /\ Len(a \o b) = m + n
      /\ \A i \in 1..(m + n) : (a \o b)[i] = IF i <= m THEN a[i] ELSE b[i - m]
  <2>1. /\ a \o b \in Seq(Nat) /\ Len(a \o b) = Len(a) + Len(b)
        /\ \A i \in 1..(Len(a) + Len(b)) :
             (a \o b)[i] = IF i <= Len(a) THEN a[i] ELSE b[i - Len(a)]
    <3>1. PICK x \in Seq(Nat), y \in Seq(Nat) : x = a /\ y = b
      BY <1>1
    <3>2. /\ x \o y \in Seq(Nat) /\ Len(x \o y) = Len(x) + Len(y)
          /\ \A i \in 1..(Len(x) + Len(y)) :
               (x \o y)[i] = IF i <= Len(x) THEN x[i] ELSE y[i - Len(x)]
      BY ConcatProperties
    <3> QED BY <3>1, <3>2
  <2> QED BY <1>1, <2>1
<1>3. c = a \o b
  <2>0. a \o b \in Seq(Nat) /\ Len(a \o b) = m + n
    BY <1>2
  <2>1. a \o b = [i \in 1..(m + n) |-> (a \o b)[i]]
    <3>1. PICK z \in Seq(Nat) : z = a \o b /\ Len(z) = m + n
      BY <2>0
    <3>a. z = [i \in 1..Len(z) |-> z[i]]
      OBVIOUS
    <3>2. z = [i \in 1..(m + n) |-> z[i]]
      BY <3>1, <3>a, Zenon
    <3> QED BY <3>1, <3>2
  <2> QED BY <1>0, <1>2, <2>1
<1> QED BY <1>1, <1>3, SumOfBoth

LEMMA DataOfBoth ==
  ASSUME NEW p, DataList(p), NEW q, DataList(q), NEW m
  PROVE  DataCount(p \o q, m) = DataCount(p, m) + DataCount(q, m)
<1> DEFINE b == p \o q
           u == DataNumbers(p, m)
           v == DataNumbers(q, m)
           w == [i \in 1..Len(b) |-> DatumCounts(b[i], m)]
<1>1. /\ IsSeq(b) /\ Len(b) = Len(p) + Len(q) /\ Len(p) \in Nat /\ Len(q) \in Nat
      /\ \A i \in 1..(Len(p) + Len(q)) : b[i] = IF i <= Len(p) THEN p[i] ELSE q[i - Len(p)]
  BY ListsAre, BothAreSeq
<1>2. /\ u = [i \in 1..Len(p) |-> u[i]] /\ DataCount(p, m) = SumOf(u)
      /\ \A i \in 1..Len(p) : u[i] = DatumCounts(p[i], m) /\ u[i] \in Nat
  BY DataCountIs
<1>3. /\ v = [i \in 1..Len(q) |-> v[i]] /\ DataCount(q, m) = SumOf(v)
      /\ \A i \in 1..Len(q) : v[i] = DatumCounts(q[i], m) /\ v[i] \in Nat
  BY DataCountIs
<1>4. DataCount(b, m) = SumOf(w)
  BY Zenon DEF DataCount
<1> HIDE DEF b, u, v
<1>5. /\ w = [i \in 1..(Len(p) + Len(q)) |-> w[i]]
      /\ \A i \in 1..(Len(p) + Len(q)) : w[i] = DatumCounts(b[i], m)
  BY <1>1
<1> HIDE DEF w
<1>6. ASSUME NEW i \in 1..(Len(p) + Len(q))
      PROVE  w[i] = IF i <= Len(p) THEN u[i] ELSE v[i - Len(p)]
  <2>1. CASE i <= Len(p)
    <3>1. i \in 1..Len(p) /\ b[i] = p[i]
      BY <1>1, <2>1
    <3> QED BY <1>2, <1>5, <2>1, <3>1
  <2>2. CASE ~(i <= Len(p))
    <3>1. i - Len(p) \in 1..Len(q) /\ b[i] = q[i - Len(p)]
      BY <1>1, <2>2
    <3> QED BY <1>3, <1>5, <2>2, <3>1
  <2> QED BY <2>1, <2>2
<1>7. SumOf(w) = SumOf(u) + SumOf(v)
  <2>1. Halves(u, v, w, Len(p), Len(q))
    BY <1>1, <1>2, <1>3, <1>5, <1>6, Zenon DEF Halves
  <2> QED BY <2>1, HalvesSum
<1> QED BY <1>2, <1>3, <1>4, <1>7 DEF b

LEMMA FunctionsOfBoth ==
  ASSUME NEW p, FunctionList(p), NEW q, FunctionList(q), NEW m
  PROVE  FunctionsCount(p \o q, m) = FunctionsCount(p, m) + FunctionsCount(q, m)
<1> DEFINE b == p \o q
           u == FunctionNumbers(p, m)
           v == FunctionNumbers(q, m)
           w == [i \in 1..Len(b) |-> FunctionCounts(b[i], m)]
<1>1. /\ IsSeq(b) /\ Len(b) = Len(p) + Len(q) /\ Len(p) \in Nat /\ Len(q) \in Nat
      /\ \A i \in 1..(Len(p) + Len(q)) : b[i] = IF i <= Len(p) THEN p[i] ELSE q[i - Len(p)]
  BY BothAreSeq DEF FunctionList
<1>2. /\ u = [i \in 1..Len(p) |-> u[i]] /\ FunctionsCount(p, m) = SumOf(u)
      /\ \A i \in 1..Len(p) : u[i] = FunctionCounts(p[i], m) /\ u[i] \in Nat
  BY FunctionsCountIs
<1>3. /\ v = [i \in 1..Len(q) |-> v[i]] /\ FunctionsCount(q, m) = SumOf(v)
      /\ \A i \in 1..Len(q) : v[i] = FunctionCounts(q[i], m) /\ v[i] \in Nat
  BY FunctionsCountIs
<1>4. FunctionsCount(b, m) = SumOf(w)
  BY Zenon DEF FunctionsCount
<1> HIDE DEF b, u, v
<1>5. /\ w = [i \in 1..(Len(p) + Len(q)) |-> w[i]]
      /\ \A i \in 1..(Len(p) + Len(q)) : w[i] = FunctionCounts(b[i], m)
  BY <1>1
<1> HIDE DEF w
<1>6. ASSUME NEW i \in 1..(Len(p) + Len(q))
      PROVE  w[i] = IF i <= Len(p) THEN u[i] ELSE v[i - Len(p)]
  <2>1. CASE i <= Len(p)
    <3>1. i \in 1..Len(p) /\ b[i] = p[i]
      BY <1>1, <2>1
    <3> QED BY <1>2, <1>5, <2>1, <3>1
  <2>2. CASE ~(i <= Len(p))
    <3>1. i - Len(p) \in 1..Len(q) /\ b[i] = q[i - Len(p)]
      BY <1>1, <2>2
    <3> QED BY <1>3, <1>5, <2>2, <3>1
  <2> QED BY <2>1, <2>2
<1>7. SumOf(w) = SumOf(u) + SumOf(v)
  <2>1. Halves(u, v, w, Len(p), Len(q))
    BY <1>1, <1>2, <1>3, <1>5, <1>6, Zenon DEF Halves
  <2> QED BY <2>1, HalvesSum
<1> QED BY <1>2, <1>3, <1>4, <1>7 DEF b

\* The numbers of the data that are selected, and 0 for the others.
SomeData(q, T, m) == [i \in 1..Len(q) |-> IF i \in T THEN DatumCounts(q[i], m) ELSE 0]

LEMMA SelectedCount ==
  ASSUME NEW q, DataList(q), NEW T, T \subseteq DOMAIN q, NEW m
  PROVE  /\ DataCount(FlattenSeq(Ones(q, T)), m) = SumOf(SomeData(q, T, m))
         /\ DataList(FlattenSeq(Ones(q, T)))
         /\ \A i \in 1..Len(q) : SomeData(q, T, m)[i] \in Nat
<1> DEFINE p == FlattenSeq(Ones(q, T))
           v == [d \in Range(q) |-> DatumCounts(d, m)]
           g == DataNumbers(p, m)
           w == SomeData(q, T, m)
<1>1. IsSeq(q) /\ DOMAIN q = 1..Len(q) /\ \A i \in 1..Len(q) : IsDatum(q[i])
  BY ListsAre, DomainOfSeq
<1>2. Picks(p, q, T) /\ DataList(p)
  BY <1>1, PickedOf, PickedData
<1>3. \A i \in 1..Len(q) : q[i] \in Range(q)
  BY <1>1 DEF Range
<1>4. v \in [Range(q) -> Nat]
  <2>1. \A d \in Range(q) : IsDatum(d)
    BY <1>1 DEF Range
  <2>2. \A d \in Range(q) : DatumCounts(d, m) \in Nat
    BY <2>1, DatumCountsIs
  <2> QED BY <2>2
<1>5. /\ DataCount(p, m) = SumOf(g) /\ g = [k \in 1..Len(p) |-> g[k]]
      /\ \A k \in 1..Len(p) : g[k] = DatumCounts(p[k], m)
  BY <1>2, DataCountIs
<1>6. \A k \in 1..Len(p) : g[k] = v[p[k]]
  <2>1. \A k \in 1..Len(p) : p[k] \in Range(q)
    BY <1>1, <1>2, <1>3 DEF Picks
  <2> QED BY <1>5, <2>1
<1>7. /\ w = [i \in 1..Len(q) |-> w[i]]
      /\ \A i \in 1..Len(q) : w[i] = IF i \in T THEN v[q[i]] ELSE 0
      /\ \A i \in 1..Len(q) : w[i] \in Nat
  <2>1. /\ w = [i \in 1..Len(q) |-> w[i]]
        /\ \A i \in 1..Len(q) : w[i] = IF i \in T THEN DatumCounts(q[i], m) ELSE 0
    BY DEF SomeData
  <2>2. \A i \in 1..Len(q) : v[q[i]] = DatumCounts(q[i], m) /\ v[q[i]] \in Nat
    BY <1>3, <1>4
  <2> HIDE DEF w, v
  <2> QED BY <2>1, <2>2
<1>8. p = FlattenSeq(Ones(q, T))
  OBVIOUS
<1> HIDE DEF p, v, g, w
<1>9. SumOf(g) = SumOf(w)
  <2>1. IsSeq(q) /\ p = FlattenSeq(Ones(q, T)) /\ v \in [Range(q) -> Nat]
    BY <1>1, <1>4, <1>8
  <2>2. g = [k \in 1..Len(p) |-> g[k]] /\ \A k \in 1..Len(p) : g[k] = v[p[k]]
    BY <1>5, <1>6
  <2>3. w = [i \in 1..Len(q) |-> w[i]] /\ \A i \in 1..Len(q) : w[i] = IF i \in T THEN v[q[i]] ELSE 0
    BY <1>7
  <2>4. PickedBy(q, T, p, g, v, w)
    BY <2>1, <2>2, <2>3 DEF PickedBy
  <2> QED BY <2>4, PickedSum
<1> QED BY <1>2, <1>5, <1>7, <1>9 DEF p, w

\* Constants and shared variables are all of a list of data.
LEMMA DataSplit ==
  ASSUME NEW q, DataList(q), NEW m
  PROVE  DataCount(Selected(q, IsShared), m) + DataCount(Selected(q, IsConstant), m)
           = DataCount(q, m)
<1> DEFINE A == {i \in DOMAIN q : IsShared(q[i])}
           B == {i \in DOMAIN q : IsConstant(q[i])}
           a == SomeData(q, A, m)
           b == SomeData(q, B, m)
           c == DataNumbers(q, m)
<1>1. DOMAIN q = 1..Len(q) /\ Len(q) \in Nat /\ \A i \in 1..Len(q) : IsDatum(q[i])
  BY ListsAre, DomainOfSeq
<1>2. \A i \in 1..Len(q) : (i \in A) <=> ~(i \in B)
  <2>1. \A i \in 1..Len(q) : q[i].const \in BOOLEAN
    BY <1>1, ShapesAre
  <2> QED BY <1>1, <2>1 DEF IsShared, IsConstant
<1>3. A \subseteq DOMAIN q /\ B \subseteq DOMAIN q
  OBVIOUS
<1>4. /\ DataCount(Selected(q, IsShared), m) = SumOf(a)
      /\ DataCount(Selected(q, IsConstant), m) = SumOf(b)
      /\ \A i \in 1..Len(q) : a[i] \in Nat /\ b[i] \in Nat
  <2>1. /\ Selected(q, IsShared) = FlattenSeq(Ones(q, A))
        /\ Selected(q, IsConstant) = FlattenSeq(Ones(q, B))
    BY SelectedIs
  <2> HIDE DEF A, B
  <2> QED BY <1>3, <2>1, SelectedCount
<1>5. /\ DataCount(q, m) = SumOf(c) /\ c = [i \in 1..Len(q) |-> c[i]]
      /\ \A i \in 1..Len(q) : c[i] = DatumCounts(q[i], m) /\ c[i] \in Nat
  BY DataCountIs
<1> HIDE DEF A, B
<1>6. /\ a = [i \in 1..Len(q) |-> a[i]] /\ b = [i \in 1..Len(q) |-> b[i]]
      /\ \A i \in 1..Len(q) : a[i] = IF i \in A THEN DatumCounts(q[i], m) ELSE 0
      /\ \A i \in 1..Len(q) : b[i] = IF i \in B THEN DatumCounts(q[i], m) ELSE 0
  BY DEF SomeData
<1> HIDE DEF a, b, c
<1>7. \A i \in 1..Len(q) : c[i] = a[i] + b[i]
  BY <1>2, <1>5, <1>6
<1>8. SumOf(c) = SumOf(a) + SumOf(b)
  <2>1. Pairs(a, b, c, Len(q))
    BY <1>1, <1>4, <1>5, <1>6, <1>7, Zenon DEF Pairs
  <2> QED BY <2>1, PairsSum, Zenon
<1> QED BY <1>4, <1>5, <1>8

\* Lists of data that are joined.
ListCounts(ss, m) == [j \in 1..Len(ss) |-> DataCount(ss[j], m)]

LEMMA DataJoined ==
  ASSUME NEW ss, IsSeq(ss), \A j \in 1..Len(ss) : DataList(ss[j]), NEW m
  PROVE  /\ DataCount(FlattenSeq(ss), m) = SumOf(ListCounts(ss, m))
         /\ DataList(FlattenSeq(ss))
<1> DEFINE p == FlattenSeq(ss)
           v == [d \in Elements(ss) |-> DatumCounts(d, m)]
           w == ListCounts(ss, m)
           g == DataNumbers(p, m)
<1>1. /\ \A j \in 1..Len(ss) : IsSeq(ss[j]) /\ \A i \in 1..Len(ss[j]) : IsDatum(ss[j][i])
  BY ListsAre
<1>2. /\ \A j \in 1..Len(ss) : \A i \in 1..Len(ss[j]) : ss[j][i] \in Elements(ss)
      /\ \A e \in Elements(ss) : IsDatum(e)
  <2>1. /\ \A j \in 1..Len(ss) : \A i \in 1..Len(ss[j]) : ss[j][i] \in Elements(ss)
        /\ \A e \in Elements(ss) : \E j \in 1..Len(ss) : \E i \in 1..Len(ss[j]) : e = ss[j][i]
    BY <1>1, ElementsAre
  <2> QED BY <1>1, <2>1
<1>3. v \in [Elements(ss) -> Nat]
  <2>1. \A d \in Elements(ss) : DatumCounts(d, m) \in Nat
    BY <1>2, DatumCountsIs
  <2> QED BY <2>1
<1>4. Gathered(p, ss)
  BY <1>1, FlattenedGathers
<1>5. DataList(p)
  <2>1. IsSeq(p) /\ \A k \in 1..Len(p) : IsDatum(p[k])
    BY <1>1, <1>4 DEF Gathered
  <2> QED BY <2>1, ListsAre
<1>6. DataCount(p, m) = SumOf(Weights(p, v))
  <2>1. DataCount(p, m) = SumOf(g) /\ g = [k \in 1..Len(p) |-> g[k]]
        /\ \A k \in 1..Len(p) : g[k] = DatumCounts(p[k], m)
    BY <1>5, DataCountIs
  <2>2. \A k \in 1..Len(p) : p[k] \in Elements(ss)
    BY <1>2, <1>4 DEF Gathered
  <2>3. \A k \in 1..Len(p) : g[k] = v[p[k]]
    BY <2>1, <2>2
  <2> HIDE DEF g, v, p
  <2>4. g = Weights(p, v)
    BY <2>1, <2>3 DEF Weights
  <2> QED BY <2>1, <2>4
<1>7. /\ w = [j \in 1..Len(ss) |-> w[j]]
      /\ \A j \in 1..Len(ss) : w[j] = DataCount(ss[j], m)
  BY DEF ListCounts
<1>8. ASSUME NEW j \in 1..Len(ss) PROVE w[j] = SumOf(Weights(ss[j], v))
  <2> DEFINE q == ss[j]
             h == DataNumbers(q, m)
  <2>1. DataCount(q, m) = SumOf(h) /\ h = [k \in 1..Len(q) |-> h[k]]
        /\ \A k \in 1..Len(q) : h[k] = DatumCounts(q[k], m)
    BY DataCountIs
  <2>2. \A k \in 1..Len(q) : h[k] = v[q[k]]
    BY <1>2, <2>1
  <2> HIDE DEF h, v
  <2>4. h = Weights(q, v)
    BY <2>1, <2>2 DEF Weights
  <2> QED BY <1>7, <2>1, <2>4
<1>a. \A j \in 1..Len(ss) : IsSeq(ss[j])
  BY <1>1
<1> HIDE DEF v, w
<1>9. SumOf(Weights(FlattenSeq(ss), v)) = SumOf(w)
  <2>1. JoinedAs(ss, v, w)
    BY <1>3, <1>7, <1>8, <1>a, Zenon DEF JoinedAs
  <2> QED BY <2>1, JoinedWeighs, Zenon
<1> QED BY <1>5, <1>6, <1>9 DEF w

\* What is counted: a name, or an id that nothing the assembler adds has.
Countable(m) == m.is = "id" => m.of \notin Added

\* Statements that were not in a source.
Quiet(p) == \A i \in 1..Len(p) : IsLabel(p[i]) \/ p[i].id \in Allocations

\* A function that a pass has changed, with quiet statements in front.
Tame(g, f) == \E p : IsSeq(p) /\ Quiet(p) /\ Grown(g, f, p)

\* The first instruction of a function that is not allocation's.
StartsWith(f, id) ==
  \E k \in 1..Len(f.stmts) :
    /\ IsInstruction(f.stmts[k]) /\ f.stmts[k].id = id
    /\ \A j \in 1..(k - 1) : IsLabel(f.stmts[j]) \/ f.stmts[j].id \in Allocations

LEMMA NoneSum ==
  ASSUME NEW n \in Nat, NEW q, q = [i \in 1..n |-> q[i]], \A i \in 1..n : q[i] = 0
  PROVE  SumOf(q) = 0
<1> DEFINE s == [k \in 0..n |-> 0]
<1>1. q \in Seq(Nat) /\ Len(q) = n
  BY NatSum
<1>2. IsSum(s, q)
  <2>1. s \in [0..n -> Nat] /\ \A k \in 0..n : s[k] = 0
    OBVIOUS
  <2> HIDE DEF s
  <2>2. \A k \in 1..n : k \in 0..n /\ k - 1 \in 0..n /\ q[k] = 0
    OBVIOUS
  <2>3. \A k \in 1..n : s[k] = s[k - 1] + q[k]
    BY <2>1, <2>2
  <2>4. s[0] = 0
    BY <2>1
  <2> QED BY <1>1, <2>1, <2>3, <2>4 DEF IsSum
<1>3. SumOf(q) = s[n]
  BY <1>1, <1>2, SumFrom
<1> QED BY <1>3

LEMMA TameCounts ==
  ASSUME NEW f, IsFunction(f), NEW g, IsFunction(g), Tame(g, f), NEW m, Countable(m)
  PROVE  FunctionCounts(g, m) = FunctionCounts(f, m)
<1>1. PICK p : IsSeq(p) /\ Quiet(p) /\ Grown(g, f, p)
  BY DEF Tame
<1>2. CASE m.is # "id"
  BY <1>1, <1>2 DEF FunctionCounts, Grown
<1>3. CASE m.is = "id"
  <2> DEFINE a == [i \in 1..Len(p) |-> 0]
             b == [i \in 1..Len(f.stmts) |-> StmtCounts(f.stmts[i], m)]
             c == [i \in 1..Len(g.stmts) |-> StmtCounts(g.stmts[i], m)]
  <2>1. Len(p) \in Nat /\ Len(f.stmts) \in Nat /\ Len(g.stmts) = Len(p) + Len(f.stmts)
    BY <1>1, ListsAre, DomainOfSeq DEF Grown, IsFunction
  <2>2. FunctionCounts(g, m) = SumOf(c) /\ FunctionCounts(f, m) = SumOf(b)
    BY <1>3 DEF FunctionCounts
  <2>3. a = [i \in 1..Len(p) |-> a[i]] /\ \A i \in 1..Len(p) : a[i] = 0
    OBVIOUS
  <2>4. /\ b = [i \in 1..Len(f.stmts) |-> b[i]]
        /\ \A i \in 1..Len(f.stmts) : b[i] = StmtCounts(f.stmts[i], m)
    OBVIOUS
  <2>5. /\ c = [i \in 1..(Len(p) + Len(f.stmts)) |-> c[i]]
        /\ \A i \in 1..(Len(p) + Len(f.stmts)) : c[i] = StmtCounts(g.stmts[i], m)
    BY <2>1
  <2> HIDE DEF a, b, c
  <2>6. \A i \in 1..Len(f.stmts) : b[i] \in Nat
    BY <2>4 DEF StmtCounts
  <2>7. ASSUME NEW i \in 1..(Len(p) + Len(f.stmts))
        PROVE  c[i] = IF i <= Len(p) THEN a[i] ELSE b[i - Len(p)]
    <3>1. CASE i <= Len(p)
      <4>1. i \in 1..Len(p) /\ g.stmts[i] = p[i]
        BY <1>1, <2>1, <3>1 DEF Grown
      <4>2. StmtCounts(p[i], m) = 0
        BY <1>1, <1>3, <4>1 DEF Quiet, StmtCounts, Countable, Added, IsInstruction
      <4> QED BY <2>3, <2>5, <3>1, <4>1, <4>2
    <3>2. CASE ~(i <= Len(p))
      <4> DEFINE j == i - Len(p)
      <4>1. j \in 1..Len(f.stmts) /\ i = Len(p) + j
        BY <2>1, <3>2
      <4> HIDE DEF j
      <4>2. StmtAlike(g.stmts[i], f.stmts[j])
        BY <1>1, <4>1 DEF Grown
      <4>3. StmtCounts(g.stmts[i], m) = StmtCounts(f.stmts[j], m)
        BY <4>2 DEF StmtAlike, StmtCounts, IsInstruction, IsLabel
      <4>4. c[i] = b[j]
        BY <2>4, <2>5, <4>1, <4>3
      <4> QED BY <3>2, <4>4 DEF j
    <3> QED BY <3>1, <3>2
  <2>8. Halves(a, b, c, Len(p), Len(f.stmts))
    <3>1. \A i \in 1..Len(p) : a[i] \in Nat
      BY <2>3
    <3> QED BY <2>1, <2>3, <2>4, <2>5, <2>6, <2>7, <3>1, Zenon DEF Halves
  <2>9. SumOf(c) = SumOf(a) + SumOf(b)
    BY <2>8, HalvesSum
  <2>a. SumOf(a) = 0
    BY <2>1, <2>3, NoneSum
  <2>b. SumOf(b) \in Nat
    BY <2>1, <2>4, <2>6, NatSum
  <2> QED BY <2>2, <2>9, <2>a, <2>b
<1> QED BY <1>2, <1>3

LEMMA TameStarts ==
  ASSUME NEW f, IsFunction(f), NEW g, Tame(g, f), NEW id, StartsWith(f, id)
  PROVE  StartsWith(g, id)
<1>1. PICK p : IsSeq(p) /\ Quiet(p) /\ Grown(g, f, p)
  BY DEF Tame
<1>2. Len(p) \in Nat /\ Len(f.stmts) \in Nat /\ Len(g.stmts) = Len(p) + Len(f.stmts)
  BY <1>1, ListsAre, DomainOfSeq DEF Grown, IsFunction
<1>3. PICK k \in 1..Len(f.stmts) :
        /\ IsInstruction(f.stmts[k]) /\ f.stmts[k].id = id
        /\ \A j \in 1..(k - 1) : IsLabel(f.stmts[j]) \/ f.stmts[j].id \in Allocations
  BY DEF StartsWith
<1>4. \A i \in 1..Len(f.stmts) :
        /\ g.stmts[Len(p) + i].id = f.stmts[i].id
        /\ IsLabel(g.stmts[Len(p) + i]) <=> IsLabel(f.stmts[i])
  BY <1>1 DEF Grown, StmtAlike, IsLabel
<1> DEFINE n == Len(p) + k
<1>5. n \in 1..Len(g.stmts) /\ IsInstruction(g.stmts[n]) /\ g.stmts[n].id = id
  BY <1>2, <1>3, <1>4 DEF IsInstruction
<1>6. ASSUME NEW j \in 1..(n - 1) PROVE IsLabel(g.stmts[j]) \/ g.stmts[j].id \in Allocations
  <2>1. CASE j <= Len(p)
    <3>1. j \in 1..Len(p) /\ g.stmts[j] = p[j]
      BY <1>1, <1>2, <2>1 DEF Grown
    <3> QED BY <1>1, <3>1 DEF Quiet
  <2>2. CASE ~(j <= Len(p))
    <3> DEFINE i == j - Len(p)
    <3>1. i \in 1..(k - 1) /\ i \in 1..Len(f.stmts) /\ j = Len(p) + i
      BY <1>2, <2>2
    <3> HIDE DEF i
    <3> QED BY <1>3, <1>4, <3>1
  <2> QED BY <2>1, <2>2
<1> HIDE DEF n
<1> QED BY <1>5, <1>6 DEF StartsWith

\* Every pass is tame.
LEMMA PassesTame ==
  ASSUME NEW f, IsFunction(f)
  PROVE  /\ \A p \in Prologues : Tame(Allocated(f, p), f)
         /\ Tame(Exposed(f), f)
         /\ \A o : Tame(WithLocalValues(f, o), f)
         /\ \A t, o : Tame(WithValues(f, t, o), f)
         /\ CallsLegal(f.stmts) => \A at \in Nat : Tame(Placed(f, at), f)
         /\ Tame(f, f)
<1>0. IsSeq(<<>>) /\ Quiet(<<>>)
  BY EmptyIsSeq DEF Quiet
<1>1. ASSUME NEW p \in Prologues PROVE Tame(Allocated(f, p), f)
  BY PrologueIs, AllocatedGrows DEF Tame, Quiet
<1>2. Tame(Exposed(f), f)
  <2> DEFINE p == <<FunctionLabel(f)>>
  <2>1. IsSeq(p) /\ Len(p) = 1 /\ p[1] = FunctionLabel(f)
    BY OneIsSeq
  <2>2. Grown(Exposed(f), f, p) /\ IsLabel(FunctionLabel(f))
    BY ExposedGrows
  <2> HIDE DEF p
  <2>3. Quiet(p)
    BY <2>1, <2>2 DEF Quiet
  <2> QED BY <2>1, <2>2, <2>3 DEF Tame
<1>3. ASSUME NEW o PROVE Tame(WithLocalValues(f, o), f)
  BY <1>0, LocalValuesGrow DEF Tame
<1>4. ASSUME NEW t, NEW o PROVE Tame(WithValues(f, t, o), f)
  BY <1>0, ValuesGrow DEF Tame
<1>5. ASSUME CallsLegal(f.stmts), NEW at \in Nat PROVE Tame(Placed(f, at), f)
  BY <1>0, <1>5, PlacedGrows DEF Tame
<1>6. Tame(f, f)
  <2>1. Len(f.stmts) \in Nat
    BY ListsAre, DomainOfSeq DEF IsFunction
  <2>2. Grown(f, f, <<>>)
    BY <2>1, GrownByNothing, AlikeItself
  <2> QED BY <1>0, <2>2 DEF Tame
<1> QED BY <1>1, <1>2, <1>3, <1>4, <1>5, <1>6

\* What a pass leaves of a program.
TamePass(r, q) ==
  /\ FunctionList(q) /\ FunctionList(r) /\ Len(r) = Len(q)
  /\ \A i \in 1..Len(q) : Tame(r[i], q[i])

LEMMA TamePassKeeps ==
  ASSUME NEW q, NEW r, TamePass(r, q)
  PROVE  /\ \A m : Countable(m) => FunctionsCount(r, m) = FunctionsCount(q, m)
         /\ \A i \in 1..Len(q) : /\ r[i].name = q[i].name
                                 /\ \A id : StartsWith(q[i], id) => StartsWith(r[i], id)
<1>1. /\ FunctionList(q) /\ FunctionList(r) /\ Len(r) = Len(q)
      /\ \A i \in 1..Len(q) : Tame(r[i], q[i]) /\ IsFunction(q[i]) /\ IsFunction(r[i])
  BY DEF TamePass, FunctionList
<1>2. ASSUME NEW m, Countable(m) PROVE FunctionsCount(r, m) = FunctionsCount(q, m)
  <2> DEFINE u == FunctionNumbers(q, m)
             v == FunctionNumbers(r, m)
  <2>1. /\ u = [i \in 1..Len(q) |-> u[i]] /\ FunctionsCount(q, m) = SumOf(u)
        /\ \A i \in 1..Len(q) : u[i] = FunctionCounts(q[i], m)
    BY <1>1, FunctionsCountIs
  <2>2. /\ v = [i \in 1..Len(r) |-> v[i]] /\ FunctionsCount(r, m) = SumOf(v)
        /\ \A i \in 1..Len(r) : v[i] = FunctionCounts(r[i], m)
    BY <1>1, FunctionsCountIs
  <2> HIDE DEF u, v
  <2>3. \A i \in 1..Len(q) : u[i] = v[i]
    BY <1>1, <1>2, <2>1, <2>2, TameCounts
  <2>4. u = v
    BY <1>1, <2>1, <2>2, <2>3
  <2> QED BY <2>1, <2>2, <2>4
<1>3. ASSUME NEW i \in 1..Len(q)
      PROVE  r[i].name = q[i].name /\ \A id : StartsWith(q[i], id) => StartsWith(r[i], id)
  BY <1>1, TameStarts DEF Tame, Grown
<1> QED BY <1>2, <1>3

LEMMA AlikeCounts ==
  ASSUME NEW d, NEW e, DatumAlike(d, e), NEW m
  PROVE  DatumCounts(d, m) = DatumCounts(e, m)
<1>1. d.label = e.label /\ d.cells = e.cells
  BY DEF DatumAlike
<1> QED BY <1>1 DEF DatumCounts, IsNamed

LEMMA AlikeData ==
  ASSUME NEW q, DataList(q), NEW r, DataList(r), Len(r) = Len(q), NEW m,
         \A i \in 1..Len(q) : DatumCounts(r[i], m) = DatumCounts(q[i], m)
  PROVE  DataCount(r, m) = DataCount(q, m)
<1> DEFINE u == DataNumbers(q, m)
           v == DataNumbers(r, m)
<1>1. /\ u = [i \in 1..Len(q) |-> u[i]] /\ DataCount(q, m) = SumOf(u)
      /\ \A i \in 1..Len(q) : u[i] = DatumCounts(q[i], m)
  BY DataCountIs
<1>2. /\ v = [i \in 1..Len(r) |-> v[i]] /\ DataCount(r, m) = SumOf(v)
      /\ \A i \in 1..Len(r) : v[i] = DatumCounts(r[i], m)
  BY DataCountIs
<1> HIDE DEF u, v
<1>3. \A i \in 1..Len(q) : u[i] = v[i]
  BY <1>1, <1>2
<1>4. u = v
  BY <1>1, <1>2, <1>3
<1> QED BY <1>1, <1>2, <1>4

LEMMA InheritedCounts ==
  ASSUME NEW q, DataList(q), NEW m
  PROVE  DataCount(Inherited(q), m) = DataCount(q, m)
<1>1. /\ DataList(Inherited(q)) /\ Len(Inherited(q)) = Len(q)
      /\ \A i \in 1..Len(q) : /\ Inherited(q)[i].label = q[i].label
                              /\ Inherited(q)[i].cells = q[i].cells
  BY InheritedIs
<1>2. \A i \in 1..Len(q) : DatumCounts(Inherited(q)[i], m) = DatumCounts(q[i], m)
  BY <1>1 DEF DatumCounts, IsNamed
<1> QED BY <1>1, <1>2, AlikeData

\* What is kept in a section, of lists that are joined.
KeptCounts(ss, m) == [j \in 1..Len(ss) |-> DataCount(Selected(ss[j], InSection), m)]

\* The numbers of a list in which nothing on the stack counts.
SectionCounts(d, m) == IF InSection(d) THEN DatumCounts(d, m) ELSE 0

LEMMA SectionCount ==
  ASSUME NEW q, DataList(q), NEW m, NEW v,
         \A i \in 1..Len(q) : v[q[i]] = SectionCounts(q[i], m)
  PROVE  DataCount(Selected(q, InSection), m) = SumOf(Weights(q, v))
<1> DEFINE T == {i \in DOMAIN q : InSection(q[i])}
           w == SomeData(q, T, m)
<1>1. DOMAIN q = 1..Len(q)
  BY ListsAre, DomainOfSeq
<1>2. T \subseteq DOMAIN q /\ \A i \in 1..Len(q) : (i \in T) <=> InSection(q[i])
  BY <1>1
<1>3. Selected(q, InSection) = FlattenSeq(Ones(q, T))
  BY SelectedIs
<1> HIDE DEF T
<1>4. DataCount(Selected(q, InSection), m) = SumOf(w)
  BY <1>2, <1>3, SelectedCount
<1>5. w = [i \in 1..Len(q) |-> IF i \in T THEN DatumCounts(q[i], m) ELSE 0]
  BY DEF SomeData
<1>6. \A i \in 1..Len(q) : (IF i \in T THEN DatumCounts(q[i], m) ELSE 0) = v[q[i]]
  BY <1>2 DEF SectionCounts
<1>7. w = Weights(q, v)
  <2> HIDE DEF w
  <2> QED BY <1>5, <1>6 DEF Weights
<1> QED BY <1>4, <1>7

LEMMA KeptJoined ==
  ASSUME NEW ss, IsSeq(ss), \A j \in 1..Len(ss) : DataList(ss[j]), NEW m
  PROVE  DataCount(Selected(FlattenSeq(ss), InSection), m) = SumOf(KeptCounts(ss, m))
<1> DEFINE p == FlattenSeq(ss)
           v == [d \in Elements(ss) |-> SectionCounts(d, m)]
           w == KeptCounts(ss, m)
<1>1. \A j \in 1..Len(ss) : IsSeq(ss[j]) /\ \A i \in 1..Len(ss[j]) : IsDatum(ss[j][i])
  BY ListsAre
<1>2. /\ \A j \in 1..Len(ss) : \A i \in 1..Len(ss[j]) : ss[j][i] \in Elements(ss)
      /\ \A e \in Elements(ss) : IsDatum(e)
  <2>1. /\ \A j \in 1..Len(ss) : \A i \in 1..Len(ss[j]) : ss[j][i] \in Elements(ss)
        /\ \A e \in Elements(ss) : \E j \in 1..Len(ss) : \E i \in 1..Len(ss[j]) : e = ss[j][i]
    BY <1>1, ElementsAre
  <2> QED BY <1>1, <2>1
<1>3. v \in [Elements(ss) -> Nat] /\ \A d \in Elements(ss) : v[d] = SectionCounts(d, m)
  <2>1. \A d \in Elements(ss) : SectionCounts(d, m) \in Nat
    BY <1>2, DatumCountsIs DEF SectionCounts
  <2> QED BY <2>1
<1> HIDE DEF v
<1>4. Gathered(p, ss) /\ DataList(p)
  BY <1>1, FlattenedGathers, DataJoined
<1>5. DataCount(Selected(p, InSection), m) = SumOf(Weights(p, v))
  <2>1. \A k \in 1..Len(p) : p[k] \in Elements(ss)
    BY <1>2, <1>4 DEF Gathered
  <2>2. \A k \in 1..Len(p) : v[p[k]] = SectionCounts(p[k], m)
    BY <1>3, <2>1
  <2> HIDE DEF p
  <2> QED BY <1>4, <2>2, SectionCount
<1>6. /\ w = [j \in 1..Len(ss) |-> w[j]]
      /\ \A j \in 1..Len(ss) : w[j] = DataCount(Selected(ss[j], InSection), m)
  BY DEF KeptCounts
<1>7. ASSUME NEW j \in 1..Len(ss) PROVE w[j] = SumOf(Weights(ss[j], v))
  <2>1. \A i \in 1..Len(ss[j]) : v[ss[j][i]] = SectionCounts(ss[j][i], m)
    BY <1>2, <1>3
  <2>2. DataCount(Selected(ss[j], InSection), m) = SumOf(Weights(ss[j], v))
    BY <2>1, SectionCount
  <2> QED BY <1>6, <2>2
<1> HIDE DEF w
<1>8. SumOf(Weights(FlattenSeq(ss), v)) = SumOf(w)
  <2>1. \A j \in 1..Len(ss) : IsSeq(ss[j])
    BY <1>1
  <2>2. JoinedAs(ss, v, w)
    BY <1>3, <1>6, <1>7, <2>1, Zenon DEF JoinedAs
  <2> QED BY <2>2, JoinedWeighs
<1> QED BY <1>5, <1>8 DEF w

-----------------------------------------------------------------------------
(* A tree gives the program what its definitions have.                     *)

\* The functions of a tree.
LEMMA DefinitionCounts ==
  ASSUME NEW def, IsItem(def), def.is = "function", NEW m
  PROVE  FunctionCounts(Definition(def), m) = FunctionCounts(def, m)
<1> DEFINE f == Definition(def)
           u == [i \in 1..Len(f.stmts) |-> StmtCounts(f.stmts[i], m)]
           w == [i \in 1..Len(def.stmts) |-> StmtCounts(def.stmts[i], m)]
<1>1. /\ f.name = def.name /\ Len(f.stmts) = Len(def.stmts)
      /\ \A i \in 1..Len(def.stmts) : f.stmts[i] = WithArgs(def.stmts[i])
      /\ \A i \in 1..Len(def.stmts) : IsStatement(def.stmts[i])
  BY DefinitionIs, ListsAre
<1> HIDE DEF f
<1>2. \A i \in 1..Len(def.stmts) : StmtCounts(f.stmts[i], m) = StmtCounts(def.stmts[i], m)
  <2> TAKE i \in 1..Len(def.stmts)
  <2>1. f.stmts[i].op = def.stmts[i].op /\ f.stmts[i].id = def.stmts[i].id
    BY <1>1, WithArgsIs
  <2> QED BY <2>1 DEF StmtCounts, IsInstruction, IsLabel
<1>3. u = w
  BY <1>1, <1>2
<1>4. FunctionCounts(f, m) = FunctionCounts(def, m)
  <2>1. m.is = "id" => FunctionCounts(f, m) = SumOf(u) /\ FunctionCounts(def, m) = SumOf(w)
    BY DEF FunctionCounts
  <2> HIDE DEF u, w
  <2>2. m.is # "id" => FunctionCounts(f, m) = FunctionCounts(def, m)
    BY <1>1 DEF FunctionCounts
  <2> QED BY <1>3, <2>1, <2>2
<1> QED BY <1>4 DEF f

PrototypeCounts(x, m) == IF m.is # "id" /\ x.name = m.of THEN 1 ELSE 0

LEMMA PrototypeCount ==
  ASSUME NEW x, NEW m
  PROVE  FunctionCounts(Prototype(x), m) = PrototypeCounts(x, m)
<1> DEFINE f == Prototype(x)
           u == [i \in 1..Len(f.stmts) |-> StmtCounts(f.stmts[i], m)]
<1>1. f.name = x.name /\ Len(f.stmts) = 0
  BY PrototypeIs, EmptyIsSeq
<1> HIDE DEF f
<1>2. u = <<>>
  <2>1. u = [i \in 1..0 |-> StmtCounts(f.stmts[i], m)]
    BY <1>1
  <2> QED BY <2>1
<1>3. m.is = "id" => FunctionCounts(f, m) = SumOf(u)
  BY DEF FunctionCounts
<1> HIDE DEF u
<1>4. m.is = "id" => FunctionCounts(f, m) = 0
  BY <1>2, <1>3, SumOfNone
<1>5. m.is # "id" => FunctionCounts(f, m) = IF x.name = m.of THEN 1 ELSE 0
  BY <1>1 DEF FunctionCounts
<1> QED BY <1>4, <1>5 DEF PrototypeCounts, f

\* What the items of a tree count as functions, prototypes, locals and globals.
PartCounts(x, part, m) ==
  IF part = "text" THEN IF x.is = "function" THEN FunctionCounts(x, m) ELSE 0
  ELSE IF part = "kept" THEN IF x.is = "function" THEN DataCount(Keptly(x), m) ELSE 0
  ELSE IF part = "proto" THEN IF x.is = "prototype" THEN PrototypeCounts(x, m) ELSE 0
  ELSE IF x.is = "globals" THEN DataCount(x.vars, m) ELSE 0

PartNumbers(t, part, m) == [i \in 1..Len(t) |-> PartCounts(t[i], part, m)]

LEMMA PartCountsIs ==
  ASSUME NEW x, IsItem(x), NEW m, NEW part
  PROVE  /\ PartCounts(x, part, m) \in Nat
         /\ ItemCounts(x, m) = PartCounts(x, "text", m) + PartCounts(x, "kept", m)
                                 + PartCounts(x, "proto", m) + PartCounts(x, "globals", m)
         /\ ItemCounts(x, m) \in Nat
         /\ x.is \in {"function", "prototype", "globals"}
         /\ x.is = "function" => /\ DataList(x.locals) /\ IsSeq(x.stmts) /\ StmtList(x.stmts)
                                 /\ DataList(Keptly(x))
         /\ x.is = "globals" => DataList(x.vars)
<1>0. x.is \in {"function", "prototype", "globals"}
  BY DEF IsItem
<1>1. x.is = "function" =>
        /\ IsSeq(x.stmts) /\ StmtList(x.stmts) /\ DataList(x.locals) /\ DataList(Keptly(x))
  <2> HAVE x.is = "function"
  <2>1. StmtList(x.stmts) /\ DataList(x.locals)
    BY DefinitionIs
  <2>2. DataList(Keptly(x))
    BY <2>1, FunctionVariablesAre, SelectedData DEF Keptly
  <2> QED BY <2>1, <2>2, ListsAre
<1>2. x.is = "globals" => DataList(x.vars)
  <2> HAVE x.is = "globals"
  <2>1. IsListOf(x.vars, IsDeclared)
    BY DEF IsItem
  <2> QED BY <2>1, DeclaredData
<1>3. /\ x.is = "function" => FunctionCounts(x, m) \in Nat /\ DataCount(Keptly(x), m) \in Nat
      /\ x.is = "globals" => DataCount(x.vars, m) \in Nat
      /\ PrototypeCounts(x, m) \in Nat
  BY <1>1, <1>2, FunctionCountsIs, DataCountIs DEF PrototypeCounts
<1>4. \A z : PartCounts(x, z, m) \in Nat
  BY <1>0, <1>3 DEF PartCounts
<1>5. /\ ItemCounts(x, m) = PartCounts(x, "text", m) + PartCounts(x, "kept", m)
                              + PartCounts(x, "proto", m) + PartCounts(x, "globals", m)
      /\ ItemCounts(x, m) \in Nat
  BY <1>0, <1>3 DEF PartCounts, ItemCounts, PrototypeCounts
<1> QED BY <1>0, <1>1, <1>2, <1>4, <1>5

\* The numbers g of the items p of a tree that are picked for a part.
PartOf(t, T, p, g, part, m) ==
  /\ T \subseteq DOMAIN t /\ p = FlattenSeq(Ones(t, T))
  /\ \A i \in 1..Len(t) : i \notin T => PartCounts(t[i], part, m) = 0
  /\ g = [k \in 1..Len(p) |-> g[k]] /\ \A k \in 1..Len(p) : g[k] = PartCounts(p[k], part, m)

LEMMA PartSum ==
  ASSUME NEW t, ItemList(t), NEW T, NEW p, NEW g, NEW part, NEW m, PartOf(t, T, p, g, part, m)
  PROVE  SumOf(g) = SumOf(PartNumbers(t, part, m))
<1> DEFINE v == [x \in Range(t) |-> PartCounts(x, part, m)]
           w == PartNumbers(t, part, m)
<1>1. /\ T \subseteq DOMAIN t /\ p = FlattenSeq(Ones(t, T))
      /\ \A i \in 1..Len(t) : i \notin T => PartCounts(t[i], part, m) = 0
      /\ g = [k \in 1..Len(p) |-> g[k]] /\ \A k \in 1..Len(p) : g[k] = PartCounts(p[k], part, m)
  BY DEF PartOf
<1>2. IsSeq(t) /\ DOMAIN t = 1..Len(t) /\ \A i \in 1..Len(t) : IsItem(t[i]) /\ t[i] \in Range(t)
  BY DomainOfSeq DEF ItemList, Range
<1>3. v \in [Range(t) -> Nat] /\ \A x \in Range(t) : v[x] = PartCounts(x, part, m)
  <2>1. \A x \in Range(t) : IsItem(x)
    BY <1>2 DEF Range
  <2>2. \A x \in Range(t) : PartCounts(x, part, m) \in Nat
    BY <2>1, PartCountsIs
  <2> QED BY <2>2
<1>4. w = [i \in 1..Len(t) |-> w[i]] /\ \A i \in 1..Len(t) : w[i] = PartCounts(t[i], part, m)
  BY DEF PartNumbers
<1> HIDE DEF v, w
<1>5. \A i \in 1..Len(t) : w[i] = IF i \in T THEN v[t[i]] ELSE 0
  BY <1>1, <1>2, <1>3, <1>4
<1>6. \A k \in 1..Len(p) : g[k] = v[p[k]]
  <2>1. Picks(p, t, T)
    BY <1>1, <1>2, PickedOf
  <2>2. \A k \in 1..Len(p) : p[k] \in Range(t)
    BY <1>1, <1>2, <2>1 DEF Picks
  <2> QED BY <1>1, <1>3, <2>2
<1>7. SumOf(g) = SumOf(w)
  <2>1. IsSeq(t) /\ p = FlattenSeq(Ones(t, T)) /\ v \in [Range(t) -> Nat]
    BY <1>1, <1>2, <1>3
  <2>2. g = [k \in 1..Len(p) |-> g[k]]
    BY <1>1
  <2>3. PickedBy(t, T, p, g, v, w)
    BY <1>4, <1>5, <1>6, <2>1, <2>2 DEF PickedBy
  <2> QED BY <2>3, PickedSum
<1> QED BY <1>7 DEF w

LEMMA EmittedText ==
  ASSUME NEW t, ItemList(t), NEW m
  PROVE  FunctionsCount(EmittedFunctions(t), m)
           = SumOf(PartNumbers(t, "text", m)) + SumOf(PartNumbers(t, "proto", m))
<1> DEFINE D == {i \in DOMAIN t : IsDefinition(t[i])}
           P == {i \in DOMAIN t : IsPrototype(t[i])}
           defs == Selected(t, IsDefinition)
           protos == Selected(t, IsPrototype)
           a == [i \in DOMAIN defs |-> Definition(defs[i])]
           b == [i \in DOMAIN protos |-> Prototype(protos[i])]
           g == FunctionNumbers(a, m)
           h == FunctionNumbers(b, m)
<1>1. IsSeq(t) /\ DOMAIN t = 1..Len(t) /\ \A i \in 1..Len(t) : IsItem(t[i])
  BY DomainOfSeq DEF ItemList
<1>2. /\ defs = FlattenSeq(Ones(t, D)) /\ protos = FlattenSeq(Ones(t, P))
      /\ D \subseteq DOMAIN t /\ P \subseteq DOMAIN t
      /\ \A i \in 1..Len(t) : /\ i \in D <=> t[i].is = "function"
                              /\ i \in P <=> t[i].is = "prototype"
  BY <1>1, SelectedIs DEF IsDefinition, IsPrototype
<1>3. EmittedFunctions(t) = a \o b
  BY Zenon DEF EmittedFunctions
<1> HIDE DEF D, P
<1>4. Picks(defs, t, D) /\ Picks(protos, t, P)
  BY <1>1, <1>2, PickedOf
<1> HIDE DEF defs, protos
<1>5. /\ IsSeq(defs) /\ DOMAIN defs = 1..Len(defs) /\ Len(defs) \in Nat
      /\ IsSeq(protos) /\ DOMAIN protos = 1..Len(protos) /\ Len(protos) \in Nat
  BY <1>4, DomainOfSeq DEF Picks
<1>6. /\ \A k \in 1..Len(defs) : IsItem(defs[k]) /\ defs[k].is = "function"
      /\ \A k \in 1..Len(protos) : IsItem(protos[k]) /\ protos[k].is = "prototype"
  BY <1>1, <1>2, <1>4 DEF Picks
<1>7. /\ a = [i \in 1..Len(defs) |-> a[i]] /\ \A i \in 1..Len(defs) : a[i] = Definition(defs[i])
      /\ b = [i \in 1..Len(protos) |-> b[i]]
      /\ \A i \in 1..Len(protos) : b[i] = Prototype(protos[i])
  BY <1>5
<1> HIDE DEF a, b
<1>8. FunctionList(a) /\ Len(a) = Len(defs)
  <2>1. IsSeq(a) /\ Len(a) = Len(defs)
    BY <1>5, <1>7, MapIsSeq
  <2> QED BY <1>6, <1>7, <2>1, DefinitionIs DEF FunctionList
<1>9. FunctionList(b) /\ Len(b) = Len(protos)
  <2>1. IsSeq(b) /\ Len(b) = Len(protos)
    BY <1>5, <1>7, MapIsSeq
  <2> QED BY <1>7, <2>1, PrototypeIs DEF FunctionList
<1>10. FunctionsCount(a \o b, m) = SumOf(g) + SumOf(h)
  BY <1>8, <1>9, FunctionsOfBoth, FunctionsCountIs
<1>11. SumOf(g) = SumOf(PartNumbers(t, "text", m))
  <2>1. /\ g = [k \in 1..Len(defs) |-> g[k]]
        /\ \A k \in 1..Len(defs) : g[k] = FunctionCounts(a[k], m)
    BY <1>8, FunctionsCountIs
  <2> HIDE DEF g
  <2>2. \A k \in 1..Len(defs) : g[k] = PartCounts(defs[k], "text", m)
    BY <1>6, <1>7, <2>1, DefinitionCounts DEF PartCounts
  <2>3. \A i \in 1..Len(t) : i \notin D => PartCounts(t[i], "text", m) = 0
    BY <1>2 DEF PartCounts
  <2>4. PartOf(t, D, defs, g, "text", m)
    BY <1>2, <2>1, <2>2, <2>3 DEF PartOf
  <2> QED BY <2>4, PartSum
<1>12. SumOf(h) = SumOf(PartNumbers(t, "proto", m))
  <2>1. /\ h = [k \in 1..Len(protos) |-> h[k]]
        /\ \A k \in 1..Len(protos) : h[k] = FunctionCounts(b[k], m)
    BY <1>9, FunctionsCountIs
  <2> HIDE DEF h
  <2>2. \A k \in 1..Len(protos) : h[k] = PartCounts(protos[k], "proto", m)
    BY <1>6, <1>7, <2>1, PrototypeCount DEF PartCounts
  <2>3. \A i \in 1..Len(t) : i \notin P => PartCounts(t[i], "proto", m) = 0
    BY <1>2 DEF PartCounts
  <2>4. PartOf(t, P, protos, h, "proto", m)
    BY <1>2, <2>1, <2>2, <2>3 DEF PartOf
  <2> QED BY <2>4, PartSum
<1> QED BY <1>3, <1>10, <1>11, <1>12

LEMMA EmittedData ==
  ASSUME NEW t, ItemList(t), NEW m
  PROVE  DataCount(EmittedShared(t), m) + DataCount(EmittedConstants(t), m)
           = SumOf(PartNumbers(t, "kept", m)) + SumOf(PartNumbers(t, "globals", m))
<1> DEFINE D == {i \in DOMAIN t : IsDefinition(t[i])}
           G == {i \in DOMAIN t : IsGlobals(t[i])}
           defs == Selected(t, IsDefinition)
           globals == Selected(t, IsGlobals)
           a == [i \in DOMAIN defs |-> FunctionVariables(defs[i].name, defs[i].locals)]
           b == [i \in DOMAIN globals |-> Inherited(globals[i].vars)]
           l == LocalVariables(t)
           r == GlobalVariables(t)
           g == KeptCounts(a, m)
           h == ListCounts(b, m)
<1>1. IsSeq(t) /\ DOMAIN t = 1..Len(t) /\ \A i \in 1..Len(t) : IsItem(t[i])
  BY DomainOfSeq DEF ItemList
<1>2. /\ defs = FlattenSeq(Ones(t, D)) /\ globals = FlattenSeq(Ones(t, G))
      /\ D \subseteq DOMAIN t /\ G \subseteq DOMAIN t
      /\ \A i \in 1..Len(t) : /\ i \in D <=> t[i].is = "function"
                              /\ i \in G <=> t[i].is = "globals"
  BY <1>1, SelectedIs DEF IsDefinition, IsGlobals
<1>3. /\ l = Selected(FlattenSeq(a), InSection) /\ r = FlattenSeq(b)
  BY Zenon DEF LocalVariables, GlobalVariables
<1> HIDE DEF D, G
<1>4. Picks(defs, t, D) /\ Picks(globals, t, G)
  BY <1>1, <1>2, PickedOf
<1> HIDE DEF defs, globals
<1>5. /\ IsSeq(defs) /\ DOMAIN defs = 1..Len(defs) /\ Len(defs) \in Nat
      /\ IsSeq(globals) /\ DOMAIN globals = 1..Len(globals) /\ Len(globals) \in Nat
  BY <1>4, DomainOfSeq DEF Picks
<1>6. /\ \A k \in 1..Len(defs) : IsItem(defs[k]) /\ defs[k].is = "function"
      /\ \A k \in 1..Len(globals) : IsItem(globals[k]) /\ globals[k].is = "globals"
  <2>1. \A k \in 1..Len(defs) : \E i \in D : defs[k] = t[i]
    BY <1>4 DEF Picks
  <2>2. \A k \in 1..Len(globals) : \E i \in G : globals[k] = t[i]
    BY <1>4 DEF Picks
  <2>3. /\ \A i \in D : IsItem(t[i]) /\ t[i].is = "function"
        /\ \A i \in G : IsItem(t[i]) /\ t[i].is = "globals"
    BY <1>1, <1>2
  <2> QED BY <2>1, <2>2, <2>3
<1>7. /\ a = [i \in 1..Len(defs) |-> a[i]]
      /\ \A i \in 1..Len(defs) : a[i] = FunctionVariables(defs[i].name, defs[i].locals)
      /\ b = [i \in 1..Len(globals) |-> b[i]]
      /\ \A i \in 1..Len(globals) : b[i] = Inherited(globals[i].vars)
  BY <1>5
<1> HIDE DEF a, b
<1>8. IsSeq(a) /\ Len(a) = Len(defs) /\ IsSeq(b) /\ Len(b) = Len(globals)
  BY <1>5, <1>7, MapIsSeq
<1>9. /\ \A j \in 1..Len(a) : DataList(a[j])
      /\ \A j \in 1..Len(b) : DataList(b[j]) /\ DataList(globals[j].vars)
  <2>1. ASSUME NEW j \in 1..Len(a) PROVE DataList(a[j])
    <3>1. IsItem(defs[j]) /\ defs[j].is = "function"
          /\ a[j] = FunctionVariables(defs[j].name, defs[j].locals)
      BY <1>6, <1>7, <1>8
    <3>2. DataList(defs[j].locals)
      BY <3>1, PartCountsIs
    <3> QED BY <3>1, <3>2, FunctionVariablesAre
  <2>2. ASSUME NEW j \in 1..Len(b) PROVE DataList(b[j]) /\ DataList(globals[j].vars)
    <3>1. IsItem(globals[j]) /\ globals[j].is = "globals" /\ b[j] = Inherited(globals[j].vars)
      BY <1>6, <1>7, <1>8
    <3>2. DataList(globals[j].vars)
      BY <3>1, PartCountsIs
    <3> QED BY <3>1, <3>2, InheritedIs
  <2> QED BY <2>1, <2>2
<1>10. DataList(l) /\ DataList(r)
  BY VariablesAre DEF PlacedData
<1>11. DataCount(EmittedShared(t), m) + DataCount(EmittedConstants(t), m)
         = DataCount(l, m) + DataCount(r, m)
  <2>0. DataList(l \o r) /\ DataCount(l \o r, m) = DataCount(l, m) + DataCount(r, m)
    <3>1. PlacedData(l) /\ PlacedData(r)
      BY VariablesAre
    <3> HIDE DEF l, r
    <3>2. DataList(l \o r)
      BY <3>1, BothPlaced DEF PlacedData
    <3> QED BY <1>10, <3>2, DataOfBoth
  <2>1. /\ EmittedShared(t) = Selected(l \o r, IsShared)
        /\ EmittedConstants(t) = Selected(l \o r, IsConstant)
    BY Zenon DEF EmittedShared, EmittedConstants
  <2> HIDE DEF l, r
  <2> QED BY <2>0, <2>1, DataSplit
<1>12. DataCount(l, m) = SumOf(g) /\ DataCount(r, m) = SumOf(h)
  <2> HIDE DEF l, r
  <2> QED BY <1>3, <1>8, <1>9, KeptJoined, DataJoined
<1> HIDE DEF l, r
<1>13. SumOf(g) = SumOf(PartNumbers(t, "kept", m))
  <2>1. /\ g = [k \in 1..Len(defs) |-> g[k]]
        /\ \A k \in 1..Len(defs) : g[k] = DataCount(Selected(a[k], InSection), m)
    BY <1>8 DEF KeptCounts
  <2> HIDE DEF g
  <2>2. \A k \in 1..Len(defs) : g[k] = PartCounts(defs[k], "kept", m)
    BY <1>6, <1>7, <2>1 DEF PartCounts, Keptly
  <2>3. \A i \in 1..Len(t) : i \notin D => PartCounts(t[i], "kept", m) = 0
    BY <1>2 DEF PartCounts
  <2>4. PartOf(t, D, defs, g, "kept", m)
    BY <1>2, <2>1, <2>2, <2>3 DEF PartOf
  <2> QED BY <2>4, PartSum
<1>14. SumOf(h) = SumOf(PartNumbers(t, "globals", m))
  <2>1. /\ h = [k \in 1..Len(globals) |-> h[k]]
        /\ \A k \in 1..Len(globals) : h[k] = DataCount(b[k], m)
    BY <1>8 DEF ListCounts
  <2> HIDE DEF h
  <2>2. \A k \in 1..Len(globals) : h[k] = PartCounts(globals[k], "globals", m)
    BY <1>6, <1>7, <1>8, <1>9, <2>1, InheritedCounts DEF PartCounts
  <2>3. \A i \in 1..Len(t) : i \notin G => PartCounts(t[i], "globals", m) = 0
    BY <1>2 DEF PartCounts
  <2>4. PartOf(t, G, globals, h, "globals", m)
    BY <1>2, <2>1, <2>2, <2>3 DEF PartOf
  <2> QED BY <2>4, PartSum
<1> QED BY <1>11, <1>12, <1>13, <1>14

ItemNumbers(t, m) == [i \in 1..Len(t) |-> ItemCounts(t[i], m)]

\* The program gets what the definitions of the tree count, and nothing else.
LEMMA EmittedCounts ==
  ASSUME NEW t, ItemList(t), NEW m
  PROVE  /\ FunctionsCount(EmittedFunctions(t), m) + DataCount(EmittedShared(t), m)
              + DataCount(EmittedConstants(t), m) = ItemsCount(t, m)
         /\ ItemsCount(t, m) \in Nat /\ ItemsCount(t, m) = SumOf(ItemNumbers(t, m))
<1> DEFINE a == PartNumbers(t, "text", m)
           b == PartNumbers(t, "kept", m)
           c == PartNumbers(t, "proto", m)
           d == PartNumbers(t, "globals", m)
           e == ItemNumbers(t, m)
           x == [i \in 1..Len(t) |-> a[i] + b[i]]
           y == [i \in 1..Len(t) |-> c[i] + d[i]]
           n == Len(t)
<1>1. n \in Nat /\ \A i \in 1..n : IsItem(t[i])
  BY DomainOfSeq DEF ItemList
<1>2. ItemsCount(t, m) = SumOf(e)
  BY Zenon DEF ItemsCount, ItemNumbers
<1>3. \A part : LET p == PartNumbers(t, part, m)
                IN  /\ p = [i \in 1..n |-> p[i]]
                    /\ \A i \in 1..n : p[i] = PartCounts(t[i], part, m) /\ p[i] \in Nat
  BY <1>1, PartCountsIs DEF PartNumbers
<1>4. /\ a = [i \in 1..n |-> a[i]] /\ b = [i \in 1..n |-> b[i]]
      /\ c = [i \in 1..n |-> c[i]] /\ d = [i \in 1..n |-> d[i]]
      /\ \A i \in 1..n : /\ a[i] \in Nat /\ b[i] \in Nat /\ c[i] \in Nat /\ d[i] \in Nat
                         /\ ItemCounts(t[i], m) = a[i] + b[i] + c[i] + d[i]
  BY <1>1, <1>3, PartCountsIs
<1>5. e = [i \in 1..n |-> e[i]] /\ \A i \in 1..n : e[i] = ItemCounts(t[i], m)
  BY DEF ItemNumbers
<1> HIDE DEF a, b, c, d, e
<1>6. /\ x = [i \in 1..n |-> x[i]] /\ y = [i \in 1..n |-> y[i]]
      /\ \A i \in 1..n : x[i] = a[i] + b[i] /\ y[i] = c[i] + d[i]
  OBVIOUS
<1> HIDE DEF x, y
<1>7. \A i \in 1..n : x[i] \in Nat /\ y[i] \in Nat /\ e[i] = x[i] + y[i]
  BY <1>4, <1>5, <1>6
<1> HIDE DEF n
<1>8. Pairs(a, b, x, n) /\ Pairs(c, d, y, n) /\ Pairs(x, y, e, n)
  BY <1>1, <1>4, <1>5, <1>6, <1>7 DEF Pairs
<1>9. /\ SumOf(x) = SumOf(a) + SumOf(b) /\ SumOf(y) = SumOf(c) + SumOf(d)
      /\ SumOf(e) = SumOf(x) + SumOf(y)
      /\ SumOf(a) \in Nat /\ SumOf(b) \in Nat /\ SumOf(c) \in Nat /\ SumOf(d) \in Nat
      /\ SumOf(x) \in Nat /\ SumOf(y) \in Nat
  BY <1>8, PairsSum
<1>10. FunctionsCount(EmittedFunctions(t), m) = SumOf(a) + SumOf(c)
  BY EmittedText DEF a, c
<1>11. DataCount(EmittedShared(t), m) + DataCount(EmittedConstants(t), m) = SumOf(b) + SumOf(d)
  BY EmittedData DEF b, d
<1>12. /\ FunctionsCount(EmittedFunctions(t), m) \in Nat
       /\ DataCount(EmittedShared(t), m) \in Nat /\ DataCount(EmittedConstants(t), m) \in Nat
  BY EmittedFunctionsAre, EmittedDataAre, FunctionsCountIs, DataCountIs DEF PlacedData
<1>13. ItemsCount(t, m) \in Nat /\ ItemsCount(t, m) = SumOf(a) + SumOf(b) + SumOf(c) + SumOf(d)
  BY <1>2, <1>9
<1> QED BY <1>2, <1>9, <1>10, <1>11, <1>12, <1>13 DEF e

LEMMA OneSum ==
  ASSUME NEW w, w = [j \in 1..1 |-> w[j]], w[1] \in Nat
  PROVE  SumOf(w) = w[1]
<1>1. w \in Seq(Nat) /\ Len(w) = 1
  BY NatSum
<1>2. PICK s : IsSum(s, w) /\ SumOf(w) = s[Len(w)]
  BY <1>1, SumIs
<1>3. 1 \in 1..Len(w) /\ 1 - 1 = 0
  BY <1>1
<1>4. s[1] = s[0] + w[1] /\ s[0] = 0
  BY <1>2, <1>3 DEF IsSum
<1> QED BY <1>1, <1>2, <1>4

\* A list that has one more item.
LEMMA ItemsMore ==
  ASSUME NEW q, ItemList(q), NEW r, ItemList(r), Len(r) = Len(q) + 1,
         \A i \in 1..Len(q) : r[i] = q[i], NEW m
  PROVE  ItemsCount(r, m) = ItemsCount(q, m) + ItemCounts(r[Len(r)], m)
<1> DEFINE a == ItemNumbers(q, m)
           b == [j \in 1..1 |-> ItemCounts(r[Len(r)], m)]
           c == ItemNumbers(r, m)
           n == Len(q)
<1>1. n \in Nat /\ Len(r) = n + 1
      /\ (\A i \in 1..n : IsItem(q[i])) /\ (\A i \in 1..(n + 1) : IsItem(r[i]))
  BY DomainOfSeq DEF ItemList
<1>2. /\ a = [i \in 1..n |-> a[i]] /\ \A i \in 1..n : a[i] = ItemCounts(q[i], m)
      /\ c = [i \in 1..(n + 1) |-> c[i]] /\ \A i \in 1..(n + 1) : c[i] = ItemCounts(r[i], m)
      /\ b = [i \in 1..1 |-> b[i]] /\ b[1] = ItemCounts(r[Len(r)], m)
  BY <1>1 DEF ItemNumbers
<1>3. ItemsCount(q, m) = SumOf(a) /\ ItemsCount(r, m) = SumOf(c)
  BY EmittedCounts
<1> HIDE DEF a, b, c, n
<1>4. /\ \A i \in 1..n : a[i] \in Nat
      /\ b[1] \in Nat /\ \A i \in 1..1 : b[i] \in Nat
  <2>1. n + 1 \in 1..(n + 1)
    BY <1>1
  <2>2. b[1] \in Nat
    BY <1>1, <1>2, <2>1, PartCountsIs
  <2> QED BY <1>1, <1>2, <2>2, PartCountsIs
<1>5. \A i \in 1..(n + 1) : c[i] = IF i <= n THEN a[i] ELSE b[i - n]
  <2> TAKE i \in 1..(n + 1)
  <2>1. CASE i <= n
    <3>1. i \in 1..n
      BY <1>1, <2>1
    <3> QED BY <1>2, <2>1, <3>1 DEF n
  <2>2. CASE ~(i <= n)
    <3>1. i = n + 1 /\ i - n = 1
      BY <1>1, <2>2
    <3> QED BY <1>1, <1>2, <2>2, <3>1
  <2> QED BY <2>1, <2>2
<1>6. Halves(a, b, c, n, 1)
  <2>1. 1 \in Nat
    OBVIOUS
  <2> QED BY <1>1, <1>2, <1>4, <1>5, <2>1, Zenon DEF Halves
<1>7. SumOf(c) = SumOf(a) + SumOf(b)
  BY <1>6, HalvesSum
<1>8. SumOf(b) = ItemCounts(r[Len(r)], m)
  BY <1>2, <1>4, OneSum
<1> QED BY <1>3, <1>7, <1>8

LEMMA ItemsNone ==
  ASSUME NEW m
  PROVE  ItemList(<<>>) /\ ItemsCount(<<>>, m) = 0
<1>1. ItemList(<<>>)
  BY EmptyIsSeq DEF ItemList
<1>2. ItemNumbers(<<>>, m) = <<>>
  <2>1. Len(<<>>) = 0
    BY EmptyIsSeq
  <2>2. ItemNumbers(<<>>, m) = [i \in 1..0 |-> ItemCounts(<<>>[i], m)]
    BY <2>1 DEF ItemNumbers
  <2> QED BY <2>2
<1> QED BY <1>1, <1>2, EmittedCounts, SumOfNone

\* Numbers that are 0 or 1 add up to how many are 1.
LEMMA MarksCounted ==
  ASSUME NEW n \in Nat, NEW w, w = [i \in 1..n |-> w[i]], \A i \in 1..n : w[i] \in {0, 1}
  PROVE  LET A == {i \in 1..n : w[i] = 1}
         IN  IsFiniteSet(A) /\ Cardinality(A) = SumOf(w)
<1> DEFINE A(k) == {i \in 1..k : w[i] = 1}
<1>1. w \in Seq(Nat) /\ Len(w) = n
  BY NatSum
<1>2. PICK s : IsSum(s, w) /\ SumOf(w) = s[Len(w)]
  BY <1>1, SumIs
<1>3. s[0] = 0 /\ \A k \in 1..n : s[k] = s[k - 1] + w[k]
  BY <1>1, <1>2 DEF IsSum
<1> DEFINE S == {k \in 0..n : IsFiniteSet(A(k)) /\ Cardinality(A(k)) = s[k]}
<1>4. 0 \in S
  <2>1. A(0) = {}
    OBVIOUS
  <2> HIDE DEF A
  <2> QED BY <1>3, <2>1, FS_EmptySet
<1>5. ASSUME NEW k \in 0..n, k \in S, k < n PROVE k + 1 \in S
  <2>1. k + 1 \in 1..n /\ (k + 1) - 1 = k /\ k + 1 \in 0..n
    BY <1>5
  <2>2. s[k + 1] = s[k] + w[k + 1]
    BY <1>3, <2>1
  <2>3. /\ w[k + 1] = 1 => A(k + 1) = A(k) \cup {k + 1}
        /\ w[k + 1] # 1 => A(k + 1) = A(k)
        /\ k + 1 \notin A(k)
    BY <2>1
  <2>4. IsFiniteSet(A(k)) /\ Cardinality(A(k)) = s[k]
    BY <1>5
  <2> HIDE DEF A
  <2>5. Cardinality(A(k)) \in Nat
    BY <2>4, FS_CardinalityType
  <2>6. CASE w[k + 1] = 1
    <3>1. IsFiniteSet(A(k + 1)) /\ Cardinality(A(k + 1)) = Cardinality(A(k)) + 1
      BY <2>3, <2>4, <2>6, FS_AddElement
    <3> QED BY <2>1, <2>2, <2>4, <2>6, <3>1
  <2>7. CASE w[k + 1] # 1
    <3>1. w[k + 1] = 0
      BY <2>1, <2>7
    <3> QED BY <2>1, <2>2, <2>3, <2>4, <2>5, <2>7, <3>1
  <2> QED BY <2>6, <2>7
<1> HIDE DEF S
<1>6. n \in S
  BY <1>4, <1>5, Induct
<1> QED BY <1>1, <1>2, <1>6 DEF S

\* What counts at most once is at one place.
LEMMA OnePlace ==
  ASSUME NEW n \in Nat, NEW w, w = [i \in 1..n |-> w[i]], \A i \in 1..n : w[i] \in {0, 1}
  PROVE  /\ SumOf(w) \in Nat
         /\ SumOf(w) <= 1 <=> \A i, j \in 1..n : w[i] = 1 /\ w[j] = 1 => i = j
         /\ SumOf(w) = 0 <=> \A i \in 1..n : w[i] # 1
<1> DEFINE A == {i \in 1..n : w[i] = 1}
<1>1. IsFiniteSet(A) /\ Cardinality(A) = SumOf(w)
  BY MarksCounted
<1>2. Cardinality(A) \in Nat
  BY <1>1, FS_CardinalityType
<1>3. Cardinality(A) = 0 <=> A = {}
  BY <1>1, FS_EmptySet
<1>4. Cardinality(A) = 1 <=> \E x : A = {x}
  BY <1>1, FS_Singleton
<1>5. A = {} <=> \A i \in 1..n : w[i] # 1
  OBVIOUS
<1>6. (A = {} \/ \E x : A = {x}) <=> \A i, j \in 1..n : w[i] = 1 /\ w[j] = 1 => i = j
  <2>1. ASSUME \A i, j \in 1..n : w[i] = 1 /\ w[j] = 1 => i = j, A # {}
        PROVE  \E x : A = {x}
    <3>1. PICK x : x \in A
      BY <2>1
    <3>2. A = {x}
      BY <2>1, <3>1
    <3> QED BY <3>2
  <2>2. ASSUME NEW x, A = {x}, NEW i \in 1..n, NEW j \in 1..n, w[i] = 1, w[j] = 1
        PROVE  i = j
    <3>1. i \in A /\ j \in A
      BY <2>2
    <3> HIDE DEF A
    <3> QED BY <2>2, <3>1
  <2> QED BY <2>1, <2>2
<1> HIDE DEF A
<1>7. Cardinality(A) <= 1 <=> Cardinality(A) = 0 \/ Cardinality(A) = 1
  BY <1>2
<1> QED BY <1>1, <1>2, <1>3, <1>4, <1>5, <1>6, <1>7

LEMMA SameSeq ==
  ASSUME NEW p, IsSeq(p), NEW q, IsSeq(q), Len(p) = Len(q), \A i \in 1..Len(q) : p[i] = q[i]
  PROVE  p = q
<1>1. p = [i \in 1..Len(p) |-> p[i]] /\ q = [i \in 1..Len(q) |-> q[i]]
  BY DEF IsSeq
<1> QED BY <1>1

\* A sequence is what is before an element, the element and what is behind it.
LEMMA Cut ==
  ASSUME NEW q, IsSeq(q), NEW k \in 1..Len(q)
  PROVE  q = (SubSeq(q, 1, k - 1) \o <<q[k]>>) \o SubSeq(q, k + 1, Len(q))
<1> DEFINE n == Len(q)
           a == SubSeq(q, 1, k - 1)
           b == <<q[k]>>
           c == SubSeq(q, k + 1, n)
           d == a \o b
           e == d \o c
<1>1. n \in Nat /\ k \in 1..n /\ k - 1 \in Nat /\ k + 1 \in Nat /\ k + 1 >= 1 /\ k - 1 <= n
  BY DomainOfSeq
<1>2. /\ IsSeq(a) /\ Len(a) = k - 1
      /\ \A i \in 1..(k - 1) : a[i] = q[i]
  <2>1. /\ IsSeq(a) /\ Len(a) = IF 1 <= k - 1 THEN ((k - 1) - 1) + 1 ELSE 0
        /\ \A i \in 1..Len(a) : a[i] = q[(1 + i) - 1]
    <3>1. 1 \in Nat /\ 1 >= 1
      OBVIOUS
    <3> HIDE DEF n
    <3> QED BY <1>1, <3>1, PartIsSeq DEF n
  <2> HIDE DEF a
  <2>2. Len(a) = k - 1
    BY <1>1, <2>1
  <2>3. \A i \in 1..(k - 1) : (1 + i) - 1 = i
    BY <1>1
  <2> QED BY <2>1, <2>2, <2>3
<1>3. IsSeq(b) /\ Len(b) = 1 /\ b[1] = q[k]
  BY OneIsSeq
<1>4. /\ IsSeq(c) /\ Len(c) = n - k
      /\ \A i \in 1..(n - k) : c[i] = q[k + i]
  <2>1. /\ IsSeq(c) /\ Len(c) = IF k + 1 <= n THEN (n - (k + 1)) + 1 ELSE 0
        /\ \A i \in 1..Len(c) : c[i] = q[((k + 1) + i) - 1]
    BY <1>1, PartIsSeq
  <2> HIDE DEF c
  <2>2. Len(c) = n - k
    BY <1>1, <2>1
  <2>3. \A i \in 1..(n - k) : ((k + 1) + i) - 1 = k + i
    BY <1>1
  <2> QED BY <2>1, <2>2, <2>3
<1> HIDE DEF a, b, c
<1>5. /\ IsSeq(d) /\ Len(d) = k
      /\ \A i \in 1..k : d[i] = IF i <= k - 1 THEN a[i] ELSE b[i - (k - 1)]
  <2>1. /\ IsSeq(d) /\ Len(d) = Len(a) + Len(b)
        /\ \A i \in 1..(Len(a) + Len(b)) : d[i] = IF i <= Len(a) THEN a[i] ELSE b[i - Len(a)]
    BY <1>2, <1>3, BothAreSeq
  <2>2. Len(a) = k - 1 /\ Len(a) + Len(b) = k
    BY <1>1, <1>2, <1>3
  <2> QED BY <2>1, <2>2
<1>6. \A i \in 1..k : d[i] = q[i]
  <2> TAKE i \in 1..k
  <2>1. CASE i <= k - 1
    BY <1>1, <1>2, <1>5, <2>1
  <2>2. CASE ~(i <= k - 1)
    <3>1. i = k /\ i - (k - 1) = 1
      BY <1>1, <2>2
    <3> QED BY <1>3, <1>5, <2>2, <3>1
  <2> QED BY <2>1, <2>2
<1> HIDE DEF d
<1>7. /\ IsSeq(e) /\ Len(e) = n
      /\ \A i \in 1..n : e[i] = IF i <= k THEN d[i] ELSE c[i - k]
  <2>1. /\ IsSeq(e) /\ Len(e) = Len(d) + Len(c)
        /\ \A i \in 1..(Len(d) + Len(c)) : e[i] = IF i <= Len(d) THEN d[i] ELSE c[i - Len(d)]
    BY <1>4, <1>5, BothAreSeq
  <2>2. Len(d) = k /\ Len(d) + Len(c) = n
    BY <1>1, <1>4, <1>5
  <2> QED BY <2>1, <2>2
<1>8. \A i \in 1..n : e[i] = q[i]
  <2> TAKE i \in 1..n
  <2>1. CASE i <= k
    BY <1>1, <1>6, <1>7, <2>1
  <2>2. CASE ~(i <= k)
    <3>1. i - k \in 1..(n - k) /\ k + (i - k) = i
      BY <1>1, <2>2
    <3> QED BY <1>4, <1>7, <2>2, <3>1
  <2> QED BY <2>1, <2>2
<1> HIDE DEF e
<1>9. q = e
  BY <1>7, <1>8, SameSeq
<1> QED BY <1>9 DEF a, b, c, d, e

LEMMA PartOfProgram ==
  ASSUME NEW q, FunctionList(q), NEW k \in 1..Len(q)
  PROVE  /\ FunctionList(SubSeq(q, 1, k - 1)) /\ FunctionList(<<q[k]>>)
         /\ FunctionList(SubSeq(q, k + 1, Len(q)))
<1>0. IsSeq(q) /\ Len(q) \in Nat /\ \A i \in 1..Len(q) : IsFunction(q[i])
  BY DomainOfSeq DEF FunctionList
<1>1. ASSUME NEW a \in Nat, a >= 1, NEW b \in Nat, b <= Len(q)
      PROVE  FunctionList(SubSeq(q, a, b))
  BY <1>0, <1>1, PartIsSeq DEF FunctionList
<1>2. FunctionList(<<q[k]>>)
  BY <1>0, OneIsSeq DEF FunctionList
<1>3. k - 1 \in Nat /\ k - 1 <= Len(q) /\ k + 1 \in Nat /\ k + 1 >= 1 /\ 1 \in Nat /\ 1 >= 1
  BY <1>0
<1> QED BY <1>0, <1>1, <1>2, <1>3

\* Moving main to the top changes nothing but the order, and main is first.
LEMMA MainKeeps ==
  ASSUME NEW q, FunctionList(q)
  PROVE  /\ \A m : FunctionsCount(MainToTop(q), m) = FunctionsCount(q, m)
         /\ \A j \in 1..Len(q) : \E i \in 1..Len(MainToTop(q)) : MainToTop(q)[i] = q[j]
         /\ \/ MainToTop(q)[1].name = <<"main">>
            \/ \A i \in 1..Len(MainToTop(q)) : MainToTop(q)[i].name # <<"main">>
<1> DEFINE r == MainToTop(q)
<1>0. IsSeq(q)
  BY DEF FunctionList
<1>1. CASE r = q /\ \A i \in 1..Len(q) : q[i].name # <<"main">>
  BY <1>1
<1>2. CASE \E k \in 1..Len(q) :
             /\ q[k].name = <<"main">>
             /\ r = <<q[k]>> \o SubSeq(q, 1, k - 1) \o SubSeq(q, k + 1, Len(q))
  <2>1. PICK k \in 1..Len(q) :
          /\ q[k].name = <<"main">>
          /\ r = <<q[k]>> \o SubSeq(q, 1, k - 1) \o SubSeq(q, k + 1, Len(q))
    BY <1>2
  <2> DEFINE a == SubSeq(q, 1, k - 1)
             b == <<q[k]>>
             c == SubSeq(q, k + 1, Len(q))
  <2>2. FunctionList(a) /\ FunctionList(b) /\ FunctionList(c)
    BY PartOfProgram
  <2>3. q = (a \o b) \o c /\ r = (b \o a) \o c
    BY <1>0, <2>1, Cut
  <2>4. Len(b) = 1 /\ b[1] = q[k]
    BY OneIsSeq
  <2> HIDE DEF a, b, c, r
  <2>5. FunctionList(a \o b) /\ FunctionList(b \o a)
    BY <2>2, BothFunctions
  <2>6. ASSUME NEW m PROVE FunctionsCount(r, m) = FunctionsCount(q, m)
    <3>1. /\ FunctionsCount(a, m) \in Nat /\ FunctionsCount(b, m) \in Nat
          /\ FunctionsCount(c, m) \in Nat
      BY <2>2, FunctionsCountIs
    <3>2. /\ FunctionsCount(a \o b, m) = FunctionsCount(a, m) + FunctionsCount(b, m)
          /\ FunctionsCount(b \o a, m) = FunctionsCount(b, m) + FunctionsCount(a, m)
      BY <2>2, FunctionsOfBoth
    <3>3. /\ FunctionsCount((a \o b) \o c, m) = FunctionsCount(a \o b, m) + FunctionsCount(c, m)
          /\ FunctionsCount((b \o a) \o c, m) = FunctionsCount(b \o a, m) + FunctionsCount(c, m)
      BY <2>2, <2>5, FunctionsOfBoth
    <3> QED BY <2>3, <3>1, <3>2, <3>3
  <2>7. IsSeq(a) /\ IsSeq(b) /\ IsSeq(c) /\ IsSeq(a \o b) /\ IsSeq(b \o a)
    BY <2>2, <2>5 DEF FunctionList
  <2>8. ASSUME NEW j \in 1..Len(q) PROVE \E i \in 1..Len(r) : r[i] = q[j]
    <3>1. Unites(q, a \o b, c) /\ Unites(a \o b, a, b) /\ Unites(b \o a, b, a) /\ Unites(r, b \o a, c)
      BY <2>3, <2>7, BothHold
    <3>2. \/ \E i \in 1..Len(a \o b) : q[j] = (a \o b)[i]
          \/ \E i \in 1..Len(c) : q[j] = c[i]
      BY <3>1 DEF Unites
    <3>3. CASE \E i \in 1..Len(c) : q[j] = c[i]
      BY <3>1, <3>3 DEF Unites
    <3>4. CASE \E i \in 1..Len(a \o b) : q[j] = (a \o b)[i]
      <4>1. (\E i \in 1..Len(a) : q[j] = a[i]) \/ (\E i \in 1..Len(b) : q[j] = b[i])
        BY <3>1, <3>4 DEF Unites
      <4>2. \E i \in 1..Len(b \o a) : q[j] = (b \o a)[i]
        <5>1. /\ \A k_ \in 1..Len(b) : \E i \in 1..Len(b \o a) : (b \o a)[i] = b[k_]
              /\ \A k_ \in 1..Len(a) : \E i \in 1..Len(b \o a) : (b \o a)[i] = a[k_]
          BY <3>1 DEF Unites
        <5> QED BY <4>1, <5>1
      <4>3. \A k_ \in 1..Len(b \o a) : \E i \in 1..Len(r) : r[i] = (b \o a)[k_]
        BY <3>1 DEF Unites
      <4> QED BY <4>2, <4>3
    <3> QED BY <3>2, <3>3, <3>4
  <2>9. r[1] = q[k]
    <3>1. (b \o a)[1] = b[1] /\ 1 <= Len(b \o a) /\ Len(b \o a) \in Nat
      <4>1. /\ Len(b \o a) = Len(b) + Len(a) /\ Len(a) \in Nat
            /\ \A i \in 1..(Len(b) + Len(a)) : (b \o a)[i] = IF i <= Len(b) THEN b[i] ELSE a[i - Len(b)]
        BY <2>7, BothAreSeq
      <4>2. 1 \in 1..(Len(b) + Len(a)) /\ 1 <= Len(b)
        BY <2>4, <4>1
      <4> QED BY <2>4, <4>1, <4>2
    <3>2. /\ Len(c) \in Nat
          /\ \A i \in 1..(Len(b \o a) + Len(c)) :
               r[i] = IF i <= Len(b \o a) THEN (b \o a)[i] ELSE c[i - Len(b \o a)]
      BY <2>3, <2>7, BothAreSeq
    <3>3. 1 \in 1..(Len(b \o a) + Len(c))
      BY <3>1, <3>2
    <3> QED BY <2>4, <3>1, <3>2, <3>3
  <2> QED BY <2>1, <2>6, <2>8, <2>9 DEF r
<1> QED BY <1>0, <1>1, <1>2, MainMoves

\* What addLabel lets pass has no name twice.
Name(x) == [is |-> "name", of |-> x]
Id(x)   == [is |-> "id", of |-> x]

LEMMA NamesAreMarks ==
  ASSUME NEW x
  PROVE  /\ \A q : FunctionList(q) => \A i \in 1..Len(q) :
              /\ FunctionNumbers(q, Name(x))[i] \in {0, 1}
              /\ FunctionNumbers(q, Name(x))[i] = 1 <=> q[i].name = x
         /\ \A q : DataList(q) => \A i \in 1..Len(q) :
              /\ DataNumbers(q, Name(x))[i] \in {0, 1}
              /\ DataNumbers(q, Name(x))[i] = 1 <=> IsNamed(q[i]) /\ q[i].label = x
<1>1. Name(x).is # "id" /\ Name(x).of = x
  BY DEF Name
<1>2. ASSUME NEW q, FunctionList(q), NEW i \in 1..Len(q)
      PROVE  /\ FunctionNumbers(q, Name(x))[i] \in {0, 1}
             /\ FunctionNumbers(q, Name(x))[i] = 1 <=> q[i].name = x
  <2>1. FunctionNumbers(q, Name(x))[i] = FunctionCounts(q[i], Name(x))
    BY <1>2, FunctionsCountIs
  <2> QED BY <1>1, <2>1 DEF FunctionCounts
<1>3. ASSUME NEW q, DataList(q), NEW i \in 1..Len(q)
      PROVE  /\ DataNumbers(q, Name(x))[i] \in {0, 1}
             /\ DataNumbers(q, Name(x))[i] = 1 <=> IsNamed(q[i]) /\ q[i].label = x
  <2>1. DataNumbers(q, Name(x))[i] = DatumCounts(q[i], Name(x))
    BY <1>3, DataCountIs
  <2> QED BY <1>1, <2>1 DEF DatumCounts
<1> QED BY <1>2, <1>3

LEMMA NamesOnce ==
  ASSUME NEW f, FunctionList(f), NEW s, DataList(s), NEW c, DataList(c), ~NamedTwice(f, s, c), NEW x
  PROVE  FunctionsCount(f, Name(x)) + DataCount(s, Name(x)) + DataCount(c, Name(x)) <= 1
<1> DEFINE u == FunctionNumbers(f, Name(x))
           v == DataNumbers(s, Name(x))
           w == DataNumbers(c, Name(x))
<1>1. /\ DOMAIN f = 1..Len(f) /\ Len(f) \in Nat
      /\ DOMAIN s = 1..Len(s) /\ Len(s) \in Nat
      /\ DOMAIN c = 1..Len(c) /\ Len(c) \in Nat
  BY ListsAre, DomainOfSeq DEF FunctionList
<1>2. /\ FunctionsCount(f, Name(x)) = SumOf(u) /\ u = [i \in 1..Len(f) |-> u[i]]
      /\ DataCount(s, Name(x)) = SumOf(v) /\ v = [i \in 1..Len(s) |-> v[i]]
      /\ DataCount(c, Name(x)) = SumOf(w) /\ w = [i \in 1..Len(c) |-> w[i]]
  BY FunctionsCountIs, DataCountIs
<1>3. /\ \A i \in 1..Len(f) : u[i] \in {0, 1} /\ (u[i] = 1 <=> f[i].name = x)
      /\ \A i \in 1..Len(s) : v[i] \in {0, 1} /\ (v[i] = 1 <=> IsNamed(s[i]) /\ s[i].label = x)
      /\ \A i \in 1..Len(c) : w[i] \in {0, 1} /\ (w[i] = 1 <=> IsNamed(c[i]) /\ c[i].label = x)
  BY NamesAreMarks
<1> HIDE DEF u, v, w
<1> DEFINE places == ({"text"} \X DOMAIN f) \cup ({"data"} \X Labels(s)) \cup ({"rodata"} \X Labels(c))
           name(p) == IF p[1] = "text" THEN f[p[2]].name
                      ELSE IF p[1] = "data" THEN s[p[2]].label
                      ELSE c[p[2]].label
<1>4. \A p, q \in places : name(p) = name(q) => p = q
  BY DEF NamedTwice
<1>5. /\ \A i \in 1..Len(f) : u[i] = 1 => <<"text", i>> \in places /\ name(<<"text", i>>) = x
      /\ \A i \in 1..Len(s) : v[i] = 1 => <<"data", i>> \in places /\ name(<<"data", i>>) = x
      /\ \A i \in 1..Len(c) : w[i] = 1 => <<"rodata", i>> \in places /\ name(<<"rodata", i>>) = x
  BY <1>1, <1>3 DEF Labels, IsNamed
<1> HIDE DEF places, name
<1>6. /\ \A i, j \in 1..Len(f) : u[i] = 1 /\ u[j] = 1 => i = j
      /\ \A i, j \in 1..Len(s) : v[i] = 1 /\ v[j] = 1 => i = j
      /\ \A i, j \in 1..Len(c) : w[i] = 1 /\ w[j] = 1 => i = j
  <2>1. \A i, j \in 1..Len(f) : u[i] = 1 /\ u[j] = 1 => <<"text", i>> = <<"text", j>>
    BY <1>4, <1>5
  <2>2. \A i, j \in 1..Len(s) : v[i] = 1 /\ v[j] = 1 => <<"data", i>> = <<"data", j>>
    BY <1>4, <1>5
  <2>3. \A i, j \in 1..Len(c) : w[i] = 1 /\ w[j] = 1 => <<"rodata", i>> = <<"rodata", j>>
    BY <1>4, <1>5
  <2> QED BY <2>1, <2>2, <2>3
<1>7. /\ \A i \in 1..Len(f), j \in 1..Len(s) : ~(u[i] = 1 /\ v[j] = 1)
      /\ \A i \in 1..Len(f), j \in 1..Len(c) : ~(u[i] = 1 /\ w[j] = 1)
      /\ \A i \in 1..Len(s), j \in 1..Len(c) : ~(v[i] = 1 /\ w[j] = 1)
  <2>1. \A i, j : <<"text", i>> # <<"data", j>> /\ <<"text", i>> # <<"rodata", j>>
                    /\ <<"data", i>> # <<"rodata", j>>
    OBVIOUS
  <2> QED BY <1>4, <1>5, <2>1
<1>8. /\ SumOf(u) \in Nat /\ SumOf(u) <= 1 /\ (SumOf(u) = 0 <=> \A i \in 1..Len(f) : u[i] # 1)
      /\ SumOf(v) \in Nat /\ SumOf(v) <= 1 /\ (SumOf(v) = 0 <=> \A i \in 1..Len(s) : v[i] # 1)
      /\ SumOf(w) \in Nat /\ SumOf(w) <= 1 /\ (SumOf(w) = 0 <=> \A i \in 1..Len(c) : w[i] # 1)
  <2>1. SumOf(u) \in Nat /\ SumOf(u) <= 1 /\ (SumOf(u) = 0 <=> \A i \in 1..Len(f) : u[i] # 1)
    <3>1. /\ Len(f) \in Nat /\ u = [i \in 1..Len(f) |-> u[i]]
          /\ \A i \in 1..Len(f) : u[i] \in {0, 1}
      BY <1>1, <1>2, <1>3
    <3>2. \A i, j \in 1..Len(f) : u[i] = 1 /\ u[j] = 1 => i = j
      BY <1>6
    <3> QED BY <3>1, <3>2, OnePlace
  <2>2. SumOf(v) \in Nat /\ SumOf(v) <= 1 /\ (SumOf(v) = 0 <=> \A i \in 1..Len(s) : v[i] # 1)
    <3>1. /\ Len(s) \in Nat /\ v = [i \in 1..Len(s) |-> v[i]]
          /\ \A i \in 1..Len(s) : v[i] \in {0, 1}
      BY <1>1, <1>2, <1>3
    <3>2. \A i, j \in 1..Len(s) : v[i] = 1 /\ v[j] = 1 => i = j
      BY <1>6
    <3> QED BY <3>1, <3>2, OnePlace
  <2>3. SumOf(w) \in Nat /\ SumOf(w) <= 1 /\ (SumOf(w) = 0 <=> \A i \in 1..Len(c) : w[i] # 1)
    <3>1. /\ Len(c) \in Nat /\ w = [i \in 1..Len(c) |-> w[i]]
          /\ \A i \in 1..Len(c) : w[i] \in {0, 1}
      BY <1>1, <1>2, <1>3
    <3>2. \A i, j \in 1..Len(c) : w[i] = 1 /\ w[j] = 1 => i = j
      BY <1>6
    <3> QED BY <3>1, <3>2, OnePlace
  <2> QED BY <2>1, <2>2, <2>3
<1>9. /\ SumOf(u) = 0 \/ SumOf(v) = 0
      /\ SumOf(u) = 0 \/ SumOf(w) = 0
      /\ SumOf(v) = 0 \/ SumOf(w) = 0
  BY <1>7, <1>8
<1> QED BY <1>2, <1>8, <1>9

\* A name that counts once is the name of one function.
LEMMA OneOfTheName ==
  ASSUME NEW f, FunctionList(f), NEW x, FunctionsCount(f, Name(x)) <= 1,
         NEW i \in 1..Len(f), NEW j \in 1..Len(f), f[i].name = x, f[j].name = x
  PROVE  i = j
<1> DEFINE u == FunctionNumbers(f, Name(x))
<1>1. FunctionsCount(f, Name(x)) = SumOf(u) /\ u = [k \in 1..Len(f) |-> u[k]] /\ Len(f) \in Nat
  BY FunctionsCountIs
<1>2. \A k \in 1..Len(f) : u[k] \in {0, 1} /\ (u[k] = 1 <=> f[k].name = x)
  BY NamesAreMarks
<1> HIDE DEF u
<1>3. SumOf(u) <= 1 <=> \A k, l \in 1..Len(f) : u[k] = 1 /\ u[l] = 1 => k = l
  BY <1>1, <1>2, OnePlace
<1> QED BY <1>1, <1>2, <1>3

-----------------------------------------------------------------------------
(* How often something occurs in a sequence, by its id in an image.        *)
MarkOf(e, how, x) == IF (IF how = "image" THEN e.id ELSE e) = x THEN 1 ELSE 0
Marks(q, how, x)  == [i \in 1..Len(q) |-> MarkOf(q[i], how, x)]
Times(q, how, x)  == SumOf(Marks(q, how, x))

LEMMA TimesIs ==
  ASSUME NEW q, IsSeq(q), NEW how, NEW x
  PROVE  LET w == Marks(q, how, x)
         IN  /\ w = [i \in 1..Len(q) |-> w[i]]
             /\ \A i \in 1..Len(q) : w[i] = MarkOf(q[i], how, x) /\ w[i] \in {0, 1} /\ w[i] \in Nat
             /\ Times(q, how, x) = SumOf(w) /\ Times(q, how, x) \in Nat
             /\ Len(q) \in Nat
<1> DEFINE w == Marks(q, how, x)
<1>1. Len(q) \in Nat
  BY DomainOfSeq
<1>2. w = [i \in 1..Len(q) |-> w[i]] /\ \A i \in 1..Len(q) : w[i] = MarkOf(q[i], how, x)
  BY DEF Marks
<1>3. Times(q, how, x) = SumOf(w)
  BY DEF Times
<1> HIDE DEF w
<1>4. \A i \in 1..Len(q) : w[i] \in {0, 1} /\ w[i] \in Nat
  BY <1>2 DEF MarkOf
<1>5. SumOf(w) \in Nat
  BY <1>1, <1>2, <1>4, NatSum
<1> QED BY <1>1, <1>2, <1>3, <1>4, <1>5 DEF w

LEMMA TimesCounted ==
  ASSUME NEW q, IsSeq(q), NEW x
  PROVE  /\ Cardinality({i \in DOMAIN q : q[i].id = x}) = Times(q, "image", x)
         /\ Cardinality({i \in DOMAIN q : q[i] = x}) = Times(q, "list", x)
<1>1. DOMAIN q = 1..Len(q)
  BY DomainOfSeq
<1>2. ASSUME NEW how
      PROVE  Cardinality({i \in 1..Len(q) : Marks(q, how, x)[i] = 1}) = Times(q, how, x)
  <2> DEFINE w == Marks(q, how, x)
  <2>1. /\ w = [i \in 1..Len(q) |-> w[i]] /\ \A i \in 1..Len(q) : w[i] \in {0, 1}
        /\ Times(q, how, x) = SumOf(w) /\ Len(q) \in Nat
    BY TimesIs
  <2> HIDE DEF w
  <2>2. Cardinality({i \in 1..Len(q) : w[i] = 1}) = SumOf(w)
    BY <2>1, MarksCounted
  <2> QED BY <2>1, <2>2 DEF w
<1>3. /\ {i \in DOMAIN q : q[i].id = x} = {i \in 1..Len(q) : Marks(q, "image", x)[i] = 1}
      /\ {i \in DOMAIN q : q[i] = x} = {i \in 1..Len(q) : Marks(q, "list", x)[i] = 1}
  <2>1. \A i \in 1..Len(q) : /\ Marks(q, "image", x)[i] = MarkOf(q[i], "image", x)
                             /\ Marks(q, "list", x)[i] = MarkOf(q[i], "list", x)
    BY DEF Marks
  <2>2. \A i \in 1..Len(q) : /\ MarkOf(q[i], "image", x) = 1 <=> q[i].id = x
                             /\ MarkOf(q[i], "list", x) = 1 <=> q[i] = x
    BY DEF MarkOf
  <2> QED BY <1>1, <2>1, <2>2
<1> QED BY <1>2, <1>3

LEMMA TimesOfBoth ==
  ASSUME NEW p, IsSeq(p), NEW q, IsSeq(q), NEW how, NEW x
  PROVE  Times(p \o q, how, x) = Times(p, how, x) + Times(q, how, x)
<1> DEFINE a == Marks(p, how, x)
           b == Marks(q, how, x)
           r == p \o q
           c == Marks(r, how, x)
<1>1. /\ IsSeq(r) /\ Len(r) = Len(p) + Len(q) /\ Len(p) \in Nat /\ Len(q) \in Nat
      /\ \A i \in 1..(Len(p) + Len(q)) : r[i] = IF i <= Len(p) THEN p[i] ELSE q[i - Len(p)]
  BY BothAreSeq
<1> HIDE DEF r
<1>2. /\ a = [i \in 1..Len(p) |-> a[i]] /\ Times(p, how, x) = SumOf(a)
      /\ \A i \in 1..Len(p) : a[i] = MarkOf(p[i], how, x) /\ a[i] \in Nat
  BY TimesIs
<1>3. /\ b = [i \in 1..Len(q) |-> b[i]] /\ Times(q, how, x) = SumOf(b)
      /\ \A i \in 1..Len(q) : b[i] = MarkOf(q[i], how, x) /\ b[i] \in Nat
  BY TimesIs
<1>4. /\ c = [i \in 1..(Len(p) + Len(q)) |-> c[i]] /\ Times(r, how, x) = SumOf(c)
      /\ \A i \in 1..(Len(p) + Len(q)) : c[i] = MarkOf(r[i], how, x)
  BY <1>1, TimesIs
<1> HIDE DEF a, b, c
<1>5. ASSUME NEW i \in 1..(Len(p) + Len(q)) PROVE c[i] = IF i <= Len(p) THEN a[i] ELSE b[i - Len(p)]
  <2>1. CASE i <= Len(p)
    <3>1. i \in 1..Len(p) /\ r[i] = p[i]
      BY <1>1, <2>1
    <3> QED BY <1>2, <1>4, <2>1, <3>1
  <2>2. CASE ~(i <= Len(p))
    <3>1. i - Len(p) \in 1..Len(q) /\ r[i] = q[i - Len(p)]
      BY <1>1, <2>2
    <3> QED BY <1>3, <1>4, <2>2, <3>1
  <2> QED BY <2>1, <2>2
<1>6. SumOf(c) = SumOf(a) + SumOf(b)
  <2>1. Halves(a, b, c, Len(p), Len(q))
    BY <1>1, <1>2, <1>3, <1>4, <1>5, Zenon DEF Halves
  <2> QED BY <2>1, HalvesSum
<1> QED BY <1>2, <1>3, <1>4, <1>6 DEF r

\* Sequences that are joined, whose numbers are known.
TimesAre(ss, how, x, w) ==
  /\ IsSeq(ss) /\ \A j \in 1..Len(ss) : IsSeq(ss[j])
  /\ w = [j \in 1..Len(ss) |-> w[j]]
  /\ \A j \in 1..Len(ss) : w[j] = Times(ss[j], how, x)

LEMMA TimesJoined ==
  ASSUME NEW ss, NEW how, NEW x, NEW w, TimesAre(ss, how, x, w)
  PROVE  IsSeq(FlattenSeq(ss)) /\ Times(FlattenSeq(ss), how, x) = SumOf(w)
<1> DEFINE v == [e \in Elements(ss) |-> MarkOf(e, how, x)]
           p == FlattenSeq(ss)
<1>1. /\ IsSeq(ss) /\ \A j \in 1..Len(ss) : IsSeq(ss[j])
      /\ w = [j \in 1..Len(ss) |-> w[j]]
      /\ \A j \in 1..Len(ss) : w[j] = Times(ss[j], how, x)
  BY DEF TimesAre
<1>2. \A j \in 1..Len(ss) : \A i \in 1..Len(ss[j]) : ss[j][i] \in Elements(ss)
  BY <1>1, ElementsAre
<1>3. v \in [Elements(ss) -> Nat] /\ \A e \in Elements(ss) : v[e] = MarkOf(e, how, x)
  BY DEF MarkOf
<1> HIDE DEF v
<1>4. Gathered(p, ss)
  BY <1>1, FlattenedGathers
<1>5. ASSUME NEW q, IsSeq(q), \A i \in 1..Len(q) : q[i] \in Elements(ss)
      PROVE  Times(q, how, x) = SumOf(Weights(q, v))
  <2>1. \A i \in 1..Len(q) : MarkOf(q[i], how, x) = v[q[i]]
    BY <1>3, <1>5
  <2>2. Marks(q, how, x) = Weights(q, v)
    BY <2>1 DEF Marks, Weights
  <2> QED BY <2>2 DEF Times
<1>6. \A j \in 1..Len(ss) : w[j] = SumOf(Weights(ss[j], v))
  BY <1>1, <1>2, <1>5
<1>7. IsSeq(p) /\ Times(p, how, x) = SumOf(Weights(p, v))
  <2>1. IsSeq(p) /\ \A i \in 1..Len(p) : p[i] \in Elements(ss)
    BY <1>2, <1>4 DEF Gathered
  <2> HIDE DEF p
  <2> QED BY <1>5, <2>1
<1>8. SumOf(Weights(FlattenSeq(ss), v)) = SumOf(w)
  <2>1. JoinedAs(ss, v, w)
    BY <1>1, <1>3, <1>6, Zenon DEF JoinedAs
  <2> QED BY <2>1, JoinedWeighs
<1> QED BY <1>7, <1>8

\* The instructions of a function, in whatever they are listed.
LEMMA CodeTimes ==
  ASSUME NEW f, IsSeq(f.stmts), NEW q, NEW how, NEW x, IsSeq(q),
         LET code == Selected(f.stmts, IsInstruction)
         IN  /\ Len(q) = Len(code)
             /\ \A k \in 1..Len(q) : MarkOf(q[k], how, x) = IF code[k].id = x THEN 1 ELSE 0
  PROVE  Times(q, how, x) = FunctionCounts(f, Id(x))
<1> DEFINE s == f.stmts
           p == Selected(s, IsInstruction)
           T == {i \in DOMAIN s : IsInstruction(s[i])}
           v == [y \in Range(s) |-> IF y.id = x THEN 1 ELSE 0]
           g == Marks(q, how, x)
           w == [i \in 1..Len(s) |-> StmtCounts(s[i], Id(x))]
<1>1. IsSeq(s) /\ DOMAIN s = 1..Len(s) /\ \A i \in 1..Len(s) : s[i] \in Range(s)
  BY DomainOfSeq DEF Range
<1>2. p = FlattenSeq(Ones(s, T)) /\ T \subseteq DOMAIN s
      /\ \A i \in 1..Len(s) : (i \in T) <=> IsInstruction(s[i])
  BY <1>1, SelectedIs
<1>3. /\ g = [k \in 1..Len(p) |-> g[k]] /\ Times(q, how, x) = SumOf(g)
      /\ \A k \in 1..Len(p) : g[k] = IF p[k].id = x THEN 1 ELSE 0
  BY TimesIs
<1>4. v \in [Range(s) -> Nat] /\ \A y \in Range(s) : v[y] = IF y.id = x THEN 1 ELSE 0
  OBVIOUS
<1>5. Picks(p, s, T)
  BY <1>1, <1>2, PickedOf
<1>6. /\ w = [i \in 1..Len(s) |-> w[i]] /\ FunctionCounts(f, Id(x)) = SumOf(w)
      /\ \A i \in 1..Len(s) : w[i] = StmtCounts(s[i], Id(x))
  BY DEF FunctionCounts, Id
<1> HIDE DEF v, g, w, T, p, s
<1>7. \A k \in 1..Len(p) : g[k] = v[p[k]]
  <2>1. \A k \in 1..Len(p) : p[k] \in Range(s)
    BY <1>1, <1>2, <1>5 DEF Picks
  <2> QED BY <1>3, <1>4, <2>1
<1>8. \A i \in 1..Len(s) : w[i] = IF i \in T THEN v[s[i]] ELSE 0
  BY <1>1, <1>2, <1>4, <1>6 DEF StmtCounts, Id
<1>9. PickedBy(s, T, p, g, v, w)
  <2>1. g = [k \in 1..Len(p) |-> g[k]] /\ w = [i \in 1..Len(s) |-> w[i]]
    BY <1>3, <1>6
  <2> QED BY <1>1, <1>2, <1>4, <1>7, <1>8, <2>1 DEF PickedBy
<1> QED BY <1>3, <1>6, <1>9, PickedSum

\* Lists of what data hold.
LEMMA DataTimes ==
  ASSUME NEW data, DataList(data), NEW ss, ss = [i \in 1..Len(data) |-> ss[i]], NEW how, NEW x,
         \A i \in 1..Len(data) : IsSeq(ss[i]) /\ Times(ss[i], how, x) = DatumCounts(data[i], Id(x))
  PROVE  IsSeq(FlattenSeq(ss)) /\ Times(FlattenSeq(ss), how, x) = DataCount(data, Id(x))
<1> DEFINE w == DataNumbers(data, Id(x))
<1>1. /\ w = [i \in 1..Len(data) |-> w[i]] /\ DataCount(data, Id(x)) = SumOf(w)
      /\ Len(data) \in Nat
      /\ \A i \in 1..Len(data) : w[i] = DatumCounts(data[i], Id(x))
  BY DataCountIs
<1> HIDE DEF w
<1>2. IsSeq(ss) /\ Len(ss) = Len(data)
  BY <1>1, MapIsSeq
<1>3. TimesAre(ss, how, x, w)
  BY <1>1, <1>2 DEF TimesAre
<1> QED BY <1>1, <1>3, TimesJoined

LEMMA DatumTimes ==
  ASSUME NEW d, IsDatum(d), NEW q, NEW how, NEW x, q = [j \in 1..Len(d.cells) |-> q[j]],
         \A j \in 1..Len(d.cells) : MarkOf(q[j], how, x) = IF d.cells[j].id = x THEN 1 ELSE 0
  PROVE  IsSeq(q) /\ Times(q, how, x) = DatumCounts(d, Id(x))
<1> DEFINE w == [i \in 1..Len(d.cells) |-> CellCounts(d.cells[i], Id(x))]
           g == Marks(q, how, x)
<1>1. Len(d.cells) \in Nat
  BY ShapesAre, ListsAre, DomainOfSeq
<1>2. IsSeq(q) /\ Len(q) = Len(d.cells)
  BY <1>1, MapIsSeq
<1>3. g = [i \in 1..Len(q) |-> g[i]] /\ Times(q, how, x) = SumOf(g)
      /\ \A i \in 1..Len(q) : g[i] = MarkOf(q[i], how, x)
  BY <1>2, TimesIs
<1>4. w = [i \in 1..Len(d.cells) |-> w[i]] /\ DatumCounts(d, Id(x)) = SumOf(w)
      /\ \A i \in 1..Len(d.cells) : w[i] = IF d.cells[i].id = x THEN 1 ELSE 0
  BY DEF DatumCounts, Id, CellCounts
<1> HIDE DEF g, w
<1>5. g = w
  <2>1. \A i \in 1..Len(d.cells) : g[i] = w[i]
    BY <1>2, <1>3, <1>4
  <2>2. g = [i \in 1..Len(d.cells) |-> g[i]] /\ w = [i \in 1..Len(d.cells) |-> w[i]]
    BY <1>2, <1>3, <1>4
  <2> QED BY <2>1, <2>2
<1> QED BY <1>2, <1>3, <1>4, <1>5

LEMMA CodeIsSeq ==
  ASSUME NEW q, IsSeq(q)
  PROVE  LET code == Selected(q, IsInstruction)
         IN  IsSeq(code) /\ DOMAIN code = 1..Len(code) /\ Len(code) \in Nat
<1> DEFINE T == {i \in DOMAIN q : IsInstruction(q[i])}
<1>1. Selected(q, IsInstruction) = FlattenSeq(Ones(q, T)) /\ T \subseteq DOMAIN q
  BY SelectedIs
<1> HIDE DEF T
<1>2. Picks(FlattenSeq(Ones(q, T)), q, T)
  BY <1>1, PickedOf
<1>3. IsSeq(FlattenSeq(Ones(q, T)))
  BY <1>2 DEF Picks
<1> QED BY <1>1, <1>3, DomainOfSeq

\* The instructions of a function, emitted and listed.
LEMMA EmittedTimes ==
  ASSUME NEW f, IsSeq(f.stmts), NEW at, NEW x
  PROVE  /\ IsSeq(EmittedCode(f, at))
         /\ Times(EmittedCode(f, at), "image", x) = FunctionCounts(f, Id(x))
<1> DEFINE code == Selected(f.stmts, IsInstruction)
           q == EmittedCode(f, at)
           Off(i) == SumOf([j \in 1..(i - 1) |-> StmtSize(code[j])])
<1>1. DOMAIN code = 1..Len(code) /\ Len(code) \in Nat
  BY CodeIsSeq
<1>2. q = [i \in DOMAIN code |->
             Emission(at + Off(i), code[i].id, StmtSize(code[i]), Encoded(code[i]))]
  BY Zenon DEF EmittedCode
<1> HIDE DEF q, code, Off
<1>3. /\ q = [i \in 1..Len(code) |-> q[i]]
      /\ \A i \in 1..Len(code) :
           q[i] = Emission(at + Off(i), code[i].id, StmtSize(code[i]), Encoded(code[i]))
  BY <1>1, <1>2
<1>4. IsSeq(q) /\ Len(q) = Len(code)
  BY <1>1, <1>3, MapIsSeq
<1>5. \A k \in 1..Len(q) : MarkOf(q[k], "image", x) = IF code[k].id = x THEN 1 ELSE 0
  <2>1. \A k \in 1..Len(q) : q[k].id = code[k].id
    BY <1>3, <1>4 DEF Emission
  <2> QED BY <2>1 DEF MarkOf
<1>6. Times(q, "image", x) = FunctionCounts(f, Id(x))
  BY <1>4, <1>5, CodeTimes DEF code
<1> QED BY <1>4, <1>6 DEF q

LEMMA ListedTimes ==
  ASSUME NEW f, IsSeq(f.stmts), NEW x
  PROVE  /\ IsSeq(Instructions(f))
         /\ Times(Instructions(f), "list", x) = FunctionCounts(f, Id(x))
<1> DEFINE code == Selected(f.stmts, IsInstruction)
           q == Instructions(f)
<1>1. DOMAIN code = 1..Len(code) /\ Len(code) \in Nat
  BY CodeIsSeq
<1>2. q = [i \in DOMAIN code |-> code[i].id]
  BY Zenon DEF Instructions
<1> HIDE DEF q, code
<1>3. /\ q = [i \in 1..Len(code) |-> q[i]]
      /\ \A i \in 1..Len(code) : q[i] = code[i].id
  BY <1>1, <1>2
<1>4. IsSeq(q) /\ Len(q) = Len(code)
  BY <1>1, <1>3, MapIsSeq
<1>5. \A k \in 1..Len(q) : MarkOf(q[k], "list", x) = IF code[k].id = x THEN 1 ELSE 0
  BY <1>3, <1>4 DEF MarkOf
<1>6. Times(q, "list", x) = FunctionCounts(f, Id(x))
  BY <1>4, <1>5, CodeTimes DEF code
<1> QED BY <1>4, <1>6 DEF q

LEMMA CellsTimes ==
  ASSUME NEW data, DataList(data), NEW x
  PROVE  IsSeq(CellsOf(data)) /\ Times(CellsOf(data), "list", x) = DataCount(data, Id(x))
<1> DEFINE ss == [i \in DOMAIN data |-> [j \in DOMAIN data[i].cells |-> data[i].cells[j].id]]
<1>1. /\ DOMAIN data = 1..Len(data) /\ Len(data) \in Nat
      /\ \A i \in 1..Len(data) : IsDatum(data[i])
  BY ListsAre, DomainOfSeq
<1>2. \A i \in 1..Len(data) : DOMAIN data[i].cells = 1..Len(data[i].cells)
  BY <1>1, ShapesAre, ListsAre, DomainOfSeq
<1>3. CellsOf(data) = FlattenSeq(ss)
  BY DEF CellsOf
<1>4. /\ ss = [i \in 1..Len(data) |-> ss[i]]
      /\ \A i \in 1..Len(data) : ss[i] = [j \in 1..Len(data[i].cells) |-> data[i].cells[j].id]
  BY <1>1, <1>2
<1> HIDE DEF ss
<1>5. ASSUME NEW i \in 1..Len(data)
      PROVE  IsSeq(ss[i]) /\ Times(ss[i], "list", x) = DatumCounts(data[i], Id(x))
  <2> DEFINE q == ss[i]
             d == data[i]
  <2>1. /\ IsDatum(d) /\ q = [j \in 1..Len(d.cells) |-> q[j]]
        /\ \A j \in 1..Len(d.cells) : q[j] = d.cells[j].id
    BY <1>1, <1>4
  <2> HIDE DEF q, d
  <2>2. \A j \in 1..Len(d.cells) : MarkOf(q[j], "list", x) = IF d.cells[j].id = x THEN 1 ELSE 0
    BY <2>1 DEF MarkOf
  <2>3. IsSeq(q) /\ Times(q, "list", x) = DatumCounts(d, Id(x))
    BY <2>1, <2>2, DatumTimes
  <2> QED BY <2>3 DEF q, d
<1> QED BY <1>3, <1>4, <1>5, DataTimes

LEMMA CellsEmittedTimes ==
  ASSUME NEW d, IsDatum(d), NEW at, NEW x
  PROVE  /\ IsSeq(EmittedCells(d, at))
         /\ Times(EmittedCells(d, at), "image", x) = DatumCounts(d, Id(x))
<1> DEFINE q == EmittedCells(d, at)
           Off(i) == SumOf([j \in 1..(i - 1) |-> d.cells[j].size])
<1>1. DOMAIN d.cells = 1..Len(d.cells)
  BY ShapesAre, ListsAre, DomainOfSeq
<1>2. q = [i \in DOMAIN d.cells |-> Emission(at + Off(i), d.cells[i].id, d.cells[i].size, <<>>)]
  BY Zenon DEF EmittedCells
<1> HIDE DEF q, Off
<1>3. /\ q = [i \in 1..Len(d.cells) |-> q[i]]
      /\ \A i \in 1..Len(d.cells) : q[i].id = d.cells[i].id
  BY <1>1, <1>2 DEF Emission
<1>4. \A j \in 1..Len(d.cells) : MarkOf(q[j], "image", x) = IF d.cells[j].id = x THEN 1 ELSE 0
  BY <1>3 DEF MarkOf
<1>5. IsSeq(q) /\ Times(q, "image", x) = DatumCounts(d, Id(x))
  BY <1>3, <1>4, DatumTimes
<1> QED BY <1>5 DEF q

\* A list of data that is emitted, from wherever each is put.
EmittedFrom(ss, data) ==
  /\ ss = [i \in 1..Len(data) |-> ss[i]]
  /\ \A i \in 1..Len(data) : \E at : ss[i] = EmittedCells(data[i], at)

LEMMA SectionTimes ==
  ASSUME NEW data, DataList(data), NEW ss, EmittedFrom(ss, data), NEW x
  PROVE  IsSeq(FlattenSeq(ss)) /\ Times(FlattenSeq(ss), "image", x) = DataCount(data, Id(x))
<1>1. \A i \in 1..Len(data) : IsDatum(data[i])
  BY ListsAre
<1>2. ss = [i \in 1..Len(data) |-> ss[i]]
  BY DEF EmittedFrom
<1>3. ASSUME NEW i \in 1..Len(data)
      PROVE  IsSeq(ss[i]) /\ Times(ss[i], "image", x) = DatumCounts(data[i], Id(x))
  <2>1. PICK at : ss[i] = EmittedCells(data[i], at)
    BY DEF EmittedFrom
  <2> QED BY <1>1, <2>1, CellsEmittedTimes
<1> QED BY <1>2, <1>3, DataTimes

\* The functions of a program, each emitted from wherever it is put.
CodeFrom(ss, q) ==
  /\ ss = [i \in 1..Len(q) |-> ss[i]]
  /\ \A i \in 1..Len(q) : \E at : ss[i] = EmittedCode(q[i], at)

LEMMA TextTimes ==
  ASSUME NEW q, FunctionList(q), NEW ss, CodeFrom(ss, q), NEW x
  PROVE  IsSeq(FlattenSeq(ss)) /\ Times(FlattenSeq(ss), "image", x) = FunctionsCount(q, Id(x))
<1> DEFINE w == FunctionNumbers(q, Id(x))
<1>1. \A i \in 1..Len(q) : IsSeq(q[i].stmts)
  BY ListsAre DEF FunctionList, IsFunction
<1>2. ss = [i \in 1..Len(q) |-> ss[i]]
  BY DEF CodeFrom
<1>3. ASSUME NEW i \in 1..Len(q)
      PROVE  IsSeq(ss[i]) /\ Times(ss[i], "image", x) = FunctionCounts(q[i], Id(x))
  <2>1. PICK at : ss[i] = EmittedCode(q[i], at)
    BY DEF CodeFrom
  <2> QED BY <1>1, <2>1, EmittedTimes
<1>4. /\ w = [i \in 1..Len(q) |-> w[i]] /\ FunctionsCount(q, Id(x)) = SumOf(w)
      /\ Len(q) \in Nat
      /\ \A i \in 1..Len(q) : w[i] = FunctionCounts(q[i], Id(x))
  BY FunctionsCountIs
<1> HIDE DEF w
<1>5. IsSeq(ss) /\ Len(ss) = Len(q)
  BY <1>2, <1>4, MapIsSeq
<1>6. TimesAre(ss, "image", x, w)
  BY <1>3, <1>4, <1>5 DEF TimesAre
<1> QED BY <1>4, <1>6, TimesJoined

\* An image has everything as often as the program that was assembled.
LEMMA AssembledTimes ==
  ASSUME FunctionList(functions), DataList(shared), DataList(constants), NEW x
  PROVE  /\ IsSeq(Assembled)
         /\ Times(Assembled, "image", x)
              = FunctionsCount(functions, Id(x)) + DataCount(shared, Id(x)) + DataCount(constants, Id(x))
<1> DEFINE text == TextBefore(functions, Len(functions) + 1)
           data == text + TotalSize(shared)
           fs == [i \in DOMAIN functions |-> EmittedCode(functions[i], TextBefore(functions, i))]
           ss == [i \in DOMAIN shared |-> EmittedCells(shared[i], text + DataBefore(shared, i))]
           cs == [i \in DOMAIN constants |->
                    EmittedCells(constants[i], data + DataBefore(constants, i))]
<1>1. Assembled = FlattenSeq(fs) \o FlattenSeq(ss) \o FlattenSeq(cs)
  BY Zenon DEF Assembled
<1>2. /\ DOMAIN functions = 1..Len(functions) /\ DOMAIN shared = 1..Len(shared)
      /\ DOMAIN constants = 1..Len(constants)
  BY ListsAre, DomainOfSeq DEF FunctionList
<1> HIDE DEF text, data
<1>3. CodeFrom(fs, functions)
  <2>1. fs = [i \in 1..Len(functions) |-> fs[i]]
    BY <1>2
  <2>2. \A i \in 1..Len(functions) : fs[i] = EmittedCode(functions[i], TextBefore(functions, i))
    BY <1>2
  <2> QED BY <2>1, <2>2 DEF CodeFrom
<1>4. EmittedFrom(ss, shared)
  <2>1. ss = [i \in 1..Len(shared) |-> ss[i]]
    BY <1>2
  <2>2. \A i \in 1..Len(shared) : ss[i] = EmittedCells(shared[i], text + DataBefore(shared, i))
    BY <1>2
  <2> QED BY <2>1, <2>2 DEF EmittedFrom
<1>5. EmittedFrom(cs, constants)
  <2>1. cs = [i \in 1..Len(constants) |-> cs[i]]
    BY <1>2
  <2>2. \A i \in 1..Len(constants) :
          cs[i] = EmittedCells(constants[i], data + DataBefore(constants, i))
    BY <1>2
  <2> QED BY <2>1, <2>2 DEF EmittedFrom
<1> HIDE DEF fs, ss, cs
<1>6. IsSeq(FlattenSeq(fs)) /\ Times(FlattenSeq(fs), "image", x) = FunctionsCount(functions, Id(x))
  BY <1>3, TextTimes
<1>7. /\ IsSeq(FlattenSeq(ss)) /\ Times(FlattenSeq(ss), "image", x) = DataCount(shared, Id(x))
      /\ IsSeq(FlattenSeq(cs)) /\ Times(FlattenSeq(cs), "image", x) = DataCount(constants, Id(x))
  BY <1>4, <1>5, SectionTimes
<1>8. /\ IsSeq(FlattenSeq(fs) \o FlattenSeq(ss))
      /\ Times(FlattenSeq(fs) \o FlattenSeq(ss), "image", x)
           = FunctionsCount(functions, Id(x)) + DataCount(shared, Id(x))
  BY <1>6, <1>7, TimesOfBoth, BothAreSeq
<1>9. /\ IsSeq((FlattenSeq(fs) \o FlattenSeq(ss)) \o FlattenSeq(cs))
      /\ Times((FlattenSeq(fs) \o FlattenSeq(ss)) \o FlattenSeq(cs), "image", x)
           = Times(FlattenSeq(fs) \o FlattenSeq(ss), "image", x) + Times(FlattenSeq(cs), "image", x)
  BY <1>7, <1>8, TimesOfBoth, BothAreSeq
<1> QED BY <1>1, <1>7, <1>8, <1>9

LEMMA OneTimes ==
  ASSUME NEW e, NEW x
  PROVE  IsSeq(<<e>>) /\ Times(<<e>>, "list", x) = IF e = x THEN 1 ELSE 0
<1> DEFINE q == <<e>>
           w == Marks(q, "list", x)
<1>1. IsSeq(q) /\ Len(q) = 1 /\ q[1] = e
  BY OneIsSeq
<1> HIDE DEF q
<1>2. w = [i \in 1..1 |-> w[i]] /\ w[1] = MarkOf(e, "list", x) /\ Times(q, "list", x) = SumOf(w)
  <2>1. /\ w = [i \in 1..Len(q) |-> w[i]] /\ Times(q, "list", x) = SumOf(w)
        /\ \A i \in 1..Len(q) : w[i] = MarkOf(q[i], "list", x)
    BY <1>1, TimesIs
  <2> HIDE DEF w
  <2> QED BY <1>1, <2>1
<1> HIDE DEF w
<1>3. MarkOf(e, "list", x) = IF e = x THEN 1 ELSE 0
  BY DEF MarkOf
<1>4. SumOf(w) = MarkOf(e, "list", x)
  BY <1>2, <1>3, OneSum
<1> QED BY <1>1, <1>2, <1>3, <1>4 DEF q

LEMMA NoneTimes ==
  ASSUME NEW how, NEW x
  PROVE  IsSeq(<<>>) /\ Times(<<>>, how, x) = 0
<1> DEFINE q == <<>>
           w == Marks(q, how, x)
<1>1. IsSeq(q) /\ Len(q) = 0
  BY EmptyIsSeq
<1>2. w = [i \in 1..Len(q) |-> w[i]] /\ Times(q, how, x) = SumOf(w)
  BY <1>1, TimesIs
<1> HIDE DEF q, w
<1>3. SumOf(w) = 0
  <2>1. w = [i \in 1..0 |-> w[i]] /\ \A i \in 1..0 : w[i] = 0
    BY <1>1, <1>2
  <2> QED BY <2>1, NoneSum
<1> QED BY <1>1, <1>2, <1>3 DEF q

\* What a function keeps in a section counts by id as what it inherits there.
LEMMA KeptIds ==
  ASSUME NEW item, DataList(item.locals), NEW x
  PROVE  LET d == Selected(Inherited(item.locals), InSection)
         IN  DataList(d) /\ DataCount(d, Id(x)) = DataCount(Keptly(item), Id(x))
<1> DEFINE p == Inherited(item.locals)
           q == FunctionVariables(item.name, item.locals)
           S == {i \in DOMAIN p : InSection(p[i])}
           T == {i \in DOMAIN q : InSection(q[i])}
           m == Id(x)
<1>1. /\ DataList(p) /\ Len(p) = Len(item.locals)
      /\ \A i \in 1..Len(item.locals) : p[i].cells = item.locals[i].cells
  BY InheritedIs
<1>2. /\ DataList(q) /\ Len(q) = Len(item.locals)
      /\ \A i \in 1..Len(item.locals) :
           /\ q[i].cells = item.locals[i].cells
           /\ q[i].const = p[i].const /\ q[i].shared = p[i].shared
  BY FunctionVariablesAre
<1>3. /\ Selected(p, InSection) = FlattenSeq(Ones(p, S)) /\ S \subseteq DOMAIN p
      /\ Selected(q, InSection) = FlattenSeq(Ones(q, T)) /\ T \subseteq DOMAIN q
  BY SelectedIs
<1>4. Keptly(item) = Selected(q, InSection)
  BY DEF Keptly
<1>5. DOMAIN p = 1..Len(p) /\ DOMAIN q = 1..Len(q)
  BY <1>1, <1>2, ListsAre, DomainOfSeq
<1> HIDE DEF p, q
<1>6. S = T
  BY <1>1, <1>2, <1>5 DEF InSection, OnStack
<1> HIDE DEF S, T
<1>7. /\ DataCount(FlattenSeq(Ones(p, S)), m) = SumOf(SomeData(p, S, m))
      /\ DataCount(FlattenSeq(Ones(q, T)), m) = SumOf(SomeData(q, T, m))
      /\ DataList(FlattenSeq(Ones(p, S)))
  BY <1>1, <1>2, <1>3, SelectedCount
<1>8. SomeData(p, S, m) = SomeData(q, T, m)
  <2>1. \A i \in 1..Len(item.locals) : DatumCounts(p[i], m) = DatumCounts(q[i], m)
    BY <1>1, <1>2 DEF DatumCounts, Id
  <2> QED BY <1>1, <1>2, <1>6, <2>1 DEF SomeData
<1> QED BY <1>3, <1>4, <1>7, <1>8 DEF p

LEMMA IdsTimes ==
  ASSUME NEW item, IsItem(item), NEW x
  PROVE  IsSeq(IdsOf(item)) /\ Times(IdsOf(item), "list", x) = ItemCounts(item, Id(x))
<1>1. /\ item.is \in {"function", "prototype", "globals"}
      /\ item.is = "function" => DataList(item.locals) /\ IsSeq(item.stmts)
      /\ item.is = "globals" => DataList(item.vars)
  BY PartCountsIs
<1>2. CASE item.is = "function"
  <2> DEFINE d == Selected(Inherited(item.locals), InSection)
             a == Instructions(item)
             b == CellsOf(d)
  <2>1. DataList(d) /\ DataCount(d, Id(x)) = DataCount(Keptly(item), Id(x))
    BY <1>1, <1>2, KeptIds
  <2>2. IdsOf(item) = a \o b
    BY <1>2, Zenon DEF IdsOf
  <2> HIDE DEF d
  <2>3. IsSeq(a) /\ Times(a, "list", x) = FunctionCounts(item, Id(x))
    BY <1>1, <1>2, ListedTimes
  <2>4. IsSeq(b) /\ Times(b, "list", x) = DataCount(d, Id(x))
    BY <2>1, CellsTimes
  <2> HIDE DEF a, b
  <2>5. IsSeq(a \o b) /\ Times(a \o b, "list", x) = Times(a, "list", x) + Times(b, "list", x)
    BY <2>3, <2>4, TimesOfBoth, BothAreSeq
  <2>6. ItemCounts(item, Id(x)) = FunctionCounts(item, Id(x)) + DataCount(Keptly(item), Id(x))
    BY <1>2 DEF ItemCounts
  <2> QED BY <2>1, <2>2, <2>3, <2>4, <2>5, <2>6
<1>3. CASE item.is = "globals"
  <2>1. IdsOf(item) = CellsOf(item.vars) /\ ItemCounts(item, Id(x)) = DataCount(item.vars, Id(x))
    BY <1>3, Zenon DEF IdsOf, ItemCounts
  <2> QED BY <1>1, <1>3, <2>1, CellsTimes
<1>4. CASE item.is = "prototype"
  <2>1. IdsOf(item) = <<>>
    BY <1>4, Zenon DEF IdsOf
  <2>2. ItemCounts(item, Id(x)) = 0
    BY <1>4 DEF ItemCounts, Id
  <2> QED BY <2>1, <2>2, NoneTimes
<1> QED BY <1>1, <1>2, <1>3, <1>4

LEMMA LabelsTimes ==
  ASSUME NEW q, DataList(q), NEW x
  PROVE  IsSeq(LabelsOf(q)) /\ Times(LabelsOf(q), "list", x) = DataCount(q, Name(x))
<1> DEFINE T == {i \in DOMAIN q : IsNamed(q[i])}
           p == Selected(q, IsNamed)
           l == LabelsOf(q)
           v == [d \in Range(q) |-> IF d.label = x THEN 1 ELSE 0]
           g == Marks(l, "list", x)
           w == DataNumbers(q, Name(x))
<1>1. IsSeq(q) /\ DOMAIN q = 1..Len(q) /\ \A i \in 1..Len(q) : q[i] \in Range(q)
  BY ListsAre, DomainOfSeq DEF Range
<1>2. p = FlattenSeq(Ones(q, T)) /\ T \subseteq DOMAIN q
      /\ \A i \in 1..Len(q) : (i \in T) <=> IsNamed(q[i])
  BY <1>1, SelectedIs
<1>a. l = [i \in DOMAIN p |-> p[i].label]
  BY Zenon DEF LabelsOf
<1> HIDE DEF T, p, l
<1>3. Picks(p, q, T)
  BY <1>1, <1>2, PickedOf
<1>4. IsSeq(p) /\ DOMAIN p = 1..Len(p) /\ Len(p) \in Nat /\ \A k \in 1..Len(p) : p[k] \in Range(q)
  <2>1. IsSeq(p) /\ \A k \in 1..Len(p) : p[k] \in Range(q)
    BY <1>1, <1>2, <1>3 DEF Picks
  <2> QED BY <2>1, DomainOfSeq
<1>5. /\ l = [i \in 1..Len(p) |-> l[i]] /\ \A i \in 1..Len(p) : l[i] = p[i].label
  BY <1>4, <1>a
<1>6. IsSeq(l) /\ Len(l) = Len(p)
  BY <1>4, <1>5, MapIsSeq
<1>7. v \in [Range(q) -> Nat] /\ \A d \in Range(q) : v[d] = IF d.label = x THEN 1 ELSE 0
  OBVIOUS
<1>8. /\ g = [k \in 1..Len(l) |-> g[k]] /\ Times(l, "list", x) = SumOf(g)
      /\ \A k \in 1..Len(l) : g[k] = MarkOf(l[k], "list", x)
  BY <1>6, TimesIs
<1>9. /\ w = [i \in 1..Len(q) |-> w[i]] /\ DataCount(q, Name(x)) = SumOf(w)
      /\ \A i \in 1..Len(q) : w[i] = DatumCounts(q[i], Name(x))
  BY DataCountIs
<1> HIDE DEF v, g, w
<1>10. \A k \in 1..Len(p) : g[k] = v[p[k]]
  BY <1>4, <1>5, <1>6, <1>7, <1>8 DEF MarkOf
<1>11. \A i \in 1..Len(q) : w[i] = IF i \in T THEN v[q[i]] ELSE 0
  <2>1. \A i \in 1..Len(q) : w[i] = IF IsNamed(q[i]) /\ q[i].label = x THEN 1 ELSE 0
    BY <1>9 DEF DatumCounts, Name
  <2>2. \A i \in 1..Len(q) : v[q[i]] = IF q[i].label = x THEN 1 ELSE 0
    BY <1>1, <1>7
  <2> QED BY <1>2, <2>1, <2>2
<1>12. PickedBy(q, T, p, g, v, w)
  <2>1. g = [k \in 1..Len(p) |-> g[k]] /\ w = [i \in 1..Len(q) |-> w[i]]
    BY <1>6, <1>8, <1>9
  <2> QED BY <1>1, <1>2, <1>7, <1>10, <1>11, <2>1 DEF PickedBy
<1>13. SumOf(g) = SumOf(w)
  BY <1>12, PickedSum
<1> QED BY <1>6, <1>8, <1>9, <1>13 DEF l

LEMMA NamesTimes ==
  ASSUME NEW item, IsItem(item), NEW x
  PROVE  IsSeq(NamesOf(item)) /\ Times(NamesOf(item), "list", x) = ItemCounts(item, Name(x))
<1>1. /\ item.is \in {"function", "prototype", "globals"}
      /\ item.is = "function" => DataList(Keptly(item))
      /\ item.is = "globals" => DataList(item.vars)
  BY PartCountsIs
<1>o. IsSeq(<<item.name>>) /\ Times(<<item.name>>, "list", x) = IF item.name = x THEN 1 ELSE 0
  BY OneTimes
<1>2. CASE item.is = "function"
  <2> DEFINE a == <<item.name>>
             b == LabelsOf(Keptly(item))
  <2>2. NamesOf(item) = a \o b
    BY <1>2, Zenon DEF NamesOf, Keptly
  <2>4. IsSeq(b) /\ Times(b, "list", x) = DataCount(Keptly(item), Name(x))
    BY <1>1, <1>2, LabelsTimes
  <2>3. IsSeq(a) /\ Times(a, "list", x) = IF item.name = x THEN 1 ELSE 0
    BY <1>o
  <2> HIDE DEF a, b
  <2>5. IsSeq(a \o b) /\ Times(a \o b, "list", x) = Times(a, "list", x) + Times(b, "list", x)
    BY <2>3, <2>4, TimesOfBoth, BothAreSeq
  <2>6. ItemCounts(item, Name(x)) = FunctionCounts(item, Name(x)) + DataCount(Keptly(item), Name(x))
    BY <1>2 DEF ItemCounts
  <2>7. FunctionCounts(item, Name(x)) = IF item.name = x THEN 1 ELSE 0
    BY DEF FunctionCounts, Name
  <2> QED BY <2>2, <2>3, <2>4, <2>5, <2>6, <2>7
<1>3. CASE item.is = "globals"
  <2>1. NamesOf(item) = LabelsOf(item.vars) /\ ItemCounts(item, Name(x)) = DataCount(item.vars, Name(x))
    BY <1>3, Zenon DEF NamesOf, ItemCounts
  <2> QED BY <1>1, <1>3, <2>1, LabelsTimes
<1>4. CASE item.is = "prototype"
  <2>1. NamesOf(item) = <<item.name>>
    BY <1>4, Zenon DEF NamesOf
  <2>2. ItemCounts(item, Name(x)) = IF item.name = x THEN 1 ELSE 0
    BY <1>4 DEF ItemCounts, Name
  <2> QED BY <2>1, <2>2, <1>o
<1> QED BY <1>1, <1>2, <1>3, <1>4

\* What was read, as ImageIsWhole has it, of any list of items.
IdsRead(q)   == FlattenSeq([i \in DOMAIN q |-> IdsOf(q[i])])
NamesRead(q) == FlattenSeq([i \in DOMAIN q |-> NamesOf(q[i])])

LEMMA ReadTimes ==
  ASSUME NEW q, ItemList(q), NEW x
  PROVE  /\ IsSeq(IdsRead(q)) /\ Times(IdsRead(q), "list", x) = ItemsCount(q, Id(x))
         /\ IsSeq(NamesRead(q)) /\ Times(NamesRead(q), "list", x) = ItemsCount(q, Name(x))
<1> DEFINE a == [i \in DOMAIN q |-> IdsOf(q[i])]
           b == [i \in DOMAIN q |-> NamesOf(q[i])]
<1>1. DOMAIN q = 1..Len(q) /\ Len(q) \in Nat /\ \A i \in 1..Len(q) : IsItem(q[i])
  BY DomainOfSeq DEF ItemList
<1>2. IdsRead(q) = FlattenSeq(a) /\ NamesRead(q) = FlattenSeq(b)
  BY DEF IdsRead, NamesRead
<1>3. /\ a = [i \in 1..Len(q) |-> a[i]] /\ \A i \in 1..Len(q) : a[i] = IdsOf(q[i])
      /\ b = [i \in 1..Len(q) |-> b[i]] /\ \A i \in 1..Len(q) : b[i] = NamesOf(q[i])
  BY <1>1
<1> HIDE DEF a, b
<1>4. /\ IsSeq(a) /\ Len(a) = Len(q) /\ IsSeq(b) /\ Len(b) = Len(q)
  BY <1>1, <1>3, MapIsSeq
<1>5. ASSUME NEW m
      PROVE  /\ ItemNumbers(q, m) = [i \in 1..Len(q) |-> ItemNumbers(q, m)[i]]
             /\ \A i \in 1..Len(q) : ItemNumbers(q, m)[i] = ItemCounts(q[i], m)
             /\ ItemsCount(q, m) = SumOf(ItemNumbers(q, m))
  <2>1. ItemsCount(q, m) = SumOf(ItemNumbers(q, m))
    BY EmittedCounts
  <2> QED BY <2>1 DEF ItemNumbers
<1>6. TimesAre(a, "list", x, ItemNumbers(q, Id(x)))
  <2>1. \A i \in 1..Len(q) :
          IsSeq(a[i]) /\ Times(a[i], "list", x) = ItemCounts(q[i], Id(x))
    BY <1>1, <1>3, IdsTimes
  <2> QED BY <1>4, <1>5, <2>1 DEF TimesAre
<1>7. TimesAre(b, "list", x, ItemNumbers(q, Name(x)))
  <2>1. \A i \in 1..Len(q) :
          IsSeq(b[i]) /\ Times(b[i], "list", x) = ItemCounts(q[i], Name(x))
    BY <1>1, <1>3, NamesTimes
  <2> QED BY <1>4, <1>5, <2>1 DEF TimesAre
<1>8. IsSeq(FlattenSeq(a)) /\ Times(FlattenSeq(a), "list", x) = ItemsCount(q, Id(x))
  BY <1>5, <1>6, TimesJoined
<1>9. IsSeq(FlattenSeq(b)) /\ Times(FlattenSeq(b), "list", x) = ItemsCount(q, Name(x))
  BY <1>5, <1>7, TimesJoined
<1> QED BY <1>2, <1>8, <1>9

\* Nothing is there twice: as many elements as places.
LEMMA OnceEach ==
  ASSUME NEW q, IsSeq(q), \A x : Times(q, "list", x) <= 1
  PROVE  Cardinality(Range(q)) = Len(q)
<1>1. Len(q) \in Nat /\ DOMAIN q = 1..Len(q)
  BY DomainOfSeq
<1>2. ASSUME NEW i \in 1..Len(q), NEW j \in 1..Len(q), q[i] = q[j] PROVE i = j
  <2> DEFINE w == Marks(q, "list", q[i])
  <2>1. /\ w = [k \in 1..Len(q) |-> w[k]] /\ Times(q, "list", q[i]) = SumOf(w)
        /\ \A k \in 1..Len(q) : w[k] = MarkOf(q[k], "list", q[i]) /\ w[k] \in {0, 1}
    BY TimesIs
  <2> HIDE DEF w
  <2>2. SumOf(w) <= 1
    BY <2>1
  <2>3. \A k, l \in 1..Len(q) : w[k] = 1 /\ w[l] = 1 => k = l
    BY <1>1, <2>1, <2>2, OnePlace
  <2>4. w[i] = 1 /\ w[j] = 1
    BY <1>2, <2>1 DEF MarkOf
  <2> QED BY <2>3, <2>4
<1>3. q \in [1..Len(q) -> Range(q)] /\ \A t \in Range(q) : \E s \in 1..Len(q) : q[s] = t
  BY <1>1 DEF IsSeq, Range
<1>4. q \in Bijection(1..Len(q), Range(q))
  BY <1>1, <1>2, <1>3 DEF Bijection, Injection, Surjection, IsInjective
<1>5. ExistsBijection(1..Len(q), Range(q))
  BY <1>4 DEF ExistsBijection
<1> QED BY <1>1, <1>5, FS_CountingElements

-----------------------------------------------------------------------------
(* Everything is there as often as it was read.                            *)

NamesApart(q) == \A x : ItemsCount(q, Name(x)) <= 1

AsRead(img, q) == \A x : x \notin Added => Times(img, "image", x) = ItemsCount(q, Id(x))

\* Nothing was read twice by one name, and everything is there as often as it was read.
CountedAsRead(img, q) ==
  /\ Cardinality(Range(NamesRead(q))) = Len(NamesRead(q))
  /\ \A id \in Range(IdsRead(q)) \cup ({e.id : e \in Range(img)} \ Added) :
       Cardinality({i \in DOMAIN img : img[i].id = id})
         = Cardinality({i \in DOMAIN IdsRead(q) : IdsRead(q)[i] = id})

LEMMA CountsAreWhole ==
  ASSUME NEW q, ItemList(q), NEW img, IsSeq(img), NamesApart(q), AsRead(img, q),
         \A i \in 1..Len(q) : FreshIds(q[i])
  PROVE  CountedAsRead(img, q)
<1> DEFINE ids == IdsRead(q)
           names == NamesRead(q)
<1>1. /\ IsSeq(ids) /\ \A x : Times(ids, "list", x) = ItemsCount(q, Id(x))
      /\ IsSeq(names) /\ \A x : Times(names, "list", x) = ItemsCount(q, Name(x))
  <2>1. IsSeq(ids) /\ IsSeq(names)
    BY ReadTimes
  <2>2. ASSUME NEW x
        PROVE  /\ Times(ids, "list", x) = ItemsCount(q, Id(x))
               /\ Times(names, "list", x) = ItemsCount(q, Name(x))
    BY ReadTimes
  <2> QED BY <2>1, <2>2
<1>2. \A id \in Range(ids) : id \notin Added
  <2> DEFINE a == [i \in DOMAIN q |-> IdsOf(q[i])]
  <2>1. DOMAIN q = 1..Len(q) /\ Len(q) \in Nat /\ \A i \in 1..Len(q) : IsItem(q[i])
    BY DomainOfSeq DEF ItemList
  <2>2. ids = FlattenSeq(a)
    BY DEF IdsRead
  <2>3. a = [i \in 1..Len(q) |-> a[i]] /\ \A i \in 1..Len(q) : a[i] = IdsOf(q[i])
    BY <2>1
  <2> HIDE DEF a
  <2>4. IsSeq(a) /\ Len(a) = Len(q)
    BY <2>1, <2>3, MapIsSeq
  <2>5. \A j \in 1..Len(a) : IsSeq(a[j])
    BY <2>1, <2>3, <2>4, IdsTimes
  <2>6. Gathered(ids, a)
    BY <2>2, <2>4, <2>5, FlattenedGathers
  <2>7. \A j \in 1..Len(a) : \A i \in 1..Len(a[j]) : a[j][i] \notin Added
    <3> SUFFICES ASSUME NEW j \in 1..Len(a), NEW i \in 1..Len(a[j]) PROVE a[j][i] \notin Added
      OBVIOUS
    <3>1. a[j][i] \in Range(IdsOf(q[j]))
      BY <2>3, <2>4, <2>5, DomainOfSeq DEF Range
    <3> QED BY <2>4, <3>1 DEF FreshIds
  <2>8. \A k \in 1..Len(ids) : ids[k] \notin Added
    BY <2>6, <2>7 DEF Gathered
  <2> QED BY <1>1, <2>8, DomainOfSeq DEF Range
<1> HIDE DEF ids, names
<1>3. Cardinality(Range(names)) = Len(names)
  BY <1>1, OnceEach DEF NamesApart
<1>4. ASSUME NEW id, id \notin Added
      PROVE  Cardinality({i \in DOMAIN img : img[i].id = id})
               = Cardinality({i \in DOMAIN ids : ids[i] = id})
  <2>1. Cardinality({i \in DOMAIN img : img[i].id = id}) = Times(img, "image", id)
    BY TimesCounted
  <2>2. Cardinality({i \in DOMAIN ids : ids[i] = id}) = Times(ids, "list", id)
    BY <1>1, TimesCounted
  <2> QED BY <1>1, <1>4, <2>1, <2>2 DEF AsRead
<1>5. \A id \in Range(ids) \cup ({e.id : e \in Range(img)} \ Added) : id \notin Added
  BY <1>2
<1>6. \A id \in Range(ids) \cup ({e.id : e \in Range(img)} \ Added) :
              Cardinality({i \in DOMAIN img : img[i].id = id})
                = Cardinality({i \in DOMAIN ids : ids[i] = id})
  BY <1>4, <1>5
<1> QED BY <1>3, <1>6 DEF ids, names, CountedAsRead

(* The order of what is selected, and of what is emitted.                  *)
LEMMA SumGrows ==
  ASSUME NEW q \in Seq(Nat), NEW s, IsSum(s, q), NEW i \in 0..Len(q), NEW j \in 0..Len(q), i <= j
  PROVE  s[i] <= s[j] /\ s[i] \in Nat /\ s[j] \in Nat
<1> DEFINE n == Len(q)
           S == {k \in 0..n : i <= k => s[i] <= s[k]}
<1>1. n \in Nat /\ \A k \in 1..n : q[k] \in Nat
  BY ElementOfSeq
<1>2. s \in [0..n -> Nat] /\ \A k \in 1..n : s[k] = s[k - 1] + q[k]
  BY DEF IsSum
<1> HIDE DEF n
<1>3. 0 \in S
  <2>1. i <= 0 => i = 0
    BY DEF n
  <2>2. 0 \in 0..n /\ s[0] \in Nat
    BY <1>1, <1>2
  <2> QED BY <2>1, <2>2
<1>4. ASSUME NEW k \in 0..n, k \in S, k < n PROVE k + 1 \in S
  <2>1. k + 1 \in 1..n /\ k + 1 \in 0..n /\ (k + 1) - 1 = k /\ i \in 0..n
    BY <1>1, <1>4 DEF n
  <2>2. s[k + 1] = s[k] + q[k + 1] /\ s[k] \in Nat /\ q[k + 1] \in Nat /\ s[i] \in Nat
    BY <1>1, <1>2, <2>1
  <2>3. CASE i <= k
    <3>1. s[i] <= s[k]
      BY <1>4, <2>3
    <3> QED BY <2>1, <2>2, <3>1
  <2>4. CASE ~(i <= k)
    <3>1. i <= k + 1 => i = k + 1
      BY <2>1, <2>4
    <3> QED BY <2>1, <2>2, <3>1
  <2> QED BY <2>3, <2>4
<1> HIDE DEF S
<1>5. 0..n \subseteq S
  BY <1>1, <1>3, <1>4, Induct
<1> QED BY <1>2, <1>5 DEF S, n

\* Where the elements of a selection stand in it: o counts the selected ones.
StandsAt(p, q, T, o) ==
  /\ \A i \in 0..Len(q) : o[i] \in Nat
  /\ \A i, j \in 0..Len(q) : i <= j => o[i] <= o[j]
  /\ \A k \in T : o[k] \in 1..Len(p) /\ p[o[k]] = q[k] /\ o[k] = o[k - 1] + 1
  /\ \A x \in 1..Len(p) : \E k \in T : x = o[k]

LEMMA PickedInOrder ==
  ASSUME NEW q, IsSeq(q), NEW T, T \subseteq DOMAIN q
  PROVE  \E o : StandsAt(FlattenSeq(Ones(q, T)), q, T, o)
<1> DEFINE ss == Ones(q, T)
           n == Len(q)
           p == FlattenSeq(ss)
           w == [k \in 1..n |-> Len(ss[k])]
<1>1. n \in Nat /\ DOMAIN q = 1..n
  BY DomainOfSeq
<1>2. /\ IsSeq(ss) /\ Len(ss) = n
      /\ \A i \in 1..n : /\ IsSeq(ss[i])
                         /\ i \in T => ss[i] = <<q[i]>> /\ Len(ss[i]) = 1
                         /\ i \notin T => ss[i] = <<>> /\ Len(ss[i]) = 0
  BY OnesAre
<1> HIDE DEF ss
<1>3. ss \in Seq(Seq(Elements(ss)))
  BY <1>2, ElementsAre
<1>4. PICK o : Begin(o, ss, n) /\ Joins(p, ss, o, n)
  BY <1>2, <1>3, FlattenJoins
<1> HIDE DEF p, n
<1>5. /\ o \in [0..n -> Nat] /\ o[0] = 0 /\ \A j \in 1..n : o[j] = o[j - 1] + Len(ss[j])
      /\ Len(p) = o[n]
      /\ \A j \in 1..n : \A i \in 1..Len(ss[j]) :
           o[j - 1] + i \in 1..Len(p) /\ p[o[j - 1] + i] = ss[j][i]
      /\ \A x \in 1..Len(p) : \E j \in 1..n : x - o[j - 1] \in 1..Len(ss[j])
  BY <1>4 DEF Begin, Joins
<1>6. w \in Seq(Nat) /\ Len(w) = n /\ \A k \in 1..n : w[k] = Len(ss[k])
  <2>1. w = [k \in 1..n |-> w[k]] /\ \A k \in 1..n : w[k] = Len(ss[k])
    OBVIOUS
  <2>2. \A k \in 1..n : Len(ss[k]) \in Nat
    BY <1>2
  <2> HIDE DEF w
  <2> QED BY <1>1, <2>1, <2>2, NatSum
<1> HIDE DEF w
<1>7. IsSum(o, w)
  BY <1>5, <1>6 DEF IsSum
<1>8. \A i \in 0..n : o[i] \in Nat
  BY <1>5
<1>9. \A i, j \in 0..n : i <= j => o[i] <= o[j]
  BY <1>6, <1>7, SumGrows
<1>10. ASSUME NEW k \in T PROVE o[k] \in 1..Len(p) /\ p[o[k]] = q[k] /\ o[k] = o[k - 1] + 1
  <2>1. k \in 1..n /\ ss[k] = <<q[k]>> /\ Len(ss[k]) = 1 /\ 1 \in 1..Len(ss[k])
    BY <1>1, <1>2
  <2>2. o[k] = o[k - 1] + 1
    BY <1>5, <2>1
  <2>3. o[k - 1] + 1 \in 1..Len(p) /\ p[o[k - 1] + 1] = ss[k][1]
    BY <1>5, <2>1
  <2>4. ss[k][1] = q[k]
    BY <2>1, OneIsSeq
  <2> QED BY <2>2, <2>3, <2>4
<1>11. ASSUME NEW x \in 1..Len(p) PROVE \E k \in T : x = o[k]
  <2>1. PICK j \in 1..n : x - o[j - 1] \in 1..Len(ss[j])
    BY <1>5
  <2>2. j \in T /\ Len(ss[j]) = 1
    BY <1>2, <2>1
  <2>3. o[j - 1] \in Nat /\ o[n] \in Nat
    BY <1>1, <1>5
  <2>4. x \in Nat /\ x - o[j - 1] = 1
    BY <1>5, <2>1, <2>2, <2>3
  <2>5. o[j] = o[j - 1] + 1
    BY <1>5, <2>2
  <2>6. x = o[j]
    BY <2>3, <2>4, <2>5
  <2> QED BY <2>2, <2>6
<1>12. StandsAt(p, q, T, o)
  BY <1>8, <1>9, <1>10, <1>11 DEF StandsAt, n
<1> QED BY <1>12 DEF p, ss

\* The code of a function that begins with an instruction, but for what allocation
\* has put in front of it.
LEMMA CodeStarts ==
  ASSUME NEW f, IsSeq(f.stmts), NEW id, StartsWith(f, id)
  PROVE  LET code == Selected(f.stmts, IsInstruction)
         IN  \E n \in 1..Len(code) : /\ code[n].id = id
                                     /\ \A m \in 1..(n - 1) : code[m].id \in Allocations
<1> DEFINE q == f.stmts
           T == {i \in DOMAIN q : IsInstruction(q[i])}
           code == Selected(q, IsInstruction)
<1>1. /\ code = FlattenSeq(Ones(q, T)) /\ T \subseteq DOMAIN q
      /\ DOMAIN q = 1..Len(q) /\ \A i \in 1..Len(q) : (i \in T) <=> IsInstruction(q[i])
  BY SelectedIs, DomainOfSeq
<1>2. Len(q) \in Nat /\ Len(code) \in Nat
  BY CodeIsSeq, DomainOfSeq
<1>3. PICK k \in 1..Len(q) :
        /\ IsInstruction(q[k]) /\ q[k].id = id
        /\ \A j \in 1..(k - 1) : IsLabel(q[j]) \/ q[j].id \in Allocations
  BY DEF StartsWith
<1> HIDE DEF T, code
<1>4. PICK o : StandsAt(code, q, T, o)
  BY <1>1, PickedInOrder
<1> HIDE DEF q
<1>5. k \in T /\ o[k] \in 1..Len(code) /\ code[o[k]] = q[k]
  BY <1>1, <1>3, <1>4 DEF StandsAt
<1>6. ASSUME NEW m \in 1..(o[k] - 1) PROVE code[m].id \in Allocations
  <2>1. m \in 1..Len(code) /\ m < o[k] /\ m \in Nat
    BY <1>2, <1>5
  <2>2. PICK j \in T : m = o[j]
    BY <1>4, <2>1 DEF StandsAt
  <2>3. j \in 1..Len(q) /\ code[m] = q[j] /\ IsInstruction(q[j])
    BY <1>1, <1>4, <2>2 DEF StandsAt
  <2>4. ~(k <= j)
    <3>1. k \in 0..Len(q) /\ j \in 0..Len(q) /\ o[k] \in Nat /\ o[j] \in Nat
      BY <1>4, <2>3 DEF StandsAt
    <3>2. k <= j => o[k] <= o[j]
      BY <1>4, <3>1 DEF StandsAt
    <3> QED BY <2>1, <2>2, <3>1, <3>2
  <2>5. j \in 1..(k - 1)
    BY <1>2, <2>3, <2>4
  <2> QED BY <1>3, <2>3, <2>5 DEF IsInstruction
<1> QED BY <1>3, <1>5, <1>6 DEF code, q

(* Where things are put.                                                   *)

LEMMA CodePlaces ==
  ASSUME NEW q, StmtList(q), CallsLegal(q), \A i \in 1..Len(q) : ~IsLabel(q[i])
  PROVE  \E s : /\ \A i \in 0..Len(q) : s[i] \in Nat
                /\ \A i, j \in 0..Len(q) : i <= j => s[i] <= s[j]
                /\ \A i \in 1..Len(q) : s[i] >= s[i - 1] + 4
                /\ \A i \in 1..Len(q) : SumOf([j \in 1..(i - 1) |-> StmtSize(q[j])]) = s[i - 1]
                /\ SumOf([j \in 1..Len(q) |-> StmtSize(q[j])]) = s[Len(q)]
<1> DEFINE n == Len(q)
           u == [j \in 1..n |-> StmtSize(q[j])]
<1>1. n \in Nat /\ \A j \in 1..n : IsStatement(q[j]) /\ Callable(q[j])
  BY ListsAre, DomainOfSeq DEF CallsLegal
<1>2. \A j \in 1..n : StmtSize(q[j]) \in Nat /\ StmtSize(q[j]) >= 4
  BY <1>1, StmtSizeIs
<1>3. u = [j \in 1..n |-> u[j]] /\ \A j \in 1..n : u[j] = StmtSize(q[j]) /\ u[j] \in Nat /\ u[j] >= 4
  BY <1>2
<1>a. SumOf([j \in 1..Len(q) |-> StmtSize(q[j])]) = SumOf(u)
  OBVIOUS
<1> HIDE DEF u
<1>4. u \in Seq(Nat) /\ Len(u) = n
  BY <1>1, <1>3, NatSum
<1>5. PICK s : IsSum(s, u) /\ SumOf(u) = s[Len(u)]
  BY <1>4, SumIs
<1>6. s \in [0..n -> Nat] /\ \A k \in 1..n : s[k] = s[k - 1] + u[k]
  BY <1>4, <1>5 DEF IsSum
<1> HIDE DEF n
<1>7. \A i \in 0..n : s[i] \in Nat
  BY <1>6
<1>8. \A i, j \in 0..n : i <= j => s[i] <= s[j]
  BY <1>4, <1>5, SumGrows
<1>9. \A i \in 1..n : s[i] >= s[i - 1] + 4
  <2> TAKE i \in 1..n
  <2>1. i - 1 \in 0..n
    BY <1>1
  <2> QED BY <1>3, <1>6, <1>7, <2>1
<1>10. ASSUME NEW i \in 1..n
       PROVE  SumOf([j \in 1..(i - 1) |-> StmtSize(q[j])]) = s[i - 1]
  <2>1. i - 1 \in 0..n
    BY <1>1
  <2>2. SumOf([j \in 1..(i - 1) |-> u[j]]) = s[i - 1]
    BY <1>4, <1>5, <2>1, SumOfFirst
  <2>3. [j \in 1..(i - 1) |-> u[j]] = [j \in 1..(i - 1) |-> StmtSize(q[j])]
    BY <1>1, <1>3
  <2> QED BY <2>2, <2>3
<1>11. SumOf([j \in 1..Len(q) |-> StmtSize(q[j])]) = s[n]
  BY <1>4, <1>5, <1>a
<1> QED BY <1>7, <1>8, <1>9, <1>10, <1>11 DEF n

\* The instructions of a function take what the function takes, but for its padding.
LEMMA CodeSize ==
  ASSUME NEW f, StmtList(f.stmts), CallsLegal(f.stmts)
  PROVE  LET code == Selected(f.stmts, IsInstruction)
         IN  /\ SumOf([j \in 1..Len(code) |-> StmtSize(code[j])]) <= FunctionSize(f)
             /\ SumOf([j \in 1..Len(code) |-> StmtSize(code[j])]) \in Nat
             /\ FunctionSize(f) \in Nat
<1> DEFINE q == f.stmts
           T == {i \in DOMAIN q : IsInstruction(q[i])}
           p == Selected(q, IsInstruction)
           v == [y \in Range(q) |-> StmtSize(y)]
           g == [j \in 1..Len(p) |-> StmtSize(p[j])]
           w == [i \in DOMAIN q |-> StmtSize(q[i])]
<1>1. /\ IsSeq(q) /\ DOMAIN q = 1..Len(q)
      /\ \A i \in 1..Len(q) : IsStatement(q[i]) /\ Callable(q[i]) /\ q[i] \in Range(q)
  BY ListsAre, DomainOfSeq DEF CallsLegal, Range
<1>2. /\ p = FlattenSeq(Ones(q, T)) /\ T \subseteq DOMAIN q
      /\ \A i \in 1..Len(q) : (i \in T) <=> IsInstruction(q[i])
  BY <1>1, SelectedIs
<1>3. v \in [Range(q) -> Nat] /\ \A y \in Range(q) : v[y] = StmtSize(y)
  <2>1. \A y \in Range(q) : StmtSize(y) \in Nat
    BY <1>1, StmtSizeIs DEF Range
  <2> QED BY <2>1
<1>4. InstrSize(f) = SumOf(w)
  BY Zenon DEF InstrSize
<1>5. g = [j \in 1..Len(p) |-> g[j]] /\ \A j \in 1..Len(p) : g[j] = StmtSize(p[j])
  OBVIOUS
<1>6. w = [i \in 1..Len(q) |-> w[i]] /\ \A i \in 1..Len(q) : w[i] = StmtSize(q[i])
  BY <1>1
<1> HIDE DEF T, p, v, w
<1>7. Picks(p, q, T)
  BY <1>1, <1>2, PickedOf
<1>8. \A j \in 1..Len(p) : p[j] \in Range(q)
  BY <1>1, <1>2, <1>7 DEF Picks
<1>a. SumOf([j \in 1..Len(p) |-> StmtSize(p[j])]) = SumOf(g)
  OBVIOUS
<1> HIDE DEF g, q
<1>9. \A j \in 1..Len(p) : g[j] = v[p[j]]
  BY <1>3, <1>5, <1>8
<1>10. \A i \in 1..Len(q) : w[i] = IF i \in T THEN v[q[i]] ELSE 0
  <2>1. \A i \in 1..Len(q) : i \notin T => StmtSize(q[i]) = 0
    BY <1>1, <1>2, StmtSizeIs DEF IsInstruction
  <2> QED BY <1>1, <1>3, <1>6, <2>1
<1>11. PickedBy(q, T, p, g, v, w)
  BY <1>1, <1>2, <1>3, <1>5, <1>6, <1>9, <1>10 DEF PickedBy
<1>12. SumOf(g) = SumOf(w) /\ SumOf(w) \in Nat
  BY <1>11, PickedSum
<1>13. InstrSize(f) <= FunctionSize(f) /\ FunctionSize(f) \in Nat
  BY <1>4, <1>12, AlignedIs DEF FunctionSize
<1> QED BY <1>4, <1>12, <1>13, <1>a DEF p, q

\* The emission c comes first of those in q that allocation has not added, if
\* what it does not precede is put further on.
Precedes(c, q) ==
  \A i \in 1..Len(q) :
    q[i] = c \/ q[i].id \in Allocations \/ (q[i].at \in Nat /\ c.at < q[i].at)

LEMMA CodeEmission ==
  ASSUME NEW f, IsFunction(f), CallsLegal(f.stmts), NEW at \in Nat, NEW e, StartsWith(f, e)
  PROVE  LET q == EmittedCode(f, at)
         IN  \E n \in 1..Len(q) : /\ q[n].id = e /\ Precedes(q[n], q)
                                  /\ q[n].at \in Nat /\ q[n].at < at + FunctionSize(f)
<1> DEFINE code == Selected(f.stmts, IsInstruction)
           q == EmittedCode(f, at)
           Off(i) == SumOf([j \in 1..(i - 1) |-> StmtSize(code[j])])
           size == SumOf([j \in 1..Len(code) |-> StmtSize(code[j])])
<1>1. /\ StmtList(code) /\ CallsLegal(code) /\ StmtList(f.stmts) /\ IsSeq(f.stmts)
      /\ Picks(code, f.stmts, {i \in DOMAIN f.stmts : IsInstruction(f.stmts[i])})
  BY SelectedStmts, ListsAre DEF IsFunction
<1>2. /\ size <= FunctionSize(f) /\ size \in Nat /\ FunctionSize(f) \in Nat
  BY <1>1, CodeSize
<1>3. PICK n \in 1..Len(code) : /\ code[n].id = e
                                /\ \A m \in 1..(n - 1) : code[m].id \in Allocations
  BY <1>1, CodeStarts
<1>4. q = [i \in DOMAIN code |->
             Emission(at + Off(i), code[i].id, StmtSize(code[i]), Encoded(code[i]))]
  BY Zenon DEF EmittedCode
<1> HIDE DEF q, code
<1>5. DOMAIN code = 1..Len(code) /\ Len(code) \in Nat
  BY <1>1, ListsAre, DomainOfSeq
<1>6. \A i \in 1..Len(code) : ~IsLabel(code[i])
  BY <1>1 DEF Picks, IsInstruction
<1>7. PICK s : /\ \A i \in 0..Len(code) : s[i] \in Nat
               /\ \A i, j \in 0..Len(code) : i <= j => s[i] <= s[j]
               /\ \A i \in 1..Len(code) : s[i] >= s[i - 1] + 4
               /\ \A i \in 1..Len(code) : Off(i) = s[i - 1]
               /\ size = s[Len(code)]
  BY <1>1, <1>6, CodePlaces
<1> HIDE DEF Off, size
<1>8. /\ q = [i \in 1..Len(code) |-> q[i]]
      /\ \A i \in 1..Len(code) : q[i].at = at + s[i - 1] /\ q[i].id = code[i].id
  BY <1>4, <1>5, <1>7 DEF Emission
<1>9. Len(q) = Len(code)
  BY <1>5, <1>8, MapIsSeq
<1>10. /\ n \in 1..Len(q) /\ q[n].id = e /\ q[n].at = at + s[n - 1]
       /\ n \in 0..Len(code) /\ n - 1 \in 0..Len(code) /\ n \in Nat
       /\ s[n] >= s[n - 1] + 4 /\ s[n] \in Nat /\ s[n - 1] \in Nat
  <2>1. n \in 0..Len(code) /\ n - 1 \in 0..Len(code) /\ n \in Nat
    BY <1>5
  <2> QED BY <1>3, <1>7, <1>8, <1>9, <2>1
<1>11. q[n].at \in Nat /\ q[n].at < at + FunctionSize(f)
  <2>1. Len(code) \in 0..Len(code)
    BY <1>5
  <2>2. s[n] <= s[Len(code)] /\ s[Len(code)] \in Nat
    BY <1>5, <1>7, <1>10, <2>1
  <2>3. PICK a \in Nat, b \in Nat, c \in Nat, d \in Nat :
          s[n - 1] = a /\ s[n] = b /\ size = c /\ FunctionSize(f) = d
    BY <1>2, <1>10
  <2>4. b >= a + 4 /\ b <= c /\ c <= d /\ q[n].at = at + a
    BY <1>2, <1>7, <1>10, <2>2, <2>3
  <2>5. q[n].at \in Nat /\ q[n].at < at + d
    BY <2>4
  <2> QED BY <2>3, <2>5
<1>12. ASSUME NEW i \in 1..Len(q)
       PROVE  q[i] = q[n] \/ q[i].id \in Allocations \/ (q[i].at \in Nat /\ q[n].at < q[i].at)
  <2>1. i \in Nat /\ i \in 1..Len(code) /\ i - 1 \in 0..Len(code)
    BY <1>5, <1>9
  <2>2. CASE i < n
    <3>1. i \in 1..(n - 1)
      BY <1>10, <2>1, <2>2
    <3> QED BY <1>3, <1>8, <2>1, <3>1
  <2>3. CASE n < i
    <3>1. n <= i - 1
      BY <1>10, <2>1, <2>3
    <3>2. s[n] <= s[i - 1] /\ s[i - 1] \in Nat
      BY <1>7, <1>10, <2>1, <3>1
    <3>3. q[i].at = at + s[i - 1]
      BY <1>8, <2>1
    <3>4. PICK a \in Nat, b \in Nat, c \in Nat : s[n - 1] = a /\ s[n] = b /\ s[i - 1] = c
      BY <1>10, <3>2
    <3>5. b >= a + 4 /\ b <= c /\ q[i].at = at + c /\ q[n].at = at + a
      BY <1>10, <3>2, <3>3, <3>4
    <3>6. q[i].at \in Nat /\ q[n].at < q[i].at
      BY <3>5
    <3> QED BY <3>6
  <2> QED BY <1>10, <2>1, <2>2, <2>3
<1> QED BY <1>10, <1>11, <1>12 DEF Precedes, q

\* What is emitted from a place on is put there or further on.
From(q, at) == \A i \in 1..Len(q) : q[i].at \in Nat /\ at <= q[i].at

LEMMA EmittedFromPlace ==
  ASSUME NEW at \in Nat
  PROVE  /\ \A f : IsFunction(f) /\ CallsLegal(f.stmts) => From(EmittedCode(f, at), at)
         /\ \A d : IsDatum(d) => From(EmittedCells(d, at), at)
<1>1. ASSUME NEW f, IsFunction(f), CallsLegal(f.stmts) PROVE From(EmittedCode(f, at), at)
  <2> DEFINE code == Selected(f.stmts, IsInstruction)
             q == EmittedCode(f, at)
             Off(i) == SumOf([j \in 1..(i - 1) |-> StmtSize(code[j])])
  <2>1. StmtList(code) /\ CallsLegal(code)
    BY <1>1, SelectedStmts DEF IsFunction
  <2>2. q = [i \in DOMAIN code |->
               Emission(at + Off(i), code[i].id, StmtSize(code[i]), Encoded(code[i]))]
    BY Zenon DEF EmittedCode
  <2> HIDE DEF q, code
  <2>3. DOMAIN code = 1..Len(code) /\ Len(code) \in Nat
    BY <2>1, ListsAre, DomainOfSeq
  <2>4. \A i \in 1..Len(code) : i - 1 \in 0..Len(code)
    BY <2>3
  <2>5. \A i \in 1..Len(code) : Off(i) \in Nat
    BY <2>1, <2>4, StmtSizesAre
  <2> HIDE DEF Off
  <2>6. q = [i \in 1..Len(code) |-> q[i]] /\ \A i \in 1..Len(code) : q[i].at = at + Off(i)
    BY <2>2, <2>3 DEF Emission
  <2>7. Len(q) = Len(code)
    BY <2>3, <2>6, MapIsSeq
  <2>8. \A i \in 1..Len(q) : q[i].at \in Nat /\ at <= q[i].at
    BY <2>5, <2>6, <2>7
  <2> QED BY <2>8 DEF From, q
<1>2. ASSUME NEW d, IsDatum(d) PROVE From(EmittedCells(d, at), at)
  <2> DEFINE q == EmittedCells(d, at)
             n == Len(d.cells)
             Off(i) == SumOf([j \in 1..(i - 1) |-> d.cells[j].size])
  <2>1. DOMAIN d.cells = 1..n /\ n \in Nat /\ \A i \in 1..n : d.cells[i].size \in Nat
    BY <1>2, ShapesAre, ListsAre, DomainOfSeq DEF IsCell
  <2>2. q = [i \in DOMAIN d.cells |-> Emission(at + Off(i), d.cells[i].id, d.cells[i].size, <<>>)]
    BY Zenon DEF EmittedCells
  <2> HIDE DEF q, n
  <2>3. ASSUME NEW i \in 1..n PROVE Off(i) \in Nat
    <3>1. i - 1 \in 0..n /\ \A j \in 1..n : d.cells[j].size \in Nat
      BY <2>1
    <3> DEFINE z == [j \in 1..(i - 1) |-> d.cells[j].size]
    <3>2. i - 1 \in Nat /\ z = [j \in 1..(i - 1) |-> z[j]] /\ \A j \in 1..(i - 1) : z[j] \in Nat
      BY <2>1
    <3> HIDE DEF z
    <3>3. SumOf(z) \in Nat
      BY <3>2, NatSum
    <3> QED BY <3>3 DEF z
  <2> HIDE DEF Off
  <2>a. \A i \in 1..n : Off(i) \in Nat
    BY <2>3
  <2>4. q = [i \in 1..n |-> q[i]] /\ \A i \in 1..n : q[i].at = at + Off(i)
    BY <2>1, <2>2 DEF Emission
  <2>5. Len(q) = n
    BY <2>1, <2>4, MapIsSeq
  <2>6. \A i \in 1..Len(q) : q[i].at \in Nat /\ at <= q[i].at
    <3> TAKE i \in 1..Len(q)
    <3>1. i \in 1..n
      BY <2>5
    <3>2. PICK k \in Nat : Off(i) = k
      BY <2>a, <3>1
    <3>3. q[i].at = at + k
      BY <2>4, <3>1, <3>2
    <3> QED BY <3>3
  <2> QED BY <2>6 DEF From, q
<1> QED BY <1>1, <1>2

LEMMA TextGrows ==
  ASSUME NEW q, FunctionList(q), AllCallsLegal(q), NEW i \in 1..(Len(q) + 1)
  PROVE  /\ TextBefore(q, 1) = 0
         /\ i > 1 => TextBefore(q, i) >= FunctionSize(q[1]) /\ FunctionSize(q[1]) \in Nat
<1>1. Len(q) \in Nat /\ \A j \in 1..Len(q) : StmtList(q[j].stmts) /\ CallsLegal(q[j].stmts)
  BY DomainOfSeq DEF FunctionList, IsFunction, AllCallsLegal
<1>2. \A j \in 1..Len(q) : FunctionSize(q[j]) \in Nat
  BY <1>1, FunctionSizeIs
<1>3. TextBefore(q, 1) = 0
  <2> DEFINE z == [j \in 1..(1 - 1) |-> FunctionSize(q[j])]
  <2>1. z = [j \in 1..0 |-> z[j]] /\ \A j \in 1..0 : z[j] = 0
    OBVIOUS
  <2>2. TextBefore(q, 1) = SumOf(z)
    BY Zenon DEF TextBefore
  <2> HIDE DEF z
  <2> QED BY <2>1, <2>2, NoneSum
<1>4. ASSUME i > 1 PROVE TextBefore(q, i) >= FunctionSize(q[1]) /\ FunctionSize(q[1]) \in Nat
  <2> DEFINE z == [j \in 1..(i - 1) |-> FunctionSize(q[j])]
  <2>1. i - 1 \in Nat /\ 1 \in 1..Len(q) /\ 1 \in 1..(i - 1) /\ \A j \in 1..(i - 1) : j \in 1..Len(q)
    BY <1>1, <1>4
  <2>2. z = [j \in 1..(i - 1) |-> z[j]] /\ \A j \in 1..(i - 1) : z[j] = FunctionSize(q[j]) /\ z[j] \in Nat
    BY <1>2, <2>1
  <2>3. TextBefore(q, i) = SumOf(z)
    BY Zenon DEF TextBefore
  <2> HIDE DEF z
  <2>4. z \in Seq(Nat) /\ Len(z) = i - 1
    BY <2>1, <2>2, NatSum
  <2>5. PICK s : IsSum(s, z) /\ SumOf(z) = s[Len(z)]
    BY <2>4, SumIs
  <2>6. s[0] = 0 /\ s[1] = s[0] + z[1]
    <3>1. 1 \in 1..Len(z) /\ 1 - 1 = 0
      BY <2>1, <2>4
    <3> QED BY <2>5, <3>1 DEF IsSum
  <2>7. s[1] <= s[Len(z)] /\ s[Len(z)] \in Nat /\ s[1] \in Nat
    <3>1. 1 \in 0..Len(z) /\ Len(z) \in 0..Len(z) /\ 1 <= Len(z)
      BY <2>1, <2>4
    <3> QED BY <2>4, <2>5, <3>1, SumGrows
  <2>8. z[1] = FunctionSize(q[1]) /\ z[1] \in Nat
    BY <2>1, <2>2
  <2> QED BY <2>3, <2>5, <2>6, <2>7, <2>8
<1> QED BY <1>3, <1>4

\* Sequences each of which c precedes.
LEMMA PrecedesJoined ==
  ASSUME NEW ss, IsSeq(ss), \A j \in 1..Len(ss) : IsSeq(ss[j]), NEW c,
         \A j \in 1..Len(ss) : Precedes(c, ss[j])
  PROVE  Precedes(c, FlattenSeq(ss))
<1> DEFINE p == FlattenSeq(ss)
<1>1. Gathered(p, ss)
  BY FlattenedGathers
<1> HIDE DEF p
<1>2. ASSUME NEW i \in 1..Len(p)
      PROVE  p[i] = c \/ p[i].id \in Allocations \/ (p[i].at \in Nat /\ c.at < p[i].at)
  <2>1. PICK j \in 1..Len(ss) : \E k \in 1..Len(ss[j]) : p[i] = ss[j][k]
    BY <1>1 DEF Gathered
  <2> QED BY <2>1 DEF Precedes
<1> QED BY <1>2 DEF Precedes, p

LEMMA PrecedesBoth ==
  ASSUME NEW p, IsSeq(p), NEW q, IsSeq(q), NEW c, Precedes(c, p), Precedes(c, q)
  PROVE  Precedes(c, p \o q)
<1> DEFINE r == p \o q
<1>1. Unites(r, p, q)
  BY BothHold
<1> HIDE DEF r
<1>2. ASSUME NEW i \in 1..Len(r)
      PROVE  r[i] = c \/ r[i].id \in Allocations \/ (r[i].at \in Nat /\ c.at < r[i].at)
  BY <1>1 DEF Unites, Precedes
<1> QED BY <1>2 DEF Precedes, r

LEMMA FromPrecedes ==
  ASSUME NEW q, NEW at \in Nat, From(q, at), NEW c, c.at \in Nat, c.at < at
  PROVE  Precedes(c, q)
<1>1. ASSUME NEW i \in 1..Len(q) PROVE q[i].at \in Nat /\ c.at < q[i].at
  <2>1. q[i].at \in Nat /\ at <= q[i].at
    BY DEF From
  <2> QED BY <2>1
<1> QED BY <1>1 DEF Precedes

\* What the first function begins with comes first in the image, but for what
\* allocation has put in front of it.
LEMMA AssembledStarts ==
  ASSUME FunctionList(functions), AllCallsLegal(functions), Len(functions) >= 1,
         DataList(shared), DataList(constants),
         NEW e, StartsWith(functions[1], e)
  PROVE  \E n \in 1..Len(Assembled) :
           Assembled[n].id = e /\ Assembled[n].at \in Nat /\ Precedes(Assembled[n], Assembled)
<1> DEFINE text == TextBefore(functions, Len(functions) + 1)
           data == text + TotalSize(shared)
           fs == [i \in DOMAIN functions |-> EmittedCode(functions[i], TextBefore(functions, i))]
           ss == [i \in DOMAIN shared |-> EmittedCells(shared[i], text + DataBefore(shared, i))]
           cs == [i \in DOMAIN constants |->
                    EmittedCells(constants[i], data + DataBefore(constants, i))]
           first == FunctionSize(functions[1])
           A == Assembled
<1>1. A = FlattenSeq(fs) \o FlattenSeq(ss) \o FlattenSeq(cs)
  BY Zenon DEF Assembled
<1>2. /\ DOMAIN functions = 1..Len(functions) /\ Len(functions) \in Nat
      /\ DOMAIN shared = 1..Len(shared) /\ Len(shared) \in Nat
      /\ DOMAIN constants = 1..Len(constants) /\ Len(constants) \in Nat
      /\ \A i \in 1..Len(functions) : IsFunction(functions[i]) /\ CallsLegal(functions[i].stmts)
      /\ \A i \in 1..Len(shared) : IsDatum(shared[i])
      /\ \A i \in 1..Len(constants) : IsDatum(constants[i])
  BY ListsAre, DomainOfSeq DEF FunctionList, AllCallsLegal
<1>3. /\ \A i \in 1..Len(functions) : i \in 1..(Len(functions) + 1)
      /\ \A i \in 1..Len(shared) : i \in 1..(Len(shared) + 1)
      /\ \A i \in 1..Len(constants) : i \in 1..(Len(constants) + 1)
      /\ Len(functions) + 1 \in 1..(Len(functions) + 1) /\ Len(functions) + 1 > 1
      /\ 1 \in 1..Len(functions)
  BY <1>2
<1>4. /\ \A i \in 1..(Len(functions) + 1) : TextBefore(functions, i) \in Nat
      /\ \A i \in 1..(Len(shared) + 1) : DataBefore(shared, i) \in Nat
      /\ \A i \in 1..(Len(constants) + 1) : DataBefore(constants, i) \in Nat
      /\ TotalSize(shared) \in Nat
  BY TextBeforeIs, DataBeforeIs, TotalSizeIs
<1>5. /\ TextBefore(functions, 1) = 0
      /\ \A i \in 1..(Len(functions) + 1) : i > 1 => TextBefore(functions, i) >= first
      /\ first \in Nat
  BY <1>3, TextGrows
<1>6. text \in Nat /\ text >= first
  BY <1>3, <1>4, <1>5
<1> HIDE DEF text, first
<1>7. data \in Nat /\ data >= first
  <2>1. PICK a \in Nat, b \in Nat, c \in Nat : text = a /\ TotalSize(shared) = b /\ first = c
    BY <1>4, <1>5, <1>6
  <2> QED BY <1>6, <2>1
<1> HIDE DEF data
<1>8. /\ fs = [i \in 1..Len(functions) |-> fs[i]]
      /\ \A i \in 1..Len(functions) : fs[i] = EmittedCode(functions[i], TextBefore(functions, i))
  BY <1>2
<1>9. /\ ss = [i \in 1..Len(shared) |-> ss[i]]
      /\ \A i \in 1..Len(shared) : ss[i] = EmittedCells(shared[i], text + DataBefore(shared, i))
  BY <1>2
<1>10. /\ cs = [i \in 1..Len(constants) |-> cs[i]]
       /\ \A i \in 1..Len(constants) :
            cs[i] = EmittedCells(constants[i], data + DataBefore(constants, i))
  BY <1>2
<1> HIDE DEF fs, ss, cs, A
<1>11. /\ IsSeq(fs) /\ Len(fs) = Len(functions) /\ IsSeq(ss) /\ Len(ss) = Len(shared)
       /\ IsSeq(cs) /\ Len(cs) = Len(constants)
  BY <1>2, <1>8, <1>9, <1>10, MapIsSeq
<1>12. \A i \in 1..Len(functions) : IsSeq(fs[i])
  BY <1>2, <1>3, <1>4, <1>8, EmittedCodeIs DEF Spans
<1>13. PICK c : /\ \E m \in 1..Len(fs[1]) : fs[1][m] = c
                /\ c.id = e /\ c.at \in Nat /\ c.at < first /\ Precedes(c, fs[1])
  <2>1. fs[1] = EmittedCode(functions[1], 0) /\ IsFunction(functions[1]) /\ CallsLegal(functions[1].stmts)
    BY <1>2, <1>3, <1>5, <1>8
  <2>2. PICK m \in 1..Len(fs[1]) : /\ fs[1][m].id = e /\ Precedes(fs[1][m], fs[1])
                                   /\ fs[1][m].at \in Nat /\ fs[1][m].at < 0 + FunctionSize(functions[1])
    <3>1. 0 \in Nat
      OBVIOUS
    <3> QED BY <2>1, <3>1, CodeEmission
  <2>3. fs[1][m].at < first
    BY <1>5, <2>2 DEF first
  <2> QED BY <2>2, <2>3
<1>14. ASSUME NEW q, NEW at \in Nat, at >= first, From(q, at) PROVE Precedes(c, q)
  <2>1. c.at < at
    BY <1>5, <1>13, <1>14
  <2> QED BY <1>13, <1>14, <2>1, FromPrecedes
<1>15. ASSUME NEW i \in 1..Len(functions) PROVE Precedes(c, fs[i])
  <2>1. CASE i = 1
    BY <1>13, <2>1
  <2>2. CASE i # 1
    <3>1. i > 1 /\ i \in 1..(Len(functions) + 1)
      BY <1>3, <2>2
    <3>2. TextBefore(functions, i) \in Nat /\ TextBefore(functions, i) >= first
      BY <1>4, <1>5, <3>1
    <3>3. From(fs[i], TextBefore(functions, i))
      BY <1>2, <1>8, <3>2, EmittedFromPlace
    <3> QED BY <1>14, <3>2, <3>3
  <2> QED BY <2>1, <2>2
<1>16. ASSUME NEW i \in 1..Len(shared) PROVE IsSeq(ss[i]) /\ Precedes(c, ss[i])
  <2>1. text + DataBefore(shared, i) \in Nat /\ text + DataBefore(shared, i) >= first
    <3>1. PICK x \in Nat, y \in Nat, z \in Nat :
            text = x /\ DataBefore(shared, i) = y /\ first = z
      BY <1>3, <1>4, <1>5, <1>6
    <3> QED BY <1>6, <3>1
  <2>2. From(ss[i], text + DataBefore(shared, i))
    BY <1>2, <1>9, <2>1, EmittedFromPlace
  <2>3. IsSeq(ss[i])
    BY <1>2, <1>9, <2>1, EmittedCellsAre DEF Spans
  <2> QED BY <1>14, <2>1, <2>2, <2>3
<1>17. ASSUME NEW i \in 1..Len(constants) PROVE IsSeq(cs[i]) /\ Precedes(c, cs[i])
  <2>1. data + DataBefore(constants, i) \in Nat /\ data + DataBefore(constants, i) >= first
    <3>1. PICK x \in Nat, y \in Nat, z \in Nat :
            data = x /\ DataBefore(constants, i) = y /\ first = z
      BY <1>3, <1>4, <1>5, <1>7
    <3> QED BY <1>7, <3>1
  <2>2. From(cs[i], data + DataBefore(constants, i))
    BY <1>2, <1>10, <2>1, EmittedFromPlace
  <2>3. IsSeq(cs[i])
    BY <1>2, <1>10, <2>1, EmittedCellsAre DEF Spans
  <2> QED BY <1>14, <2>1, <2>2, <2>3
<1> DEFINE F == FlattenSeq(fs)
           S == FlattenSeq(ss)
           C == FlattenSeq(cs)
<1>18. /\ Gathered(F, fs) /\ IsSeq(F) /\ IsSeq(S) /\ IsSeq(C)
       /\ Precedes(c, F) /\ Precedes(c, S) /\ Precedes(c, C)
  <2>1. Gathered(F, fs) /\ Gathered(S, ss) /\ Gathered(C, cs)
    BY <1>11, <1>12, <1>16, <1>17, FlattenedGathers
  <2>2. Precedes(c, F) /\ Precedes(c, S) /\ Precedes(c, C)
    BY <1>11, <1>12, <1>15, <1>16, <1>17, PrecedesJoined
  <2> HIDE DEF F, S, C
  <2> QED BY <2>1, <2>2 DEF Gathered
<1>19. \E n \in 1..Len(F) : F[n] = c
  <2>1. PICK m \in 1..Len(fs[1]) : fs[1][m] = c
    BY <1>13
  <2>2. 1 \in 1..Len(fs)
    BY <1>3, <1>11
  <2>3. \E n \in 1..Len(F) : F[n] = fs[1][m]
    BY <1>18, <2>2 DEF Gathered
  <2> QED BY <2>1, <2>3
<1> HIDE DEF F, S, C
<1>20. A = (F \o S) \o C
  BY <1>1 DEF F, S, C
<1> DEFINE G == F \o S
<1>21. IsSeq(G) /\ Precedes(c, G) /\ \E n \in 1..Len(G) : G[n] = c
  <2>1. IsSeq(G) /\ Precedes(c, G) /\ Unites(G, F, S)
    BY <1>18, PrecedesBoth, BothAreSeq, BothHold
  <2> HIDE DEF G
  <2> QED BY <1>19, <2>1 DEF Unites
<1> HIDE DEF G
<1>22. Precedes(c, A) /\ \E n \in 1..Len(A) : A[n] = c
  <2>1. Precedes(c, G \o C) /\ Unites(G \o C, G, C)
    BY <1>18, <1>21, PrecedesBoth, BothHold
  <2>2. A = G \o C
    BY <1>20 DEF G
  <2>3. Precedes(c, A) /\ Unites(A, G, C)
    BY <2>1, <2>2
  <2> QED BY <1>21, <2>3 DEF Unites
<1> QED BY <1>13, <1>22 DEF A

\* The entry that comes first of an image.
FirstOf(img) ==
  CHOOSE i \in DOMAIN img :
    img[i].id \notin Added /\ \A j \in DOMAIN img : img[j].id \in Added \/ img[i].at <= img[j].at

LEMMA FirstIs ==
  ASSUME NEW img, IsSeq(img), NEW e, e \notin Added,
         NEW n \in 1..Len(img), img[n].id = e, img[n].at \in Nat, Precedes(img[n], img)
  PROVE  img[FirstOf(img)].id = e
<1> DEFINE First(i) ==
             img[i].id \notin Added /\ \A j \in DOMAIN img : img[j].id \in Added \/ img[i].at <= img[j].at
<1>1. DOMAIN img = 1..Len(img)
  BY DomainOfSeq
<1>2. \A j \in 1..Len(img) :
        img[j] = img[n] \/ img[j].id \in Added \/ (img[j].at \in Nat /\ img[n].at < img[j].at)
  BY DEF Precedes, Added
<1>3. n \in DOMAIN img /\ First(n)
  <2>1. ASSUME NEW j \in 1..Len(img) PROVE img[j].id \in Added \/ img[n].at <= img[j].at
    BY <1>2
  <2> QED BY <1>1, <2>1
<1>4. FirstOf(img) \in DOMAIN img /\ First(FirstOf(img))
  <2>1. FirstOf(img) = CHOOSE i \in DOMAIN img : First(i)
    BY Zenon DEF FirstOf
  <2> HIDE DEF First
  <2> QED BY <1>3, <2>1
<1> DEFINE i == FirstOf(img)
<1> HIDE DEF i
<1>5. i \in 1..Len(img) /\ img[i].id \notin Added /\ img[i].at <= img[n].at
  <2>1. img[n].id \notin Added
    OBVIOUS
  <2> QED BY <1>1, <1>4, <2>1 DEF i
<1>6. img[i] = img[n]
  <2>1. img[i] = img[n] \/ (img[i].at \in Nat /\ img[n].at < img[i].at)
    BY <1>2, <1>5
  <2>2. ~(img[i].at \in Nat /\ img[n].at < img[i].at)
    BY <1>5
  <2> QED BY <2>1, <2>2
<1> QED BY <1>6 DEF i

-----------------------------------------------------------------------------
(* From what is read to what is assembled.                                 *)

\* A program and a tree that together have everything read, and nothing else.
Balance(f, s, c, t, q) ==
  \A m : Countable(m) =>
    FunctionsCount(f, m) + DataCount(s, m) + DataCount(c, m) + ItemsCount(t, m)
      = ItemsCount(q, m)

\* Every function read that has an instruction is in the tree, or begins with it in
\* the program.
BeginsIn(f, item) ==
  \E j \in 1..Len(f) : f[j].name = item.name /\ StartsWith(f[j], Instructions(item)[1])

Begun(f, t, q) ==
  \A i \in 1..Len(q) :
    q[i].is = "function" /\ Instructions(q[i]) # <<>> =>
      (\E j \in 1..Len(t) : t[j] = q[i]) \/ BeginsIn(f, q[i])

LEMMA NothingRead ==
  /\ Balance(<<>>, <<>>, <<>>, <<>>, <<>>) /\ Begun(<<>>, <<>>, <<>>)
<1>1. Len(<<>>) = 0
  BY EmptyIsSeq
<1>2. Begun(<<>>, <<>>, <<>>)
  BY <1>1 DEF Begun
<1>3. ASSUME NEW m
      PROVE  FunctionsCount(<<>>, m) = 0 /\ DataCount(<<>>, m) = 0 /\ ItemsCount(<<>>, m) = 0
  <2>1. /\ [i \in 1..Len(<<>>) |-> FunctionCounts(<<>>[i], m)] = <<>>
        /\ [i \in 1..Len(<<>>) |-> DatumCounts(<<>>[i], m)] = <<>>
    BY <1>1
  <2>2. FunctionsCount(<<>>, m) = 0 /\ DataCount(<<>>, m) = 0
    BY <2>1, SumOfNone DEF FunctionsCount, DataCount
  <2> QED BY <2>2, ItemsNone
<1>4. Balance(<<>>, <<>>, <<>>, <<>>, <<>>)
  <2> SUFFICES ASSUME NEW m
               PROVE  FunctionsCount(<<>>, m) + DataCount(<<>>, m) + DataCount(<<>>, m)
                        + ItemsCount(<<>>, m) = ItemsCount(<<>>, m)
    BY DEF Balance
  <2>1. FunctionsCount(<<>>, m) = 0 /\ DataCount(<<>>, m) = 0 /\ ItemsCount(<<>>, m) = 0
    BY <1>3
  <2> QED BY <2>1
<1> QED BY <1>2, <1>4

\* A line that is read is read into the tree.
LEMMA ReadBalance ==
  ASSUME NEW f, FunctionList(f), NEW s, DataList(s), NEW c, DataList(c),
         NEW t, ItemList(t), NEW q, ItemList(q), NEW e,
         NEW u, ItemList(u), Len(u) = Len(t) + 1, u[Len(u)] = e, \A i \in 1..Len(t) : u[i] = t[i],
         NEW r, ItemList(r), Len(r) = Len(q) + 1, r[Len(r)] = e, \A i \in 1..Len(q) : r[i] = q[i]
  PROVE  /\ Balance(f, s, c, t, q) => Balance(f, s, c, u, r)
         /\ Begun(f, t, q) => Begun(f, u, r)
<1>1. ASSUME Balance(f, s, c, t, q), NEW m, Countable(m)
      PROVE  FunctionsCount(f, m) + DataCount(s, m) + DataCount(c, m) + ItemsCount(u, m)
               = ItemsCount(r, m)
  <2>1. ItemsCount(u, m) = ItemsCount(t, m) + ItemCounts(e, m)
    BY ItemsMore
  <2>2. ItemsCount(r, m) = ItemsCount(q, m) + ItemCounts(e, m)
    BY ItemsMore
  <2>3. FunctionsCount(f, m) + DataCount(s, m) + DataCount(c, m) + ItemsCount(t, m)
          = ItemsCount(q, m)
    BY <1>1 DEF Balance
  <2>4. /\ FunctionsCount(f, m) \in Nat /\ DataCount(s, m) \in Nat /\ DataCount(c, m) \in Nat
        /\ ItemsCount(t, m) \in Nat /\ ItemsCount(q, m) \in Nat
    BY FunctionsCountIs, DataCountIs, EmittedCounts
  <2>5. ItemCounts(e, m) \in Nat
    <3>1. Len(t) \in Nat
      BY DomainOfSeq DEF ItemList
    <3>2. IsItem(u[Len(u)])
      BY <3>1 DEF ItemList
    <3> QED BY <3>2, PartCountsIs
  <2>6. PICK a \in Nat, b \in Nat, d \in Nat, g \in Nat, h \in Nat, k \in Nat :
          /\ FunctionsCount(f, m) = a /\ DataCount(s, m) = b /\ DataCount(c, m) = d
          /\ ItemsCount(t, m) = g /\ ItemsCount(q, m) = h /\ ItemCounts(e, m) = k
    BY <2>4, <2>5
  <2> QED BY <2>1, <2>2, <2>3, <2>6
<1>2. ASSUME Begun(f, t, q), NEW i \in 1..Len(r), r[i].is = "function", Instructions(r[i]) # <<>>
      PROVE  (\E j \in 1..Len(u) : u[j] = r[i]) \/ BeginsIn(f, r[i])
  <2>1. Len(q) \in Nat /\ Len(t) \in Nat
    BY DomainOfSeq DEF ItemList
  <2>2. CASE i = Len(q) + 1
    <3>1. Len(u) \in 1..Len(u) /\ u[Len(u)] = r[i]
      BY <2>1, <2>2
    <3> QED BY <3>1
  <2>3. CASE i \in 1..Len(q)
    <3>1. r[i] = q[i]
      BY <2>3
    <3>2. (\E j \in 1..Len(t) : t[j] = q[i]) \/ BeginsIn(f, q[i])
      BY <1>2, <2>3, <3>1 DEF Begun
    <3>3. ASSUME NEW j \in 1..Len(t), t[j] = q[i] PROVE \E k \in 1..Len(u) : u[k] = q[i]
      <4>1. j \in 1..Len(u) /\ u[j] = q[i]
        BY <2>1, <3>3
      <4> QED BY <4>1
    <3> QED BY <3>1, <3>2, <3>3
  <2> QED BY <2>1, <2>2, <2>3
<1>3. Balance(f, s, c, t, q) => Balance(f, s, c, u, r)
  BY <1>1 DEF Balance
<1> QED BY <1>2, <1>3 DEF Begun

\* A pass over the functions, and one over the data.
LEMMA TameBalance ==
  ASSUME NEW f, NEW g, TamePass(g, f), NEW s, NEW c, NEW t, NEW q
  PROVE  /\ Balance(f, s, c, t, q) => Balance(g, s, c, t, q)
         /\ Begun(f, t, q) => Begun(g, t, q)
<1>1. /\ \A m : Countable(m) => FunctionsCount(g, m) = FunctionsCount(f, m)
      /\ \A i \in 1..Len(f) : /\ g[i].name = f[i].name
                              /\ \A id : StartsWith(f[i], id) => StartsWith(g[i], id)
  BY TamePassKeeps
<1>2. Balance(f, s, c, t, q) => Balance(g, s, c, t, q)
  BY <1>1 DEF Balance
<1>3. Len(g) = Len(f)
  BY DEF TamePass
<1>4. \A item : BeginsIn(f, item) => BeginsIn(g, item)
  BY <1>1, <1>3 DEF BeginsIn
<1> QED BY <1>2, <1>4 DEF Begun

LEMMA DataBalance ==
  ASSUME NEW s, DataList(s), NEW d, DataList(d), Len(d) = Len(s),
         \A i \in 1..Len(s) : DatumAlike(d[i], s[i]), NEW f, NEW c, NEW t, NEW q
  PROVE  /\ Balance(f, s, c, t, q) => Balance(f, d, c, t, q)
         /\ Balance(f, c, s, t, q) => Balance(f, c, d, t, q)
<1>1. \A m : DataCount(d, m) = DataCount(s, m)
  <2> TAKE m
  <2>1. \A i \in 1..Len(s) : DatumCounts(d[i], m) = DatumCounts(s[i], m)
    BY AlikeCounts
  <2> QED BY <2>1, AlikeData
<1> QED BY <1>1 DEF Balance

\* A function begins with the first of its instructions.
LEMMA CodeBegins ==
  ASSUME NEW f, IsSeq(f.stmts), Instructions(f) # <<>>
  PROVE  StartsWith(f, Instructions(f)[1]) /\ Instructions(f)[1] \in Range(Instructions(f))
<1> DEFINE q == f.stmts
           T == {i \in DOMAIN q : IsInstruction(q[i])}
           code == Selected(q, IsInstruction)
           ids == Instructions(f)
<1>1. /\ code = FlattenSeq(Ones(q, T)) /\ T \subseteq DOMAIN q
      /\ DOMAIN q = 1..Len(q) /\ \A i \in 1..Len(q) : (i \in T) <=> IsInstruction(q[i])
  BY SelectedIs, DomainOfSeq
<1>2. Len(q) \in Nat /\ Len(code) \in Nat /\ DOMAIN code = 1..Len(code) /\ IsSeq(code)
  BY CodeIsSeq, DomainOfSeq
<1>3. ids = [i \in 1..Len(code) |-> code[i].id]
  BY <1>2 DEF Instructions
<1> HIDE DEF T, code
<1>4. PICK o : StandsAt(code, q, T, o)
  BY <1>1, PickedInOrder
<1>5. 1 \in 1..Len(code)
  <2>1. Len(code) = 0 => ids = <<>>
    BY <1>3
  <2> QED BY <1>2, <2>1
<1>6. ids[1] = code[1].id /\ ids[1] \in Range(ids)
  BY <1>3, <1>5 DEF Range
<1> HIDE DEF q
<1>7. PICK k \in T : o[k] = 1
  BY <1>4, <1>5 DEF StandsAt
<1>10. code[1] = q[k]
  BY <1>4, <1>7 DEF StandsAt
<1>11. k \in 1..Len(q) /\ IsInstruction(q[k]) /\ q[k].id = ids[1]
  BY <1>1, <1>6, <1>7, <1>10
<1>12. \A j \in 1..(k - 1) : IsLabel(q[j])
  <2> TAKE j \in 1..(k - 1)
  <2>1. /\ j \in 1..Len(q) /\ j \in 0..Len(q) /\ k - 1 \in 0..Len(q) /\ k \in 0..Len(q)
        /\ j <= k - 1
    BY <1>2, <1>11
  <2>2. o[k] = o[k - 1] + 1 /\ o[k - 1] \in Nat /\ o[j] \in Nat /\ o[j] <= o[k - 1]
    BY <1>4, <2>1 DEF StandsAt
  <2>3. o[j] = 0
    BY <1>7, <2>2
  <2>4. j \notin T
    BY <1>2, <1>4, <2>3 DEF StandsAt
  <2> QED BY <1>1, <2>1, <2>4 DEF IsInstruction
<1>13. StartsWith(f, ids[1])
  BY <1>11, <1>12 DEF StartsWith, q
<1> QED BY <1>6, <1>13

LEMMA DefinitionBegins ==
  ASSUME NEW def, IsItem(def), def.is = "function", Instructions(def) # <<>>
  PROVE  /\ Definition(def).name = def.name
         /\ StartsWith(Definition(def), Instructions(def)[1])
<1> DEFINE f == Definition(def)
           id == Instructions(def)[1]
<1>1. /\ f.name = def.name /\ Len(f.stmts) = Len(def.stmts)
      /\ \A i \in 1..Len(def.stmts) : f.stmts[i] = WithArgs(def.stmts[i])
      /\ \A i \in 1..Len(def.stmts) : IsStatement(def.stmts[i])
      /\ IsSeq(def.stmts) /\ Len(def.stmts) \in Nat
  BY DefinitionIs, ListsAre, DomainOfSeq
<1>2. StartsWith(def, id)
  BY <1>1, CodeBegins
<1> HIDE DEF f, id
<1>3. \A i \in 1..Len(def.stmts) :
        /\ f.stmts[i].op = def.stmts[i].op /\ f.stmts[i].id = def.stmts[i].id
        /\ IsLabel(f.stmts[i]) <=> IsLabel(def.stmts[i])
  <2> TAKE i \in 1..Len(def.stmts)
  <2>1. f.stmts[i].op = def.stmts[i].op /\ f.stmts[i].id = def.stmts[i].id
    BY <1>1, WithArgsIs
  <2> QED BY <2>1 DEF IsLabel
<1>4. PICK k \in 1..Len(def.stmts) :
        /\ IsInstruction(def.stmts[k]) /\ def.stmts[k].id = id
        /\ \A j \in 1..(k - 1) : IsLabel(def.stmts[j]) \/ def.stmts[j].id \in Allocations
  BY <1>2 DEF StartsWith
<1>5. IsInstruction(f.stmts[k]) /\ f.stmts[k].id = id
  BY <1>3, <1>4 DEF IsInstruction
<1>6. \A j \in 1..(k - 1) : IsLabel(f.stmts[j]) \/ f.stmts[j].id \in Allocations
  <2> TAKE j \in 1..(k - 1)
  <2>1. j \in 1..Len(def.stmts)
    BY <1>1
  <2> QED BY <1>3, <1>4, <2>1
<1>7. StartsWith(f, id)
  BY <1>1, <1>5, <1>6 DEF StartsWith
<1> QED BY <1>1, <1>7 DEF f, id

\* The tree at the end of a source goes into the program.
LEMMA SourceBalance ==
  ASSUME NEW f, FunctionList(f), NEW s, DataList(s), NEW c, DataList(c),
         NEW t, ItemList(t), NEW q
  PROVE  LET F == f \o EmittedFunctions(t)
             S == s \o EmittedShared(t)
             C == c \o EmittedConstants(t)
         IN  /\ Balance(f, s, c, t, q) => Balance(F, S, C, <<>>, q)
             /\ Begun(f, t, q) => Begun(F, <<>>, q)
<1> DEFINE ef == EmittedFunctions(t)
           es == EmittedShared(t)
           ec == EmittedConstants(t)
<1>1. FunctionList(ef) /\ DataList(es) /\ DataList(ec)
  BY EmittedFunctionsAre, EmittedDataAre DEF PlacedData
<1>2. \A m : FunctionsCount(ef, m) + DataCount(es, m) + DataCount(ec, m) = ItemsCount(t, m)
  BY EmittedCounts
<1>3. \A j \in 1..Len(t) :
        t[j].is = "function" => \E i \in 1..Len(ef) : ef[i] = Definition(t[j])
  BY EmittedFunctionsAre
<1> HIDE DEF ef, es, ec
<1>4. ASSUME Balance(f, s, c, t, q), NEW m, Countable(m)
      PROVE  FunctionsCount(f \o ef, m) + DataCount(s \o es, m) + DataCount(c \o ec, m)
               + ItemsCount(<<>>, m) = ItemsCount(q, m)
  <2>1. /\ FunctionsCount(f \o ef, m) = FunctionsCount(f, m) + FunctionsCount(ef, m)
        /\ DataCount(s \o es, m) = DataCount(s, m) + DataCount(es, m)
        /\ DataCount(c \o ec, m) = DataCount(c, m) + DataCount(ec, m)
    BY <1>1, FunctionsOfBoth, DataOfBoth
  <2>2. ItemsCount(<<>>, m) = 0
    BY ItemsNone
  <2>3. /\ FunctionsCount(f, m) \in Nat /\ DataCount(s, m) \in Nat /\ DataCount(c, m) \in Nat
        /\ FunctionsCount(ef, m) \in Nat /\ DataCount(es, m) \in Nat /\ DataCount(ec, m) \in Nat
    BY <1>1, FunctionsCountIs, DataCountIs
  <2>4. FunctionsCount(f, m) + DataCount(s, m) + DataCount(c, m) + ItemsCount(t, m)
          = ItemsCount(q, m)
    BY <1>4 DEF Balance
  <2>5. FunctionsCount(ef, m) + DataCount(es, m) + DataCount(ec, m) = ItemsCount(t, m)
    BY <1>2
  <2>6. PICK a \in Nat, b \in Nat, d \in Nat, g \in Nat, h \in Nat, k \in Nat :
          /\ FunctionsCount(f, m) = a /\ DataCount(s, m) = b /\ DataCount(c, m) = d
          /\ FunctionsCount(ef, m) = g /\ DataCount(es, m) = h /\ DataCount(ec, m) = k
    BY <2>3
  <2> QED BY <2>1, <2>2, <2>4, <2>5, <2>6
<1>5. Balance(f, s, c, t, q) => Balance(f \o ef, s \o es, c \o ec, <<>>, q)
  BY <1>4 DEF Balance
<1>6. Unites(f \o ef, f, ef) /\ IsSeq(f) /\ IsSeq(ef)
  BY <1>1, BothHold DEF FunctionList
<1>7. /\ \A i \in 1..Len(f) : \E j \in 1..Len(f \o ef) : (f \o ef)[j] = f[i]
      /\ \A i \in 1..Len(ef) : \E j \in 1..Len(f \o ef) : (f \o ef)[j] = ef[i]
  BY <1>6 DEF Unites
<1>8. ASSUME Begun(f, t, q), NEW i \in 1..Len(q), q[i].is = "function", Instructions(q[i]) # <<>>
      PROVE  BeginsIn(f \o ef, q[i])
  <2>1. (\E j \in 1..Len(t) : t[j] = q[i]) \/ BeginsIn(f, q[i])
    BY <1>8 DEF Begun
  <2>2. CASE BeginsIn(f, q[i])
    BY <1>7, <2>2 DEF BeginsIn
  <2>3. ASSUME NEW j \in 1..Len(t), t[j] = q[i] PROVE BeginsIn(f \o ef, q[i])
    <3>1. PICK n \in 1..Len(ef) : ef[n] = Definition(q[i])
      BY <1>3, <1>8, <2>3
    <3>2. IsItem(q[i])
      BY <2>3 DEF ItemList
    <3>3. ef[n].name = q[i].name /\ StartsWith(ef[n], Instructions(q[i])[1])
      BY <1>8, <3>1, <3>2, DefinitionBegins
    <3> QED BY <1>7, <3>3 DEF BeginsIn
  <2> QED BY <2>1, <2>2, <2>3
<1>9. Begun(f, t, q) => Begun(f \o ef, <<>>, q)
  BY <1>8 DEF Begun
<1> QED BY <1>5, <1>9 DEF ef, es, ec

\* Main moves to the top.
MainTop(f) == \/ f = <<>> \/ f[1].name = <<"main">>
              \/ \A i \in 1..Len(f) : f[i].name # <<"main">>

LEMMA MainBalance ==
  ASSUME NEW f, FunctionList(f), NEW s, NEW c, NEW t, NEW q
  PROVE  /\ Balance(f, s, c, t, q) => Balance(MainToTop(f), s, c, t, q)
         /\ Begun(f, t, q) => Begun(MainToTop(f), t, q)
         /\ MainTop(MainToTop(f))
<1>1. /\ \A m : FunctionsCount(MainToTop(f), m) = FunctionsCount(f, m)
      /\ \A j \in 1..Len(f) : \E i \in 1..Len(MainToTop(f)) : MainToTop(f)[i] = f[j]
      /\ \/ MainToTop(f)[1].name = <<"main">>
         \/ \A i \in 1..Len(MainToTop(f)) : MainToTop(f)[i].name # <<"main">>
  BY MainKeeps
<1>2. Balance(f, s, c, t, q) => Balance(MainToTop(f), s, c, t, q)
  BY <1>1 DEF Balance
<1>3. \A item : BeginsIn(f, item) => BeginsIn(MainToTop(f), item)
  BY <1>1 DEF BeginsIn
<1>4. Begun(f, t, q) => Begun(MainToTop(f), t, q)
  BY <1>3 DEF Begun
<1> QED BY <1>1, <1>2, <1>4 DEF MainTop

\* An image of what was read: ImageIsWhole of any image and any list of items.
Whole(img, q) ==
  /\ CountedAsRead(img, q)
  /\ \A item \in Range(q) :
       item.is = "function" /\ item.name = <<"main">> =>
         img[FirstOf(img)].id = Instructions(item)[1]

LEMMA WholeIs == ImageIsWhole <=> (image # <<>> => Whole(image, read))
<1>1. ReadIds = IdsRead(read) /\ ReadNames = NamesRead(read)
  BY DEF ReadIds, ReadNames, IdsRead, NamesRead
<1>2. FirstOf(image) = CHOOSE i \in DOMAIN image :
                         image[i].id \notin Added
                           /\ \A j \in DOMAIN image :
                                image[j].id \in Added \/ image[i].at <= image[j].at
  BY DEF FirstOf
<1> QED BY <1>1, <1>2, Zenon DEF ImageIsWhole, Whole, CountedAsRead

\* The first instruction of a function is one of its ids.
LEMMA FirstIdIs ==
  ASSUME NEW item, IsItem(item), item.is = "function", Instructions(item) # <<>>, FreshIds(item)
  PROVE  Instructions(item)[1] \notin Added
<1> DEFINE d == Selected(Inherited(item.locals), InSection)
           ids == Instructions(item)
<1>1. IsSeq(item.stmts) /\ DataList(item.locals)
  BY DefinitionIs, ListsAre
<1>2. DataList(d)
  BY <1>1, KeptIds
<1>3. IsSeq(CellsOf(d))
  BY <1>2, CellsTimes
<1>4. IsSeq(ids) /\ ids[1] \in Range(ids)
  BY <1>1, ListedTimes, CodeBegins
<1>5. IdsOf(item) = ids \o CellsOf(d)
  BY DEF IdsOf
<1> HIDE DEF d, ids
<1>6. Unites(ids \o CellsOf(d), ids, CellsOf(d))
  BY <1>3, <1>4, BothHold
<1>7. PICK j \in 1..Len(ids) : ids[1] = ids[j]
  BY <1>4, DomainOfSeq DEF Range
<1>8. PICK i \in 1..Len(IdsOf(item)) : IdsOf(item)[i] = ids[j]
  BY <1>5, <1>6 DEF Unites
<1>9. ids[1] \in Range(IdsOf(item))
  <2>1. IsSeq(IdsOf(item))
    BY <1>5, <1>6 DEF Unites
  <2>2. i \in DOMAIN IdsOf(item)
    BY <2>1, DomainOfSeq
  <2> QED BY <1>7, <1>8, <2>2 DEF Range
<1> QED BY <1>9 DEF FreshIds, ids

\* Main begins the program that it is at the top of.
LEMMA MainBegins ==
  ASSUME NEW f, FunctionList(f), NEW s, DataList(s), NEW c, DataList(c), NEW q, ItemList(q),
         Balance(f, s, c, <<>>, q), Begun(f, <<>>, q), MainTop(f), NamesApart(q),
         NEW item, \E i \in 1..Len(q) : q[i] = item,
         item.is = "function", item.name = <<"main">>, Instructions(item) # <<>>
  PROVE  Len(f) >= 1 /\ StartsWith(f[1], Instructions(item)[1])
<1> DEFINE m == Name(<<"main">>)
<1>1. PICK i \in 1..Len(q) : q[i] = item
  OBVIOUS
<1>2. Len(<<>>) = 0
  BY EmptyIsSeq
<1>3. BeginsIn(f, item)
  <2>1. (\E j \in 1..Len(<<>>) : <<>>[j] = q[i]) \/ BeginsIn(f, q[i])
    BY <1>1 DEF Begun
  <2> QED BY <1>1, <1>2, <2>1
<1>4. PICK j \in 1..Len(f) :
        f[j].name = <<"main">> /\ StartsWith(f[j], Instructions(item)[1])
  BY <1>3 DEF BeginsIn
<1>5. Len(f) \in Nat /\ Len(f) >= 1
  <2>1. Len(f) \in Nat
    BY DomainOfSeq DEF FunctionList
  <2> QED BY <2>1
<1>6. FunctionsCount(f, m) <= 1
  <2>1. Countable(m)
    BY DEF Countable, Name
  <2>2. FunctionsCount(f, m) + DataCount(s, m) + DataCount(c, m) + ItemsCount(<<>>, m)
          = ItemsCount(q, m)
    BY <2>1, Zenon DEF Balance
  <2>3. ItemsCount(<<>>, m) = 0
    BY ItemsNone
  <2>4. /\ FunctionsCount(f, m) \in Nat /\ DataCount(s, m) \in Nat /\ DataCount(c, m) \in Nat
        /\ ItemsCount(q, m) \in Nat
    BY FunctionsCountIs, DataCountIs, EmittedCounts
  <2>5. ItemsCount(q, m) <= 1
    BY DEF NamesApart
  <2> HIDE DEF m
  <2>6. PICK a \in Nat, b \in Nat, d \in Nat, h \in Nat :
          /\ FunctionsCount(f, m) = a /\ DataCount(s, m) = b /\ DataCount(c, m) = d
          /\ ItemsCount(q, m) = h
    BY <2>4
  <2> QED BY <2>2, <2>3, <2>5, <2>6
<1>7. f # <<>>
  BY <1>2, <1>5
<1>8. f[1].name = <<"main">>
  BY <1>4, <1>7 DEF MainTop
<1>9. 1 \in 1..Len(f)
  BY <1>5
<1>10. j = 1
  BY <1>4, <1>6, <1>8, <1>9, OneOfTheName
<1> QED BY <1>4, <1>5, <1>10

LEMMA WholeAt ==
  ASSUME FunctionList(functions), AllCallsLegal(functions), DataList(shared), DataList(constants),
         NEW q, ItemList(q), \A i \in 1..Len(q) : Fresh(q[i]),
         Balance(functions, shared, constants, <<>>, q), Begun(functions, <<>>, q),
         MainTop(functions), NamesApart(q)
  PROVE  Whole(Assembled, q)
<1> DEFINE img == Assembled
<1>1. IsSeq(img)
  BY AssembledTimes
<1>2. AsRead(img, q)
  <2> SUFFICES ASSUME NEW x, x \notin Added
               PROVE  Times(img, "image", x) = ItemsCount(q, Id(x))
    BY DEF AsRead
  <2>1. Times(img, "image", x) = FunctionsCount(functions, Id(x)) + DataCount(shared, Id(x))
                                   + DataCount(constants, Id(x))
    BY AssembledTimes
  <2>2. Countable(Id(x))
    BY DEF Countable, Id
  <2>3. FunctionsCount(functions, Id(x)) + DataCount(shared, Id(x))
          + DataCount(constants, Id(x)) + ItemsCount(<<>>, Id(x)) = ItemsCount(q, Id(x))
    BY <2>2, Zenon DEF Balance
  <2>4. ItemsCount(<<>>, Id(x)) = 0
    BY ItemsNone
  <2>5. /\ FunctionsCount(functions, Id(x)) \in Nat /\ DataCount(shared, Id(x)) \in Nat
        /\ DataCount(constants, Id(x)) \in Nat
    BY FunctionsCountIs, DataCountIs
  <2> HIDE DEF img
  <2>6. PICK a \in Nat, b \in Nat, d \in Nat :
          /\ FunctionsCount(functions, Id(x)) = a /\ DataCount(shared, Id(x)) = b
          /\ DataCount(constants, Id(x)) = d
    BY <2>5
  <2> QED BY <2>1, <2>3, <2>4, <2>6
<1>3. \A i \in 1..Len(q) : FreshIds(q[i])
  BY DEF Fresh
<1> HIDE DEF img
<1>4. CountedAsRead(img, q)
  BY <1>1, <1>2, <1>3, CountsAreWhole
<1>5. ASSUME NEW item \in Range(q), item.is = "function", item.name = <<"main">>
      PROVE  img[FirstOf(img)].id = Instructions(item)[1]
  <2> DEFINE e == Instructions(item)[1]
  <2>1. PICK i \in 1..Len(q) : q[i] = item
    BY DomainOfSeq DEF Range, ItemList
  <2>2. IsItem(item) /\ FreshIds(item) /\ Instructions(item) # <<>>
    BY <1>5, <2>1 DEF ItemList, Fresh
  <2>3. e \notin Added
    BY <1>5, <2>2, FirstIdIs
  <2>4. Len(functions) >= 1 /\ StartsWith(functions[1], e)
    BY <1>5, <2>1, <2>2, MainBegins
  <2> HIDE DEF e
  <2>5. PICK n \in 1..Len(img) :
          img[n].id = e /\ img[n].at \in Nat /\ Precedes(img[n], img)
    BY <2>4, AssembledStarts DEF img
  <2>6. img[FirstOf(img)].id = e
    BY <1>1, <2>3, <2>5, FirstIs
  <2> QED BY <2>6 DEF e
<1> QED BY <1>4, <1>5 DEF Whole, img

\* No name was exposed twice, so none was read twice.
LEMMA ApartWhenExposed ==
  ASSUME NEW f, FunctionList(f), NEW s, DataList(s), NEW c, DataList(c), NEW q,
         Balance(f, s, c, <<>>, q), ~NamedTwice(f, s, c)
  PROVE  NamesApart(q)
<1> SUFFICES ASSUME NEW x PROVE ItemsCount(q, Name(x)) <= 1
  BY DEF NamesApart
<1> DEFINE m == Name(x)
<1>1. Countable(m)
  BY DEF Countable, Name
<1>2. FunctionsCount(f, m) + DataCount(s, m) + DataCount(c, m) + ItemsCount(<<>>, m)
        = ItemsCount(q, m)
  BY <1>1, Zenon DEF Balance
<1>3. ItemsCount(<<>>, m) = 0
  BY ItemsNone
<1>4. FunctionsCount(f, m) \in Nat /\ DataCount(s, m) \in Nat /\ DataCount(c, m) \in Nat
  BY FunctionsCountIs, DataCountIs
<1>5. FunctionsCount(f, m) + DataCount(s, m) + DataCount(c, m) <= 1
  BY NamesOnce
<1> HIDE DEF m
<1>6. PICK a \in Nat, b \in Nat, d \in Nat :
        FunctionsCount(f, m) = a /\ DataCount(s, m) = b /\ DataCount(c, m) = d
  BY <1>4
<1>7. ItemsCount(q, m) <= 1
  BY <1>2, <1>3, <1>5, <1>6
<1> QED BY <1>7 DEF m

-----------------------------------------------------------------------------
(* A build of one invocation that loads no objects.                        *)

PlainBuild ==
  /\ Len(plan) = 1 /\ plan[1].objects = <<>>
  /\ \A n \in Names :
       File[n] # NoFile =>
         \A line \in Range(disk[File[n]]) : line.is # "include" => Fresh(line)

\* The names are known to be apart, and main is at the top.
Linked == phase \in {"update", "values", "assemble"} \/ (phase = "place" /\ ~isObj)
Late   == phase \in {"local", "load"} \/ Linked

\* What was read and is not in the program yet.
Pending == IF phase = "reading" THEN Definitions ELSE <<>>

AllFresh(q) == \A i \in 1..Len(q) : Fresh(q[i])

PlainInv ==
  /\ ItemList(read) /\ AllFresh(read)
  /\ image # <<>> => phase = "done" /\ Whole(image, read)
  /\ phase \notin {"done", "failed"} =>
       Balance(functions, shared, constants, Pending, read) /\ Begun(functions, Pending, read)
  /\ Late => NamesApart(read)
  /\ Linked => MainTop(functions)

LEMMA PlainInit == Init => PlainInv
<1> SUFFICES ASSUME Init PROVE PlainInv
  OBVIOUS
<1>1. /\ phase = "source" /\ image = <<>> /\ read = <<>>
      /\ functions = <<>> /\ shared = <<>> /\ constants = <<>>
  BY DEF Init
<1>2. Pending = <<>> /\ ~Late /\ ~Linked
  BY <1>1 DEF Pending, Late, Linked
<1>3. Balance(<<>>, <<>>, <<>>, <<>>, <<>>) /\ Begun(<<>>, <<>>, <<>>)
  BY NothingRead
<1>4. ItemList(<<>>) /\ AllFresh(<<>>)
  BY ItemsNone, EmptyIsSeq DEF AllFresh
<1> QED BY <1>1, <1>2, <1>3, <1>4 DEF PlainInv

\* The steps of such a build: those that leave the program and what was read, ...
Rests ==
  /\ phase \notin {"done", "failed"}
  /\ UNCHANGED <<functions, shared, constants, read, image>>
  /\ phase' \notin {"done", "failed"} => Pending' = Pending
  /\ (Late' => Late) /\ (Linked' => Linked)

\* ... those that change the functions, ...
Steady ==
  /\ phase \in Emitting /\ phase' \in Emitting
  /\ UNCHANGED <<shared, constants, read, image>>

MadeOf(r, q) ==
  \/ \E p \in Prologues : r = [i \in DOMAIN q |-> Allocated(q[i], p)]
  \/ \E o : r = [i \in DOMAIN q |-> WithLocalValues(q[i], o)]
  \/ \E t, o : r = [i \in DOMAIN q |-> WithValues(q[i], t, o)]
  \/ \E k \in DOMAIN q, at \in Nat : r = [q EXCEPT ![k] = Placed(q[k], at)]

Passes == Steady /\ MadeOf(functions', functions) /\ (Late' => Late) /\ (Linked' => Linked)

Reveals ==
  /\ Steady /\ ~Linked'
  /\ ~NamedTwice(functions, shared, constants)
  /\ functions' = [i \in DOMAIN functions |-> Exposed(functions[i])]

Moves == Steady /\ Late /\ functions' = MainToTop(functions)

\* ... those that place data, and the last ones.
DataMoves(d, s) ==
  \E k \in DOMAIN s, at \in Nat : d = [s EXCEPT ![k] = DataAt(s[k], at)]

PlacesData ==
  /\ phase = "place" /\ phase' = "place" /\ isObj' = isObj
  /\ UNCHANGED <<functions, read, image>>
  /\ \/ DataMoves(shared', shared) /\ constants' = constants
     \/ DataMoves(constants', constants) /\ shared' = shared

Saves     == phase = "load" /\ phase' = "done" /\ UNCHANGED <<read, image>>
Assembles == phase = "assemble" /\ phase' = "done" /\ image' = Assembled /\ read' = read

\* The one invocation of the plan has no objects.
LEMMA PlainArgs ==
  ASSUME PlainBuild, PlanInv
  PROVE  step = 1 /\ ~(step < Len(plan)) /\ Len(Args.objects) = 0
<1>1. step = 1
  <2>1. DOMAIN plan = 1..1
    BY DomainOfSeq DEF PlanInv, PlainBuild
  <2> QED BY <2>1 DEF PlanInv
<1>2. Args.objects = <<>>
  BY <1>1 DEF Args, PlainBuild
<1> QED BY <1>1, <1>2, EmptyIsSeq DEF PlainBuild

LEMMA PlainSteps ==
  ASSUME PlainBuild, PlanInv, loads \in 0..Len(Args.objects), tempOffset \in Nat, [Next]_vars
  PROVE  \/ UNCHANGED vars
         \/ ReadLine \/ EndSource \/ Rests \/ Passes \/ Reveals \/ Moves
         \/ PlacesData \/ Saves \/ Assembles
<1> USE DEF planVars, outVars, programVars, placeVars
<1>0. ASSUME NEW why, Fail(why), phase \notin {"done", "failed"} PROVE Rests
  BY <1>0 DEF Fail, Rests, Late, Linked
<1>1. CASE OpenSource
  <2>1. /\ phase = "source" /\ phase' = "reading" /\ tree' = <<>>
        /\ UNCHANGED <<functions, shared, constants, read, image>>
    BY <1>1 DEF OpenSource, OpenFirstFile
  <2>2. Definitions' = <<>>
    BY <2>1 DEF Definitions
  <2>3. Pending' = <<>> /\ Pending = <<>>
    BY <2>1, <2>2 DEF Pending
  <2> QED BY <2>1, <2>3 DEF Rests, Late, Linked
<1>2. CASE Include \/ EndInclude
  <2>1. /\ phase = "reading" /\ phase' = phase /\ tree' = tree
        /\ UNCHANGED <<functions, shared, constants, read, image>>
    BY <1>2 DEF Include, EndInclude, OpenIncludeFile, CloseIncludeFile
  <2>2. Pending' = Pending
    BY <2>1 DEF Pending, Definitions
  <2> QED BY <2>1, <2>2 DEF Rests, Late, Linked
<1>3. CASE SourceMissing \/ IncludeFails \/ EndSourceFails \/ AllocationFails
  BY <1>0, <1>3 DEF SourceMissing, IncludeFails, EndSourceFails, AllocationFails
<1>4. CASE Check
  <2>1. /\ phase = "source"
        /\ \/ phase' = "temps" /\ UNCHANGED <<planVars, programVars, placeVars, loads, outVars>>
           \/ Fail("instructions")
    BY <1>4, Zenon DEF Check
  <2> QED BY <1>0, <2>1 DEF Rests, Late, Linked, Pending
<1>5. CASE EnsureTempsUsage
  <2>1. /\ phase = "temps"
        /\ \/ phase' = "place" /\ Rebuild(TRUE)
                /\ UNCHANGED <<planVars, programVars, loads, outVars>>
           \/ Fail("temporaries")
    BY <1>5, Zenon DEF EnsureTempsUsage
  <2> QED BY <1>0, <2>1 DEF Rests, Late, Linked, Pending, Rebuild
<1>6. CASE Allocate
  <2>1. /\ phase = "temps" /\ phase' = "place" /\ isObj'
        /\ UNCHANGED <<shared, constants, read, image>>
        /\ \E p \in Prologues : functions' = [i \in DOMAIN functions |-> Allocated(functions[i], p)]
    BY <1>6 DEF Allocate, Rebuild
  <2>2. MadeOf(functions', functions)
    BY <2>1, Zenon DEF MadeOf
  <2> QED BY <2>1, <2>2 DEF Passes, Steady, Emitting, Late, Linked
<1>7. CASE PlaceFunction
  <2>1. /\ phase = "place" /\ phase' = phase /\ isObj' = isObj
        /\ UNCHANGED <<shared, constants, read, image>>
        /\ placed.functions + 1 \in DOMAIN functions
        /\ functions' = [functions EXCEPT ![placed.functions + 1] =
                           Placed(functions[placed.functions + 1], tempOffset)]
    BY <1>7 DEF PlaceFunction
  <2>2. MadeOf(functions', functions)
    BY <2>1, Zenon DEF MadeOf
  <2> QED BY <2>1, <2>2 DEF Passes, Steady, Emitting, Late, Linked
<1>8. CASE PlaceShared \/ PlaceConstant
  <2>1. \A first : SectionStart(first) \in Nat
    BY DEF SectionStart
  <2>2. CASE PlaceShared
    <3> DEFINE k == placed.shared + 1
               at == SectionStart(k = 1)
    <3>1. /\ phase = "place" /\ phase' = phase /\ isObj' = isObj
          /\ UNCHANGED <<functions, constants, read, image>>
          /\ k \in DOMAIN shared /\ shared' = [shared EXCEPT ![k] = DataAt(shared[k], at)]
      BY <2>2 DEF PlaceShared
    <3>2. at \in Nat
      BY <2>1
    <3> HIDE DEF k, at
    <3>3. DataMoves(shared', shared)
      BY <3>1, <3>2, Zenon DEF DataMoves
    <3> QED BY <3>1, <3>3 DEF PlacesData
  <2>3. CASE PlaceConstant
    <3> DEFINE k == placed.constants + 1
               at == SectionStart(k = 1)
    <3>1. /\ phase = "place" /\ phase' = phase /\ isObj' = isObj
          /\ UNCHANGED <<functions, shared, read, image>>
          /\ k \in DOMAIN constants
          /\ constants' = [constants EXCEPT ![k] = DataAt(constants[k], at)]
      BY <2>3 DEF PlaceConstant
    <3>2. at \in Nat
      BY <2>1
    <3> HIDE DEF k, at
    <3>3. DataMoves(constants', constants)
      BY <3>1, <3>2, Zenon DEF DataMoves
    <3> QED BY <3>1, <3>3 DEF PlacesData
  <2> QED BY <1>8, <2>2, <2>3
<1>9. CASE EndPlacing
  <2>1. /\ phase = "place" /\ phase' = IF isObj THEN "expose" ELSE "update"
        /\ UNCHANGED <<programVars, placeVars, outVars>>
    BY <1>9 DEF EndPlacing
  <2> QED BY <2>1 DEF Rests, Late, Linked, Pending
<1>10. CASE ExposeGlobalLabels
  <2>1. /\ phase = "expose"
        /\ \/ Fail("duplicate")
           \/ /\ ~NamedTwice(functions, shared, constants)
              /\ functions' = [i \in DOMAIN functions |-> Exposed(functions[i])]
              /\ phase' = "local"
              /\ UNCHANGED <<shared, constants, outVars>>
    BY <1>10, Zenon DEF ExposeGlobalLabels
  <2>2. ASSUME ~NamedTwice(functions, shared, constants), phase' = "local",
               functions' = [i \in DOMAIN functions |-> Exposed(functions[i])],
               UNCHANGED <<shared, constants, outVars>>
        PROVE  Reveals
    BY <2>1, <2>2 DEF Reveals, Steady, Emitting, Linked
  <2> QED BY <1>0, <2>1, <2>2
<1>11. CASE AssignValuesToLocalLabels
  <2>1. /\ phase = "local" /\ phase' = "load"
        /\ functions' = [i \in DOMAIN functions |-> WithLocalValues(functions[i], Args.omitFP)]
        /\ UNCHANGED <<shared, constants, read, image>>
    BY <1>11 DEF AssignValuesToLocalLabels
  <2>2. MadeOf(functions', functions)
    BY <2>1, Zenon DEF MadeOf
  <2> QED BY <2>1, <2>2 DEF Passes, Steady, Emitting, Late, Linked
<1>12. CASE LoadObj
  <2>1. loads < Len(Args.objects)
    BY <1>12 DEF LoadObj
  <2> QED BY <2>1, PlainArgs
<1>13. CASE LoadFails
  <2>1. phase = "load" /\ \E why \in {"unreadable", "duplicate"} : Fail(why)
    BY <1>13 DEF LoadFails
  <2> QED BY <1>0, <2>1
<1>14. CASE SaveObj
  BY <1>14, PlainArgs DEF SaveObj, Succeed, Saves
<1>15. CASE Link
  <2>1. /\ phase = "load"
        /\ \/ Fail("prototypes")
           \/ /\ functions' = MainToTop(functions) /\ phase' = "place"
              /\ UNCHANGED <<shared, constants, outVars>>
    BY <1>15, Zenon DEF Link
  <2>2. ASSUME functions' = MainToTop(functions), phase' = "place",
               UNCHANGED <<shared, constants, outVars>>
        PROVE  Moves
    BY <2>1, <2>2 DEF Moves, Steady, Emitting, Late
  <2> QED BY <1>0, <2>1, <2>2
<1>16. CASE UpdateFunctionLabels
  BY <1>16 DEF UpdateFunctionLabels, Rests, Late, Linked, Pending
<1>17. CASE AssignValuesToLabels
  <2>1. /\ phase = "values"
        /\ \/ Fail("unbound")
           \/ /\ functions' = [i \in DOMAIN functions |->
                                 WithValues(functions[i], symbols, Args.omitFP)]
              /\ phase' = "assemble"
              /\ UNCHANGED <<shared, constants, outVars>>
    BY <1>17, Zenon DEF AssignValuesToLabels
  <2>2. ASSUME functions' = [i \in DOMAIN functions |->
                               WithValues(functions[i], symbols, Args.omitFP)],
               phase' = "assemble", UNCHANGED <<shared, constants, outVars>>
        PROVE  Passes
    <3>1. MadeOf(functions', functions)
      BY <2>2, Zenon DEF MadeOf
    <3> QED BY <2>1, <2>2, <3>1 DEF Passes, Steady, Emitting, Late, Linked
  <2> QED BY <1>0, <2>1, <2>2
<1>18. CASE Assemble
  BY <1>18, PlainArgs DEF Assemble, Succeed, Assembles
<1>19. CASE Finished \/ UNCHANGED vars
  BY <1>19 DEF Finished
<1> QED
  BY <1>1, <1>2, <1>3, <1>4, <1>5, <1>6, <1>7, <1>8, <1>9, <1>10, <1>11, <1>12, <1>13, <1>14,
     <1>15, <1>16, <1>17, <1>18, <1>19 DEF Next

\* One item more, read and in the tree.
OneMore(r, q, x) ==
  ItemList(r) /\ Len(r) = Len(q) + 1 /\ r[Len(r)] = x /\ \A i \in 1..Len(q) : r[i] = q[i]

LEMMA ItemAdded ==
  ASSUME NEW q, ItemList(q), NEW x, IsItem(x)
  PROVE  OneMore(Append(q, x), q, x)
<1> DEFINE r == Append(q, x)
<1>1. IsSeq(q) /\ Len(q) \in Nat /\ \A i \in 1..Len(q) : IsItem(q[i])
  BY DomainOfSeq DEF ItemList
<1>2. /\ IsSeq(r) /\ Len(r) = Len(q) + 1 /\ r[Len(q) + 1] = x
      /\ \A i \in 1..Len(q) : r[i] = q[i]
  BY <1>1, AppendIsSeq
<1> HIDE DEF r
<1>3. \A i \in 1..Len(r) : i \in 1..Len(q) \/ i = Len(q) + 1
  BY <1>1, <1>2
<1>4. ItemList(r)
  BY <1>1, <1>2, <1>3 DEF ItemList
<1> QED BY <1>2, <1>4 DEF OneMore, r

DefsOf(t) == [i \in DOMAIN t |-> t[i].def]

LEMMA DefinitionAdded ==
  ASSUME NEW t, IsSeq(t), NEW e, NEW u, u = Append(t, e), IsItem(e.def),
         ItemList(DefsOf(t))
  PROVE  OneMore(DefsOf(u), DefsOf(t), e.def)
<1> DEFINE d == DefsOf(t)
           v == DefsOf(u)
<1>0. d = [i \in DOMAIN t |-> t[i].def] /\ v = [i \in DOMAIN u |-> u[i].def]
  BY DEF DefsOf
<1>a. ItemList(d)
  OBVIOUS
<1> HIDE DEF d, v
<1>1. /\ IsSeq(u) /\ Len(u) = Len(t) + 1 /\ u[Len(t) + 1] = e
      /\ \A i \in 1..Len(t) : u[i] = t[i]
  BY AppendIsSeq
<1>2. /\ DOMAIN t = 1..Len(t) /\ Len(t) \in Nat
      /\ DOMAIN u = 1..(Len(t) + 1) /\ Len(u) \in Nat
  BY <1>1, DomainOfSeq
<1>3. d = [i \in 1..Len(t) |-> d[i]] /\ \A i \in 1..Len(t) : d[i] = t[i].def
  BY <1>0, <1>2
<1>4. v = [i \in 1..Len(u) |-> v[i]] /\ \A i \in 1..Len(u) : v[i] = u[i].def
  BY <1>0, <1>1, <1>2
<1>5. IsSeq(d) /\ Len(d) = Len(t)
  BY <1>2, <1>3, MapIsSeq
<1>6. IsSeq(v) /\ Len(v) = Len(u)
  BY <1>2, <1>4, MapIsSeq
<1>7. \A i \in 1..Len(d) : v[i] = d[i]
  BY <1>1, <1>2, <1>3, <1>4, <1>5
<1>8. v[Len(v)] = e.def
  BY <1>1, <1>2, <1>4, <1>6
<1>9. \A i \in 1..Len(v) : i \in 1..Len(d) \/ i = Len(v)
  BY <1>1, <1>2, <1>5, <1>6
<1>10. ItemList(v)
  BY <1>a, <1>6, <1>7, <1>8, <1>9 DEF ItemList
<1> QED BY <1>1, <1>5, <1>6, <1>7, <1>8, <1>10 DEF OneMore, d, v

\* The next line of a file of such a build.
LEMMA NextIsFresh ==
  ASSUME PlainBuild, PlanInv, Chain(disk, buffers), ReaderInv, FilesWell,
         buffers # <<>>, Unread, NextLine.is # "include"
  PROVE  IsItem(NextLine) /\ Fresh(NextLine)
<1> DEFINE n == Len(buffers)
           name == Top(buffers).name
           lines == disk[File[name]]
           k == Top(buffers).at + 1
<1>1. n \in 1..Len(buffers) /\ Top(buffers) = buffers[n]
  BY NextLocIs DEF Top
<1>2. OpenFile(disk, buffers[n])
  BY <1>1 DEF Chain
<1>3. name \in Names /\ File[name] # NoFile /\ Top(buffers).at \in 0..Len(lines)
  BY <1>1, <1>2 DEF OpenFile
<1>4. IsSeq(lines)
  BY <1>3 DEF PlanInv, Sound
<1>5. Top(buffers).at < Len(lines)
  BY DEF Unread
<1> HIDE DEF name
<1>6. Len(lines) \in Nat /\ DOMAIN lines = 1..Len(lines)
  BY <1>4, DomainOfSeq
<1>7. k \in DOMAIN lines
  BY <1>3, <1>5, <1>6
<1>8. NextLine = lines[k]
  BY DEF NextLine, name
<1>9. NextLine \in Range(lines)
  BY <1>7, <1>8 DEF Range
<1>10. Fresh(NextLine)
  BY <1>3, <1>9, Zenon DEF PlainBuild
<1> QED BY <1>10, NextLineIs

\* Every pass is tame.
LEMMA MadeTame ==
  ASSUME NEW q, FunctionList(q), NEW r, FunctionList(r), AllCallsLegal(q),
         MadeOf(r, q) \/ r = [i \in DOMAIN q |-> Exposed(q[i])]
  PROVE  TamePass(r, q)
<1>1. /\ DOMAIN q = 1..Len(q) /\ Len(q) \in Nat /\ \A i \in 1..Len(q) : IsFunction(q[i])
      /\ DOMAIN r = 1..Len(r) /\ Len(r) \in Nat
  BY DomainOfSeq DEF FunctionList
<1>2. DOMAIN r = DOMAIN q
  BY DEF MadeOf
<1>3. Len(r) = Len(q)
  <2>1. PICK a \in Nat : a = Len(r) /\ DOMAIN r = 1..a
    BY <1>1
  <2>2. PICK b \in Nat : b = Len(q) /\ DOMAIN q = 1..b
    BY <1>1
  <2>3. 1..a = 1..b
    BY <1>2, <2>1, <2>2
  <2>4. a = b
    <3>1. a > b => a \in 1..a /\ a \notin 1..b
      OBVIOUS
    <3>2. b > a => b \in 1..b /\ b \notin 1..a
      OBVIOUS
    <3> QED BY <2>3, <3>1, <3>2
  <2> QED BY <2>1, <2>2, <2>4
<1>4. ASSUME NEW i \in 1..Len(q) PROVE Tame(r[i], q[i])
  <2> DEFINE f == q[i]
  <2>1. /\ IsFunction(f) /\ CallsLegal(f.stmts) /\ i \in DOMAIN q
    BY <1>1 DEF AllCallsLegal
  <2>2. /\ \A p \in Prologues : Tame(Allocated(f, p), f)
        /\ Tame(Exposed(f), f)
        /\ \A o : Tame(WithLocalValues(f, o), f)
        /\ \A t, o : Tame(WithValues(f, t, o), f)
        /\ \A at \in Nat : Tame(Placed(f, at), f)
        /\ Tame(f, f)
    BY <2>1, PassesTame
  <2>3. ASSUME NEW p \in Prologues, r = [j \in DOMAIN q |-> Allocated(q[j], p)]
        PROVE  Tame(r[i], f)
    BY <2>1, <2>2, <2>3
  <2>4. ASSUME NEW o, r = [j \in DOMAIN q |-> WithLocalValues(q[j], o)] PROVE Tame(r[i], f)
    BY <2>1, <2>2, <2>4
  <2>5. ASSUME NEW t, NEW o, r = [j \in DOMAIN q |-> WithValues(q[j], t, o)]
        PROVE  Tame(r[i], f)
    BY <2>1, <2>2, <2>5
  <2>6. ASSUME NEW k \in DOMAIN q, NEW at \in Nat, r = [q EXCEPT ![k] = Placed(q[k], at)]
        PROVE  Tame(r[i], f)
    <3>1. r[i] = IF i = k THEN Placed(f, at) ELSE f
      BY <2>1, <2>6
    <3> QED BY <2>2, <3>1
  <2>7. CASE r = [j \in DOMAIN q |-> Exposed(q[j])]
    BY <2>1, <2>2, <2>7
  <2> QED BY <2>3, <2>4, <2>5, <2>6, <2>7 DEF MadeOf
<1> QED BY <1>3, <1>4 DEF TamePass

\* Placing data changes nothing that counts.
LEMMA MovedAlike ==
  ASSUME NEW s, DataList(s), NEW d, DataMoves(d, s)
  PROVE  Len(d) = Len(s) /\ \A i \in 1..Len(s) : DatumAlike(d[i], s[i])
<1>1. DOMAIN s = 1..Len(s) /\ Len(s) \in Nat /\ \A i \in 1..Len(s) : IsDatum(s[i])
  BY ListsAre, DomainOfSeq
<1>2. PICK k \in DOMAIN s, at \in Nat : d = [s EXCEPT ![k] = DataAt(s[k], at)]
  BY DEF DataMoves
<1>3. \A i \in 1..Len(s) : d[i] = IF i = k THEN DataAt(s[i], at) ELSE s[i]
  BY <1>1, <1>2
<1>4. d = [i \in 1..Len(s) |-> d[i]]
  BY <1>1, <1>2
<1>5. Len(d) = Len(s)
  BY <1>1, <1>4, MapIsSeq
<1>6. ASSUME NEW i \in 1..Len(s) PROVE DatumAlike(d[i], s[i])
  <2>1. IsDatum(s[i])
    BY <1>1
  <2>2. DatumAlike(DataAt(s[i], at), s[i])
    BY <1>2, <2>1, DataAtIs
  <2> QED BY <1>3, <2>2, AlikeItself
<1> QED BY <1>5, <1>6

\* What holds of a program that is made from another, at a phase that is not the last.
LEMMA SteadyPlain ==
  ASSUME PlainInv, Steady, ItemList(read'), AllFresh(read'),
         Balance(functions', shared', constants', <<>>, read'), Begun(functions', <<>>, read'),
         Late' => NamesApart(read'), Linked' => MainTop(functions')
  PROVE  PlainInv'
<1>1. phase \notin {"reading", "done", "failed"} /\ phase' \notin {"reading", "done", "failed"}
      /\ image' = image
  BY DEF Steady, Emitting
<1>2. image' = <<>>
  BY <1>1 DEF PlainInv
<1>3. Pending' = <<>>
  BY <1>1 DEF Pending
<1> QED BY <1>2, <1>3 DEF PlainInv

LEMMA RestsPlain ==
  ASSUME PlainInv, Rests
  PROVE  PlainInv'
<1>1. /\ phase \notin {"done", "failed"}
      /\ functions' = functions /\ shared' = shared /\ constants' = constants
      /\ read' = read /\ image' = image
      /\ phase' \notin {"done", "failed"} => Pending' = Pending
      /\ (Late' => Late) /\ (Linked' => Linked)
  BY DEF Rests
<1>2. image' = <<>>
  BY <1>1 DEF PlainInv
<1>3. /\ ItemList(read') /\ AllFresh(read')
      /\ Late' => NamesApart(read')
      /\ Linked' => MainTop(functions')
  BY <1>1 DEF PlainInv
<1>4. phase' \notin {"done", "failed"} =>
        /\ Balance(functions', shared', constants', Pending', read')
        /\ Begun(functions', Pending', read')
  BY <1>1 DEF PlainInv
<1> QED BY <1>2, <1>3, <1>4 DEF PlainInv

LEMMA PassesPlain ==
  ASSUME PlainInv, FunctionList(functions), FunctionList(functions'), AllCallsLegal(functions),
         Passes
  PROVE  PlainInv'
<1>1. /\ Steady /\ MadeOf(functions', functions) /\ (Late' => Late) /\ (Linked' => Linked)
      /\ phase \notin {"reading", "done", "failed"}
      /\ shared' = shared /\ constants' = constants /\ read' = read
  BY DEF Passes, Steady, Emitting
<1>2. TamePass(functions', functions)
  BY <1>1, MadeTame
<1>3. Balance(functions, shared, constants, <<>>, read) /\ Begun(functions, <<>>, read)
  BY <1>1 DEF PlainInv, Pending
<1>4. Balance(functions', shared, constants, <<>>, read) /\ Begun(functions', <<>>, read)
  BY <1>2, <1>3, TameBalance
<1>5. MainTop(functions) => MainTop(functions')
  <2>1. /\ Len(functions') = Len(functions) /\ IsSeq(functions) /\ IsSeq(functions')
        /\ \A i \in 1..Len(functions) : functions'[i].name = functions[i].name
    BY <1>2, TamePassKeeps DEF TamePass, FunctionList
  <2>2. Len(functions) \in Nat
    BY <2>1, DomainOfSeq
  <2>3. CASE functions = <<>>
    <3>1. Len(functions') = 0
      BY <2>1, <2>3, EmptyIsSeq
    <3>2. \A i \in 1..Len(functions') : functions'[i].name # <<"main">>
      BY <3>1
    <3> QED BY <3>2 DEF MainTop
  <2>4. CASE functions # <<>>
    <3>1. Len(functions) # 0
      <4>1. Len(functions) = 0 => \A i \in 1..Len(<<>>) : functions[i] = <<>>[i]
        BY EmptyIsSeq
      <4>2. Len(functions) = 0 => Len(functions) = Len(<<>>) /\ IsSeq(<<>>)
        BY EmptyIsSeq
      <4>3. Len(functions) = 0 => functions = <<>>
        BY <2>1, <4>1, <4>2, SameSeq
      <4> QED BY <2>4, <4>3
    <3>2. 1 \in 1..Len(functions)
      BY <2>2, <3>1
    <3> QED BY <2>1, <2>4, <3>2 DEF MainTop
  <2> QED BY <2>3, <2>4
<1>6. /\ ItemList(read') /\ AllFresh(read')
      /\ Late' => NamesApart(read')
      /\ Linked' => MainTop(functions')
  BY <1>1, <1>5 DEF PlainInv
<1>7. Balance(functions', shared', constants', <<>>, read') /\ Begun(functions', <<>>, read')
  BY <1>1, <1>4
<1> QED BY <1>1, <1>6, <1>7, SteadyPlain

LEMMA RevealsPlain ==
  ASSUME PlainInv, FunctionList(functions), FunctionList(functions'), AllCallsLegal(functions),
         DataList(shared), DataList(constants), Reveals
  PROVE  PlainInv'
<1>1. /\ Steady /\ ~Linked' /\ ~NamedTwice(functions, shared, constants)
      /\ functions' = [i \in DOMAIN functions |-> Exposed(functions[i])]
      /\ phase \notin {"reading", "done", "failed"}
      /\ shared' = shared /\ constants' = constants /\ read' = read
  BY DEF Reveals, Steady, Emitting
<1>2. TamePass(functions', functions)
  BY <1>1, MadeTame
<1>3. Balance(functions, shared, constants, <<>>, read) /\ Begun(functions, <<>>, read)
  BY <1>1 DEF PlainInv, Pending
<1>4. Balance(functions', shared, constants, <<>>, read) /\ Begun(functions', <<>>, read)
  BY <1>2, <1>3, TameBalance
<1>5. NamesApart(read)
  BY <1>1, <1>3, ApartWhenExposed
<1>6. ItemList(read') /\ AllFresh(read') /\ NamesApart(read')
  BY <1>1, <1>5 DEF PlainInv
<1>7. Balance(functions', shared', constants', <<>>, read') /\ Begun(functions', <<>>, read')
  BY <1>1, <1>4
<1> QED BY <1>1, <1>6, <1>7, SteadyPlain

LEMMA MovesPlain ==
  ASSUME PlainInv, FunctionList(functions), Moves
  PROVE  PlainInv'
<1>1. /\ Steady /\ Late /\ functions' = MainToTop(functions)
      /\ phase \notin {"reading", "done", "failed"}
      /\ shared' = shared /\ constants' = constants /\ read' = read
  BY DEF Moves, Steady, Emitting
<1>2. Balance(functions, shared, constants, <<>>, read) /\ Begun(functions, <<>>, read)
  BY <1>1 DEF PlainInv, Pending
<1>3. /\ Balance(functions', shared, constants, <<>>, read) /\ Begun(functions', <<>>, read)
      /\ MainTop(functions')
  BY <1>1, <1>2, MainBalance
<1>4. ItemList(read') /\ AllFresh(read') /\ NamesApart(read')
  BY <1>1 DEF PlainInv
<1>5. Balance(functions', shared', constants', <<>>, read') /\ Begun(functions', <<>>, read')
  BY <1>1, <1>3
<1> QED BY <1>1, <1>3, <1>4, <1>5, SteadyPlain

LEMMA DataPlain ==
  ASSUME PlainInv, DataList(shared), DataList(constants), DataList(shared'), DataList(constants'),
         PlacesData
  PROVE  PlainInv'
<1>1. /\ phase = "place" /\ phase' = "place" /\ isObj' = isObj
      /\ functions' = functions /\ read' = read /\ image' = image
      /\ \/ DataMoves(shared', shared) /\ constants' = constants
         \/ DataMoves(constants', constants) /\ shared' = shared
  BY DEF PlacesData
<1>2. Balance(functions, shared, constants, <<>>, read) /\ Begun(functions, <<>>, read)
  BY <1>1 DEF PlainInv, Pending
<1>3. Balance(functions, shared', constants', <<>>, read)
  <2>1. CASE DataMoves(shared', shared) /\ constants' = constants
    <3>1. Len(shared') = Len(shared) /\ \A i \in 1..Len(shared) : DatumAlike(shared'[i], shared[i])
      BY <2>1, MovedAlike
    <3>2. Balance(functions, shared', constants, <<>>, read)
      BY <1>2, <3>1, DataBalance
    <3> QED BY <2>1, <3>2
  <2>2. CASE DataMoves(constants', constants) /\ shared' = shared
    <3>1. /\ Len(constants') = Len(constants)
          /\ \A i \in 1..Len(constants) : DatumAlike(constants'[i], constants[i])
      BY <2>2, MovedAlike
    <3>2. Balance(functions, shared, constants', <<>>, read)
      BY <1>2, <3>1, DataBalance
    <3> QED BY <2>2, <3>2
  <2> QED BY <1>1, <2>1, <2>2
<1>4. Late' <=> Late
  BY <1>1 DEF Late, Linked
<1>5. Linked' <=> Linked
  BY <1>1 DEF Linked
<1>6. Pending' = <<>>
  BY <1>1 DEF Pending
<1>7. image' = <<>>
  BY <1>1 DEF PlainInv
<1>8. /\ ItemList(read') /\ AllFresh(read')
      /\ Late' => NamesApart(read')
      /\ Linked' => MainTop(functions')
  BY <1>1, <1>4, <1>5 DEF PlainInv
<1>9. /\ Balance(functions', shared', constants', Pending', read')
      /\ Begun(functions', Pending', read')
  BY <1>1, <1>2, <1>3, <1>6
<1> QED BY <1>7, <1>8, <1>9 DEF PlainInv

LEMMA ReadPlain ==
  ASSUME PlainBuild, PlanInv, Chain(disk, buffers), ReaderInv, FilesWell, TreeWell,
         FunctionList(functions), DataList(shared), DataList(constants),
         PlainInv, ReadLine
  PROVE  PlainInv'
<1> DEFINE e == [def |-> NextLine, loc |-> NextLoc]
           u == [i \in DOMAIN tree' |-> tree'[i].def]
<1>1. /\ phase = "reading" /\ phase' = phase
      /\ buffers # <<>> /\ Unread /\ NextLine.is # "include"
      /\ tree' = Append(tree, e) /\ read' = Append(read, NextLine)
      /\ functions' = functions /\ shared' = shared /\ constants' = constants /\ image' = image
  BY DEF ReadLine, ReadDefinition, programVars
<1>2. IsItem(NextLine) /\ Fresh(NextLine)
  BY <1>1, NextIsFresh
<1>3. e.def = NextLine
  OBVIOUS
<1> HIDE DEF e
<1>4. IsSeq(tree) /\ ItemList(Definitions)
  BY DefinitionsAre DEF ReaderInv
<1>5. OneMore(u, Definitions, NextLine)
  <2>1. Definitions = DefsOf(tree) /\ u = DefsOf(Append(tree, e))
    BY <1>1 DEF Definitions, DefsOf
  <2>2. ItemList(DefsOf(tree)) /\ IsItem(e.def)
    BY <1>2, <1>3, <1>4, <2>1
  <2>3. OneMore(DefsOf(Append(tree, e)), DefsOf(tree), e.def)
    BY <1>4, <2>2, DefinitionAdded
  <2> QED BY <1>3, <2>1, <2>3
<1>6. ItemList(read) /\ AllFresh(read)
  BY DEF PlainInv
<1>7. OneMore(read', read, NextLine)
  <2>1. OneMore(Append(read, NextLine), read, NextLine)
    BY <1>2, <1>6, ItemAdded
  <2> QED BY <1>1, <2>1
<1>8. AllFresh(read')
  <2>1. Len(read) \in Nat
    BY <1>6, DomainOfSeq DEF ItemList
  <2>2. \A i \in 1..Len(read') : i \in 1..Len(read) \/ i = Len(read')
    BY <1>7, <2>1 DEF OneMore
  <2> QED BY <1>2, <1>6, <1>7, <2>2 DEF AllFresh, OneMore
<1>9. Pending = Definitions /\ Pending' = u /\ ItemList(read')
  BY <1>1, <1>7 DEF Pending, Definitions, OneMore
<1> HIDE DEF u
<1>10. Balance(functions, shared, constants, Definitions, read)
       /\ Begun(functions, Definitions, read)
  BY <1>1, <1>9 DEF PlainInv
<1>11. Balance(functions, shared, constants, u, read') /\ Begun(functions, u, read')
  BY <1>4, <1>5, <1>6, <1>7, <1>10, ReadBalance DEF OneMore
<1>12. image' = <<>> /\ ~Late' /\ ~Linked'
  BY <1>1 DEF PlainInv, Late, Linked
<1>13. /\ Balance(functions', shared', constants', Pending', read')
       /\ Begun(functions', Pending', read')
  BY <1>1, <1>9, <1>11
<1> QED BY <1>8, <1>9, <1>12, <1>13 DEF PlainInv

LEMMA SourcePlain ==
  ASSUME ReaderInv, TreeWell, FunctionList(functions), DataList(shared), DataList(constants),
         PlainInv, EndSource
  PROVE  PlainInv'
<1> DEFINE t == Definitions
<1>1. /\ phase = "reading" /\ phase' = "source"
      /\ functions' = functions \o EmittedFunctions(t)
      /\ shared' = shared \o EmittedShared(t)
      /\ constants' = constants \o EmittedConstants(t)
      /\ read' = read /\ image' = image
  BY DEF EndSource, outVars
<1>2. ItemList(t)
  BY DefinitionsAre
<1>3. Pending = t /\ Pending' = <<>>
  BY <1>1 DEF Pending
<1> HIDE DEF t
<1>4. Balance(functions, shared, constants, t, read) /\ Begun(functions, t, read)
  BY <1>1, <1>3 DEF PlainInv
<1>5. /\ Balance(functions', shared', constants', <<>>, read)
      /\ Begun(functions', <<>>, read)
  BY <1>1, <1>2, <1>4, SourceBalance
<1>6. image' = <<>> /\ ~Late' /\ ~Linked'
  BY <1>1 DEF PlainInv, Late, Linked
<1>7. ItemList(read') /\ AllFresh(read')
  BY <1>1 DEF PlainInv
<1>8. /\ Balance(functions', shared', constants', Pending', read')
      /\ Begun(functions', Pending', read')
  BY <1>1, <1>3, <1>5
<1> QED BY <1>6, <1>7, <1>8 DEF PlainInv

LEMMA EndPlain ==
  ASSUME FunctionsWell, DataList(shared), DataList(constants), PlainInv, Saves \/ Assembles
  PROVE  PlainInv'
<1>1. phase' = "done" /\ read' = read /\ phase \in Emitting
  BY DEF Saves, Assembles, Emitting
<1>2. ItemList(read) /\ AllFresh(read)
  BY DEF PlainInv
<1>3. ~Late' /\ ~Linked'
  BY <1>1 DEF Late, Linked
<1>4. image' # <<>> => Whole(image', read')
  <2>1. CASE Saves
    BY <2>1 DEF Saves, PlainInv
  <2>2. CASE Assembles
    <3>1. phase = "assemble" /\ image' = Assembled
      BY <2>2 DEF Assembles
    <3>2. Linked /\ Late /\ Pending = <<>> /\ phase \notin {"done", "failed"}
      BY <3>1 DEF Linked, Late, Pending
    <3>3. /\ Balance(functions, shared, constants, <<>>, read) /\ Begun(functions, <<>>, read)
          /\ NamesApart(read) /\ MainTop(functions)
      BY <3>2 DEF PlainInv
    <3>4. FunctionList(functions) /\ AllCallsLegal(functions)
      BY <1>1 DEF FunctionsWell
    <3>5. \A i \in 1..Len(read) : Fresh(read[i])
      BY <1>2 DEF AllFresh
    <3>6. Whole(Assembled, read)
      BY <1>2, <3>3, <3>4, <3>5, WholeAt
    <3> QED BY <1>1, <3>1, <3>6
  <2> QED BY <2>1, <2>2
<1>5. ItemList(read') /\ AllFresh(read')
  BY <1>1, <1>2
<1> QED BY <1>1, <1>3, <1>4, <1>5 DEF PlainInv

LEMMA PlainStep ==
  ASSUME PlainBuild, PlanInv, Chain(disk, buffers), ReaderInv, TypeInv, PlainInv, [Next]_vars
  PROVE  PlainInv'
<1>1. /\ FilesWell /\ TreeWell /\ FunctionsWell
      /\ loads \in 0..Len(Args.objects) /\ tempOffset \in Nat
      /\ FunctionList(functions) /\ DataList(shared) /\ DataList(constants)
  BY DEF TypeInv, CountsWell, FunctionsWell, DataWell, PlacedData
<1>2. FunctionList(functions') /\ DataList(shared') /\ DataList(constants')
  <2>1. ProgramWell'
    BY ProgramStep
  <2> QED BY <2>1 DEF ProgramWell, FunctionsWell, DataWell, PlacedData
<1>3. \/ UNCHANGED vars
      \/ ReadLine \/ EndSource \/ Rests \/ Passes \/ Reveals \/ Moves
      \/ PlacesData \/ Saves \/ Assembles
  BY <1>1, PlainSteps
<1>4. CASE UNCHANGED vars
  <2>1. /\ phase' = phase /\ isObj' = isObj /\ tree' = tree /\ read' = read /\ image' = image
        /\ functions' = functions /\ shared' = shared /\ constants' = constants
    BY <1>4 DEF vars, planVars, readerVars, programVars, placeVars, outVars
  <2>2. Pending' = Pending /\ (Late' <=> Late) /\ (Linked' <=> Linked)
    BY <2>1 DEF Pending, Definitions, Late, Linked
  <2> QED BY <2>1, <2>2 DEF PlainInv
<1>5. CASE Passes \/ Reveals
  <2>1. AllCallsLegal(functions)
    <3>1. phase \in Emitting
      BY <1>5 DEF Passes, Reveals, Steady
    <3> QED BY <1>1, <3>1 DEF FunctionsWell
  <2> QED BY <1>1, <1>2, <1>5, <2>1, PassesPlain, RevealsPlain
<1> QED
  BY <1>1, <1>2, <1>3, <1>4, <1>5, ReadPlain, SourcePlain, RestsPlain, MovesPlain, DataPlain,
     EndPlain

\* In a build of one invocation without objects, whose sources use no id of what
\* allocation adds and whose main, if there is one, has an instruction, the image has
\* every instruction and every item of data that was read, exactly as often as it was
\* read and nothing else, no name was read twice, and main comes first: whatever the
\* sources include and in whatever order, and whatever the passes of Backend::emit
\* and Linker::link put in front, move or place.
THEOREM PlainImageIsWhole == Spec => [](PlainBuild => ImageIsWhole)
<1>1. Init => (PlainBuild => PlainInv)
  BY PlainInit
<1>2. /\ TypeInv /\ IncludeInv /\ ReaderInv /\ (PlainBuild => PlainInv) /\ [Next]_vars
      => (PlainBuild => PlainInv)'
  <2> SUFFICES ASSUME TypeInv, IncludeInv, ReaderInv, PlainBuild => PlainInv, [Next]_vars,
                      PlainBuild'
               PROVE  PlainInv'
    OBVIOUS
  <2>1. PlanInv /\ Chain(disk, buffers)
    BY DEF IncludeInv
  <2>2. disk' = disk /\ plan' = plan
    BY PlanSteps
  <2>3. PlainBuild
    BY <2>2 DEF PlainBuild
  <2> QED BY <2>1, <2>3, PlainStep
<1>3. PlainBuild /\ PlainInv => ImageIsWhole
  BY WholeIs DEF PlainInv
<1> QED BY <1>1, <1>2, <1>3, TypeAlways, PTL DEF Spec

-----------------------------------------------------------------------------
(* What becomes of a function of a source on its way into the image.       *)

\* Statements that no source has, and no labels that a source could name.
Foreign(p) == \A i \in 1..Len(p) : p[i].op # "label" /\ (IsLabel(p[i]) \/ p[i].id \in Allocations)

\* A function that passes have made of another.
DerivedFrom(g, f) == \E p : IsSeq(p) /\ Foreign(p) /\ Grown(g, f, p)

LEMMA AlikeThrough ==
  /\ \A r, s, t : StmtAlike(r, s) /\ StmtAlike(s, t) => StmtAlike(r, t)
  /\ \A c, d, e : DatumAlike(c, d) /\ DatumAlike(d, e) => DatumAlike(c, e)
<1>1. ASSUME NEW r, NEW s, NEW t, StmtAlike(r, s), StmtAlike(s, t)
      PROVE  StmtAlike(r, t)
  <2>1. /\ r.op = t.op /\ r.id = t.id /\ r.label = t.label
        /\ Len(r.args) = Len(t.args) /\ Len(s.args) = Len(t.args)
    BY <1>1, Zenon DEF StmtAlike
  <2>2. ASSUME NEW k \in 1..Len(t.args) PROVE ArgAlike(r.args[k], t.args[k])
    <3>1. ArgAlike(r.args[k], s.args[k]) /\ ArgAlike(s.args[k], t.args[k])
      BY <1>1, <2>1, Zenon DEF StmtAlike
    <3> QED BY <3>1 DEF ArgAlike
  <2> QED BY <2>1, <2>2 DEF StmtAlike
<1>2. ASSUME NEW c, NEW d, NEW e, DatumAlike(c, d), DatumAlike(d, e)
      PROVE  DatumAlike(c, e)
  BY <1>2, Zenon DEF DatumAlike
<1> QED BY <1>1, <1>2

LEMMA DerivedFromItself ==
  ASSUME NEW f, IsFunction(f)
  PROVE  DerivedFrom(f, f)
<1>1. Len(f.stmts) \in Nat
  BY ListsAre, DomainOfSeq DEF IsFunction
<1>2. Grown(f, f, <<>>)
  BY <1>1, GrownByNothing, AlikeItself
<1>3. IsSeq(<<>>) /\ Foreign(<<>>)
  BY EmptyIsSeq DEF Foreign
<1> QED BY <1>2, <1>3 DEF DerivedFrom

LEMMA DerivedThrough ==
  ASSUME NEW f, IsFunction(f), NEW g, NEW h, DerivedFrom(g, f), DerivedFrom(h, g)
  PROVE  DerivedFrom(h, f)
<1>1. PICK p : IsSeq(p) /\ Foreign(p) /\ Grown(g, f, p)
  BY DEF DerivedFrom
<1>2. PICK q : IsSeq(q) /\ Foreign(q) /\ Grown(h, g, q)
  BY DEF DerivedFrom
<1>3. PICK a \in Nat, b \in Nat, c \in Nat : Len(p) = a /\ Len(q) = b /\ Len(f.stmts) = c
  BY <1>1, <1>2, ListsAre, DomainOfSeq DEF IsFunction
<1>4. /\ Len(g.stmts) = a + c /\ Len(h.stmts) = b + (a + c)
      /\ h.name = f.name /\ h.loaded = f.loaded
      /\ Len(h.locals) = Len(f.locals) /\ Len(g.locals) = Len(f.locals)
  BY <1>1, <1>2, <1>3 DEF Grown
<1>5. /\ \A i \in 1..a : g.stmts[i] = p[i] /\ p[i].op # "label"
                         /\ (IsLabel(p[i]) \/ p[i].id \in Allocations)
      /\ \A i \in 1..c : StmtAlike(g.stmts[a + i], f.stmts[i])
      /\ \A i \in 1..b : h.stmts[i] = q[i] /\ q[i].op # "label"
                         /\ (IsLabel(q[i]) \/ q[i].id \in Allocations)
      /\ \A i \in 1..(a + c) : StmtAlike(h.stmts[b + i], g.stmts[i])
  BY <1>1, <1>2, <1>3, <1>4, Zenon DEF Grown, Foreign
<1> DEFINE r == [i \in 1..(b + a) |-> h.stmts[i]]
<1>6. r = [i \in 1..(b + a) |-> r[i]] /\ \A i \in 1..(b + a) : r[i] = h.stmts[i]
  OBVIOUS
<1> HIDE DEF r
<1>7. IsSeq(r) /\ Len(r) = b + a
  <2>1. b + a \in Nat
    OBVIOUS
  <2> QED BY <1>6, <2>1, MapIsSeq
<1>8. Foreign(r)
  <2>1. ASSUME NEW i \in 1..(b + a)
        PROVE  h.stmts[i].op # "label" /\ (IsLabel(h.stmts[i]) \/ h.stmts[i].id \in Allocations)
    <3>1. CASE i <= b
      <4>1. i \in 1..b
        BY <3>1
      <4> QED BY <1>5, <4>1
    <3>2. CASE ~(i <= b)
      <4>1. PICK j \in 1..a : i = b + j
        <5>1. i - b \in 1..a /\ i = b + (i - b)
          BY <3>2
        <5> QED BY <5>1
      <4>2. j \in 1..(a + c)
        BY <4>1
      <4>3. StmtAlike(h.stmts[i], g.stmts[j]) /\ g.stmts[j] = p[j]
        BY <1>5, <4>1, <4>2
      <4>4. h.stmts[i].op = p[j].op /\ h.stmts[i].id = p[j].id
        BY <4>3 DEF StmtAlike
      <4> QED BY <1>5, <4>1, <4>4 DEF IsLabel
    <3> QED BY <3>1, <3>2
  <2> QED BY <1>6, <1>7, <2>1 DEF Foreign
<1>9. Len(h.stmts) = Len(r) + Len(f.stmts)
  BY <1>3, <1>4, <1>7
<1>10. \A i \in 1..Len(f.stmts) : StmtAlike(h.stmts[Len(r) + i], f.stmts[i])
  <2> TAKE i \in 1..Len(f.stmts)
  <2>1. a + i \in 1..(a + c) /\ i \in 1..c /\ Len(r) + i = b + (a + i)
    BY <1>3, <1>7
  <2>2. StmtAlike(h.stmts[b + (a + i)], g.stmts[a + i]) /\ StmtAlike(g.stmts[a + i], f.stmts[i])
    BY <1>5, <2>1
  <2> QED BY <2>1, <2>2, AlikeThrough
<1>11. \A i \in 1..Len(f.locals) : DatumAlike(h.locals[i], f.locals[i])
  <2> TAKE i \in 1..Len(f.locals)
  <2>1. DatumAlike(h.locals[i], g.locals[i]) /\ DatumAlike(g.locals[i], f.locals[i])
    BY <1>1, <1>2, <1>4 DEF Grown
  <2> QED BY <2>1, AlikeThrough
<1>12. \A i \in 1..Len(r) : h.stmts[i] = r[i]
  BY <1>6, <1>7
<1>13. Grown(h, f, r)
  BY <1>4, <1>9, <1>10, <1>11, <1>12, Zenon DEF Grown
<1> QED BY <1>7, <1>8, <1>13 DEF DerivedFrom

\* Every pass is followed.
LEMMA PassesDerive ==
  ASSUME NEW f, IsFunction(f)
  PROVE  /\ \A p \in Prologues : DerivedFrom(Allocated(f, p), f)
         /\ DerivedFrom(Exposed(f), f)
         /\ \A o : DerivedFrom(WithLocalValues(f, o), f)
         /\ \A t, o : DerivedFrom(WithValues(f, t, o), f)
         /\ CallsLegal(f.stmts) => \A at \in Nat : DerivedFrom(Placed(f, at), f)
<1>0. IsSeq(<<>>) /\ Foreign(<<>>)
  BY EmptyIsSeq DEF Foreign
<1>1. ASSUME NEW p \in Prologues PROVE DerivedFrom(Allocated(f, p), f)
  <2>1. IsSeq(p) /\ Grown(Allocated(f, p), f, p)
    BY PrologueIs, AllocatedGrows
  <2>2. Foreign(p)
    BY PrologueIs DEF Foreign, IsLabel
  <2> QED BY <2>1, <2>2 DEF DerivedFrom
<1>2. DerivedFrom(Exposed(f), f)
  <2> DEFINE p == <<FunctionLabel(f)>>
  <2>1. IsSeq(p) /\ Len(p) = 1 /\ p[1] = FunctionLabel(f)
    BY OneIsSeq
  <2>2. /\ Grown(Exposed(f), f, p) /\ IsLabel(FunctionLabel(f))
        /\ FunctionLabel(f).op = "function"
    BY ExposedGrows
  <2> HIDE DEF p
  <2>3. Foreign(p)
    BY <2>1, <2>2 DEF Foreign
  <2> QED BY <2>1, <2>2, <2>3 DEF DerivedFrom
<1>3. ASSUME NEW o PROVE DerivedFrom(WithLocalValues(f, o), f)
  BY <1>0, LocalValuesGrow DEF DerivedFrom
<1>4. ASSUME NEW t, NEW o PROVE DerivedFrom(WithValues(f, t, o), f)
  BY <1>0, ValuesGrow DEF DerivedFrom
<1>5. ASSUME CallsLegal(f.stmts), NEW at \in Nat PROVE DerivedFrom(Placed(f, at), f)
  BY <1>0, <1>5, PlacedGrows DEF DerivedFrom
<1> QED BY <1>1, <1>2, <1>3, <1>4, <1>5

\* Every function read is in the tree, or passes have made one of the program of it.
DerivedIn(f, item) == \E j \in 1..Len(f) : DerivedFrom(f[j], Definition(item))

Traced(f, t, q) ==
  \A i \in 1..Len(q) :
    q[i].is = "function" => (\E j \in 1..Len(t) : t[j] = q[i]) \/ DerivedIn(f, q[i])

LEMMA ReadTraced ==
  ASSUME NEW f, NEW t, ItemList(t), NEW q, ItemList(q), NEW e, NEW u, OneMore(u, t, e),
         NEW r, OneMore(r, q, e), Traced(f, t, q)
  PROVE  Traced(f, u, r)
<1>1. /\ Len(q) \in Nat /\ Len(t) \in Nat /\ Len(u) = Len(t) + 1 /\ Len(r) = Len(q) + 1
      /\ u[Len(u)] = e /\ r[Len(r)] = e
      /\ \A i \in 1..Len(t) : u[i] = t[i]
      /\ \A i \in 1..Len(q) : r[i] = q[i]
  BY DomainOfSeq DEF ItemList, OneMore
<1> SUFFICES ASSUME NEW i \in 1..Len(r), r[i].is = "function"
             PROVE  (\E j \in 1..Len(u) : u[j] = r[i]) \/ DerivedIn(f, r[i])
  BY DEF Traced
<1>2. CASE i = Len(q) + 1
  <2>1. Len(u) \in 1..Len(u) /\ u[Len(u)] = r[i]
    BY <1>1, <1>2
  <2> QED BY <2>1
<1>3. CASE i \in 1..Len(q)
  <2>1. r[i] = q[i]
    BY <1>1, <1>3
  <2>2. (\E j \in 1..Len(t) : t[j] = q[i]) \/ DerivedIn(f, q[i])
    BY <1>3, <2>1 DEF Traced
  <2>3. ASSUME NEW j \in 1..Len(t), t[j] = q[i] PROVE \E k \in 1..Len(u) : u[k] = q[i]
    <3>1. j \in 1..Len(u) /\ u[j] = q[i]
      BY <1>1, <2>3
    <3> QED BY <3>1
  <2> QED BY <2>1, <2>2, <2>3
<1> QED BY <1>1, <1>2, <1>3

\* A pass over the functions.
DerivedPass(r, q) == Len(r) = Len(q) /\ \A i \in 1..Len(q) : DerivedFrom(r[i], q[i])

LEMMA MadeDerived ==
  ASSUME NEW q, FunctionList(q), NEW r, FunctionList(r), AllCallsLegal(q),
         MadeOf(r, q) \/ r = [i \in DOMAIN q |-> Exposed(q[i])]
  PROVE  DerivedPass(r, q)
<1>1. DOMAIN q = 1..Len(q) /\ \A i \in 1..Len(q) : IsFunction(q[i])
  BY DomainOfSeq DEF FunctionList
<1>2. Len(r) = Len(q)
  BY MadeTame DEF TamePass
<1>3. ASSUME NEW i \in 1..Len(q) PROVE DerivedFrom(r[i], q[i])
  <2> DEFINE f == q[i]
  <2>1. /\ IsFunction(f) /\ CallsLegal(f.stmts) /\ i \in DOMAIN q
    BY <1>1 DEF AllCallsLegal
  <2>2. /\ \A p \in Prologues : DerivedFrom(Allocated(f, p), f)
        /\ DerivedFrom(Exposed(f), f)
        /\ \A o : DerivedFrom(WithLocalValues(f, o), f)
        /\ \A t, o : DerivedFrom(WithValues(f, t, o), f)
        /\ \A at \in Nat : DerivedFrom(Placed(f, at), f)
        /\ DerivedFrom(f, f)
    BY <2>1, PassesDerive, DerivedFromItself
  <2>3. ASSUME NEW p \in Prologues, r = [j \in DOMAIN q |-> Allocated(q[j], p)]
        PROVE  DerivedFrom(r[i], f)
    BY <2>1, <2>2, <2>3
  <2>4. ASSUME NEW o, r = [j \in DOMAIN q |-> WithLocalValues(q[j], o)] PROVE DerivedFrom(r[i], f)
    BY <2>1, <2>2, <2>4
  <2>5. ASSUME NEW t, NEW o, r = [j \in DOMAIN q |-> WithValues(q[j], t, o)]
        PROVE  DerivedFrom(r[i], f)
    BY <2>1, <2>2, <2>5
  <2>6. ASSUME NEW k \in DOMAIN q, NEW at \in Nat, r = [q EXCEPT ![k] = Placed(q[k], at)]
        PROVE  DerivedFrom(r[i], f)
    <3>1. r[i] = IF i = k THEN Placed(f, at) ELSE f
      BY <2>1, <2>6
    <3> QED BY <2>2, <3>1
  <2>7. CASE r = [j \in DOMAIN q |-> Exposed(q[j])]
    BY <2>1, <2>2, <2>7
  <2> QED BY <2>3, <2>4, <2>5, <2>6, <2>7 DEF MadeOf
<1> QED BY <1>2, <1>3 DEF DerivedPass

LEMMA PassTraced ==
  ASSUME NEW f, NEW g, DerivedPass(g, f), NEW q, ItemList(q), Traced(f, <<>>, q)
  PROVE  Traced(g, <<>>, q)
<1> SUFFICES ASSUME NEW i \in 1..Len(q), q[i].is = "function"
             PROVE  DerivedIn(g, q[i])
  BY DEF Traced
<1>1. Len(<<>>) = 0
  BY EmptyIsSeq
<1>2. (\E j \in 1..Len(<<>>) : <<>>[j] = q[i]) \/ DerivedIn(f, q[i])
  BY Zenon DEF Traced
<1>3. PICK j \in 1..Len(f) : DerivedFrom(f[j], Definition(q[i]))
  BY <1>1, <1>2 DEF DerivedIn
<1>4. IsFunction(Definition(q[i]))
  BY DefinitionIs DEF ItemList
<1>5. j \in 1..Len(g) /\ DerivedFrom(g[j], f[j])
  BY DEF DerivedPass
<1>6. DerivedFrom(g[j], Definition(q[i]))
  BY <1>3, <1>4, <1>5, DerivedThrough
<1> QED BY <1>5, <1>6 DEF DerivedIn

LEMMA MainTraced ==
  ASSUME NEW f, FunctionList(f), NEW t, NEW q, Traced(f, t, q)
  PROVE  Traced(MainToTop(f), t, q)
<1>1. \A j \in 1..Len(f) : \E i \in 1..Len(MainToTop(f)) : MainToTop(f)[i] = f[j]
  BY MainKeeps
<1>2. \A item : DerivedIn(f, item) => DerivedIn(MainToTop(f), item)
  BY <1>1 DEF DerivedIn
<1> QED BY <1>2 DEF Traced

LEMMA SourceTraced ==
  ASSUME NEW f, FunctionList(f), NEW t, ItemList(t), NEW q, Traced(f, t, q)
  PROVE  Traced(f \o EmittedFunctions(t), <<>>, q)
<1> DEFINE ef == EmittedFunctions(t)
<1>1. /\ FunctionList(ef)
      /\ \A j \in 1..Len(t) :
           t[j].is = "function" => \E i \in 1..Len(ef) : ef[i] = Definition(t[j])
  BY EmittedFunctionsAre
<1> HIDE DEF ef
<1>2. Unites(f \o ef, f, ef)
  BY <1>1, BothHold DEF FunctionList
<1>3. /\ \A i \in 1..Len(f) : \E j \in 1..Len(f \o ef) : (f \o ef)[j] = f[i]
      /\ \A i \in 1..Len(ef) : \E j \in 1..Len(f \o ef) : (f \o ef)[j] = ef[i]
  BY <1>2 DEF Unites
<1>4. ASSUME NEW i \in 1..Len(q), q[i].is = "function" PROVE DerivedIn(f \o ef, q[i])
  <2>1. (\E j \in 1..Len(t) : t[j] = q[i]) \/ DerivedIn(f, q[i])
    BY <1>4 DEF Traced
  <2>2. CASE DerivedIn(f, q[i])
    BY <1>3, <2>2 DEF DerivedIn
  <2>3. ASSUME NEW j \in 1..Len(t), t[j] = q[i] PROVE DerivedIn(f \o ef, q[i])
    <3>1. PICK n \in 1..Len(ef) : ef[n] = Definition(q[i])
      BY <1>1, <1>4, <2>3
    <3>2. IsItem(q[i])
      BY <2>3 DEF ItemList
    <3>3. DerivedFrom(ef[n], Definition(q[i]))
      BY <1>4, <3>1, <3>2, DefinitionIs, DerivedFromItself
    <3> QED BY <1>3, <3>3 DEF DerivedIn
  <2> QED BY <2>1, <2>2, <2>3
<1> QED BY <1>4 DEF Traced, ef

-----------------------------------------------------------------------------
(* Where the locals on the stack are, and what the references to them say. *)

\* Functions whose locals differ in nothing but their places have their places alike.
LocalsAlike(g, f) ==
  /\ DataList(f.locals) /\ DataList(g.locals) /\ Len(g.locals) = Len(f.locals)
  /\ \A i \in 1..Len(f.locals) : DatumAlike(g.locals[i], f.locals[i])

LEMMA StacksAlike ==
  ASSUME NEW f, NEW g, LocalsAlike(g, f)
  PROVE  /\ StackedDataSize(g) = StackedDataSize(f)
         /\ \A i \in 1..Len(f.locals) : /\ DataSize(g.locals[i]) = DataSize(f.locals[i])
                                        /\ LocalAt(g, i) = LocalAt(f, i)
<1>1. /\ DataList(f.locals) /\ DataList(g.locals) /\ Len(g.locals) = Len(f.locals)
      /\ Len(f.locals) \in Nat
  BY ListsAre, DomainOfSeq DEF LocalsAlike
<1>2. \A i \in 1..Len(f.locals) : DataSize(g.locals[i]) = DataSize(f.locals[i])
  BY DEF LocalsAlike, DatumAlike, DataSize
<1>3. PICK s : Stack(s, f)
  BY <1>1, StackIs
<1>4. IsStack(s, g.locals)
  BY <1>1, <1>2, <1>3 DEF Stack, IsStack
<1>5. Stack(s, g)
  BY <1>1, <1>4, StackFrom
<1>6. StackedDataSize(g) = StackedDataSize(f)
  BY <1>1, <1>3, <1>5 DEF Stack
<1>7. ASSUME NEW i \in 1..Len(f.locals) PROVE LocalAt(g, i) = LocalAt(f, i)
  <2>1. \A j \in 1..(i - 1) : DataSize(g.locals[j]) = DataSize(f.locals[j])
    BY <1>1, <1>2
  <2>2. [j \in 1..(i - 1) |-> DataSize(g.locals[j])] = [j \in 1..(i - 1) |-> DataSize(f.locals[j])]
    BY <2>1
  <2> QED BY <1>6, <2>2, Zenon DEF LocalAt
<1> QED BY <1>2, <1>6, <1>7

\* The locals of a function are where Linker puts them.
Put(f) == \A i \in 1..Len(f.locals) : f.locals[i].offset = LocalAt(f, i)

LEMMA PlacedPut ==
  ASSUME NEW f, IsFunction(f), CallsLegal(f.stmts), NEW at \in Nat
  PROVE  Put(Placed(f, at))
<1> DEFINE g == Placed(f, at)
<1>1. DataList(f.locals) /\ g.locals = LocalsPlaced(f)
  BY PlacedGrows DEF IsFunction
<1> HIDE DEF g
<1>2. /\ DataList(g.locals) /\ Len(g.locals) = Len(f.locals)
      /\ \A i \in 1..Len(f.locals) : /\ DatumAlike(g.locals[i], f.locals[i])
                                     /\ g.locals[i].offset = LocalAt(f, i)
  BY <1>1, LocalsPlacedAre
<1>3. \A i \in 1..Len(f.locals) : LocalAt(g, i) = LocalAt(f, i)
  BY <1>1, <1>2, StacksAlike DEF LocalsAlike
<1> QED BY <1>2, <1>3 DEF Put, g

LEMMA SamePut ==
  ASSUME NEW f, DataList(f.locals), NEW g, g.locals = f.locals, Put(f)
  PROVE  Put(g)
<1>1. LocalsAlike(g, f)
  BY AlikeItself DEF LocalsAlike
<1> QED BY <1>1, StacksAlike DEF Put

\* The argument of a reference to a local on the stack.
StackPlace(f, x, o) ==
  LET there == f.locals[CHOOSE i \in StackLabelled(f, x) : TRUE].offset
  IN  IF o THEN StackedDataSize(f) - there ELSE -there

AtStack(a, f, x, o) ==
  a.type = "DISPLACED" /\ a.base = (IF o THEN "SP" ELSE "FP") /\ a.val = StackPlace(f, x, o)

StackArg(f, a, o) ==
  Refers(a) /\ CodeLabelled(f, a.label) = {} /\ StackLabelled(f, a.label) # {} =>
    AtStack(a, f, a.label, o)

StackBound(f, o) ==
  \A i \in 1..Len(f.stmts) : \A k \in 1..Len(f.stmts[i].args) : StackArg(f, f.stmts[i].args[k], o)

LEMMA BoundOnStack ==
  ASSUME NEW f, NEW s, NEW a, IsArgument(a), NEW t, NEW o,
         CodeLabelled(f, a.label) = {}, StackLabelled(f, a.label) # {}
  PROVE  AtStack(Bound(f, s, a, t, o), f, a.label, o)
<1> DEFINE base == IF o THEN "SP" ELSE "FP"
           val == StackPlace(f, a.label, o)
<1>1. IsLocal(f, a.label)
  BY DEF IsLocal
<1>2. Bound(f, s, a, t, o) = LocallyBound(f, s, a, o)
  BY <1>1 DEF Bound
<1>3. LocallyBound(f, s, a, o) = [a EXCEPT !.type = "DISPLACED", !.base = base, !.val = val]
  BY Zenon DEF LocallyBound, StackPlace
<1>4. DOMAIN a = ArgFields
  BY ShapesAre
<1> HIDE DEF base, val
<1>5. /\ [a EXCEPT !.type = "DISPLACED", !.base = base, !.val = val].type = "DISPLACED"
      /\ [a EXCEPT !.type = "DISPLACED", !.base = base, !.val = val].base = base
      /\ [a EXCEPT !.type = "DISPLACED", !.base = base, !.val = val].val = val
  BY <1>4 DEF ArgFields
<1> QED BY <1>2, <1>3, <1>5 DEF AtStack, base, val

\* What a function is made of by values has the same labels.
LEMMA LabelsAlike ==
  ASSUME NEW f, IsFunction(f), NEW g, IsFunction(g), Grown(g, f, <<>>), g.locals = f.locals
  PROVE  /\ \A x : CodeLabelled(g, x) = CodeLabelled(f, x)
         /\ \A x : StackLabelled(g, x) = StackLabelled(f, x)
         /\ \A x, o : StackPlace(g, x, o) = StackPlace(f, x, o)
<1>1. /\ DOMAIN f.stmts = 1..Len(f.stmts) /\ DOMAIN g.stmts = 1..Len(g.stmts)
      /\ Len(f.stmts) \in Nat /\ DataList(f.locals)
  BY ListsAre, DomainOfSeq DEF IsFunction
<1>2. Len(g.stmts) = Len(f.stmts) /\ g.loaded = f.loaded
      /\ \A i \in 1..Len(f.stmts) : StmtAlike(g.stmts[i], f.stmts[i])
  <2>1. Len(<<>>) = 0
    BY EmptyIsSeq
  <2>2. \A i \in 1..Len(f.stmts) : 0 + i = i
    BY <1>1
  <2> QED BY <1>1, <2>1, <2>2 DEF Grown
<1>3. \A i \in DOMAIN f.stmts : /\ g.stmts[i].op = f.stmts[i].op
                                /\ g.stmts[i].label = f.stmts[i].label
  BY <1>1, <1>2 DEF StmtAlike
<1>4. \A x : CodeLabelled(g, x) = CodeLabelled(f, x)
  BY <1>1, <1>2, <1>3 DEF CodeLabelled, CodeLabels
<1>5. \A x : StackLabelled(g, x) = StackLabelled(f, x)
  BY DEF StackLabelled, StackLabels
<1>6. StackedDataSize(g) = StackedDataSize(f)
  <2>1. LocalsAlike(g, f)
    BY <1>1, AlikeItself DEF LocalsAlike
  <2> QED BY <2>1, StacksAlike
<1>7. ASSUME NEW x, NEW o PROVE StackPlace(g, x, o) = StackPlace(f, x, o)
  <2>1. StackLabelled(g, x) = StackLabelled(f, x) /\ g.locals = f.locals
    BY <1>5
  <2>2. (CHOOSE i \in StackLabelled(g, x) : TRUE) = (CHOOSE i \in StackLabelled(f, x) : TRUE)
    BY <2>1
  <2> QED BY <1>6, <2>1, <2>2 DEF StackPlace
<1> QED BY <1>4, <1>5, <1>7

LEMMA ValuesBound ==
  ASSUME NEW f, IsFunction(f), NEW t, NEW o
  PROVE  StackBound(WithValues(f, t, o), o)
<1> DEFINE Arg(s, a) == IF Refers(a) /\ TRUE THEN Bound(f, s, a, t, o) ELSE a
           g == WithValues(f, t, o)
<1>1. /\ IsFunction(g) /\ Grown(g, f, <<>>) /\ g.locals = f.locals
  BY ValuesGrow
<1>2. g = [f EXCEPT !.stmts = [i \in DOMAIN f.stmts |->
             [f.stmts[i] EXCEPT !.args =
                [k \in DOMAIN f.stmts[i].args |-> Arg(f.stmts[i], f.stmts[i].args[k])]]]]
  BY Zenon DEF WithValues, Rebound
<1>3. DOMAIN f.stmts = 1..Len(f.stmts) /\ DOMAIN f = FunctionFields
      /\ \A i \in 1..Len(f.stmts) : IsStatement(f.stmts[i])
  BY ListsAre, DomainOfSeq DEF IsFunction
<1>4. /\ \A x : CodeLabelled(g, x) = CodeLabelled(f, x)
      /\ \A x : StackLabelled(g, x) = StackLabelled(f, x)
      /\ \A x : StackPlace(g, x, o) = StackPlace(f, x, o)
  BY <1>1, LabelsAlike
<1>5. Len(g.stmts) = Len(f.stmts)
  <2>1. Len(<<>>) = 0 /\ Len(f.stmts) \in Nat
    BY <1>1, EmptyIsSeq, ListsAre, DomainOfSeq DEF IsFunction
  <2> QED BY <1>1, <2>1 DEF Grown
<1> HIDE DEF Arg
<1>6. ASSUME NEW i \in 1..Len(f.stmts)
      PROVE  /\ DOMAIN g.stmts[i].args = 1..Len(f.stmts[i].args)
             /\ \A k \in 1..Len(f.stmts[i].args) :
                  g.stmts[i].args[k] = Arg(f.stmts[i], f.stmts[i].args[k])
  <2>1. /\ DOMAIN f.stmts[i] = StmtFields
        /\ DOMAIN f.stmts[i].args = 1..Len(f.stmts[i].args)
    BY <1>3, ShapesAre, ListsAre, DomainOfSeq
  <2>2. g.stmts[i] = [f.stmts[i] EXCEPT !.args =
                        [k \in DOMAIN f.stmts[i].args |-> Arg(f.stmts[i], f.stmts[i].args[k])]]
    BY <1>2, <1>3 DEF FunctionFields
  <2>3. g.stmts[i].args = [k \in DOMAIN f.stmts[i].args |-> Arg(f.stmts[i], f.stmts[i].args[k])]
    BY <2>1, <2>2 DEF StmtFields
  <2> QED BY <2>1, <2>3
<1> HIDE DEF g
<1>7. ASSUME NEW i \in 1..Len(f.stmts), NEW k \in 1..Len(f.stmts[i].args)
      PROVE  StackArg(g, g.stmts[i].args[k], o)
  <2> DEFINE a == f.stmts[i].args[k]
             b == g.stmts[i].args[k]
  <2>1. b = Arg(f.stmts[i], a) /\ IsArgument(a)
    BY <1>3, <1>6, <1>7, ShapesAre, ListsAre
  <2> HIDE DEF a, b
  <2>2. b.label = a.label
    BY <2>1, BoundIs DEF Arg, ArgAlike
  <2>3. SUFFICES ASSUME Refers(b), CodeLabelled(g, b.label) = {}, StackLabelled(g, b.label) # {}
                 PROVE  AtStack(b, g, b.label, o)
    BY DEF StackArg, b
  <2>4. b = Bound(f, f.stmts[i], a, t, o)
    BY <2>1, <2>2, <2>3 DEF Arg, Refers
  <2>5. CodeLabelled(f, a.label) = {} /\ StackLabelled(f, a.label) # {}
    BY <1>4, <2>2, <2>3
  <2>6. AtStack(b, f, a.label, o)
    BY <2>1, <2>4, <2>5, BoundOnStack
  <2>7. StackPlace(g, b.label, o) = StackPlace(f, a.label, o)
    BY <1>4, <2>2
  <2> QED BY <2>6, <2>7 DEF AtStack
<1>8. \A i \in 1..Len(f.stmts) : Len(g.stmts[i].args) = Len(f.stmts[i].args)
  <2> TAKE i \in 1..Len(f.stmts)
  <2>1. /\ IsSeq(f.stmts[i].args) /\ IsStatement(f.stmts[i])
    BY <1>3, ShapesAre, ListsAre
  <2>2. Len(f.stmts[i].args) \in Nat
    BY <2>1, DomainOfSeq
  <2>3. StmtAlike(g.stmts[i], f.stmts[i])
    <3>1. Len(<<>>) = 0 /\ 0 + i = i
      BY EmptyIsSeq
    <3> QED BY <1>1, <3>1 DEF Grown
  <2> QED BY <2>3 DEF StmtAlike
<1> QED BY <1>5, <1>7, <1>8 DEF StackBound, g

-----------------------------------------------------------------------------
(* Where an instruction that was read is in the image.                     *)

\* An instruction of a function is one of its instructions by id, and one is emitted
\* for it.
LEMMA InstructionListed ==
  ASSUME NEW f, StmtList(f.stmts), NEW i \in 1..Len(f.stmts), IsInstruction(f.stmts[i])
  PROVE  /\ f.stmts[i].id \in Range(Instructions(f))
         /\ \A at : \E n \in 1..Len(EmittedCode(f, at)) :
              /\ EmittedCode(f, at)[n].id = f.stmts[i].id
              /\ EmittedCode(f, at)[n].args = Encoded(f.stmts[i])
<1> DEFINE T == {k \in DOMAIN f.stmts : IsInstruction(f.stmts[k])}
           code == Selected(f.stmts, IsInstruction)
<1>1. IsSeq(f.stmts) /\ DOMAIN f.stmts = 1..Len(f.stmts)
  BY ListsAre, DomainOfSeq
<1>2. i \in T
  BY <1>1
<1>3. code = FlattenSeq(Ones(f.stmts, T)) /\ T \subseteq DOMAIN f.stmts
  BY SelectedIs
<1>4. DOMAIN code = 1..Len(code) /\ Len(code) \in Nat
  BY <1>1, CodeIsSeq
<1>5. Instructions(f) = [k \in DOMAIN code |-> code[k].id]
  BY Zenon DEF Instructions
<1>6. \A at : \E Off :
        EmittedCode(f, at) = [k \in DOMAIN code |->
          Emission(Off[k], code[k].id, StmtSize(code[k]), Encoded(code[k]))]
  <2> TAKE at
  <2> DEFINE Off == [k \in DOMAIN code |-> at + SumOf([j \in 1..(k - 1) |-> StmtSize(code[j])])]
  <2>1. EmittedCode(f, at) = [k \in DOMAIN code |->
          Emission(at + SumOf([j \in 1..(k - 1) |-> StmtSize(code[j])]),
                   code[k].id, StmtSize(code[k]), Encoded(code[k]))]
    BY Zenon DEF EmittedCode
  <2>2. \A k \in DOMAIN code : Off[k] = at + SumOf([j \in 1..(k - 1) |-> StmtSize(code[j])])
    OBVIOUS
  <2> HIDE DEF Off, code
  <2>3. EmittedCode(f, at) = [k \in DOMAIN code |->
          Emission(Off[k], code[k].id, StmtSize(code[k]), Encoded(code[k]))]
    BY <2>1, <2>2
  <2> QED BY <2>3
<1> HIDE DEF code, T
<1>7. Picks(code, f.stmts, T)
  BY <1>1, <1>3, PickedOf
<1>8. PICK k \in 1..Len(code) : code[k] = f.stmts[i]
  BY <1>2, <1>7 DEF Picks
<1>9. f.stmts[i].id \in Range(Instructions(f))
  <2>1. Instructions(f)[k] = f.stmts[i].id /\ k \in DOMAIN Instructions(f)
    BY <1>4, <1>5, <1>8
  <2> QED BY <2>1 DEF Range
<1>10. ASSUME NEW at
       PROVE  \E n \in 1..Len(EmittedCode(f, at)) :
                /\ EmittedCode(f, at)[n].id = f.stmts[i].id
                /\ EmittedCode(f, at)[n].args = Encoded(f.stmts[i])
  <2> DEFINE q == EmittedCode(f, at)
  <2>1. PICK Off : q = [j \in DOMAIN code |->
                          Emission(Off[j], code[j].id, StmtSize(code[j]), Encoded(code[j]))]
    BY <1>6
  <2> HIDE DEF q
  <2>2. /\ q = [j \in 1..Len(code) |-> q[j]]
        /\ \A j \in 1..Len(code) : /\ q[j].id = code[j].id
                                   /\ q[j].args = Encoded(code[j])
    BY <1>4, <2>1 DEF Emission
  <2>3. Len(q) = Len(code)
    BY <1>4, <2>2, MapIsSeq
  <2>4. k \in 1..Len(q) /\ q[k].id = f.stmts[i].id /\ q[k].args = Encoded(f.stmts[i])
    BY <1>8, <2>2, <2>3
  <2> QED BY <2>4 DEF q
<1> QED BY <1>9, <1>10

\* In the image of a program stands every instruction of every function.
LEMMA InstructionAssembled ==
  ASSUME FunctionList(functions), DataList(shared), DataList(constants),
         NEW j \in 1..Len(functions), NEW i \in 1..Len(functions[j].stmts),
         IsInstruction(functions[j].stmts[i])
  PROVE  \E n \in 1..Len(Assembled) : /\ Assembled[n].id = functions[j].stmts[i].id
                                      /\ Assembled[n].args = Encoded(functions[j].stmts[i])
<1> DEFINE text == TextBefore(functions, Len(functions) + 1)
           data == text + TotalSize(shared)
           fs == [k \in DOMAIN functions |-> EmittedCode(functions[k], TextBefore(functions, k))]
           ss == [k \in DOMAIN shared |-> EmittedCells(shared[k], text + DataBefore(shared, k))]
           cs == [k \in DOMAIN constants |->
                    EmittedCells(constants[k], data + DataBefore(constants, k))]
           s == functions[j].stmts[i]
<1>1. Assembled = FlattenSeq(fs) \o FlattenSeq(ss) \o FlattenSeq(cs)
  BY Zenon DEF Assembled
<1>2. /\ DOMAIN functions = 1..Len(functions) /\ DOMAIN shared = 1..Len(shared)
      /\ DOMAIN constants = 1..Len(constants) /\ Len(functions) \in Nat
      /\ StmtList(functions[j].stmts)
      /\ \A k \in 1..Len(functions) : IsSeq(functions[k].stmts)
  BY ListsAre, DomainOfSeq DEF FunctionList, IsFunction
<1> HIDE DEF text, data
<1>3. /\ fs = [k \in 1..Len(functions) |-> fs[k]]
      /\ \A k \in 1..Len(functions) : fs[k] = EmittedCode(functions[k], TextBefore(functions, k))
  BY <1>2
<1>4. EmittedFrom(ss, shared)
  <2>1. ss = [k \in 1..Len(shared) |-> ss[k]]
    BY <1>2
  <2>2. \A k \in 1..Len(shared) : ss[k] = EmittedCells(shared[k], text + DataBefore(shared, k))
    BY <1>2
  <2> QED BY <2>1, <2>2 DEF EmittedFrom
<1>5. EmittedFrom(cs, constants)
  <2>1. cs = [k \in 1..Len(constants) |-> cs[k]]
    BY <1>2
  <2>2. \A k \in 1..Len(constants) :
          cs[k] = EmittedCells(constants[k], data + DataBefore(constants, k))
    BY <1>2
  <2> QED BY <2>1, <2>2 DEF EmittedFrom
<1> HIDE DEF fs, ss, cs
<1>6. /\ IsSeq(fs) /\ Len(fs) = Len(functions)
      /\ \A k \in 1..Len(fs) : IsSeq(fs[k])
  <2>1. IsSeq(fs) /\ Len(fs) = Len(functions)
    BY <1>2, <1>3, MapIsSeq
  <2>2. \A k \in 1..Len(functions) : IsSeq(fs[k])
    BY <1>2, <1>3, EmittedTimes
  <2> QED BY <2>1, <2>2
<1>7. Gathered(FlattenSeq(fs), fs)
  BY <1>6, FlattenedGathers
<1>8. IsSeq(FlattenSeq(fs)) /\ IsSeq(FlattenSeq(ss)) /\ IsSeq(FlattenSeq(cs))
  BY <1>4, <1>5, <1>7, SectionTimes DEF Gathered
<1> HIDE DEF s
<1>9. PICK m \in 1..Len(fs[j]) : fs[j][m].id = s.id /\ fs[j][m].args = Encoded(s)
  <2>1. fs[j] = EmittedCode(functions[j], TextBefore(functions, j))
    BY <1>3
  <2> QED BY <1>2, <2>1, InstructionListed DEF s
<1>10. PICK a \in 1..Len(FlattenSeq(fs)) : FlattenSeq(fs)[a] = fs[j][m]
  BY <1>6, <1>7 DEF Gathered
<1>11. Unites(FlattenSeq(fs) \o FlattenSeq(ss), FlattenSeq(fs), FlattenSeq(ss))
  BY <1>8, BothHold
<1>12. PICK b \in 1..Len(FlattenSeq(fs) \o FlattenSeq(ss)) :
         (FlattenSeq(fs) \o FlattenSeq(ss))[b] = fs[j][m]
  BY <1>10, <1>11 DEF Unites
<1>13. Unites((FlattenSeq(fs) \o FlattenSeq(ss)) \o FlattenSeq(cs),
              FlattenSeq(fs) \o FlattenSeq(ss), FlattenSeq(cs))
  <2>1. IsSeq(FlattenSeq(fs) \o FlattenSeq(ss))
    BY <1>11 DEF Unites
  <2> QED BY <1>8, <2>1, BothHold
<1>14. PICK n \in 1..Len(Assembled) : Assembled[n] = fs[j][m]
  BY <1>1, <1>12, <1>13 DEF Unites
<1> QED BY <1>9, <1>14 DEF s

-----------------------------------------------------------------------------
\* An id of an instruction stands for that instruction alone.
OwnIn(q) ==
  \A item \in Range(q) : item.is = "function" =>
    \A x \in Range(Instructions(item)) : Times(IdsRead(q), "list", x) <= 1

EmissionIn(img, x) == img[CHOOSE i \in {k \in DOMAIN img : img[k].id = x} : TRUE]

\* What is there once is found by its id.
LEMMA OneEmission ==
  ASSUME NEW img, IsSeq(img), NEW x, Times(img, "image", x) <= 1,
         NEW n \in 1..Len(img), img[n].id = x
  PROVE  EmissionIn(img, x) = img[n]
<1> DEFINE w == Marks(img, "image", x)
           A == {k \in DOMAIN img : img[k].id = x}
<1>1. /\ w = [i \in 1..Len(img) |-> w[i]] /\ Len(img) \in Nat
      /\ \A i \in 1..Len(img) : w[i] = MarkOf(img[i], "image", x) /\ w[i] \in {0, 1}
      /\ SumOf(w) <= 1
  BY TimesIs
<1>2. \A i \in 1..Len(img) : w[i] = 1 <=> img[i].id = x
  BY <1>1 DEF MarkOf
<1> HIDE DEF w
<1>3. \A i, k \in 1..Len(img) : w[i] = 1 /\ w[k] = 1 => i = k
  BY <1>1, OnePlace
<1>4. A = {n}
  <2>1. DOMAIN img = 1..Len(img)
    BY DomainOfSeq
  <2> QED BY <1>2, <1>3, <2>1
<1>5. (CHOOSE i \in A : TRUE) = n
  BY <1>4
<1> QED BY <1>5 DEF EmissionIn

\* The ids of the instructions of a function that was read.
LEMMA OwnIdIs ==
  ASSUME NEW q, ItemList(q), \A i \in 1..Len(q) : Fresh(q[i]), OwnIn(q),
         NEW img, IsSeq(img), AsRead(img, q),
         NEW item \in Range(q), item.is = "function", NEW x \in Range(Instructions(item))
  PROVE  Times(img, "image", x) <= 1
<1>1. PICK i \in 1..Len(q) : q[i] = item
  BY DomainOfSeq DEF Range, ItemList
<1>2. IsItem(item) /\ FreshIds(item)
  BY <1>1 DEF ItemList, Fresh
<1>3. x \notin Added
  <2> DEFINE a == Instructions(item)
             b == CellsOf(Selected(Inherited(item.locals), InSection))
  <2>1. StmtList(item.stmts) /\ DataList(item.locals) /\ IsSeq(item.stmts)
    BY <1>2, DefinitionIs, ListsAre
  <2>2. IdsOf(item) = a \o b
    BY Zenon DEF IdsOf
  <2>3. IsSeq(a) /\ IsSeq(b)
    BY <2>1, ListedTimes, KeptIds, CellsTimes
  <2> HIDE DEF a, b
  <2>4. Unites(a \o b, a, b)
    BY <2>3, BothHold
  <2>5. PICK k \in 1..Len(a) : a[k] = x
    BY <2>3, DomainOfSeq DEF Range, a
  <2>6. PICK m \in 1..Len(IdsOf(item)) : IdsOf(item)[m] = x
    BY <2>2, <2>4, <2>5 DEF Unites
  <2>7. x \in Range(IdsOf(item))
    <3>1. IsSeq(IdsOf(item))
      BY <2>2, <2>4 DEF Unites
    <3> QED BY <2>6, <3>1, DomainOfSeq DEF Range
  <2> QED BY <1>2, <2>7 DEF FreshIds
<1>4. Times(img, "image", x) = ItemsCount(q, Id(x))
  BY <1>3 DEF AsRead
<1>5. Times(IdsRead(q), "list", x) = ItemsCount(q, Id(x))
  BY ReadTimes
<1> QED BY <1>4, <1>5 DEF OwnIn

-----------------------------------------------------------------------------
(* The locals of a function that was read, and those of the program.       *)

\* The locals that stay on the stack keep their names.
LEMMA StackOfIs ==
  ASSUME NEW def, IsItem(def), def.is = "function"
  PROVE  Definition(def).locals = StackOf(def) /\ DataList(StackOf(def))
<1> DEFINE p == Inherited(def.locals)
           q == FunctionVariables(def.name, def.locals)
           ps == [i \in DOMAIN p |-> IF OnStack(p[i]) THEN <<p[i]>> ELSE <<>>]
           qs == [i \in DOMAIN q |-> IF OnStack(q[i]) THEN <<q[i]>> ELSE <<>>]
<1>1. DataList(def.locals) /\ Definition(def).locals = Selected(q, OnStack)
  BY DefinitionIs
<1>2. DataList(p) /\ Len(p) = Len(def.locals)
  BY <1>1, InheritedIs
<1>3. /\ DataList(q) /\ Len(q) = Len(def.locals)
      /\ \A i \in 1..Len(def.locals) :
           /\ q[i] = Renamed(def.name, p[i])
           /\ q[i].const = p[i].const /\ q[i].shared = p[i].shared
  BY <1>1, FunctionVariablesAre
<1>4. DOMAIN p = 1..Len(def.locals) /\ DOMAIN q = 1..Len(def.locals)
  BY <1>2, <1>3, ListsAre, DomainOfSeq
<1>5. StackOf(def) = Selected(p, OnStack)
  BY Zenon DEF StackOf, Locals
<1>6. Selected(p, OnStack) = FlattenSeq(ps) /\ Selected(q, OnStack) = FlattenSeq(qs)
  BY Zenon DEF Selected
<1>7. DataList(Selected(p, OnStack))
  BY <1>2, SelectedData
<1> HIDE DEF p, q
<1>8. \A i \in 1..Len(def.locals) : /\ OnStack(q[i]) <=> OnStack(p[i])
                                    /\ OnStack(p[i]) => q[i] = p[i]
  BY <1>3 DEF OnStack, Renamed
<1>9. ps = qs
  BY <1>4, <1>8
<1> QED BY <1>1, <1>5, <1>6, <1>7, <1>9 DEF p, q

\* A local of the stack by its name, in the source and in the program.
LEMMA StackFound ==
  ASSUME NEW def, IsItem(def), def.is = "function", NEW f, IsFunction(f),
         DerivedFrom(f, Definition(def)), NEW x, x # <<>>
  PROVE  /\ StackLabelled(f, x) = Labelled(StackOf(def), x)
         /\ OnItsStack(def, x) => CodeLabelled(f, x) = {} /\ StackLabelled(f, x) # {}
         /\ LocalsAlike(f, Definition(def))
<1> DEFINE g == Definition(def)
<1>1. /\ IsFunction(g) /\ ~g.loaded /\ g.locals = StackOf(def) /\ DataList(g.locals)
      /\ StmtList(def.stmts) /\ Len(g.stmts) = Len(def.stmts) /\ DataList(def.locals)
      /\ \A i \in 1..Len(def.stmts) : g.stmts[i] = WithArgs(def.stmts[i])
  BY DefinitionIs, StackOfIs
<1> HIDE DEF g
<1>2. PICK p : IsSeq(p) /\ Foreign(p) /\ Grown(f, g, p)
  BY DEF DerivedFrom, g
<1>3. LocalsAlike(f, g)
  BY <1>1, <1>2 DEF LocalsAlike, IsFunction, Grown
<1>4. /\ DOMAIN f.locals = 1..Len(f.locals) /\ DOMAIN g.locals = 1..Len(f.locals)
      /\ Len(g.locals) = Len(f.locals)
      /\ \A i \in 1..Len(f.locals) : f.locals[i].label = g.locals[i].label
  <2>1. /\ IsSeq(f.locals) /\ IsSeq(g.locals) /\ Len(f.locals) = Len(g.locals)
        /\ \A i \in 1..Len(g.locals) : f.locals[i].label = g.locals[i].label
    BY <1>3, ListsAre DEF LocalsAlike, DatumAlike
  <2> QED BY <2>1, DomainOfSeq
<1>5. StackLabelled(f, x) = Labelled(StackOf(def), x)
  BY <1>1, <1>4 DEF StackLabelled, StackLabels, Labelled
<1>6. ASSUME OnItsStack(def, x) PROVE CodeLabelled(f, x) = {} /\ StackLabelled(f, x) # {}
  <2>1. /\ \A i \in DOMAIN def.stmts : def.stmts[i].op = "label" => def.stmts[i].label # x
        /\ \E i \in Labelled(Locals(def), x) : OnStack(Locals(def)[i])
    BY <1>6, Zenon DEF OnItsStack
  <2>2. StackLabelled(f, x) # {}
    <3> DEFINE q == Locals(def)
               T == {i \in DOMAIN q : OnStack(q[i])}
    <3>1. PICK i \in DOMAIN q : q[i].label = x /\ OnStack(q[i])
      BY <2>1 DEF Labelled
    <3>2. Picks(StackOf(def), q, T)
      <4>1. DataList(q)
        BY <1>1, InheritedIs DEF Locals
      <4> QED BY <4>1, SelectedData DEF StackOf
    <3>3. i \in T
      BY <3>1
    <3> HIDE DEF q, T
    <3>4. PICK k \in 1..Len(StackOf(def)) : StackOf(def)[k] = q[i]
      BY <3>2, <3>3 DEF Picks
    <3>5. k \in Labelled(StackOf(def), x)
      <4>1. k \in DOMAIN StackOf(def)
        BY <1>1, <3>4, ListsAre, DomainOfSeq
      <4> QED BY <3>1, <3>4, <4>1 DEF Labelled
    <3> QED BY <1>5, <3>5
  <2>3. ASSUME NEW i \in CodeLabelled(f, x) PROVE FALSE
    <3>1. /\ IsSeq(f.stmts) /\ i \in DOMAIN f.stmts
          /\ f.stmts[i].op = "label" /\ f.stmts[i].label = x
      BY <2>3, ListsAre DEF CodeLabelled, CodeLabels, IsFunction
    <3>2. i \in 1..Len(f.stmts) /\ Len(f.stmts) = Len(p) + Len(def.stmts)
      BY <1>1, <1>2, <3>1, DomainOfSeq DEF Grown
    <3>3. /\ Len(p) \in Nat /\ Len(def.stmts) \in Nat /\ IsSeq(def.stmts)
          /\ DOMAIN def.stmts = 1..Len(def.stmts)
          /\ \A k \in 1..Len(def.stmts) : IsStatement(def.stmts[k])
      BY <1>1, <1>2, ListsAre, DomainOfSeq
    <3>4. CASE i <= Len(p)
      <4>1. i \in 1..Len(p)
        BY <3>2, <3>3, <3>4
      <4>2. f.stmts[i] = p[i] /\ p[i].op # "label"
        BY <1>2, <4>1 DEF Grown, Foreign
      <4> QED BY <3>1, <4>2
    <3>5. CASE ~(i <= Len(p))
      <4>1. PICK k \in 1..Len(def.stmts) : i = Len(p) + k
        <5>1. i - Len(p) \in 1..Len(def.stmts) /\ i = Len(p) + (i - Len(p))
          BY <3>2, <3>3, <3>5
        <5> QED BY <5>1
      <4>2. StmtAlike(f.stmts[i], WithArgs(def.stmts[k])) /\ IsStatement(def.stmts[k])
        BY <1>1, <1>2, <3>3, <4>1 DEF Grown
      <4>3. f.stmts[i].op = def.stmts[k].op /\ f.stmts[i].label = def.stmts[k].label
        BY <4>2, WithArgsIs DEF StmtAlike
      <4> QED BY <2>1, <3>1, <3>3, <4>1, <4>3
    <3> QED BY <3>4, <3>5
  <2> QED BY <2>2, <2>3
<1> QED BY <1>3, <1>5, <1>6 DEF g

\* A use of a local on the stack by an instruction that was read: the argument that
\* stands in the image is the one that the program has.
LEMMA UseFound ==
  ASSUME FunctionList(functions), AllCallsLegal(functions), DataList(shared),
         DataList(constants),
         NEW q, ItemList(q), \A i \in 1..Len(q) : Fresh(q[i]), OwnIn(q), AsRead(Assembled, q),
         NEW def \in Range(q), def.is = "function",
         NEW j \in 1..Len(functions), DerivedFrom(functions[j], Definition(def)),
         NEW o, StackBound(functions[j], o),
         NEW i \in 1..Len(def.stmts), ~IsLabel(def.stmts[i]),
         NEW k \in DOMAIN Encoded(def.stmts[i]), Refers(def.stmts[i].args[k]),
         OnItsStack(def, def.stmts[i].args[k].label)
  PROVE  AtStack(EmissionIn(Assembled, def.stmts[i].id).args[k], functions[j],
                 def.stmts[i].args[k].label, o)
<1> DEFINE f == functions[j]
           s == def.stmts[i]
           x == def.stmts[i].args[k].label
<1>1. IsItem(def)
  BY DomainOfSeq DEF Range, ItemList
<1>2. /\ StmtList(def.stmts) /\ Len(Definition(def).stmts) = Len(def.stmts)
      /\ \A n \in 1..Len(def.stmts) : Definition(def).stmts[n] = WithArgs(def.stmts[n])
      /\ IsFunction(f) /\ StmtList(f.stmts) /\ IsStatement(s) /\ CallsLegal(f.stmts)
  <2>1. StmtList(def.stmts) /\ IsFunction(f) /\ StmtList(f.stmts) /\ j \in DOMAIN functions
    BY <1>1, DefinitionIs, DomainOfSeq DEF FunctionList, IsFunction
  <2> QED BY <1>1, <2>1, DefinitionIs, ListsAre DEF AllCallsLegal
<1>3. PICK p : IsSeq(p) /\ Foreign(p) /\ Grown(f, Definition(def), p)
  BY DEF DerivedFrom
<1> DEFINE n == Len(p) + i
           t == f.stmts[n]
<1>4. n \in 1..Len(f.stmts) /\ StmtAlike(t, WithArgs(s))
  <2>1. Len(p) \in Nat /\ Len(def.stmts) \in Nat /\ Len(f.stmts) = Len(p) + Len(def.stmts)
    BY <1>2, <1>3, ListsAre, DomainOfSeq DEF Grown
  <2> QED BY <1>2, <1>3, <2>1 DEF Grown
<1> HIDE DEF n
<1>5. /\ t.op = s.op /\ t.id = s.id /\ Len(t.args) = Len(s.args)
      /\ \A m \in 1..Len(s.args) : t.args[m].label = s.args[m].label
  <2>1. /\ WithArgs(s).op = s.op /\ WithArgs(s).id = s.id /\ Len(WithArgs(s).args) = Len(s.args)
        /\ \A m \in 1..Len(s.args) : WithArgs(s).args[m].label = s.args[m].label
    <3>1. /\ WithArgs(s).op = s.op /\ WithArgs(s).id = s.id /\ Len(WithArgs(s).args) = Len(s.args)
          /\ \A m \in 1..Len(s.args) : \E r : WithArgs(s).args[m] = [s.args[m] EXCEPT !.rel = r]
      BY <1>2, WithArgsIs
    <3>2. \A m \in 1..Len(s.args) : DOMAIN s.args[m] = ArgFields
      BY <1>2, ShapesAre, ListsAre
    <3>3. ASSUME NEW m \in 1..Len(s.args) PROVE WithArgs(s).args[m].label = s.args[m].label
      <4>1. PICK r : WithArgs(s).args[m] = [s.args[m] EXCEPT !.rel = r]
        BY <3>1
      <4> QED BY <3>2, <4>1 DEF ArgFields
    <3> QED BY <3>1, <3>3
  <2> QED BY <1>4, <2>1 DEF StmtAlike, ArgAlike
<1>6. ~IsLabel(t) /\ IsInstruction(t) /\ Callable(t)
  <2>1. ~IsLabel(t) /\ IsInstruction(t)
    BY <1>5 DEF IsLabel, IsInstruction
  <2> QED BY <1>2, <1>4, <2>1 DEF CallsLegal
<1>7. /\ k \in 1..Len(t.args) /\ k \in 1..Len(s.args)
      /\ Encoded(t)[k] = t.args[k]
  <2>1. DOMAIN s.args = 1..Len(s.args) /\ Len(s.args) \in Nat
    BY <1>2, ShapesAre, ListsAre, DomainOfSeq
  <2>2. s.op # "RET"
    <3>1. DOMAIN <<>> = {}
      OBVIOUS
    <3> QED BY <3>1 DEF Encoded
  <2>3. CASE s.op = "JSR"
    <3>1. Len(t.args) >= 1
      BY <1>5, <1>6, <2>3 DEF Callable
    <3>2. Encoded(s) = <<s.args[1]>> /\ Encoded(t) = <<t.args[1]>>
      BY <1>5, <1>6, <2>3 DEF Encoded
    <3>3. k = 1
      BY <3>2
    <3> QED BY <1>5, <2>1, <3>1, <3>2, <3>3
  <2>4. CASE s.op # "JSR"
    <3>1. Encoded(s) = s.args /\ Encoded(t) = t.args
      BY <1>5, <1>6, <2>2, <2>4 DEF Encoded
    <3> QED BY <1>5, <2>1, <3>1
  <2> QED BY <2>3, <2>4
<1>8. EmissionIn(Assembled, s.id).args[k] = t.args[k]
  <2>1. PICK m \in 1..Len(Assembled) : Assembled[m].id = t.id /\ Assembled[m].args = Encoded(t)
    BY <1>4, <1>6, InstructionAssembled
  <2>2. IsSeq(Assembled)
    BY AssembledTimes
  <2>3. s.id \in Range(Instructions(def))
    BY <1>2, InstructionListed DEF IsInstruction
  <2>4. Times(Assembled, "image", s.id) <= 1
    BY <2>2, <2>3, OwnIdIs
  <2>5. EmissionIn(Assembled, s.id) = Assembled[m]
    BY <1>5, <2>1, <2>2, <2>4, OneEmission
  <2> QED BY <1>7, <2>1, <2>5
<1>9. t.args[k].label = x /\ x # <<>>
  BY <1>5, <1>7 DEF Refers
<1>10. CodeLabelled(f, x) = {} /\ StackLabelled(f, x) # {}
  BY <1>1, <1>2, <1>9, StackFound
<1>11. StackArg(f, t.args[k], o)
  BY <1>4, <1>7 DEF StackBound
<1>12. AtStack(t.args[k], f, x, o)
  BY <1>9, <1>10, <1>11 DEF StackArg, Refers
<1> QED BY <1>8, <1>12

-----------------------------------------------------------------------------
(* How far apart the locals on the stack are.                              *)

\* Where the data of a list is whole words the stack has nothing but the data.
LEMMA WholeStack ==
  ASSUME NEW f, DataList(f.locals), NEW t, IsSum(t, Sizes(f.locals)),
         \A i \in 1..Len(f.locals) : DataSize(f.locals[i]) % 4 = 0
  PROVE  StackedDataSize(f) = t[Len(f.locals)]
<1> DEFINE q == f.locals
           n == Len(q)
<1>1. /\ n \in Nat /\ Len(Sizes(q)) = n
      /\ \A i \in 1..n : Sizes(q)[i] = DataSize(q[i]) /\ DataSize(q[i]) \in Nat
  BY SizesAre
<1>2. PICK s : Stack(s, f)
  BY StackIs
<1>3. /\ s \in [0..n -> Nat] /\ t \in [0..n -> Nat] /\ s[0] = 0 /\ t[0] = 0
      /\ \A k \in 1..n : s[k] = Aligned(s[k - 1] + DataSize(q[k]))
      /\ \A k \in 1..n : t[k] = t[k - 1] + DataSize(q[k])
  BY <1>1, <1>2 DEF Stack, IsStack, IsSum
<1>4. \A i \in 1..n : Words(DataSize(q[i]))
  <2> TAKE i \in 1..n
  <2>1. PICK d \in Nat : d = DataSize(q[i]) /\ d % 4 = 0
    BY <1>1
  <2>2. d \div 4 \in Nat /\ d = 4 * (d \div 4)
    BY <2>1
  <2> QED BY <2>1, <2>2 DEF Words
<1> HIDE DEF q, n
<1> DEFINE T == {i \in 0..n : s[i] = t[i] /\ Words(s[i])}
<1>5. 0 \in T
  <2>1. Words(0)
    BY DEF Words
  <2> QED BY <1>1, <1>3, <2>1
<1>6. ASSUME NEW i \in 0..n, i \in T, i < n
      PROVE  i + 1 \in T
  <2>1. i + 1 \in 0..n /\ i + 1 \in 1..n /\ (i + 1) - 1 = i
    BY <1>1, <1>6
  <2>2. s[i + 1] = Aligned(s[i] + DataSize(q[i + 1])) /\ t[i + 1] = t[i] + DataSize(q[i + 1])
    BY <1>3, <2>1
  <2>3. PICK a \in Nat, d \in Nat : a = s[i] /\ d = DataSize(q[i + 1])
    BY <1>1, <1>3, <2>1
  <2>4. Words(a + d)
    <3>1. Words(a) /\ Words(d)
      BY <1>4, <1>6, <2>1, <2>3
    <3>2. PICK k \in Nat, l \in Nat : a = 4 * k /\ d = 4 * l
      BY <3>1 DEF Words
    <3>3. k + l \in Nat /\ a + d = 4 * (k + l)
      BY <3>2
    <3> QED BY <3>3 DEF Words
  <2>5. Aligned(a + d) = a + d
    BY <2>4, AlignedIs
  <2>6. s[i] = t[i]
    BY <1>6
  <2> QED BY <2>1, <2>2, <2>3, <2>4, <2>5, <2>6
<1> HIDE DEF T
<1>7. 0..n \subseteq T
  BY <1>1, <1>5, <1>6, Induct
<1>8. s[n] = t[n]
  BY <1>1, <1>7 DEF T
<1> QED BY <1>2, <1>8 DEF Stack, n, q

\* The places of the locals count what is in front of them.
LEMMA LocalAtSum ==
  ASSUME NEW f, DataList(f.locals), NEW t, IsSum(t, Sizes(f.locals)),
         NEW i \in 1..Len(f.locals)
  PROVE  LocalAt(f, i) = StackedDataSize(f) - 4 - t[i - 1] /\ StackedDataSize(f) \in Nat
<1> DEFINE q == f.locals
           n == Len(q)
           z == Sizes(q)
           u == [j \in 1..(i - 1) |-> DataSize(q[j])]
           w == [j \in 1..(i - 1) |-> z[j]]
<1>1. /\ n \in Nat /\ Len(z) = n /\ z \in Seq(Nat)
      /\ \A j \in 1..n : z[j] = DataSize(q[j])
  BY SizesAre
<1>2. i - 1 \in 0..Len(z) /\ \A j \in 1..(i - 1) : j \in 1..n
  BY <1>1
<1>3. IsSum(t, z)
  OBVIOUS
<1>4. LocalAt(f, i) = StackedDataSize(f) - 4 - SumOf(u)
  BY Zenon DEF LocalAt
<1> HIDE DEF z
<1>5. u = w
  BY <1>1, <1>2
<1>6. SumOf(w) = t[i - 1]
  BY <1>1, <1>2, <1>3, SumOfFirst
<1> HIDE DEF u, w
<1>7. StackedDataSize(f) \in Nat
  <2>1. PICK s : Stack(s, f)
    BY StackIs
  <2>2. Len(q) \in 0..Len(q)
    BY <1>1
  <2> QED BY <2>1, <2>2 DEF Stack, IsStack
<1> QED BY <1>4, <1>5, <1>6, <1>7

\* A local ends where the next label stands, or before.
LEMMA ExtentEnds ==
  ASSUME NEW q, DataList(q), NEW t, IsSum(t, Sizes(q)), NEW x, Labelled(q, x) # {},
         NEW i, i = CHOOSE j \in Labelled(q, x) : TRUE,
         NEW m \in 1..Len(q), i <= m, m < Len(q) => q[m + 1].label # <<>>
  PROVE  Extent(q, x) \in Nat /\ Extent(q, x) + t[i - 1] <= t[m]
<1> DEFINE n == Len(q)
           In(j) == j > i /\ \A k \in (i + 1)..j : q[k].label = <<>>
           w == [j \in 1..n |-> IF In(j) THEN DataSize(q[j]) ELSE 0]
<1>1. /\ n \in Nat /\ Len(Sizes(q)) = n /\ DOMAIN q = 1..n
      /\ \A j \in 1..n : Sizes(q)[j] = DataSize(q[j]) /\ DataSize(q[j]) \in Nat
  BY SizesAre, ListsAre, DomainOfSeq
<1>2. i \in 1..n
  BY <1>1 DEF Labelled
<1>3. Extent(q, x) = SumOf(w)
  <2>1. Extent(q, x) = SumOf([j \in DOMAIN q |->
                                IF j > i /\ \A k \in (i + 1)..j : q[k].label = <<>>
                                THEN DataSize(q[j]) ELSE 0])
    BY Zenon DEF Extent
  <2> QED BY <1>1, <2>1
<1>4. /\ t \in [0..n -> Nat] /\ t[0] = 0
      /\ \A k \in 1..n : t[k] = t[k - 1] + DataSize(q[k])
  BY <1>1 DEF IsSum
<1>5. \A j \in 1..n : /\ w[j] \in Nat /\ w[j] <= DataSize(q[j])
                      /\ j <= i => w[j] = 0
                      /\ j > m => w[j] = 0
  <2> TAKE j \in 1..n
  <2>1. w[j] = IF In(j) THEN DataSize(q[j]) ELSE 0
    OBVIOUS
  <2>2. j <= i => ~In(j)
    BY <1>2
  <2>3. ASSUME j > m PROVE ~In(j)
    <3>1. m + 1 \in (i + 1)..j /\ m < n
      BY <1>1, <1>2, <2>3
    <3>2. q[m + 1].label # <<>>
      BY <3>1
    <3> QED BY <3>1, <3>2
  <2> HIDE DEF In
  <2> QED BY <1>1, <2>1, <2>2, <2>3
<1>6. w \in Seq(Nat) /\ Len(w) = n
  <2>1. w = [j \in 1..n |-> w[j]]
    OBVIOUS
  <2> HIDE DEF w
  <2> QED BY <1>1, <1>5, <2>1, NatSum
<1> HIDE DEF w, n
<1>7. PICK r : IsSum(r, w) /\ SumOf(w) = r[Len(w)] /\ SumOf(w) \in Nat
  BY <1>6, SumIs
<1>8. /\ r \in [0..n -> Nat] /\ r[0] = 0 /\ \A k \in 1..n : r[k] = r[k - 1] + w[k]
  BY <1>6, <1>7 DEF IsSum
<1> DEFINE T == {k \in 0..n : /\ k <= i => r[k] = 0
                              /\ i <= k /\ k <= m => r[k] + t[i] <= t[k]
                              /\ m <= k => r[k] + t[i] <= t[m]}
<1>a. i \in Nat /\ m \in Nat /\ i >= 1 /\ m <= n /\ i \in 0..n /\ m \in 0..n /\ i - 1 \in 0..n
  BY <1>1, <1>2 DEF n
<1>b. t[i] \in Nat /\ t[m] \in Nat /\ t[i - 1] \in Nat
  BY <1>4, <1>a
<1>9. 0 \in T
  <2>1. 0 \in 0..n /\ ~(i <= 0) /\ ~(m <= 0)
    BY <1>1, <1>a
  <2> QED BY <1>8, <2>1
<1>10. ASSUME NEW k \in 0..n, k \in T, k < n PROVE k + 1 \in T
  <2>1. k + 1 \in 0..n /\ k + 1 \in 1..n /\ (k + 1) - 1 = k /\ k \in Nat
    BY <1>1, <1>10
  <2>2. PICK a \in Nat, b \in Nat, c \in Nat, d \in Nat, e \in Nat, h \in Nat :
          /\ r[k] = a /\ w[k + 1] = b /\ t[k] = c /\ DataSize(q[k + 1]) = d
          /\ t[i] = e /\ t[m] = h
    BY <1>1, <1>4, <1>5, <1>8, <1>b, <2>1
  <2>3. r[k + 1] = a + b /\ t[k + 1] = c + d /\ b <= d
        /\ (k + 1 <= i => b = 0) /\ (k + 1 > m => b = 0)
    BY <1>4, <1>5, <1>8, <2>1, <2>2
  <2>4. /\ k <= i => a = 0
        /\ i <= k /\ k <= m => a + e <= c
        /\ m <= k => a + e <= h
    BY <1>10, <2>2
  <2>5. k + 1 <= i => r[k + 1] = 0
    BY <1>a, <2>1, <2>3, <2>4
  <2>6. ASSUME i <= k + 1, k + 1 <= m PROVE r[k + 1] + t[i] <= t[k + 1]
    <3>1. CASE i = k + 1
      <4>1. k + 1 <= i
        <5>1. i <= i
          BY <1>a
        <5> QED BY <3>1, <5>1, Zenon
      <4>2. r[k + 1] = 0
        BY <2>5, <4>1
      <4>3. t[k + 1] = e
        BY <2>2, <3>1
      <4> QED BY <2>2, <4>2, <4>3
    <3>2. CASE i # k + 1
      <4>1. i <= k /\ k <= m
        BY <1>a, <2>1, <2>6, <3>2
      <4>2. a + e <= c
        BY <2>4, <4>1
      <4> QED BY <2>2, <2>3, <4>2
    <3> QED BY <3>1, <3>2
  <2>7. ASSUME m <= k + 1 PROVE r[k + 1] + t[i] <= t[m]
    <3>1. CASE m = k + 1
      <4>1. i <= k + 1 /\ k + 1 <= m
        BY <1>a, <3>1
      <4> QED BY <2>6, <3>1, <4>1
    <3>2. CASE m # k + 1
      <4>1. m <= k /\ k + 1 > m
        BY <1>a, <2>1, <2>7, <3>2
      <4>2. b = 0 /\ a + e <= h
        BY <2>3, <2>4, <4>1
      <4> QED BY <2>2, <2>3, <4>2
    <3> QED BY <3>1, <3>2
  <2> QED BY <2>1, <2>5, <2>6, <2>7
<1> HIDE DEF T
<1>11. 0..n \subseteq T
  BY <1>1, <1>9, <1>10, Induct
<1>12. r[n] + t[i] <= t[m] /\ r[n] \in Nat
  <2>1. n \in T /\ m <= n /\ n \in 0..n
    BY <1>1, <1>11, <1>a
  <2>2. n \in T => (m <= n => r[n] + t[i] <= t[m])
    BY DEF T
  <2> QED BY <1>8, <2>1, <2>2
<1>13. t[i - 1] <= t[i]
  <2>1. t[i] = t[i - 1] + DataSize(q[i]) /\ DataSize(q[i]) \in Nat
    BY <1>1, <1>2, <1>4 DEF n
  <2> QED BY <1>b, <2>1
<1> QED BY <1>3, <1>6, <1>7, <1>12, <1>13, <1>b

-----------------------------------------------------------------------------
(* The places that references to the locals of a function are given.       *)

WholeWords(def) == \A i \in DOMAIN StackOf(def) : DataSize(StackOf(def)[i]) % 4 = 0

\* What LocalsApart says of two uses, by the place each was given.
ApartAt(def, x, y, a, b) ==
  /\ (a + Extent(StackOf(def), x)) - b <= StackedDataSize(Definition(def))
  /\ IF x = y THEN a = b
     ELSE a + Extent(StackOf(def), x) <= b \/ b + Extent(StackOf(def), y) <= a

LEMMA PlacesApart ==
  ASSUME NEW def, IsItem(def), def.is = "function", WholeWords(def),
         NEW f, IsFunction(f), DerivedFrom(f, Definition(def)), Put(f), NEW o,
         NEW x, x # <<>>, Labelled(StackOf(def), x) # {},
         NEW y, y # <<>>, Labelled(StackOf(def), y) # {}
  PROVE  ApartAt(def, x, y, StackPlace(f, x, o), StackPlace(f, y, o))
<1> DEFINE q == StackOf(def)
           g == Definition(def)
           n == Len(q)
<1>1. g.locals = q /\ DataList(q) /\ LocalsAlike(f, g) /\ DataList(f.locals)
      /\ \A z : z # <<>> => StackLabelled(f, z) = Labelled(q, z)
  BY StackOfIs, StackFound DEF IsFunction
<1> HIDE DEF q, g
<1>2. /\ n \in Nat /\ DOMAIN q = 1..n /\ IsSeq(q) /\ Sizes(q) \in Seq(Nat) /\ Len(Sizes(q)) = n
      /\ \A i \in 1..n : DataSize(q[i]) \in Nat /\ Sizes(q)[i] = DataSize(q[i])
  BY <1>1, ListsAre, DomainOfSeq, SizesAre
<1>3. PICK t : IsSum(t, Sizes(q))
  BY <1>2, SumIs
<1>4. t \in [0..n -> Nat]
  BY <1>2, <1>3 DEF IsSum
<1>5. /\ StackedDataSize(g) = t[n] /\ StackedDataSize(f) = t[n]
      /\ \A i \in 1..n : LocalAt(f, i) = t[n] - 4 - t[i - 1]
      /\ Len(f.locals) = n
  <2>1. StackedDataSize(g) = t[n]
    BY <1>1, <1>2, <1>3, WholeStack DEF WholeWords, q
  <2>2. /\ StackedDataSize(f) = StackedDataSize(g) /\ Len(f.locals) = n
        /\ \A i \in 1..n : LocalAt(f, i) = LocalAt(g, i)
    BY <1>1, StacksAlike DEF LocalsAlike
  <2>3. \A i \in 1..n : LocalAt(g, i) = StackedDataSize(g) - 4 - t[i - 1]
    BY <1>1, <1>3, LocalAtSum
  <2> QED BY <2>1, <2>2, <2>3
<1>6. PICK base \in Int :
        \A z : z # <<>> /\ Labelled(q, z) # {} =>
          StackPlace(f, z, o) = base + t[(CHOOSE i \in Labelled(q, z) : TRUE) - 1]
  <2> DEFINE b == IF o THEN 4 ELSE 4 - t[n]
  <2>0. t[n] \in Nat
    BY <1>2, <1>4
  <2>1. b \in Int
    BY <2>0
  <2>2. ASSUME NEW z, z # <<>>, Labelled(q, z) # {}
        PROVE  StackPlace(f, z, o) = b + t[(CHOOSE i \in Labelled(q, z) : TRUE) - 1]
    <3> DEFINE i == CHOOSE j \in Labelled(q, z) : TRUE
    <3>1. i \in 1..n
      BY <1>2, <2>2 DEF Labelled
    <3>2. StackLabelled(f, z) = Labelled(q, z)
      BY <1>1, <2>2
    <3>3. (CHOOSE j \in StackLabelled(f, z) : TRUE) = i
      BY <3>2
    <3> HIDE DEF i
    <3>4. f.locals[i].offset = t[n] - 4 - t[i - 1]
      BY <1>5, <3>1 DEF Put
    <3>5. StackPlace(f, z, o) = IF o THEN t[n] - f.locals[i].offset ELSE -f.locals[i].offset
      <4>1. StackPlace(f, z, o) =
              IF o THEN StackedDataSize(f) - f.locals[CHOOSE j \in StackLabelled(f, z) : TRUE].offset
              ELSE -f.locals[CHOOSE j \in StackLabelled(f, z) : TRUE].offset
        BY Zenon DEF StackPlace
      <4>2. StackedDataSize(f) = t[n]
        BY <1>5
      <4> QED BY <3>3, <4>1, <4>2, Zenon
    <3>6. PICK c \in Nat, d \in Nat : c = t[n] /\ d = t[i - 1]
      <4>1. i - 1 \in 0..n
        BY <1>2, <3>1
      <4> QED BY <1>4, <2>0, <4>1
    <3>7. /\ o => StackPlace(f, z, o) = c - (c - 4 - d) /\ b = 4
          /\ ~o => StackPlace(f, z, o) = -(c - 4 - d) /\ b = 4 - c
      BY <3>4, <3>5, <3>6
    <3>8. StackPlace(f, z, o) = b + d
      BY <3>7
    <3> QED BY <3>6, <3>8 DEF i
  <2> HIDE DEF b
  <2> QED BY <2>1, <2>2
<1> DEFINE At(z) == CHOOSE i \in Labelled(q, z) : TRUE
<1>7. ASSUME NEW z, Labelled(q, z) # {}
      PROVE  /\ At(z) \in 1..n /\ q[At(z)].label = z /\ t[At(z) - 1] \in Nat
             /\ Extent(q, z) \in Nat
             /\ Extent(q, z) + t[At(z) - 1] <= t[n]
             /\ \A m \in 1..n : At(z) <= m /\ q[m].label # <<>> /\ At(z) # m =>
                  Extent(q, z) + t[At(z) - 1] <= t[m - 1]
  <2>1. At(z) \in 1..n /\ q[At(z)].label = z
    BY <1>2, <1>7 DEF Labelled
  <2>2. PICK i : i = At(z)
    OBVIOUS
  <2>3. i \in 1..n /\ i = CHOOSE j \in Labelled(q, z) : TRUE
    BY <2>1, <2>2
  <2> HIDE DEF At
  <2>4. t[i - 1] \in Nat
    <3>1. i - 1 \in 0..n
      BY <1>2, <2>3
    <3> QED BY <1>4, <3>1
  <2>5. Extent(q, z) \in Nat /\ Extent(q, z) + t[i - 1] <= t[n]
    <3>1. n \in 1..Len(q) /\ i <= n /\ ~(n < Len(q))
      BY <1>2, <2>3
    <3> QED BY <1>1, <1>3, <1>7, <2>3, <3>1, ExtentEnds
  <2>6. ASSUME NEW m \in 1..n, i <= m, q[m].label # <<>>, i # m
        PROVE  Extent(q, z) + t[i - 1] <= t[m - 1]
    <3>1. m - 1 \in 1..Len(q) /\ i <= m - 1 /\ (m - 1) + 1 = m
      BY <1>2, <2>3, <2>6
    <3>2. q[(m - 1) + 1].label # <<>>
      BY <2>6, <3>1
    <3> QED BY <1>1, <1>3, <1>7, <2>3, <3>1, <3>2, ExtentEnds
  <2> QED BY <2>1, <2>2, <2>4, <2>5, <2>6
<1>8. Labelled(q, x) # {} /\ Labelled(q, y) # {}
  BY DEF q
<1> HIDE DEF At
<1>9. PICK a \in Nat, b \in Nat, c \in Nat, d \in Nat, e \in Nat :
        /\ t[At(x) - 1] = a /\ t[At(y) - 1] = b /\ Extent(q, x) = c /\ Extent(q, y) = d
        /\ t[n] = e
  <2>1. t[n] \in Nat
    BY <1>2, <1>4
  <2> QED BY <1>7, <1>8, <2>1
<1>10. StackPlace(f, x, o) = base + a /\ StackPlace(f, y, o) = base + b
  BY <1>6, <1>8, <1>9 DEF At
<1>11. c + a <= e
  BY <1>7, <1>8, <1>9
<1>12. x = y => a = b
  BY <1>9
<1>13. x # y => c + a <= b \/ d + b <= a
  <2> SUFFICES ASSUME x # y PROVE c + a <= b \/ d + b <= a
    OBVIOUS
  <2>1. PICK i \in 1..n, j \in 1..n : i = At(x) /\ j = At(y)
    BY <1>7, <1>8
  <2>2. i # j /\ q[i].label # <<>> /\ q[j].label # <<>>
    BY <1>7, <1>8, <2>1
  <2>3. i <= j => c + a <= b
    BY <1>7, <1>8, <1>9, <2>1, <2>2
  <2>4. j <= i => d + b <= a
    BY <1>7, <1>8, <1>9, <2>1, <2>2
  <2>5. i <= j \/ j <= i
    BY <1>2
  <2> QED BY <2>3, <2>4, <2>5
<1>14. /\ ((base + a) + c) - (base + b) <= e
       /\ x = y => base + a = base + b
       /\ x # y => (base + a) + c <= base + b \/ (base + b) + d <= base + a
  BY <1>11, <1>12, <1>13
<1>15. ApartAt(def, x, y, base + a, base + b)
  <2>1. StackedDataSize(Definition(def)) = e
    BY <1>5, <1>9 DEF g
  <2> QED BY <1>9, <1>14, <2>1 DEF ApartAt, q
<1> QED BY <1>10, <1>15

-----------------------------------------------------------------------------
(* The locals of the functions of an image.                                *)

IsUse(def, img, u) ==
  \E i \in 1..Len(def.stmts) :
    /\ ~IsLabel(def.stmts[i])
    /\ \E k \in DOMAIN Encoded(def.stmts[i]) :
         /\ Refers(def.stmts[i].args[k]) /\ OnItsStack(def, def.stmts[i].args[k].label)
         /\ u = <<def.stmts[i].args[k].label, EmissionIn(img, def.stmts[i].id).args[k]>>

UsesApart(def, u, v) ==
  /\ u[2].type = "DISPLACED" /\ u[2].base = v[2].base
  /\ ApartAt(def, u[1], v[1], u[2].val, v[2].val)

ApartIn(img, q) ==
  \A def \in Range(q) : def.is = "function" /\ WholeWords(def) =>
    \A u, v : IsUse(def, img, u) /\ IsUse(def, img, v) => UsesApart(def, u, v)

LEMMA UseIs ==
  ASSUME NEW def, IsSeq(def.stmts), NEW u \in StackUses(def)
  PROVE  IsUse(def, image, u)
<1>1. \A x : EmissionOf(x) = EmissionIn(image, x)
  BY Zenon DEF EmissionOf, EmissionIn, IndicesOf
<1>2. PICK s \in Range(def.stmts) :
        /\ ~IsLabel(s)
        /\ u \in {<<s.args[k].label, EmissionOf(s.id).args[k]>> :
                    k \in {n \in DOMAIN Encoded(s) :
                             Refers(s.args[n]) /\ OnItsStack(def, s.args[n].label)}}
  BY Zenon DEF StackUses
<1>3. PICK k \in DOMAIN Encoded(s) :
        /\ Refers(s.args[k]) /\ OnItsStack(def, s.args[k].label)
        /\ u = <<s.args[k].label, EmissionOf(s.id).args[k]>>
  BY <1>2, Zenon
<1>4. PICK i \in 1..Len(def.stmts) : s = def.stmts[i]
  BY DomainOfSeq DEF Range
<1>5. u = <<def.stmts[i].args[k].label, EmissionIn(image, def.stmts[i].id).args[k]>>
  BY <1>1, <1>3, <1>4
<1> QED BY <1>2, <1>3, <1>4, <1>5, Zenon DEF IsUse

LEMMA ApartIs ==
  ASSUME ItemList(read), image # <<>> => ApartIn(image, read)
  PROVE  LocalsApart
<1>1. ASSUME image # <<>>, NEW def \in FunctionsRead, WholeWords(def),
             NEW u \in StackUses(def), NEW v \in StackUses(def)
      PROVE  UsesApart(def, u, v)
  <2>1. def \in Range(read) /\ def.is = "function"
    BY <1>1 DEF FunctionsRead
  <2>2. IsItem(def)
    BY <2>1, DomainOfSeq DEF Range, ItemList
  <2>3. IsSeq(def.stmts)
    BY <2>1, <2>2, DefinitionIs, ListsAre
  <2>4. IsUse(def, image, u) /\ IsUse(def, image, v)
    BY <1>1, <2>3, UseIs
  <2> QED BY <1>1, <2>1, <2>4 DEF ApartIn
<1>2. \A def \in FunctionsRead :
        WholeWords(def) <=> \A i \in DOMAIN StackOf(def) : DataSize(StackOf(def)[i]) % 4 = 0
  BY Zenon DEF WholeWords
<1>3. ASSUME image # <<>>, NEW def \in FunctionsRead, WholeWords(def)
      PROVE  \A u, v \in StackUses(def) :
               LET from(w) == w[2].val
                   to(w)   == from(w) + Extent(StackOf(def), w[1])
               IN  /\ u[2].type = "DISPLACED" /\ u[2].base = v[2].base
                   /\ to(u) - from(v) <= StackedDataSize(Definition(def))
                   /\ IF u[1] = v[1] THEN from(u) = from(v)
                      ELSE to(u) <= from(v) \/ to(v) <= from(u)
  <2> TAKE u, v \in StackUses(def)
  <2>1. UsesApart(def, u, v)
    BY <1>1, <1>3
  <2>2. ApartAt(def, u[1], v[1], u[2].val, v[2].val)
    BY <2>1, Zenon DEF UsesApart
  <2> QED BY <2>1, <2>2 DEF UsesApart, ApartAt
<1> QED BY <1>2, <1>3, Zenon DEF LocalsApart

LEMMA AssembledAsRead ==
  ASSUME FunctionList(functions), DataList(shared), DataList(constants),
         NEW q, Balance(functions, shared, constants, <<>>, q)
  PROVE  AsRead(Assembled, q)
<1> DEFINE img == Assembled
<1> SUFFICES ASSUME NEW x, x \notin Added
             PROVE  Times(img, "image", x) = ItemsCount(q, Id(x))
  BY DEF AsRead
<1>1. Times(img, "image", x) = FunctionsCount(functions, Id(x)) + DataCount(shared, Id(x))
                                 + DataCount(constants, Id(x))
  BY AssembledTimes
<1>2. Countable(Id(x))
  BY DEF Countable, Id
<1>3. FunctionsCount(functions, Id(x)) + DataCount(shared, Id(x))
        + DataCount(constants, Id(x)) + ItemsCount(<<>>, Id(x)) = ItemsCount(q, Id(x))
  BY <1>2, Zenon DEF Balance
<1>4. ItemsCount(<<>>, Id(x)) = 0
  BY ItemsNone
<1>5. /\ FunctionsCount(functions, Id(x)) \in Nat /\ DataCount(shared, Id(x)) \in Nat
      /\ DataCount(constants, Id(x)) \in Nat
  BY FunctionsCountIs, DataCountIs
<1> HIDE DEF img
<1>6. PICK a \in Nat, b \in Nat, d \in Nat :
        /\ FunctionsCount(functions, Id(x)) = a /\ DataCount(shared, Id(x)) = b
        /\ DataCount(constants, Id(x)) = d
  BY <1>5
<1> QED BY <1>1, <1>3, <1>4, <1>6

AllPut(f) == \A i \in 1..Len(f) : Put(f[i])

AllBoundTo(f, o) == \A i \in 1..Len(f) : StackBound(f[i], o)

LEMMA AssembledApart ==
  ASSUME FunctionList(functions), AllCallsLegal(functions), DataList(shared), DataList(constants),
         NEW q, ItemList(q), \A i \in 1..Len(q) : Fresh(q[i]), OwnIn(q),
         Balance(functions, shared, constants, <<>>, q), Traced(functions, <<>>, q),
         AllPut(functions), NEW o, AllBoundTo(functions, o)
  PROVE  ApartIn(Assembled, q)
<1>1. AsRead(Assembled, q)
  BY AssembledAsRead
<1> DEFINE img == Assembled
<1> HIDE DEF img
<1> SUFFICES ASSUME NEW def \in Range(q), def.is = "function", WholeWords(def),
                    NEW u, IsUse(def, img, u), NEW v, IsUse(def, img, v)
             PROVE  UsesApart(def, u, v)
  BY DEF ApartIn, img
<1>2. PICK n \in 1..Len(q) : q[n] = def
  BY DomainOfSeq DEF Range, ItemList
<1>3. IsItem(def)
  BY <1>2 DEF ItemList
<1>4. PICK j \in 1..Len(functions) : DerivedFrom(functions[j], Definition(def))
  <2>1. (\E k \in 1..Len(<<>>) : <<>>[k] = q[n]) \/ DerivedIn(functions, q[n])
    BY <1>2, Zenon DEF Traced
  <2>2. Len(<<>>) = 0
    BY EmptyIsSeq
  <2> QED BY <1>2, <2>1, <2>2 DEF DerivedIn
<1> DEFINE f == functions[j]
<1>5. IsFunction(f) /\ Put(f) /\ StackBound(f, o)
  BY DEF FunctionList, AllPut, AllBoundTo
<1>6. ASSUME NEW w, IsUse(def, img, w)
      PROVE  /\ w[1] # <<>> /\ Labelled(StackOf(def), w[1]) # {}
             /\ AtStack(w[2], f, w[1], o)
  <2>0. PICK i \in 1..Len(def.stmts) :
          /\ ~IsLabel(def.stmts[i])
          /\ \E k \in DOMAIN Encoded(def.stmts[i]) :
               /\ Refers(def.stmts[i].args[k]) /\ OnItsStack(def, def.stmts[i].args[k].label)
               /\ w = <<def.stmts[i].args[k].label, EmissionIn(img, def.stmts[i].id).args[k]>>
    BY <1>6, Zenon DEF IsUse
  <2>1. PICK k \in DOMAIN Encoded(def.stmts[i]) :
          /\ Refers(def.stmts[i].args[k]) /\ OnItsStack(def, def.stmts[i].args[k].label)
          /\ w = <<def.stmts[i].args[k].label, EmissionIn(img, def.stmts[i].id).args[k]>>
    BY <2>0, Zenon
  <2>2. AtStack(EmissionIn(img, def.stmts[i].id).args[k], f, def.stmts[i].args[k].label, o)
    BY <1>1, <1>4, <1>5, <2>0, <2>1, UseFound DEF img, f
  <2>3. def.stmts[i].args[k].label # <<>>
    BY <2>1 DEF Refers
  <2> DEFINE x == def.stmts[i].args[k].label
             a == EmissionIn(img, def.stmts[i].id).args[k]
  <2>4. w = <<x, a>> /\ AtStack(a, f, x, o) /\ x # <<>> /\ OnItsStack(def, x)
    BY <2>1, <2>2, <2>3
  <2> HIDE DEF x, a
  <2>5. StackLabelled(f, x) = Labelled(StackOf(def), x) /\ StackLabelled(f, x) # {}
    BY <1>3, <1>4, <1>5, <2>4, StackFound
  <2> QED BY <2>4, <2>5
<1> HIDE DEF f
<1>7. /\ u[1] # <<>> /\ Labelled(StackOf(def), u[1]) # {} /\ AtStack(u[2], f, u[1], o)
      /\ v[1] # <<>> /\ Labelled(StackOf(def), v[1]) # {} /\ AtStack(v[2], f, v[1], o)
  BY <1>6
<1>8. DerivedFrom(f, Definition(def))
  BY <1>4 DEF f
<1>9. ApartAt(def, u[1], v[1], StackPlace(f, u[1], o), StackPlace(f, v[1], o))
  BY <1>3, <1>5, <1>7, <1>8, PlacesApart
<1> QED BY <1>7, <1>9 DEF UsesApart, AtStack

\* Where the locals are put, and where the references to them are given values.
PutInv ==
  /\ phase = "place" => \A i \in 1..placed.functions : Put(functions[i])
  /\ phase \in {"update", "values", "assemble"} => AllPut(functions)
  /\ phase = "assemble" => AllBoundTo(functions, Args.omitFP)

\* The steps: those after which nothing is said, those that start the placing, ...
Elsewhere == phase' \notin {"place", "update", "values", "assemble"}

Starts == phase' = "place" /\ placed'.functions = 0

\* ... those that leave the functions, and the end of the placing.
Leaves ==
  /\ phase \in {"place", "update", "values"}
  /\ phase' \in {"place", "values"}
  /\ (phase' = "place" => phase = "place") /\ (phase' = "values" => phase = "update")
  /\ functions' = functions /\ placed'.functions = placed.functions

EndsPlacing ==
  /\ phase = "place" /\ phase' \in {"expose", "update"}
  /\ placed.functions + 1 \notin DOMAIN functions
  /\ functions' = functions

GivesValues ==
  /\ phase = "values" /\ phase' = "assemble" /\ Args' = Args
  /\ functions' = [i \in DOMAIN functions |-> WithValues(functions[i], symbols, Args.omitFP)]

LEMMA PutSteps ==
  ASSUME [Next]_vars, Counted
  PROVE  \/ UNCHANGED vars \/ Elsewhere \/ Starts \/ Leaves \/ EndsPlacing
         \/ PlaceFunction \/ GivesValues
<1> USE DEF planVars, outVars, programVars, placeVars
<1>0. ASSUME NEW why, Fail(why) PROVE Elsewhere
  BY <1>0 DEF Fail, Elsewhere
<1>1. CASE OpenSource \/ ReadLine \/ Include \/ EndInclude \/ EndSource
  BY <1>1 DEF OpenSource, ReadLine, Include, EndInclude, EndSource, Elsewhere
<1>2. CASE SourceMissing \/ IncludeFails \/ EndSourceFails \/ AllocationFails
  BY <1>0, <1>2 DEF SourceMissing, IncludeFails, EndSourceFails, AllocationFails
<1>3. CASE Check
  <2>1. phase' = "temps" \/ Fail("instructions")
    BY <1>3, Zenon DEF Check
  <2> QED BY <1>0, <2>1 DEF Elsewhere
<1>4. \A b : Rebuild(b) => placed'.functions = 0
  BY DEF Rebuild, NonePlaced
<1>5. CASE EnsureTempsUsage
  <2>1. (phase' = "place" /\ Rebuild(TRUE)) \/ Fail("temporaries")
    BY <1>5, Zenon DEF EnsureTempsUsage
  <2> QED BY <1>0, <1>4, <2>1 DEF Starts
<1>6. CASE Allocate
  <2>1. phase' = "place" /\ Rebuild(TRUE)
    BY <1>6 DEF Allocate
  <2> QED BY <1>4, <2>1 DEF Starts
<1>7. CASE Link
  <2>1. (phase' = "place" /\ Rebuild(FALSE)) \/ Fail("prototypes")
    BY <1>7, Zenon DEF Link
  <2> QED BY <1>0, <1>4, <2>1 DEF Starts
<1>8. CASE PlaceShared \/ PlaceConstant
  <2>1. /\ phase = "place" /\ phase' = phase /\ functions' = functions
        /\ \/ placed' = [placed EXCEPT !.shared = placed.shared + 1]
           \/ placed' = [placed EXCEPT !.constants = placed.constants + 1]
    BY <1>8 DEF PlaceShared, PlaceConstant
  <2>2. placed'.functions = placed.functions
    BY <2>1 DEF Counted
  <2> QED BY <2>1, <2>2 DEF Leaves
<1>9. CASE EndPlacing
  BY <1>9 DEF EndPlacing, AllPlaced, EndsPlacing
<1>10. CASE ExposeGlobalLabels
  <2>1. phase' = "local" \/ Fail("duplicate")
    BY <1>10, Zenon DEF ExposeGlobalLabels
  <2> QED BY <1>0, <2>1 DEF Elsewhere
<1>11. CASE AssignValuesToLocalLabels
  BY <1>11 DEF AssignValuesToLocalLabels, Elsewhere
<1>12. CASE LoadObj
  BY <1>12 DEF LoadObj, Elsewhere
<1>13. CASE LoadFails
  <2>1. \E why \in {"unreadable", "duplicate"} : Fail(why)
    BY <1>13 DEF LoadFails
  <2> QED BY <1>0, <2>1
<1>14. CASE SaveObj \/ Assemble
  <2>1. phase' \in {"source", "done"}
    BY <1>14 DEF SaveObj, Assemble, Succeed
  <2> QED BY <2>1 DEF Elsewhere
<1>15. CASE UpdateFunctionLabels
  BY <1>15 DEF UpdateFunctionLabels, Leaves
<1>16. CASE AssignValuesToLabels
  <2>1. /\ phase = "values"
        /\ \/ Fail("unbound")
           \/ /\ functions' = [i \in DOMAIN functions |->
                                 WithValues(functions[i], symbols, Args.omitFP)]
              /\ phase' = "assemble" /\ UNCHANGED planVars
    BY <1>16, Zenon DEF AssignValuesToLabels
  <2> QED BY <1>0, <2>1 DEF GivesValues, Args
<1>17. CASE Finished \/ UNCHANGED vars
  BY <1>17 DEF Finished
<1> QED
  BY <1>1, <1>2, <1>3, <1>5, <1>6, <1>7, <1>8, <1>9, <1>10, <1>11, <1>12, <1>13, <1>14, <1>15,
     <1>16, <1>17 DEF Next

LEMMA PutStep ==
  ASSUME FunctionsWell, CountsWell, PutInv, [Next]_vars
  PROVE  PutInv'
<1>1. /\ FunctionList(functions) /\ Counted /\ tempOffset \in Nat
      /\ placed.functions \in 0..Len(functions)
  BY DEF FunctionsWell, CountsWell
<1>2. /\ DOMAIN functions = 1..Len(functions) /\ Len(functions) \in Nat
      /\ \A i \in 1..Len(functions) : IsFunction(functions[i])
  BY <1>1, DomainOfSeq DEF FunctionList
<1>3. CASE UNCHANGED vars
  <2>1. /\ phase' = phase /\ functions' = functions /\ placed' = placed /\ Args' = Args
    BY <1>3 DEF vars, planVars, programVars, placeVars, Args
  <2> QED BY <2>1 DEF PutInv
<1>4. CASE Elsewhere
  BY <1>4 DEF Elsewhere, PutInv
<1>5. CASE Starts
  <2>1. 1..0 = {}
    OBVIOUS
  <2> QED BY <1>5, <2>1 DEF Starts, PutInv
<1>6. CASE Leaves
  BY <1>6 DEF Leaves, PutInv
<1>7. CASE EndsPlacing
  <2>1. placed.functions = Len(functions)
    BY <1>1, <1>2, <1>7 DEF EndsPlacing
  <2>2. AllPut(functions)
    BY <1>7, <2>1 DEF PutInv, EndsPlacing, AllPut
  <2>3. phase' \in {"expose", "update"} /\ functions' = functions
    BY <1>7 DEF EndsPlacing
  <2> QED BY <2>2, <2>3 DEF PutInv
<1>8. CASE PlaceFunction
  <2> DEFINE i == placed.functions + 1
  <2>1. /\ phase = "place" /\ phase' = "place" /\ i \in DOMAIN functions
        /\ functions' = [functions EXCEPT ![i] = Placed(functions[i], tempOffset)]
        /\ placed' = [placed EXCEPT !.functions = i]
    BY <1>8 DEF PlaceFunction
  <2>2. placed'.functions = i /\ i \in Nat
    BY <1>1, <2>1 DEF Counted
  <2>3. CallsLegal(functions[i].stmts) /\ IsFunction(functions[i])
    BY <1>2, <2>1 DEF FunctionsWell, AllCallsLegal, Emitting
  <2>4. Put(Placed(functions[i], tempOffset))
    BY <1>1, <2>3, PlacedPut
  <2>5. ASSUME NEW k \in 1..i PROVE Put(functions'[k])
    <3>1. k \in 1..Len(functions) /\ (k # i => k \in 1..placed.functions)
      BY <1>1, <1>2, <2>1
    <3>2. functions'[k] = IF k = i THEN Placed(functions[i], tempOffset) ELSE functions[k]
      BY <1>2, <2>1, <3>1
    <3>3. k # i => Put(functions[k])
      BY <2>1, <3>1 DEF PutInv
    <3> QED BY <2>4, <3>2, <3>3
  <2> HIDE DEF i
  <2> QED BY <2>1, <2>2, <2>5 DEF PutInv
<1>9. CASE GivesValues
  <2>1. /\ phase = "values" /\ phase' = "assemble" /\ Args' = Args
        /\ functions' = [i \in DOMAIN functions |-> WithValues(functions[i], symbols, Args.omitFP)]
    BY <1>9 DEF GivesValues
  <2>2. AllPut(functions)
    BY <2>1 DEF PutInv
  <2>3. Len(functions') = Len(functions)
    BY <1>2, <2>1, MapIsSeq
  <2>4. ASSUME NEW i \in 1..Len(functions)
        PROVE  Put(functions'[i]) /\ StackBound(functions'[i], Args.omitFP)
    <3> DEFINE f == functions[i]
               g == WithValues(functions[i], symbols, Args.omitFP)
    <3>1. functions'[i] = g
      BY <1>2, <2>1
    <3>2. IsFunction(f) /\ Put(f)
      BY <1>2, <2>2 DEF AllPut
    <3>3. g.locals = f.locals /\ StackBound(g, Args.omitFP)
      BY <3>2, ValuesGrow, ValuesBound
    <3>4. DataList(f.locals)
      BY <3>2 DEF IsFunction
    <3> HIDE DEF f, g
    <3>5. Put(g)
      BY <3>2, <3>3, <3>4, SamePut
    <3> QED BY <3>1, <3>3, <3>5
  <2> QED BY <2>1, <2>3, <2>4 DEF PutInv, AllPut, AllBoundTo
<1> QED BY <1>1, <1>3, <1>4, <1>5, <1>6, <1>7, <1>8, <1>9, PutSteps

LocalsInv ==
  /\ phase \notin {"done", "failed"} => Traced(functions, Pending, read)
  /\ PutInv
  /\ image # <<>> /\ OwnIn(read) => ApartIn(image, read)

LEMMA LocalsInit == Init => LocalsInv
<1> SUFFICES ASSUME Init PROVE LocalsInv
  OBVIOUS
<1>1. phase = "source" /\ image = <<>> /\ read = <<>> /\ functions = <<>>
  BY DEF Init
<1>2. Traced(functions, Pending, read)
  <2>1. Len(<<>>) = 0
    BY EmptyIsSeq
  <2> QED BY <1>1, <2>1 DEF Traced
<1> QED BY <1>1, <1>2 DEF LocalsInv, PutInv

\* What was read stays in the program, or in the tree until it is.
LEMMA TracedStep ==
  ASSUME PlainBuild, PlanInv, Chain(disk, buffers), ReaderInv, TypeInv, PlainInv,
         phase \notin {"done", "failed"} => Traced(functions, Pending, read), [Next]_vars
  PROVE  phase' \notin {"done", "failed"} => Traced(functions', Pending', read')
<1>1. /\ FilesWell /\ TreeWell /\ FunctionsWell
      /\ loads \in 0..Len(Args.objects) /\ tempOffset \in Nat /\ FunctionList(functions)
  BY DEF TypeInv, CountsWell, FunctionsWell
<1>2. FunctionList(functions') /\ ItemList(read)
  <2>1. ProgramWell'
    BY ProgramStep
  <2> QED BY <2>1 DEF ProgramWell, FunctionsWell, PlainInv
<1>3. \/ UNCHANGED vars
      \/ ReadLine \/ EndSource \/ Rests \/ Passes \/ Reveals \/ Moves
      \/ PlacesData \/ Saves \/ Assembles
  BY <1>1, PlainSteps
<1>4. CASE UNCHANGED vars
  <2>1. phase' = phase /\ tree' = tree /\ read' = read /\ functions' = functions
    BY <1>4 DEF vars, readerVars, programVars, outVars
  <2>2. Pending' = Pending
    BY <2>1 DEF Pending, Definitions
  <2> QED BY <2>1, <2>2
<1>5. CASE Rests
  BY <1>5 DEF Rests
<1>6. CASE ReadLine
  <2> DEFINE e == [def |-> NextLine, loc |-> NextLoc]
  <2>1. /\ phase = "reading" /\ phase' = phase
        /\ buffers # <<>> /\ Unread /\ NextLine.is # "include"
        /\ tree' = Append(tree, e) /\ read' = Append(read, NextLine) /\ functions' = functions
    BY <1>6 DEF ReadLine, ReadDefinition, programVars
  <2>2. IsItem(NextLine) /\ e.def = NextLine
    BY <1>1, <2>1, NextIsFresh
  <2> HIDE DEF e
  <2>3. IsSeq(tree) /\ ItemList(Definitions) /\ Definitions = DefsOf(tree)
        /\ Definitions' = DefsOf(tree')
    BY <1>1, DefinitionsAre DEF ReaderInv, Definitions, DefsOf
  <2>4. OneMore(Definitions', Definitions, NextLine)
    <3>1. OneMore(DefsOf(Append(tree, e)), DefsOf(tree), e.def)
      BY <2>2, <2>3, DefinitionAdded
    <3> QED BY <2>1, <2>2, <2>3, <3>1
  <2>5. OneMore(read', read, NextLine)
    BY <1>2, <2>1, <2>2, ItemAdded
  <2>6. Traced(functions, Definitions, read)
    BY <2>1 DEF Pending
  <2>7. Traced(functions, Definitions', read')
    BY <1>2, <2>3, <2>4, <2>5, <2>6, ReadTraced
  <2> QED BY <2>1, <2>7 DEF Pending
<1>7. CASE EndSource
  <2>1. /\ phase = "reading" /\ phase' = "source" /\ read' = read
        /\ functions' = functions \o EmittedFunctions(Definitions)
    BY <1>7 DEF EndSource, outVars
  <2>2. ItemList(Definitions)
    BY <1>1, DefinitionsAre
  <2>3. Traced(functions, Definitions, read)
    BY <2>1 DEF Pending
  <2>4. Traced(functions \o EmittedFunctions(Definitions), <<>>, read)
    BY <1>1, <2>2, <2>3, SourceTraced
  <2>5. Pending' = <<>>
    BY <2>1 DEF Pending
  <2> QED BY <2>1, <2>4, <2>5
<1>8. CASE Passes \/ Reveals
  <2>1. /\ phase \in Emitting /\ phase' \in Emitting /\ read' = read
        /\ \/ MadeOf(functions', functions)
           \/ functions' = [i \in DOMAIN functions |-> Exposed(functions[i])]
    BY <1>8 DEF Passes, Reveals, Steady
  <2>2. Pending = <<>> /\ Pending' = <<>> /\ phase \notin {"done", "failed"}
    BY <2>1 DEF Pending, Emitting
  <2>3. AllCallsLegal(functions)
    BY <1>1, <2>1 DEF FunctionsWell
  <2>4. DerivedPass(functions', functions)
    BY <1>1, <1>2, <2>1, <2>3, MadeDerived
  <2>5. Traced(functions', <<>>, read)
    BY <1>2, <2>2, <2>4, PassTraced
  <2> QED BY <2>1, <2>2, <2>5
<1>9. CASE Moves
  <2>1. /\ phase \in Emitting /\ phase' \in Emitting /\ read' = read
        /\ functions' = MainToTop(functions)
    BY <1>9 DEF Moves, Steady
  <2>2. Pending = <<>> /\ Pending' = <<>> /\ phase \notin {"done", "failed"}
    BY <2>1 DEF Pending, Emitting
  <2>3. Traced(functions', <<>>, read)
    BY <1>1, <2>1, <2>2, MainTraced
  <2> QED BY <2>1, <2>2, <2>3
<1>10. CASE PlacesData
  <2>1. phase = "place" /\ phase' = "place" /\ functions' = functions /\ read' = read
    BY <1>10 DEF PlacesData
  <2> QED BY <2>1 DEF Pending
<1>11. CASE Saves \/ Assembles
  BY <1>11 DEF Saves, Assembles
<1> QED BY <1>3, <1>4, <1>5, <1>6, <1>7, <1>8, <1>9, <1>10, <1>11

\* What is assembled has the locals of its functions apart.
LEMMA ApartStep ==
  ASSUME PlainBuild, PlanInv, Chain(disk, buffers), ReaderInv, TypeInv, PlainInv, LocalsInv,
         [Next]_vars, image' # <<>>, OwnIn(read')
  PROVE  ApartIn(image', read')
<1>1. /\ FunctionsWell /\ loads \in 0..Len(Args.objects) /\ tempOffset \in Nat
      /\ FunctionList(functions) /\ DataList(shared) /\ DataList(constants)
  BY DEF TypeInv, CountsWell, FunctionsWell, DataWell, PlacedData
<1>2. \/ UNCHANGED vars
      \/ ReadLine \/ EndSource \/ Rests \/ Passes \/ Reveals \/ Moves
      \/ PlacesData \/ Saves \/ Assembles
  BY <1>1, PlainSteps
<1>3. CASE UNCHANGED vars
  BY <1>3 DEF vars, outVars, LocalsInv
<1>4. CASE Assembles
  <2>1. phase = "assemble" /\ image' = Assembled /\ read' = read
    BY <1>4 DEF Assembles
  <2>2. Pending = <<>> /\ phase \in Emitting /\ phase \notin {"done", "failed"}
    BY <2>1 DEF Pending, Emitting
  <2>3. AllCallsLegal(functions)
    BY <1>1, <2>2 DEF FunctionsWell
  <2>4. /\ ItemList(read) /\ \A i \in 1..Len(read) : Fresh(read[i])
        /\ Balance(functions, shared, constants, <<>>, read)
    BY <2>2 DEF PlainInv, AllFresh
  <2>5. /\ Traced(functions, <<>>, read)
        /\ AllPut(functions) /\ AllBoundTo(functions, Args.omitFP)
    BY <2>1, <2>2 DEF LocalsInv, PutInv
  <2> DEFINE o == Args.omitFP
  <2>6. AllBoundTo(functions, o)
    BY <2>5
  <2> HIDE DEF o
  <2>7. ApartIn(Assembled, read)
    BY <1>1, <2>1, <2>3, <2>4, <2>5, <2>6, AssembledApart
  <2> QED BY <2>1, <2>7
<1>5. CASE ~UNCHANGED vars /\ ~Assembles
  <2>1. image' = image /\ phase # "done"
    BY <1>2, <1>5
       DEF ReadLine, EndSource, Rests, Passes, Reveals, Moves, PlacesData, Saves, Steady,
           Emitting, outVars
  <2> QED BY <2>1 DEF PlainInv
<1> QED BY <1>3, <1>4, <1>5

LEMMA LocalsStep ==
  ASSUME PlainBuild, PlanInv, Chain(disk, buffers), ReaderInv, TypeInv, PlainInv, LocalsInv,
         [Next]_vars
  PROVE  LocalsInv'
<1>1. phase' \notin {"done", "failed"} => Traced(functions', Pending', read')
  BY TracedStep DEF LocalsInv
<1>2. PutInv'
  BY PutStep DEF LocalsInv, TypeInv
<1>3. image' # <<>> /\ OwnIn(read') => ApartIn(image', read')
  BY ApartStep
<1> QED BY <1>1, <1>2, <1>3 DEF LocalsInv

\* An id stands for one instruction: no two that were read have the same.
OwnIds == OwnIn(read)

\* In a build of one invocation without objects, whose instructions have ids of their
\* own, the image has a function's locals apart: each use of a local on the stack was
\* given the place Linker put that local at, relative to one register, different
\* locals do not overlap and all of them are within what Frame allocates, with a
\* frame pointer and without, through allocation, placing and both passes of values
\* (Linker::rebuildOffsets, assignValuesToLocalLabels, assignValuesToLabels).
THEOREM PlainLocalsApart == Spec => [](PlainBuild /\ OwnIds => LocalsApart)
<1>1. Init => (PlainBuild => PlainInv /\ LocalsInv)
  BY PlainInit, LocalsInit
<1>2. /\ TypeInv /\ IncludeInv /\ ReaderInv /\ (PlainBuild => PlainInv /\ LocalsInv)
      /\ [Next]_vars
      => (PlainBuild => PlainInv /\ LocalsInv)'
  <2> SUFFICES ASSUME TypeInv, IncludeInv, ReaderInv, PlainBuild => PlainInv /\ LocalsInv,
                      [Next]_vars, PlainBuild'
               PROVE  PlainInv' /\ LocalsInv'
    OBVIOUS
  <2>1. PlanInv /\ Chain(disk, buffers)
    BY DEF IncludeInv
  <2>2. disk' = disk /\ plan' = plan
    BY PlanSteps
  <2>3. PlainBuild
    BY <2>2 DEF PlainBuild
  <2> QED BY <2>1, <2>3, PlainStep, LocalsStep
<1>3. PlainBuild /\ (PlainBuild => PlainInv /\ LocalsInv) /\ OwnIds => LocalsApart
  <2> SUFFICES ASSUME PlainInv, LocalsInv, OwnIds PROVE LocalsApart
    OBVIOUS
  <2>1. ItemList(read) /\ (image # <<>> => ApartIn(image, read))
    BY DEF PlainInv, LocalsInv, OwnIds
  <2> QED BY <2>1, ApartIs
<1> QED BY <1>1, <1>2, <1>3, TypeAlways, PTL DEF Spec
=============================================================================
