--------------------------- MODULE CompiledProofs ----------------------------
(***************************************************************************)
(* Theorems about FlowGraph and Compiled for every function, every number  *)
(* of registers and temporaries and every set of values: where uses and    *)
(* defines cover what the statements do, no value that is used is lost.    *)
(* Then about Lowering and Frame, for every source: that they do cover it, *)
(* that what is passed arrives, and that a caller gets back its frame.     *)
(***************************************************************************)
EXTENDS Lowering, Induction

(* What the theorems assume of the functions.                              *)
AllCovered == \A k \in DOMAIN Table : Covered(Table[k])

-----------------------------------------------------------------------------
(* The visit: what has been left leads only to what was entered, and       *)
(* nothing is entered twice.                                               *)
VisitInv ==
  /\ 1 \in visited
  /\ \A j, k \in DOMAIN path : path[j] = path[k] => j = k
  /\ Elements(path) \cap Elements(visitList) = {}
  /\ \A n \in Elements(visitList) : fn.succs[n] \subseteq visited
  /\ at \in Nat \ {0}
  /\ phase = "visit" => at = 1
  /\ phase \notin {"visit", "thrown"} => path = <<>>

(* The equations of liveness, at a node.                                   *)
Equations(n) ==
  /\ \A p \in Nodes : n \in fn.succs[p] => liveIn[n] \subseteq liveOut[p]
  /\ liveOut[n] \ fn.defs[n] \subseteq liveIn[n]

Somewhere == UNION {fn.uses[n] : n \in Nodes}
Ran      == {"run", "returned", "ended"}
Analysed == {"interfere", "move", "built"} \cup Ran

(* A sweep that has modified nothing so far has left equations behind.     *)
LiveInv ==
  /\ \A n \in Nodes : fn.uses[n] \subseteq liveIn[n]
  /\ \A n \in Nodes : liveIn[n] \subseteq Somewhere /\ liveOut[n] \subseteq Somewhere
  /\ phase = "sweep" /\ ~modified =>
       \A k \in DOMAIN visitList : k < at => Equations(visitList[k])
  /\ phase \in Analysed \cup {"check"} =>
       \A n \in Elements(visitList) : Equations(n)
  /\ phase \in Analysed => Undefined = {}

(* The nodes the loop has passed have left their arcs.                     *)
GraphInv ==
  /\ GraphFits
  /\ phase = "check" => at = 1
  /\ phase = "interfere" => \A n \in Nodes : n < at => NewArcs(n) \subseteq interf
  /\ phase \in {"move", "built"} \cup Ran =>
       \A n \in Nodes : NewArcs(n) \subseteq interf
  /\ phase = "move" => \A n \in Nodes : n < at /\ fn.isMove[n] => IsOneToOne(n)
  /\ phase \in {"built"} \cup Ran =>
       \A n \in Nodes : fn.isMove[n] => IsOneToOne(n)
  /\ phase \in {"visit", "sweep", "check", "interfere"} => moves = {}

(* The two runs agree on all that is live.                                 *)
RunInv ==
  /\ phase \notin Ran => pc = 1
  /\ phase \in Ran =>
       /\ \A r \in Registers : colour[r] = r
       /\ \A u \in Named : colour[u] \in Registers
       /\ Proper(colour)
       /\ pc \in Elements(visitList)
       /\ \A u \in liveIn[pc] : left[u] = right[colour[u]]

(* The analysis is right whatever the statements do; the runs where uses   *)
(* and defines cover it.                                                   *)
FInv == FlowTypeOK /\ phase \in Phases \cup Outcomes /\ VisitInv /\ LiveInv /\ GraphInv
IInv == TypeOK /\ AllCovered /\ FInv /\ RunInv

-----------------------------------------------------------------------------
(* Sequences as sets.                                                      *)
LEMMA ElementsOfAppend ==
  ASSUME NEW S, NEW s \in Seq(S), NEW x \in S
  PROVE  /\ Append(s, x) \in Seq(S)
         /\ Append(s, x) # <<>>
         /\ Elements(Append(s, x)) = Elements(s) \cup {x}
<1> DEFINE t == Append(s, x)
<1>1. /\ t \in Seq(S) /\ t # <<>> /\ Len(s) \in Nat
      /\ DOMAIN s = 1 .. Len(s) /\ DOMAIN t = 1 .. Len(s) + 1
      /\ \A k \in 1 .. Len(s) : t[k] = s[k]
      /\ t[Len(s) + 1] = x
  OBVIOUS
<1>2. DOMAIN t = DOMAIN s \cup {Len(s) + 1}
  BY <1>1
<1> QED
  BY <1>1, <1>2 DEF Elements

WithoutLast(s) == SubSeq(s, 1, Len(s) - 1)

LEMMA ElementsOfFront ==
  ASSUME NEW S, NEW s \in Seq(S), s # <<>>
  PROVE  /\ WithoutLast(s) \in Seq(S)
         /\ Len(WithoutLast(s)) = Len(s) - 1
         /\ \A k \in 1 .. Len(s) - 1 : WithoutLast(s)[k] = s[k]
         /\ s[Len(s)] \in S
         /\ Elements(s) = Elements(WithoutLast(s)) \cup {s[Len(s)]}
<1> DEFINE t == WithoutLast(s)
<1>1. Len(s) \in Nat \ {0} /\ Len(s) - 1 \in Nat /\ \A k \in 1 .. Len(s) : s[k] \in S
  BY EmptySeq
<1>2. t \in Seq(S) /\ Len(t) = Len(s) - 1 /\ \A k \in 1 .. Len(s) - 1 : t[k] = s[k]
  <2> DEFINE last == Len(s) - 1
  <2>1. last \in Int /\ \A k \in 1 .. last : s[k] \in S
    BY <1>1
  <2> HIDE DEF last
  <2>2. /\ SubSeq(s, 1, last) \in Seq(S)
        /\ Len(SubSeq(s, 1, last)) = IF 1 <= last THEN last - 1 + 1 ELSE 0
        /\ \A k \in 1 .. last - 1 + 1 : SubSeq(s, 1, last)[k] = s[1 + k - 1]
    BY <2>1, SubSeqProperties
  <2>3. last \in Nat /\ last - 1 + 1 = last /\ \A k \in 1 .. last : 1 + k - 1 = k
    BY <1>1 DEF last
  <2>4. Len(SubSeq(s, 1, last)) = last
    BY <2>2, <2>3
  <2>5. \A k \in 1 .. last : SubSeq(s, 1, last)[k] = s[k]
    BY <2>2, <2>3
  <2>6. t = SubSeq(s, 1, last)
    BY DEF last, WithoutLast
  <2>7. t \in Seq(S) /\ Len(t) = last /\ \A k \in 1 .. last : t[k] = s[k]
    BY <2>2, <2>4, <2>5, <2>6
  <2> QED
    BY <2>7 DEF last
<1>3. 1 .. Len(s) = (1 .. Len(s) - 1) \cup {Len(s)}
  BY <1>1
<1>4. DOMAIN s = 1 .. Len(s) /\ DOMAIN t = 1 .. Len(s) - 1
  BY <1>2
<1>5. Elements(s) = {s[k] : k \in 1 .. Len(s)}
  BY <1>4 DEF Elements
<1>6. Elements(t) = {s[k] : k \in 1 .. Len(s) - 1}
  BY <1>2, <1>4 DEF Elements
<1> QED
  BY <1>1, <1>2, <1>3, <1>5, <1>6

LEMMA ElementsType ==
  ASSUME NEW S, NEW s \in Seq(S)
  PROVE  /\ Elements(s) \subseteq S
         /\ \A k \in DOMAIN s : s[k] \in Elements(s)
         /\ DOMAIN s = 1 .. Len(s)
         /\ Len(s) \in Nat
  BY DEF Elements

LEMMA ElementsOfNone == Elements(<<>>) = {}
  BY DEF Elements

(* The function at hand.                                                   *)
LEMMA FnFacts ==
  ASSUME FlowTypeOK
  PROVE  /\ fn.size \in Nat \ {0}
         /\ Nodes = 1 .. fn.size
         /\ fn.succs \in [Nodes -> SUBSET Nodes]
         /\ fn.uses \in [Nodes -> SUBSET Uid]
         /\ fn.defs \in [Nodes -> SUBSET Uid]
         /\ fn.isMove \in [Nodes -> BOOLEAN]
         /\ fn.reads \in [Nodes -> SUBSET Uid]
         /\ fn.writes \in [Nodes -> SUBSET Uid]
         /\ \A n \in Nodes : fn.isMove[n] =>
              /\ \A x, y \in fn.uses[n] : x = y
              /\ \A x, y \in fn.defs[n] : x = y
         /\ Registers \subseteq Uid /\ Temps \subseteq Uid
         /\ Registers \cap Temps = {}
<1>1. name \in DOMAIN Table /\ fn = Table[name] /\ Nodes = NodesOf(fn)
  BY DEF FlowTypeOK, fn, Nodes
<1>2. PICK f : f = Table[name]
  OBVIOUS
<1>3. f = fn
  BY <1>1, <1>2
<1>4. /\ f.size \in Nat \ {0}
      /\ f.succs \in [NodesOf(f) -> SUBSET NodesOf(f)]
      /\ f.uses \in [NodesOf(f) -> SUBSET Uid]
      /\ f.defs \in [NodesOf(f) -> SUBSET Uid]
      /\ f.isMove \in [NodesOf(f) -> BOOLEAN]
      /\ \A n \in NodesOf(f) : f.isMove[n] =>
           /\ \A x, y \in f.uses[n] : x = y
           /\ \A x, y \in f.defs[n] : x = y
  BY <1>1, <1>2, FlowAssumption DEF Table
<1>5. f.reads \in [NodesOf(f) -> SUBSET Uid] /\ f.writes \in [NodesOf(f) -> SUBSET Uid]
  BY <1>1, <1>2, CompiledAssumption DEF Table
<1> QED
  BY <1>1, <1>3, <1>4, <1>5, FlowAssumption DEF NodesOf, Uid

(* No step changes it.                                                     *)
LEMMA FnFixed ==
  ASSUME [Next]_vars
  PROVE  name' = name /\ fn' = fn /\ Nodes' = Nodes
<1>1. name' = name
  <2>1. CASE Analyse
    BY <2>1 DEF Analyse, FlowNext, Descend, Ascend, EndVisit, Sweep, SweepAgain,
       EndSweeps, CheckTemps, Interfere, InterfereThrows, EndInterfere, Move,
       MoveOfNothing, EndMoves
  <2>2. CASE Allocate
    BY <2>2 DEF Allocate
  <2>3. CASE Step
    BY <2>3 DEF Step, fvars
  <2>4. CASE Stop
    BY <2>4 DEF Stop
  <2>5. CASE UNCHANGED vars
    BY <2>5 DEF vars, fvars
  <2> QED
    BY <2>1, <2>2, <2>3, <2>4, <2>5 DEF Next
<1>2. fn' = fn
  BY <1>1 DEF fn, Table
<1> QED
  BY <1>1, <1>2 DEF Nodes

-----------------------------------------------------------------------------
(* Initial states.                                                         *)
LEMMA InitIsGood == Init => FInv /\ (AllCovered => IInv)
<1> SUFFICES ASSUME Init PROVE FInv /\ (AllCovered => IInv)
  OBVIOUS
<1> USE DEF Init, FlowInit
<1>0. /\ name \in DOMAIN Table
      /\ phase \in {"thrown", "visit"}
      /\ path = <<1>> /\ visitList = <<>> /\ at = 1 /\ modified = FALSE
      /\ liveIn = fn.uses /\ liveOut = [n \in Nodes |-> {}]
      /\ interf = {} /\ moves = {}
  OBVIOUS
<1>1. fn.size \in Nat \ {0} /\ fn.uses \in [Nodes -> SUBSET Uid] /\ Nodes = 1 .. fn.size
  <2>1. PICK f : f = Table[name]
    OBVIOUS
  <2>2. f.size \in Nat \ {0} /\ f.uses \in [NodesOf(f) -> SUBSET Uid]
    BY <1>0, <2>1, FlowAssumption DEF Table
  <2> QED
    BY <2>1, <2>2 DEF fn, Nodes, NodesOf
<1>2. 1 \in Nodes /\ path \in Seq(Nodes) /\ Elements(path) = {1} /\ Elements(visitList) = {}
  BY <1>0, <1>1 DEF Elements
<1>3. FlowTypeOK
  <2>1. visitList \in Seq(Nodes) /\ DOMAIN visitList = {}
    BY <1>0
  <2>2. liveOut \in [Nodes -> SUBSET Uid]
    BY <1>0
  <2>3. at \in Nat /\ interf \subseteq Arcs /\ moves \subseteq Arcs
    BY <1>0
  <2>5. modified \in BOOLEAN
    BY <1>0
  <2>4. liveIn \in [Nodes -> SUBSET Uid] /\ name \in DOMAIN Table
    BY <1>0, <1>1
  <2> QED
    BY <1>2, <2>1, <2>2, <2>3, <2>4, <2>5 DEF FlowTypeOK
<1>4. TypeOK
  BY <1>0, <1>2, <1>3 DEF TypeOK, Phases, Outcomes, Held
<1>5. VisitInv
  <2>1. DOMAIN path = {1}
    BY <1>0
  <2> QED
    BY <1>0, <1>2, <2>1 DEF VisitInv, visited
<1>6. LiveInv
  BY <1>0, <1>1, <1>2 DEF LiveInv, Somewhere, Analysed, Ran
<1>7. GraphInv
  BY <1>0 DEF GraphInv, GraphFits, Ran
<1>8. RunInv
  BY <1>0 DEF RunInv, Ran
<1> QED
  BY <1>3, <1>4, <1>5, <1>6, <1>7, <1>8 DEF IInv, FInv, TypeOK

-----------------------------------------------------------------------------
(* The analysis leaves the runs alone, and the runs the analysis.          *)
LEMMA VisitStep ==
  ASSUME FlowTypeOK, VisitInv, [Next]_vars
  PROVE  /\ VisitInv'
         /\ \A j, k \in DOMAIN visitList' : visitList'[j] = visitList'[k] => j = k
         /\ path' \in Seq(Nodes) /\ visitList' \in Seq(Nodes)
<1> DEFINE Once(s) == \A j, k \in DOMAIN s : s[j] = s[k] => j = k
           Kept == UNCHANGED <<path, visitList>>
<1>0. fn' = fn /\ Nodes' = Nodes
  BY FnFixed
<1>1. /\ path \in Seq(Nodes) /\ visitList \in Seq(Nodes) /\ Once(visitList)
      /\ fn.succs \in [Nodes -> SUBSET Nodes] /\ at \in Nat \ {0}
  BY FnFacts DEF FlowTypeOK, VisitInv
<1>2. ASSUME Kept, at' \in Nat \ {0}, phase' # "visit",
             phase \notin {"visit", "thrown"} \/ phase' = "thrown" \/ path = <<>>,
             phase = "thrown" => phase' = "thrown"
      PROVE  VisitInv' /\ Once(visitList') /\ path' \in Seq(Nodes) /\ visitList' \in Seq(Nodes)
  <2>1. visited' = visited /\ Elements(path') = Elements(path)
        /\ Elements(visitList') = Elements(visitList)
    BY <1>2 DEF visited, Elements
  <2>2. path' = path /\ visitList' = visitList
    BY <1>2
  <2>3. phase' \notin {"visit", "thrown"} => path' = <<>>
    BY <1>2, <2>2 DEF VisitInv
  <2> QED
    BY <1>0, <1>1, <1>2, <2>1, <2>2, <2>3 DEF VisitInv
<1>3. CASE Descend
  <2>1. PICK s \in fn.succs[Deepest] \ visited : path' = Append(path, s)
    BY <1>3 DEF Descend
  <2>2. /\ phase = "visit" /\ path # <<>> /\ UNCHANGED <<phase, visitList, at>>
    BY <1>3 DEF Descend
  <2>3. Deepest \in Nodes /\ s \in Nodes
    BY <1>1, <2>1, <2>2, ElementsOfFront DEF Deepest
  <2>4. path' \in Seq(Nodes) /\ Elements(path') = Elements(path) \cup {s}
    BY <1>1, <2>1, <2>3, ElementsOfAppend
  <2>5. visited' = visited \cup {s}
    BY <2>2, <2>4 DEF visited, Elements
  <2>6. Once(path')
    <3>1. \A k \in 1 .. Len(path) : path[k] # s
      BY <1>1, <2>1, ElementsType DEF visited
    <3>2. /\ DOMAIN path' = 1 .. Len(path) + 1 /\ path'[Len(path) + 1] = s
          /\ \A k \in 1 .. Len(path) : path'[k] = path[k]
          /\ Len(path) \in Nat /\ DOMAIN path = 1 .. Len(path)
      BY <1>1, <2>1
    <3> QED
      BY <3>1, <3>2 DEF VisitInv
  <2>7. Elements(path') \cap Elements(visitList') = {}
    BY <2>1, <2>2, <2>4 DEF VisitInv, visited
  <2> QED
    <3>1. Elements(visitList') = Elements(visitList) /\ Once(visitList')
      BY <1>1, <2>2 DEF Elements
    <3>2. \A n \in Elements(visitList') : fn'.succs[n] \subseteq visited'
      BY <1>0, <2>5, <3>1 DEF VisitInv
    <3>3. at' \in Nat \ {0} /\ (phase' = "visit" => at' = 1) /\ 1 \in visited'
          /\ (phase' \notin {"visit", "thrown"} => path' = <<>>)
      BY <2>2, <2>5 DEF VisitInv
    <3>4. visitList' \in Seq(Nodes)
      BY <1>1, <2>2
    <3>5. VisitInv'
      BY <2>6, <2>7, <3>2, <3>3 DEF VisitInv
    <3> QED
      BY <2>4, <3>1, <3>4, <3>5
<1>4. CASE Ascend
  <2>1. /\ phase = "visit" /\ path # <<>> /\ UNCHANGED <<phase, at>>
        /\ fn.succs[Deepest] \subseteq visited
        /\ visitList' = Append(visitList, Deepest)
        /\ path' = SubSeq(path, 1, Len(path) - 1)
    BY <1>4 DEF Ascend
  <2>2. /\ path' \in Seq(Nodes) /\ Len(path') = Len(path) - 1
        /\ \A k \in 1 .. Len(path) - 1 : path'[k] = path[k]
        /\ Deepest \in Nodes /\ Elements(path) = Elements(path') \cup {Deepest}
    <3>1. Deepest = path[Len(path)]
      BY DEF Deepest
    <3>3. /\ WithoutLast(path) \in Seq(Nodes) /\ Len(WithoutLast(path)) = Len(path) - 1
          /\ \A k \in 1 .. Len(path) - 1 : WithoutLast(path)[k] = path[k]
          /\ path[Len(path)] \in Nodes
          /\ Elements(path) = Elements(WithoutLast(path)) \cup {path[Len(path)]}
      BY <1>1, <2>1, ElementsOfFront
    <3>4. path' = WithoutLast(path)
      BY <2>1 DEF WithoutLast
    <3> QED
      BY <3>1, <3>3, <3>4
  <2>3. visitList' \in Seq(Nodes) /\ Elements(visitList') = Elements(visitList) \cup {Deepest}
    BY <1>1, <2>1, <2>2, ElementsOfAppend
  <2>4. visited' = visited
    BY <2>2, <2>3 DEF visited, Elements
  <2>5. /\ Len(path) \in Nat \ {0} /\ DOMAIN path = 1 .. Len(path)
        /\ DOMAIN path' = 1 .. Len(path) - 1
    BY <1>1, <2>1, <2>2
  <2>6. Once(path')
    BY <2>2, <2>5 DEF VisitInv
  <2>7. Deepest \notin Elements(path')
    BY <2>2, <2>5 DEF VisitInv, Elements, Deepest
  <2>8. Deepest \in Elements(path) /\ Deepest \notin Elements(visitList)
    BY <2>2 DEF VisitInv
  <2>9. Elements(path') \cap Elements(visitList') = {}
    BY <2>2, <2>3, <2>7, <2>8 DEF VisitInv
  <2>10. Once(visitList')
    <3>1. \A k \in 1 .. Len(visitList) : visitList[k] # Deepest
      BY <1>1, <2>8, ElementsType
    <3>2. /\ DOMAIN visitList' = 1 .. Len(visitList) + 1
          /\ visitList'[Len(visitList) + 1] = Deepest
          /\ \A k \in 1 .. Len(visitList) : visitList'[k] = visitList[k]
          /\ Len(visitList) \in Nat /\ DOMAIN visitList = 1 .. Len(visitList)
      BY <1>1, <2>1, <2>2
    <3> QED
      BY <1>1, <3>1, <3>2
  <2>11. \A n \in Elements(visitList') : fn.succs[n] \subseteq visited
    BY <2>1, <2>3 DEF VisitInv
  <2> QED
    <3>1. at' \in Nat \ {0} /\ (phase' = "visit" => at' = 1) /\ 1 \in visited'
          /\ (phase' \notin {"visit", "thrown"} => path' = <<>>)
      BY <2>1, <2>4 DEF VisitInv
    <3>2. \A n \in Elements(visitList') : fn'.succs[n] \subseteq visited'
      BY <1>0, <2>4, <2>11
    <3>3. VisitInv'
      BY <2>6, <2>9, <3>1, <3>2 DEF VisitInv
    <3> QED
      BY <2>2, <2>3, <2>10, <3>3
<1>5. CASE EndVisit
  BY <1>1, <1>2, <1>5 DEF EndVisit, visit
<1>6. CASE Sweep \/ SweepAgain \/ EndSweeps \/ CheckTemps
  BY <1>1, <1>2, <1>6 DEF Sweep, SweepAgain, EndSweeps, CheckTemps, visit
<1>7. CASE Interfere \/ InterfereThrows \/ EndInterfere \/ Move \/ MoveOfNothing \/ EndMoves
  BY <1>1, <1>2, <1>7 DEF Interfere, InterfereThrows, EndInterfere, Move, MoveOfNothing,
     EndMoves, visit
<1>8. CASE Allocate \/ Stop
  BY <1>1, <1>2, <1>8 DEF Allocate, Stop, visit
<1>9. CASE Step \/ UNCHANGED vars
  <2>1. UNCHANGED <<path, visitList, at, phase>>
    BY <1>9 DEF Step, vars, fvars, visit
  <2>2. visited' = visited /\ Elements(path') = Elements(path)
        /\ Elements(visitList') = Elements(visitList)
    BY <2>1 DEF visited, Elements
  <2> QED
    BY <1>0, <1>1, <2>1, <2>2 DEF VisitInv
<1> QED
  BY <1>3, <1>4, <1>5, <1>6, <1>7, <1>8, <1>9 DEF Next, Analyse, FlowNext

-----------------------------------------------------------------------------
(* The arcs of one node.                                                   *)
LEMMA NewArcsFit ==
  ASSUME FlowTypeOK, NEW n \in Nodes
  PROVE  /\ NewArcs(n) \subseteq Arcs
         /\ \A a \in NewArcs(n) : a[1] # a[2] /\ Flip(a) \in NewArcs(n)
         /\ \A y \in fn.defs[n], u \in liveOut[n] :
              y # u /\ ~(fn.isMove[n] /\ u \in fn.uses[n]) => <<y, u>> \in NewArcs(n)
<1> DEFINE apart == IF fn.isMove[n] THEN fn.uses[n] ELSE {}
           one == {a \in fn.defs[n] \X (liveOut[n] \ apart) : a[1] # a[2]}
<1>1. NewArcs(n) = one \cup {Flip(a) : a \in one}
  BY DEF NewArcs
<1>2. fn.defs[n] \subseteq Uid /\ liveOut[n] \subseteq Uid
  BY FnFacts DEF FlowTypeOK
<1>3. \A a \in one : /\ a = <<a[1], a[2]>> /\ a[1] # a[2]
                    /\ a[1] \in Uid /\ a[2] \in Uid
                    /\ Flip(a) = <<a[2], a[1]>> /\ Flip(Flip(a)) = a
  BY <1>2 DEF Flip
<1>4. ASSUME NEW a \in NewArcs(n)
      PROVE  a \in Arcs /\ a[1] # a[2] /\ Flip(a) \in NewArcs(n)
  <2>1. CASE a \in one
    BY <1>1, <1>3, <2>1 DEF Arcs
  <2>2. CASE \E b \in one : a = Flip(b)
    <3>1. PICK b \in one : a = Flip(b)
      BY <2>2
    <3> QED
      BY <1>1, <1>3, <3>1 DEF Arcs
  <2> QED
    BY <1>1, <2>1, <2>2
<1>5. ASSUME NEW y \in fn.defs[n], NEW u \in liveOut[n],
             y # u, ~(fn.isMove[n] /\ u \in fn.uses[n])
      PROVE  <<y, u>> \in NewArcs(n)
  <2>1. u \notin apart
    BY <1>5
  <2>2. <<y, u>> \in one
    BY <1>5, <2>1
  <2> QED
    BY <1>1, <2>2
<1> QED
  BY <1>4, <1>5

LEMMA NewMovesFit ==
  ASSUME FlowTypeOK, NEW n \in Nodes
  PROVE  NewMoves(n) \subseteq Arcs \ interf
<1>1. fn.defs[n] \subseteq Uid /\ fn.uses[n] \subseteq Uid
  BY FnFacts
<1> QED
  BY <1>1 DEF NewMoves, Arcs

(* What a sweep does to one node.                                          *)
LEMMA FlowFits ==
  ASSUME FlowTypeOK, NEW n \in Nodes
  PROVE  /\ FlowOut(n) \in [Nodes -> SUBSET Uid]
         /\ FlowIn(n, FlowOut(n)) \in [Nodes -> SUBSET Uid]
         /\ \A p \in Nodes : FlowOut(n)[p] = liveOut[p] \cup
               (IF n \in fn.succs[p] THEN liveIn[n] ELSE {})
         /\ \A p \in Nodes : FlowIn(n, FlowOut(n))[p] = liveIn[p] \cup
               (IF p = n THEN FlowOut(n)[n] \ fn.defs[n] ELSE {})
<1>1. liveIn \in [Nodes -> SUBSET Uid] /\ liveOut \in [Nodes -> SUBSET Uid]
  BY DEF FlowTypeOK
<1>2. \A p \in Nodes : FlowOut(n)[p] = liveOut[p] \cup
               (IF n \in fn.succs[p] THEN liveIn[n] ELSE {})
  BY <1>1 DEF FlowOut
<1>3. FlowOut(n) \in [Nodes -> SUBSET Uid]
  BY <1>1 DEF FlowOut
<1>4. PICK out \in [Nodes -> SUBSET Uid] : out = FlowOut(n)
  BY <1>3
<1>5. FlowIn(n, out) \in [Nodes -> SUBSET Uid]
  BY <1>1 DEF FlowIn
<1>6. \A p \in Nodes : FlowIn(n, out)[p] = liveIn[p] \cup
               (IF p = n THEN out[n] \ fn.defs[n] ELSE {})
  BY <1>1 DEF FlowIn
<1> QED
  BY <1>2, <1>3, <1>4, <1>5, <1>6

LEMMA FlowTypeStep ==
  ASSUME FInv, [Next]_vars
  PROVE  FlowTypeOK' /\ phase' \in Phases \cup Outcomes
<1>0. fn' = fn /\ Nodes' = Nodes /\ name' \in DOMAIN Table
  BY FnFixed DEF FInv, FlowTypeOK
<1>1. /\ FlowTypeOK /\ VisitInv' /\ path' \in Seq(Nodes) /\ visitList' \in Seq(Nodes)
      /\ \A j, k \in DOMAIN visitList' : visitList'[j] = visitList'[k] => j = k
      /\ at' \in Nat
  BY VisitStep DEF FInv, VisitInv
<1>2. /\ modified \in BOOLEAN /\ liveIn \in [Nodes -> SUBSET Uid]
      /\ liveOut \in [Nodes -> SUBSET Uid] /\ interf \subseteq Arcs /\ moves \subseteq Arcs
      /\ at \in Nat \ {0} /\ visitList \in Seq(Nodes)
      /\ phase \in Phases \cup Outcomes
  BY DEF FInv, FlowTypeOK, VisitInv
<1>3. Nodes = 1 .. fn.size /\ fn.size \in Nat \ {0}
  BY <1>1, FnFacts
<1> DEFINE Rest == /\ modified' \in BOOLEAN /\ liveIn' \in [Nodes -> SUBSET Uid]
                   /\ liveOut' \in [Nodes -> SUBSET Uid] /\ interf' \subseteq Arcs
                   /\ moves' \subseteq Arcs /\ phase' \in Phases \cup Outcomes
<1>12. SUFFICES Rest
  BY <1>0, <1>1 DEF FlowTypeOK
<1>4. CASE Sweep
  <2>1. PICK n : n = visitList[at]
    OBVIOUS
  <2>2. /\ at <= Len(visitList) /\ liveOut' = FlowOut(n) /\ liveIn' = FlowIn(n, FlowOut(n))
        /\ UNCHANGED <<phase, interf, moves>>
    BY <1>4, <2>1 DEF Sweep, graph
  <2>3. n \in Nodes
    BY <1>2, <2>1, <2>2
  <2>4. modified' \in BOOLEAN
    BY <1>4 DEF Sweep
  <2> QED
    BY <1>1, <1>2, <2>2, <2>3, <2>4, FlowFits
<1>5. CASE Interfere
  <2>1. /\ at <= fn.size /\ interf' = interf \cup NewArcs(at)
        /\ UNCHANGED <<phase, modified, liveIn, liveOut, moves>>
    BY <1>5 DEF Interfere, live
  <2>2. at \in Nodes
    BY <1>2, <1>3, <2>1
  <2> QED
    BY <1>1, <1>2, <2>1, <2>2, NewArcsFit
<1>6. CASE Move
  <2>1. /\ at <= fn.size /\ moves' = moves \cup NewMoves(at)
        /\ UNCHANGED <<phase, modified, liveIn, liveOut, interf>>
    BY <1>6 DEF Move, live
  <2>2. at \in Nodes
    BY <1>2, <1>3, <2>1
  <2> QED
    BY <1>1, <1>2, <2>1, <2>2, NewMovesFit
<1>7. CASE SweepAgain
  BY <1>2, <1>7 DEF SweepAgain, live, graph
<1>8. CASE Descend \/ Ascend \/ EndVisit \/ EndSweeps \/ CheckTemps
  BY <1>2, <1>8 DEF Descend, Ascend, EndVisit, EndSweeps, CheckTemps, live, graph, Phases
<1>9. CASE InterfereThrows \/ EndInterfere \/ MoveOfNothing \/ EndMoves
  BY <1>2, <1>9 DEF InterfereThrows, EndInterfere, MoveOfNothing, EndMoves, live, graph, Phases
<1>10. CASE Allocate \/ Step \/ Stop \/ UNCHANGED vars
  BY <1>2, <1>10 DEF Allocate, Step, Stop, vars, fvars, live, graph, Outcomes
<1> QED
  BY <1>4, <1>5, <1>6, <1>7, <1>8, <1>9, <1>10 DEF Next, Analyse, FlowNext

-----------------------------------------------------------------------------
(* Live sets.                                                              *)
LEMMA LiveStep ==
  ASSUME FInv, [Next]_vars
  PROVE  LiveInv'
<1>0. fn' = fn /\ Nodes' = Nodes
  BY FnFixed
<1>1. /\ FlowTypeOK /\ LiveInv /\ at \in Nat \ {0} /\ visitList \in Seq(Nodes)
      /\ liveIn \in [Nodes -> SUBSET Uid] /\ liveOut \in [Nodes -> SUBSET Uid]
  BY DEF FInv, FlowTypeOK, VisitInv
<1>2. Somewhere' = Somewhere
  BY <1>0 DEF Somewhere
<1>3. ASSUME UNCHANGED <<liveIn, liveOut, visitList>>
      PROVE  /\ \A n \in Nodes : Equations(n)' <=> Equations(n)
             /\ Elements(visitList') = Elements(visitList)
             /\ Undefined' = Undefined
  BY <1>0, <1>3 DEF Equations, Elements, Undefined
<1>4. ASSUME UNCHANGED <<liveIn, liveOut, visitList>>,
             phase' = "sweep" /\ ~modified' =>
               at' = 1 \/ (phase = "sweep" /\ ~modified /\ at' = at),
             phase' \in Analysed \cup {"check"} => phase \in Analysed \cup {"check"},
             phase' \in Analysed => phase \in Analysed \/ Undefined = {}
      PROVE  LiveInv'
  <2>1. /\ \A n \in Nodes : fn'.uses[n] \subseteq liveIn'[n]
        /\ \A n \in Nodes : liveIn'[n] \subseteq Somewhere' /\ liveOut'[n] \subseteq Somewhere'
    BY <1>0, <1>1, <1>2, <1>4 DEF LiveInv
  <2>2. ASSUME phase' = "sweep", ~modified', NEW k \in DOMAIN visitList', k < at'
        PROVE  Equations(visitList[k])'
    <3>1. k \in Nat \ {0} /\ visitList[k] \in Nodes /\ visitList' = visitList
      BY <1>1, <1>4, <2>2
    <3>2. Equations(visitList[k])
      BY <1>1, <1>4, <2>2, <3>1 DEF LiveInv
    <3> QED
      BY <1>3, <1>4, <3>1, <3>2 DEF Equations
  <2>3. ASSUME phase' \in Analysed \cup {"check"}, NEW n \in Elements(visitList')
        PROVE  Equations(n)'
    <3>1. n \in Elements(visitList) /\ n \in Nodes
      BY <1>1, <1>3, <1>4, ElementsType
    <3> QED
      BY <1>1, <1>3, <1>4, <2>3, <3>1 DEF LiveInv
  <2>4. phase' \in Analysed => Undefined' = {}
    BY <1>1, <1>3, <1>4 DEF LiveInv
  <2> QED
    BY <1>0, <2>1, <2>2, <2>3, <2>4 DEF LiveInv
<1> USE DEF Analysed, Ran
<1>5. CASE Descend \/ Ascend
  <2>1. UNCHANGED <<liveIn, liveOut>> /\ phase' = "visit"
    BY <1>5 DEF Descend, Ascend, live
  <2> QED
    BY <1>0, <1>1, <1>2, <2>1 DEF LiveInv
<1>6. CASE EndVisit
  <2>1. at' = 1 /\ UNCHANGED <<liveIn, liveOut, visitList>> /\ phase' = "sweep"
    BY <1>6 DEF EndVisit, live, visit, FInv, VisitInv
  <2> QED
    BY <1>4, <2>1
<1>7. CASE SweepAgain
  <2>1. at' = 1 /\ UNCHANGED <<liveIn, liveOut, visitList>> /\ phase' = "sweep"
    BY <1>7 DEF SweepAgain, live, visit
  <2> QED
    BY <1>4, <2>1
<1>8. CASE CheckTemps \/ Interfere \/ InterfereThrows \/ EndInterfere
  BY <1>4, <1>8 DEF CheckTemps, Interfere, InterfereThrows, EndInterfere, live, visit
<1>9. CASE Move \/ MoveOfNothing \/ EndMoves \/ Allocate
  BY <1>4, <1>9 DEF Move, MoveOfNothing, EndMoves, Allocate, live, visit
<1>10. CASE Step \/ Stop \/ UNCHANGED vars
  BY <1>4, <1>10 DEF Step, Stop, vars, fvars, live, visit
<1>11. CASE EndSweeps
  <2>1. /\ phase = "sweep" /\ at > Len(visitList) /\ ~modified /\ phase' = "check"
        /\ UNCHANGED <<liveIn, liveOut, visitList>>
    BY <1>11 DEF EndSweeps, live, visit
  <2>2. \A n \in Elements(visitList) : n \in Nodes /\ Equations(n)
    <3>1. ASSUME NEW n \in Elements(visitList)
          PROVE  n \in Nodes /\ Equations(n)
      <4>1. PICK k \in DOMAIN visitList : n = visitList[k]
        BY DEF Elements
      <4>2. k < at /\ visitList[k] \in Nodes
        BY <1>1, <2>1, <4>1
      <4> QED
        BY <1>1, <2>1, <4>1, <4>2 DEF LiveInv
    <3> QED
      BY <3>1
  <2>3. \A n \in Elements(visitList') : Equations(n)'
    BY <1>3, <2>1, <2>2
  <2> QED
    BY <1>0, <1>1, <1>2, <2>1, <2>3 DEF LiveInv
<1>12. CASE Sweep
  <2>1. PICK n : n = visitList[at]
    OBVIOUS
  <2>2. /\ phase' = "sweep" /\ phase = "sweep" /\ at <= Len(visitList) /\ at' = at + 1
        /\ liveOut' = FlowOut(n) /\ liveIn' = FlowIn(n, FlowOut(n))
        /\ UNCHANGED visitList
    BY <1>12, <2>1 DEF Sweep, visit
  <2>3. n \in Nodes
    BY <1>1, <2>1, <2>2
  <2>4. \A p \in Nodes : liveOut'[p] = liveOut[p] \cup
          (IF n \in fn.succs[p] THEN liveIn[n] ELSE {})
    BY <1>1, <2>2, <2>3, FlowFits
  <2>5. \A p \in Nodes : liveIn'[p] = liveIn[p] \cup
          (IF p = n THEN liveOut'[n] \ fn.defs[n] ELSE {})
    BY <1>1, <2>2, <2>3, FlowFits
  <2>6. /\ \A p \in Nodes : fn.uses[p] \subseteq liveIn'[p]
        /\ \A p \in Nodes : liveOut'[p] \subseteq Somewhere
    BY <1>1, <2>3, <2>4, <2>5 DEF LiveInv
  <2>7. \A p \in Nodes : liveIn'[p] \subseteq Somewhere
    BY <1>1, <2>3, <2>5, <2>6 DEF LiveInv
  <2>8. ASSUME ~modified'
        PROVE  ~modified /\ liveIn' = liveIn /\ liveOut' = liveOut
    BY <1>12, <2>8 DEF Sweep, live
  <2>9. ASSUME ~modified', NEW k \in DOMAIN visitList, k < at + 1
        PROVE  Equations(visitList[k])'
    <3>1. ~modified /\ liveIn' = liveIn /\ liveOut' = liveOut
      BY <2>8, <2>9
    <3>2. k \in Nat /\ visitList[k] \in Nodes
      BY <1>1
    <3>3. CASE k < at
      <4>1. Equations(visitList[k])
        BY <1>1, <2>2, <3>1, <3>3 DEF LiveInv
      <4> QED
        BY <1>0, <2>2, <3>1, <4>1 DEF Equations
    <3>4. CASE k = at
      <4>1. visitList[k] = n
        BY <2>1, <3>4
      <4>2. \A p \in Nodes : n \in fn.succs[p] => liveIn'[n] \subseteq liveOut'[p]
        BY <2>4, <3>1
      <4>3. liveOut'[n] \ fn.defs[n] \subseteq liveIn'[n]
        BY <2>3, <2>5
      <4> QED
        BY <1>0, <2>2, <4>1, <4>2, <4>3 DEF Equations
    <3> QED
      BY <1>1, <2>9, <3>2, <3>3, <3>4
  <2>10. phase' = "sweep" /\ ~modified' =>
           \A k \in DOMAIN visitList' : k < at' => Equations(visitList[k])'
    BY <2>2, <2>9
  <2> QED
    BY <1>0, <1>2, <2>2, <2>6, <2>7, <2>10 DEF LiveInv
<1> QED
  BY <1>5, <1>6, <1>7, <1>8, <1>9, <1>10, <1>11, <1>12 DEF Next, Analyse, FlowNext

-----------------------------------------------------------------------------
(* The interference graph.                                                 *)
LEMMA GraphStep ==
  ASSUME FInv, [Next]_vars
  PROVE  GraphInv'
<1>0. fn' = fn /\ Nodes' = Nodes
  BY FnFixed
<1>1. /\ FlowTypeOK /\ GraphInv /\ at \in Nat \ {0}
      /\ Nodes = 1 .. fn.size /\ fn.size \in Nat \ {0}
  BY FnFacts DEF FInv, VisitInv
<1>2. ASSUME liveOut' = liveOut
      PROVE  \A n \in Nodes : NewArcs(n)' = NewArcs(n)
  BY <1>0, <1>2 DEF NewArcs
<1>3. \A n \in Nodes : IsOneToOne(n)' <=> IsOneToOne(n)
  BY <1>0 DEF IsOneToOne
<1>4. UNCHANGED interf /\ UNCHANGED moves => GraphFits'
  BY <1>1 DEF GraphInv, GraphFits
<1> USE DEF Ran
<1>5. CASE Descend \/ Ascend \/ EndVisit \/ Sweep \/ SweepAgain \/ EndSweeps \/ CheckTemps
  <2>1. /\ UNCHANGED <<interf, moves>> /\ moves = {}
        /\ phase' \in {"visit", "sweep", "check", "interfere", "thrown"}
        /\ phase' \in {"check", "interfere"} => at' = 1
    BY <1>1, <1>5 DEF Descend, Ascend, EndVisit, Sweep, SweepAgain, EndSweeps, CheckTemps,
       graph, GraphInv
  <2>2. \A n \in Nodes : ~(n < 1)
    BY <1>1
  <2> QED
    BY <1>0, <1>4, <2>1, <2>2 DEF GraphInv
<1>6. CASE Interfere
  <2>1. /\ phase = "interfere" /\ phase' = "interfere" /\ at <= fn.size /\ at' = at + 1
        /\ interf' = interf \cup NewArcs(at) /\ UNCHANGED <<liveOut, moves>>
    BY <1>6 DEF Interfere, live
  <2>2. PICK n \in Nodes : n = at
    BY <1>1, <2>1
  <2>3. \A a \in NewArcs(n) : a[1] # a[2] /\ Flip(a) \in NewArcs(n)
    BY <1>1, NewArcsFit
  <2>4. moves' = {} /\ \A a \in interf : a[1] # a[2] /\ Flip(a) \in interf
    BY <1>1, <2>1 DEF GraphInv, GraphFits
  <2>5. GraphFits'
    BY <2>1, <2>2, <2>3, <2>4 DEF GraphFits
  <2>6. ASSUME NEW m \in Nodes, m < at'
        PROVE  NewArcs(m)' \subseteq interf'
    <3>1. m < at \/ m = n
      BY <1>1, <2>1, <2>2, <2>6
    <3>2. NewArcs(m) \subseteq interf'
      BY <1>1, <2>1, <2>2, <3>1 DEF GraphInv
    <3> QED
      BY <1>2, <2>1, <3>2
  <2> QED
    BY <1>0, <2>1, <2>4, <2>5, <2>6 DEF GraphInv
<1>7. CASE InterfereThrows \/ MoveOfNothing
  <2>1. UNCHANGED <<interf, moves>> /\ phase' \in {"thrown", "crashed"}
    BY <1>7 DEF InterfereThrows, MoveOfNothing, graph
  <2> QED
    BY <1>4, <2>1 DEF GraphInv
<1>8. CASE EndInterfere
  <2>1. /\ UNCHANGED <<liveOut, interf, moves>> /\ phase = "interfere" /\ phase' = "move"
        /\ at > fn.size /\ at' = 1
    BY <1>8 DEF EndInterfere, live, graph
  <2>2. \A n \in Nodes : n < at /\ ~(n < 1)
    BY <1>1, <2>1
  <2>3. \A n \in Nodes : NewArcs(n)' \subseteq interf'
    BY <1>1, <1>2, <2>1, <2>2 DEF GraphInv
  <2> QED
    BY <1>0, <1>4, <2>1, <2>2, <2>3 DEF GraphInv
<1>9. CASE Move
  <2>1. /\ phase = "move" /\ phase' = "move" /\ at <= fn.size /\ at' = at + 1
        /\ fn.isMove[at] => IsOneToOne(at)
        /\ moves' = moves \cup NewMoves(at) /\ UNCHANGED <<liveOut, interf>>
    BY <1>9 DEF Move, live
  <2>2. PICK n \in Nodes : n = at
    BY <1>1, <2>1
  <2>3. NewMoves(n) \cap interf = {}
    BY <1>1, NewMovesFit
  <2>4. GraphFits'
    BY <1>1, <2>1, <2>2, <2>3 DEF GraphInv, GraphFits
  <2>5. \A m \in Nodes : m < at' => m < at \/ m = n
    BY <1>1, <2>1, <2>2
  <2>6. \A m \in Nodes : m < at' /\ fn.isMove[m] => IsOneToOne(m)
    BY <1>1, <2>1, <2>2, <2>5 DEF GraphInv
  <2>7. \A m \in Nodes : NewArcs(m)' \subseteq interf'
    BY <1>1, <1>2, <2>1 DEF GraphInv
  <2> QED
    BY <1>0, <1>3, <2>1, <2>4, <2>6, <2>7 DEF GraphInv
<1>10. CASE EndMoves
  <2>1. /\ UNCHANGED <<liveOut, interf, moves>> /\ phase = "move" /\ phase' = "built"
        /\ at > fn.size
    BY <1>10 DEF EndMoves, live, graph
  <2>2. \A n \in Nodes : n < at
    BY <1>1, <2>1
  <2>3. \A n \in Nodes : NewArcs(n)' \subseteq interf'
    BY <1>1, <1>2, <2>1 DEF GraphInv
  <2>4. \A n \in Nodes : fn.isMove[n] => IsOneToOne(n)
    BY <1>1, <2>1, <2>2 DEF GraphInv
  <2> QED
    BY <1>0, <1>3, <1>4, <2>1, <2>3, <2>4 DEF GraphInv
<1>11. CASE Allocate \/ Step \/ Stop
  <2>1. /\ UNCHANGED <<liveOut, interf, moves>>
        /\ phase \in {"built"} \cup Ran /\ phase' \in Ran
    BY <1>11 DEF Allocate, Step, Stop, fvars, live, graph
  <2>2. \A n \in Nodes : NewArcs(n)' \subseteq interf'
    BY <1>1, <1>2, <2>1 DEF GraphInv
  <2>3. \A n \in Nodes : fn.isMove[n] => IsOneToOne(n)
    BY <1>1, <2>1 DEF GraphInv
  <2> QED
    BY <1>0, <1>3, <1>4, <2>1, <2>2, <2>3 DEF GraphInv
<1>12. CASE UNCHANGED vars
  <2>1. UNCHANGED <<phase, at, liveOut, interf, moves>>
    BY <1>12 DEF vars, fvars, live, graph
  <2>2. \A n \in Nodes : NewArcs(n)' = NewArcs(n)
    BY <1>2, <2>1
  <2> QED
    BY <1>0, <1>1, <1>3, <1>4, <2>1, <2>2 DEF GraphInv
<1> QED
  BY <1>5, <1>6, <1>7, <1>8, <1>9, <1>10, <1>11, <1>12 DEF Next, Analyse, FlowNext

-----------------------------------------------------------------------------
(* What the statement to be executed may rely on: what it uses, and what   *)
(* it leaves alone of what lives on, agrees; what it writes shares a       *)
(* register with something that lives on only as a copy of it.             *)
LEMMA AtStatement ==
  ASSUME IInv, phase = "run", NEW n, n = pc
  PROVE  /\ n \in Nodes
         /\ fn.reads[n] \subseteq fn.uses[n] /\ fn.writes[n] \subseteq fn.defs[n]
         /\ fn.uses[n] \cup fn.defs[n] \cup liveOut[n] \subseteq Uid
         /\ \A u \in fn.uses[n] \cup fn.defs[n] \cup liveOut[n] : colour[u] \in Registers
         /\ \A u \in fn.uses[n] : left[u] = right[colour[u]]
         /\ \A u \in liveOut[n] :
              u \notin fn.defs[n] \/ u \in fn.uses[n] => left[u] = right[colour[u]]
         /\ \A y \in fn.defs[n], u \in liveOut[n] :
              y # u /\ colour[y] = colour[u] =>
                fn.copies[n] /\ u \in fn.uses[n] /\ \A x \in fn.uses[n] : x = u
         /\ fn.defs[n] \subseteq fn.writes[n] \cup fn.uses[n]
         /\ fn.idle[n] => fn.defs[n] \subseteq fn.uses[n]
         /\ fn.copies[n] => /\ \A x, y \in fn.reads[n] : x = y
                            /\ \A x, y \in fn.writes[n] : x = y
         /\ fn.compared[n] # {} =>
              \/ fn.copies[n] /\ fn.compared[n] \subseteq fn.reads[n] \X fn.writes[n]
              \/ fn.writes[n] = {}
<1>1. /\ FlowTypeOK /\ LiveInv /\ GraphInv /\ RunInv /\ n \in Nodes
      /\ liveIn \in [Nodes -> SUBSET Uid] /\ liveOut \in [Nodes -> SUBSET Uid]
  BY DEF IInv, FInv, TypeOK, FlowTypeOK
<1>2. /\ fn.uses \in [Nodes -> SUBSET Uid] /\ fn.defs \in [Nodes -> SUBSET Uid]
      /\ fn.isMove[n] => \A x, y \in fn.uses[n] : x = y
  BY <1>1, FnFacts
<1>3. Covered(fn) /\ Nodes = NodesOf(fn)
  BY DEF IInv, AllCovered, TypeOK, FlowTypeOK, fn, Nodes
<1>4. /\ fn.reads[n] \subseteq fn.uses[n] /\ fn.writes[n] \subseteq fn.defs[n]
      /\ fn.defs[n] \subseteq fn.writes[n] \cup fn.uses[n]
      /\ fn.isMove[n] /\ fn.uses[n] # {} /\ fn.defs[n] # {} => fn.copies[n]
      /\ fn.idle[n] => fn.defs[n] \subseteq fn.uses[n]
      /\ fn.copies[n] => /\ \A x, y \in fn.reads[n] : x = y
                         /\ \A x, y \in fn.writes[n] : x = y
      /\ fn.compared[n] # {} =>
           \/ fn.copies[n] /\ fn.compared[n] \subseteq fn.reads[n] \X fn.writes[n]
           \/ fn.writes[n] = {}
  BY <1>1, <1>3 DEF Covered
<1>5. /\ n \in Elements(visitList)
      /\ \A u \in liveIn[n] : left[u] = right[colour[u]]
      /\ \A u \in Named : colour[u] \in Registers
      /\ Proper(colour)
  BY <1>1 DEF RunInv, Ran
<1>6. /\ fn.uses[n] \subseteq liveIn[n]
      /\ liveOut[n] \subseteq Somewhere
      /\ liveOut[n] \ fn.defs[n] \subseteq liveIn[n]
  <2>1. Equations(n)
    BY <1>1, <1>5 DEF LiveInv, Analysed, Ran
  <2> QED
    BY <1>1, <2>1 DEF LiveInv, Equations
<1>7. fn.uses[n] \cup fn.defs[n] \cup liveOut[n] \subseteq Named
  BY <1>1, <1>6 DEF Named, Somewhere
<1>8. ASSUME NEW y \in fn.defs[n], NEW u \in liveOut[n], y # u, colour[y] = colour[u]
      PROVE  fn.copies[n] /\ u \in fn.uses[n] /\ \A x \in fn.uses[n] : x = u
  <2>1. NewArcs(n) \subseteq interf /\ (fn.isMove[n] => IsOneToOne(n))
    BY <1>1 DEF GraphInv, Ran
  <2>2. fn.isMove[n] /\ u \in fn.uses[n]
    <3>1. SUFFICES ASSUME ~(fn.isMove[n] /\ u \in fn.uses[n]) PROVE FALSE
      OBVIOUS
    <3>2. <<y, u>> \in interf
      BY <1>1, <1>8, <2>1, <3>1, NewArcsFit
    <3>3. colour[y] # colour[u]
      BY <1>5, <3>2 DEF Proper
    <3> QED
      BY <1>8, <3>3
  <2> QED
    BY <1>2, <1>4, <2>1, <2>2 DEF IsOneToOne
<1> QED
  BY <1>1, <1>2, <1>4, <1>5, <1>6, <1>7, <1>8

(* After it, everything that lives on agrees.                              *)
LEMMA ExecuteAgrees ==
  ASSUME IInv, phase = "run", Execute(pc)
  PROVE  /\ \A u \in liveOut[pc] : left'[u] = right'[colour[u]]
         /\ left' \in [Uid -> Held] /\ right' \in [Registers -> Held]
<1>0. PICK n : n = pc
  OBVIOUS
<1> DEFINE out == liveOut[n]
<1>1. /\ n \in Nodes
      /\ fn.reads[n] \subseteq fn.uses[n] /\ fn.writes[n] \subseteq fn.defs[n]
      /\ fn.uses[n] \cup fn.defs[n] \cup out \subseteq Uid
      /\ \A u \in fn.uses[n] \cup fn.defs[n] \cup out : colour[u] \in Registers
      /\ \A u \in fn.uses[n] : left[u] = right[colour[u]]
      /\ \A u \in out :
           u \notin fn.defs[n] \/ u \in fn.uses[n] => left[u] = right[colour[u]]
      /\ \A y \in fn.defs[n], u \in out :
           y # u /\ colour[y] = colour[u] =>
             fn.copies[n] /\ u \in fn.uses[n] /\ \A x \in fn.uses[n] : x = u
      /\ fn.defs[n] \subseteq fn.writes[n] \cup fn.uses[n]
      /\ fn.idle[n] => fn.defs[n] \subseteq fn.uses[n]
      /\ fn.copies[n] => /\ \A x, y \in fn.reads[n] : x = y
                         /\ \A x, y \in fn.writes[n] : x = y
      /\ fn.compared[n] # {} =>
           \/ fn.copies[n] /\ fn.compared[n] \subseteq fn.reads[n] \X fn.writes[n]
           \/ fn.writes[n] = {}
  BY <1>0, AtStatement
<1>2. left \in [Uid -> Held] /\ right \in [Registers -> Held]
  BY DEF IInv, TypeOK
<1>3. Execute(n)
  BY <1>0
<1>4. SUFFICES /\ \A u \in out : left'[u] = right'[colour[u]]
               /\ left' \in [Uid -> Held] /\ right' \in [Registers -> Held]
  BY <1>0
<1>5. CASE fn.idle[n]
  <2>1. left' = left /\ right' = right
    BY <1>3, <1>5 DEF Execute
  <2> QED
    BY <1>1, <1>2, <1>5, <2>1
<1>6. CASE ~fn.idle[n] /\ ~Removed(n) /\ fn.copies[n]
  <2>1. PICK x \in fn.reads[n], y \in fn.writes[n] :
          /\ left' = [left EXCEPT ![y] = left[x]]
          /\ right' = [right EXCEPT ![colour[y]] = right[colour[x]]]
    BY <1>3, <1>6 DEF Execute, Copy
  <2>2. x \in Uid /\ y \in Uid /\ colour[x] \in Registers /\ colour[y] \in Registers
    BY <1>1
  <2>3. left' \in [Uid -> Held] /\ right' \in [Registers -> Held]
    BY <1>2, <2>1, <2>2
  <2>4. /\ left'[y] = left[x] /\ \A u \in Uid : u # y => left'[u] = left[u]
        /\ right'[colour[y]] = right[colour[x]]
        /\ \A r \in Registers : r # colour[y] => right'[r] = right[r]
    BY <1>2, <2>1, <2>2
  <2>5. ASSUME NEW u \in out
        PROVE  left'[u] = right'[colour[u]]
    <3>1. left[x] = right[colour[x]] /\ u \in Uid /\ colour[u] \in Registers
      BY <1>1
    <3>2. CASE u = y
      BY <2>4, <3>1, <3>2
    <3>3. CASE u # y /\ colour[u] # colour[y]
      <4>1. u \notin fn.defs[n] \/ u \in fn.uses[n]
        BY <1>1, <1>6, <3>3
      <4> QED
        BY <1>1, <2>4, <3>1, <3>3, <4>1
    <3>4. CASE u # y /\ colour[u] = colour[y]
      <4>1. x = u
        BY <1>1, <3>4
      <4> QED
        BY <2>4, <3>1, <3>4, <4>1
    <3> QED
      BY <3>2, <3>3, <3>4
  <2> QED
    BY <2>3, <2>5
<1>7. CASE ~fn.idle[n] /\ ~Removed(n) /\ ~fn.copies[n]
  <2>1. PICK vals \in [fn.writes[n] -> Value], last \in [Used(n) -> fn.writes[n]] :
          /\ left' = Written(n, vals)
          /\ \A r \in Used(n) : colour[last[r]] = r
          /\ right' = InRegisters(n, vals, last)
    BY <1>3, <1>7 DEF Execute, Compute
  <2>2. /\ left' = [u \in Uid |-> IF u \in fn.writes[n] THEN vals[u] ELSE left[u]]
        /\ right' = [r \in Registers |-> IF r \in Used(n) THEN vals[last[r]] ELSE right[r]]
    BY <2>1 DEF Written, InRegisters
  <2>3. left' \in [Uid -> Held] /\ right' \in [Registers -> Held]
    <3>1. \A u \in fn.writes[n] : vals[u] \in Held
      BY DEF Held
    <3>2. \A r \in Used(n) : vals[last[r]] \in Held
      BY <3>1
    <3> QED
      BY <1>2, <2>2, <3>1, <3>2
  <2>4. ASSUME NEW u \in out
        PROVE  left'[u] = right'[colour[u]]
    <3>0. u \in Uid /\ colour[u] \in Registers
      BY <1>1
    <3>1. \A y \in fn.defs[n] : colour[y] = colour[u] => y = u
      BY <1>1, <1>7
    <3>2. CASE u \in fn.writes[n]
      <4>1. colour[u] \in Used(n)
        BY <3>2 DEF Used
      <4>2. last[colour[u]] \in fn.writes[n] /\ colour[last[colour[u]]] = colour[u]
        BY <2>1, <4>1
      <4>3. last[colour[u]] = u
        BY <1>1, <3>1, <4>2
      <4> QED
        BY <2>2, <3>0, <3>2, <4>1, <4>3
    <3>3. CASE u \notin fn.writes[n]
      <4>1. colour[u] \notin Used(n)
        BY <1>1, <3>1, <3>3 DEF Used
      <4>2. u \notin fn.defs[n] \/ u \in fn.uses[n]
        BY <1>1, <3>3
      <4>3. left[u] = right[colour[u]]
        BY <1>1, <4>2
      <4> QED
        BY <2>2, <3>0, <3>3, <4>1, <4>3
    <3> QED
      BY <3>2, <3>3
  <2> QED
    BY <2>3, <2>4
<1>8. CASE ~fn.idle[n] /\ Removed(n) /\ fn.copies[n]
  <2>1. PICK x \in fn.reads[n], y \in fn.writes[n] :
          left' = [left EXCEPT ![y] = left[x]] /\ right' = right
    BY <1>3, <1>8 DEF Execute
  <2>2. colour[x] = colour[y]
    <3>1. PICK p \in fn.compared[n] : colour[p[1]] = colour[p[2]]
      BY <1>8 DEF Removed
    <3>2. p \in fn.reads[n] \X fn.writes[n]
      BY <1>1, <2>1, <3>1
    <3>3. p[1] = x /\ p[2] = y
      BY <1>1, <1>8, <3>2
    <3> QED
      BY <3>1, <3>3
  <2>3. x \in Uid /\ y \in Uid /\ left[x] = right[colour[x]]
    BY <1>1
  <2>4. ASSUME NEW u \in out
        PROVE  left'[u] = right'[colour[u]]
    <3>0. u \in Uid
      BY <1>1
    <3>1. CASE u = y
      BY <1>2, <2>1, <2>2, <2>3, <3>1
    <3>2. CASE u # y
      <4>1. u \notin fn.defs[n] \/ u \in fn.uses[n]
        BY <1>1, <1>8, <3>2
      <4>2. left[u] = right[colour[u]]
        BY <1>1, <4>1
      <4> QED
        BY <1>2, <2>1, <2>3, <3>0, <3>2, <4>2
    <3> QED
      BY <3>1, <3>2
  <2> QED
    BY <1>2, <2>1, <2>3, <2>4
<1>9. CASE ~fn.idle[n] /\ Removed(n) /\ ~fn.copies[n]
  <2>1. PICK vals \in [fn.writes[n] -> Value] : left' = Written(n, vals) /\ right' = right
    BY <1>3, <1>9 DEF Execute
  <2>2. fn.writes[n] = {}
    BY <1>1, <1>9 DEF Removed
  <2>3. left' = left
    BY <1>2, <2>1, <2>2 DEF Written
  <2>4. \A u \in out : u \notin fn.defs[n] \/ u \in fn.uses[n]
    BY <1>1, <2>2
  <2> QED
    BY <1>1, <1>2, <2>1, <2>3, <2>4
<1> QED
  BY <1>5, <1>6, <1>7, <1>8, <1>9

(* The runs.                                                               *)
LEMMA RunStep ==
  ASSUME IInv, [Next]_vars
  PROVE  /\ RunInv' /\ pc' \in Nodes
         /\ colour' \in [Uid -> Registers \cup {0}]
         /\ left' \in [Uid -> Held]
         /\ right' \in [Registers -> Held]
         /\ entry' \in [Registers -> Held]
<1>0. fn' = fn /\ Nodes' = Nodes /\ Named' = Named
  BY FnFixed DEF Named
<1>1. /\ FlowTypeOK /\ LiveInv /\ VisitInv /\ RunInv
      /\ liveIn \in [Nodes -> SUBSET Uid] /\ visitList \in Seq(Nodes)
      /\ pc \in Nodes /\ colour \in [Uid -> Registers \cup {0}]
      /\ left \in [Uid -> Held] /\ right \in [Registers -> Held]
      /\ entry \in [Registers -> Held]
  BY DEF IInv, FInv, TypeOK, FlowTypeOK
<1> USE DEF Ran
<1>2. CASE Analyse
  <2>1. UNCHANGED <<colour, pc, left, right, entry>> /\ phase \notin Ran /\ phase' \notin Ran
    BY <1>2 DEF Analyse, run, FlowNext, Descend, Ascend, EndVisit, Sweep, SweepAgain,
       EndSweeps, CheckTemps, Interfere, InterfereThrows, EndInterfere, Move,
       MoveOfNothing, EndMoves
  <2> QED
    BY <1>0, <1>1, <2>1 DEF RunInv
<1>3. CASE Allocate
  <2>1. /\ phase = "built" /\ phase' = "run" /\ UNCHANGED <<visitList, liveIn, interf, pc>>
        /\ Proper(colour') /\ entry' \in [Registers -> Value] /\ right' = entry'
        /\ left' = [u \in Uid |-> IF u \in Registers THEN entry'[u] ELSE Garbage]
    BY <1>3 DEF Allocate, visit, live, graph
  <2>2. PICK c \in [Temps \cap Named -> Registers] : colour' = Colours(c)
    BY <1>3 DEF Allocate
  <2>3. Registers \subseteq Uid /\ Uid = Registers \cup Temps /\ Named \subseteq Uid
    BY <1>1, FnFacts DEF Named, Uid
  <2>4. colour' = [u \in Uid |-> IF u \in Registers THEN u
                                ELSE IF u \in Temps \cap Named THEN c[u] ELSE 0]
    BY <2>2 DEF Colours
  <2>5. /\ colour' \in [Uid -> Registers \cup {0}]
        /\ \A r \in Registers : colour'[r] = r
        /\ \A u \in Named : colour'[u] \in Registers
    BY <2>3, <2>4
  <2>6. /\ left' \in [Uid -> Held] /\ right' \in [Registers -> Held]
        /\ entry' \in [Registers -> Held]
    BY <2>1 DEF Held
  <2>7. pc = 1 /\ 1 \in Elements(visitList)
    <3>1. path = <<>>
      BY <1>1, <2>1 DEF VisitInv
    <3> QED
      BY <1>1, <2>1, <3>1, ElementsOfNone DEF RunInv, VisitInv, visited
  <2>8. liveIn[1] \subseteq Registers
    <3>1. Undefined = {}
      BY <1>1, <2>1 DEF LiveInv, Analysed
    <3> QED
      BY <1>1, <2>3, <2>7, <3>1 DEF Undefined
  <2>9. \A u \in liveIn[pc] : left'[u] = right'[colour'[u]]
    BY <2>1, <2>3, <2>5, <2>7, <2>8
  <2>10. Elements(visitList') = Elements(visitList)
    BY <2>1 DEF Elements
  <2>11. RunInv'
    BY <1>0, <2>1, <2>5, <2>7, <2>9, <2>10 DEF RunInv, Proper
  <2> QED
    BY <1>1, <2>1, <2>5, <2>6, <2>11
<1>4. CASE Step
  <2>1. /\ phase = "run" /\ Execute(pc) /\ pc' \in fn.succs[pc]
        /\ UNCHANGED <<phase, path, visitList, liveIn, interf, colour, entry>>
    BY <1>4 DEF Step, fvars, visit, live, graph
  <2>2. /\ \A u \in liveOut[pc] : left'[u] = right'[colour[u]]
        /\ left' \in [Uid -> Held] /\ right' \in [Registers -> Held]
    BY <2>1, ExecuteAgrees
  <2>3. pc' \in Nodes /\ pc' \in Elements(visitList)
    <3>1. path = <<>> /\ fn.succs[pc] \subseteq visited
      BY <1>1, <2>1 DEF VisitInv, RunInv
    <3>2. Elements(path) = {}
      BY <3>1, ElementsOfNone
    <3> QED
      BY <1>1, <2>1, <3>1, <3>2, FnFacts DEF visited
  <2>4. liveIn[pc'] \subseteq liveOut[pc]
    <3>1. PICK m \in Nodes : m = pc'
      BY <2>3
    <3>2. Equations(m)
      BY <1>1, <2>1, <2>3, <3>1 DEF LiveInv, Analysed
    <3> QED
      BY <1>1, <2>1, <3>1, <3>2 DEF Equations
  <2>5. Elements(visitList') = Elements(visitList)
    BY <2>1 DEF Elements
  <2>6. RunInv'
    BY <1>0, <1>1, <2>1, <2>2, <2>3, <2>4, <2>5 DEF RunInv, Proper
  <2> QED
    BY <1>1, <2>1, <2>2, <2>3, <2>6
<1>5. CASE Stop
  <2>1. /\ phase \in Ran /\ phase' \in Ran
        /\ UNCHANGED <<visitList, liveIn, interf, colour, pc, left, right, entry>>
    BY <1>5 DEF Stop, visit, live, graph, run
  <2>2. Elements(visitList') = Elements(visitList)
    BY <2>1 DEF Elements
  <2> QED
    BY <1>0, <1>1, <2>1, <2>2 DEF RunInv, Proper
<1>6. CASE UNCHANGED vars
  <2>1. UNCHANGED <<phase, visitList, liveIn, interf, colour, pc, left, right, entry>>
    BY <1>6 DEF vars, fvars, visit, live, graph, run
  <2>2. Elements(visitList') = Elements(visitList)
    BY <2>1 DEF Elements
  <2> QED
    BY <1>0, <1>1, <2>1, <2>2 DEF RunInv, Proper
<1> QED
  BY <1>2, <1>3, <1>4, <1>5, <1>6 DEF Next

-----------------------------------------------------------------------------
(* What live means.  LivePoints counts the steps back along the paths, and *)
(* as many as there are nodes are enough: the nodes it arrives at are the  *)
(* least set that has every use and whatever leads into it past no define. *)
Passes(f, x, n, S) == x \notin f.defs[n] /\ f.succs[n] \cap S # {}
Uses(f, x) == {n \in NodesOf(f) : x \in f.uses[n]}

LEMMA LiveAtIs ==
  ASSUME NEW f, f.size \in Nat, NEW x
  PROVE  /\ LiveAt(f, x) \subseteq NodesOf(f)
         /\ Uses(f, x) \subseteq LiveAt(f, x)
         /\ \A n \in NodesOf(f) : Passes(f, x, n, LiveAt(f, x)) => n \in LiveAt(f, x)
         /\ \A L : /\ Uses(f, x) \subseteq L
                   /\ \A n \in NodesOf(f) : Passes(f, x, n, L) => n \in L
                   => LiveAt(f, x) \subseteq L
<1> DEFINE U == NodesOf(f)
           N == f.size
           V == SUBSET U
           a == Uses(f, x)
           Back(S) == S \cup {n \in U : Passes(f, x, n, S)}
           g == [S \in V |-> Back(S)]
           r == CHOOSE w : w = [k \in 0 .. N |-> IF k = 0 THEN a ELSE Back(w[k - 1])]
<1>1. N \in Nat /\ U = 1 .. N /\ a \in V
  BY DEF NodesOf, Uses
<1>2. LiveAt(f, x) = r[N]
  BY Zenon DEF LiveAt, Uses, Passes
<1>3. g \in [V -> V] /\ \A S \in V : g[S] = Back(S)
  OBVIOUS
<1>4. Monotone(g, U) /\ a \subseteq g[a]
  <2>1. \A S, T \in V : S \subseteq T => g[S] \subseteq g[T]
    BY <1>3 DEF Passes
  <2> QED BY <1>1, <1>3, <2>1 DEF Monotone
<1>5. IsIteration(r, N, a, g)
  <2> HIDE DEF g, N, V, U, a, Back
  <2>1. PICK w : IsIteration(w, N, a, g) /\ \A k \in 0 .. N : w[k] \in V
    BY <1>1, <1>3, Iterates
  <2>2. \A k \in 0 .. N : k # 0 => k - 1 \in 0 .. N
    BY <1>1
  <2>3. w = [k \in 0 .. N |-> IF k = 0 THEN a ELSE Back(w[k - 1])]
    BY <1>3, <2>1, <2>2 DEF IsIteration
  <2>4. r = [k \in 0 .. N |-> IF k = 0 THEN a ELSE Back(r[k - 1])]
    BY <2>3, Zenon
  <2> HIDE DEF r
  <2> DEFINE T == {k \in 0 .. N : r[k] \in V}
  <2>5. 0 \in T
    BY <1>1, <2>4
  <2>6. ASSUME NEW k \in 0 .. N, k \in T, k < N
        PROVE  k + 1 \in T
    <3>1. k + 1 \in 0 .. N /\ k + 1 # 0 /\ (k + 1) - 1 = k
      BY <1>1, <2>6
    <3>2. r[k + 1] = Back(r[k]) /\ r[k] \in V
      BY <2>4, <2>6, <3>1
    <3> QED BY <1>3, <3>1, <3>2
  <2> HIDE DEF T
  <2>7. 0 .. N \subseteq T
    BY <1>1, <2>5, <2>6, Induct
  <2>8. \A k \in 0 .. N : r[k] \in V
    BY <2>7 DEF T
  <2> QED BY <1>3, <2>2, <2>4, <2>8 DEF IsIteration
<1> HIDE DEF r, g, a, U, N
<1>6. IsFiniteSet(U) /\ Cardinality(U) <= N
  <2>1. IsFiniteSet(1 .. N) /\ Cardinality(1 .. N) = IF 1 > N THEN 0 ELSE N - 1 + 1
    BY <1>1, FS_Interval
  <2> QED BY <1>1, <2>1
<1>7. r[N] \subseteq U /\ a \subseteq r[N] /\ g[r[N]] = r[N]
  <2>1. Grows(r, N, a, g, U)
    BY <1>1, <1>4, <1>5, <1>6 DEF Grows
  <2>2. Settles(r, N, a, g, U)
    BY <2>1, IterationSettles, Zenon
  <2> QED BY <2>2 DEF Settles
<1>8. \A n \in U : Passes(f, x, n, r[N]) => n \in r[N]
  BY <1>3, <1>7
<1>9. ASSUME NEW L, a \subseteq L, \A n \in U : Passes(f, x, n, L) => n \in L
      PROVE  r[N] \subseteq L
  <2> DEFINE M == L \cap U
  <2>1. \A S \in SUBSET M : g[S] \subseteq M
    BY <1>3, <1>9 DEF Passes
  <2>2. a \subseteq M
    BY <1>1, <1>9
  <2> HIDE DEF M
  <2>3. r[N] \subseteq M
    BY <1>1, <1>5, <2>1, <2>2, IterationStaysWithin
  <2> QED BY <2>3 DEF M
<1> QED BY <1>2, <1>7, <1>8, <1>9 DEF a, U

(* What is live anywhere is live on a path, in the middle of the sweeps as *)
(* at their end.                                                           *)
PathInv ==
  \A x \in Uid, n \in Nodes :
    /\ x \in liveIn[n] => n \in LiveAt(fn, x)
    /\ x \in liveOut[n] => fn.succs[n] \cap LiveAt(fn, x) # {}

LEMMA PathInit == Init /\ FInv => PathInv
<1> SUFFICES ASSUME Init, FInv, NEW x \in Uid, NEW n \in Nodes
             PROVE  /\ x \in liveIn[n] => n \in LiveAt(fn, x)
                    /\ x \in liveOut[n] => fn.succs[n] \cap LiveAt(fn, x) # {}
  BY DEF PathInv
<1>1. liveIn = fn.uses /\ liveOut[n] = {}
  BY DEF Init, FlowInit
<1>2. fn.size \in Nat /\ n \in NodesOf(fn)
  BY FnFacts DEF FInv, Nodes
<1>3. Uses(fn, x) \subseteq LiveAt(fn, x)
  BY <1>2, LiveAtIs
<1> QED BY <1>1, <1>2, <1>3 DEF Uses

LEMMA PathStep == FInv /\ PathInv /\ [Next]_vars => PathInv'
<1> SUFFICES ASSUME FInv, PathInv, [Next]_vars PROVE PathInv'
  OBVIOUS
<1>0. fn' = fn /\ Nodes' = Nodes
  BY FnFixed
<1>1. FlowTypeOK /\ visitList \in Seq(Nodes) /\ at \in Nat \ {0}
  BY DEF FInv, FlowTypeOK, VisitInv
<1>2. CASE UNCHANGED live
  BY <1>0, <1>2, Zenon DEF PathInv, live
<1>3. CASE Sweep
  <2>1. PICK m : m = visitList[at]
    OBVIOUS
  <2>2. liveOut' = FlowOut(m) /\ liveIn' = FlowIn(m, FlowOut(m)) /\ m \in Nodes
    BY <1>1, <1>3, <2>1 DEF Sweep
  <2>3. /\ \A p \in Nodes : liveOut'[p] = liveOut[p] \cup
             (IF m \in fn.succs[p] THEN liveIn[m] ELSE {})
        /\ \A p \in Nodes : liveIn'[p] = liveIn[p] \cup
             (IF p = m THEN liveOut'[m] \ fn.defs[m] ELSE {})
    BY <1>1, <2>2, FlowFits
  <2>4. ASSUME NEW x \in Uid, NEW p \in Nodes
        PROVE  /\ x \in liveOut'[p] => fn.succs[p] \cap LiveAt(fn, x) # {}
               /\ x \in liveIn'[p] => p \in LiveAt(fn, x)
    <3>1. fn.size \in Nat /\ Nodes = NodesOf(fn)
      BY <1>1, FnFacts DEF Nodes
    <3>2. Passes(fn, x, p, LiveAt(fn, x)) => p \in LiveAt(fn, x)
      BY <3>1, LiveAtIs
    <3>3. /\ x \in liveIn[m] => m \in LiveAt(fn, x)
          /\ x \in liveIn[p] => p \in LiveAt(fn, x)
          /\ x \in liveOut[p] => fn.succs[p] \cap LiveAt(fn, x) # {}
      BY <2>2 DEF PathInv
    <3>4. x \in liveOut'[p] => fn.succs[p] \cap LiveAt(fn, x) # {}
      BY <2>3, <3>3
    <3>5. x \in liveIn'[p] => x \in liveIn[p] \/ (x \in liveOut'[p] /\ x \notin fn.defs[p])
      BY <2>3
    <3> QED BY <3>2, <3>3, <3>4, <3>5 DEF Passes
  <2> QED BY <1>0, <2>4, Zenon DEF PathInv
<1>4. \/ UNCHANGED live
      \/ Sweep
  <2>1. CASE Analyse
    BY <2>1 DEF Analyse, FlowNext, Descend, Ascend, EndVisit, SweepAgain, EndSweeps,
       CheckTemps, Interfere, InterfereThrows, EndInterfere, Move, MoveOfNothing, EndMoves
  <2>2. CASE Allocate \/ Step \/ Stop
    BY <2>2 DEF Allocate, Step, Stop, fvars
  <2>3. CASE UNCHANGED vars
    BY <2>3 DEF vars, fvars
  <2> QED BY <2>1, <2>2, <2>3 DEF Next
<1> QED BY <1>2, <1>3, <1>4

LEMMA PathsAtTheEnd ==
  ASSUME FInv, phase = "check", NEW x \in Uid
  PROVE  LiveAt(fn, x) \cap visited \subseteq {n \in Nodes : x \in liveIn[n]}
<1>1. /\ FlowTypeOK /\ VisitInv /\ LiveInv /\ path = <<>>
      /\ visitList \in Seq(Nodes) /\ liveIn \in [Nodes -> SUBSET Uid]
  BY DEF FInv, FlowTypeOK, VisitInv
<1>2. fn.size \in Nat /\ Nodes = NodesOf(fn) /\ fn.succs \in [Nodes -> SUBSET Nodes]
  BY <1>1, FnFacts DEF Nodes
<1>3. visited = Elements(visitList) /\ visited \subseteq Nodes
  BY <1>1, ElementsOfNone, ElementsType DEF visited
<1>4. \A n \in visited : fn.succs[n] \subseteq visited /\ Equations(n)
  BY <1>1, <1>3 DEF VisitInv, LiveInv
<1> DEFINE L == {n \in Nodes : n \in visited => x \in liveIn[n]}
<1>5. Uses(fn, x) \subseteq L
  BY <1>1, <1>2 DEF Uses, LiveInv
<1>6. ASSUME NEW n \in Nodes, Passes(fn, x, n, L)
      PROVE  n \in L
  <2>1. SUFFICES ASSUME n \in visited PROVE x \in liveIn[n]
    OBVIOUS
  <2>2. PICK s \in fn.succs[n] : s \in L
    BY <1>6 DEF Passes
  <2>3. x \in liveIn[s] /\ Equations(s) /\ Equations(n)
    BY <1>4, <2>1, <2>2
  <2>4. x \in liveOut[n]
    BY <2>2, <2>3 DEF Equations
  <2> QED BY <1>6, <2>3, <2>4 DEF Passes, Equations
<1> HIDE DEF L
<1>7. LiveAt(fn, x) \subseteq L
  BY <1>2, <1>5, <1>6, LiveAtIs, Zenon
<1> QED BY <1>3, <1>7 DEF L

-----------------------------------------------------------------------------
(* All of it is preserved.                                                 *)
LEMMA FlowInductive == FInv /\ PathInv /\ [Next]_vars => (FInv /\ PathInv)'
<1> SUFFICES ASSUME FInv, PathInv, [Next]_vars PROVE FInv' /\ PathInv'
  OBVIOUS
<1>1. VisitInv'
  BY VisitStep DEF FInv
<1> QED
  BY <1>1, FlowTypeStep, LiveStep, GraphStep, PathStep DEF FInv

LEMMA Inductive == IInv /\ PathInv /\ [Next]_vars => IInv'
<1> SUFFICES ASSUME IInv, PathInv, [Next]_vars PROVE IInv'
  OBVIOUS
<1>1. AllCovered'
  BY DEF IInv, AllCovered, Table
<1>2. FInv'
  BY FlowInductive DEF IInv
<1>3. TypeOK'
  BY <1>2, FnFixed, RunStep DEF TypeOK, FInv
<1> QED
  BY <1>1, <1>2, <1>3, RunStep DEF IInv

(* What the analysis keeps at every node, before any value is looked at    *)
(* (makeVisitList, populateLiveMap, populateGraph).                        *)
THEOREM FlowInvariant == Spec => [](FInv /\ PathInv)
<1>1. Init => FInv /\ PathInv
  BY InitIsGood, PathInit
<1> QED BY <1>1, FlowInductive, PTL DEF Spec

(* The invariant of the analysis and of the two runs on what it chose,     *)
(* where uses and defines cover the statements (doRegisterAllocation).     *)
THEOREM Invariant == Spec /\ AllCovered => []IInv
<1>1. Init /\ AllCovered => IInv
  BY InitIsGood
<1> QED BY <1>1, FlowInvariant, Inductive, PTL DEF Spec

(* Every state is one of the back end's and of the two runs                *)
(* (populateLiveMap, populateGraph, doRegisterAllocation).                 *)
THEOREM TypeCorrect == Spec /\ AllCovered => []TypeOK
<1>1. IInv => TypeOK
  BY DEF IInv
<1> QED
  BY Invariant, <1>1, PTL

(* The interference graph is irreflexive and symmetric, and no move lies   *)
(* along one of its arcs: what RegAlloc assumes of the graphs it is given  *)
(* (InterferenceGraph::populateGraph).                                     *)
THEOREM GraphIsFit == Spec => []GraphFits
<1>1. FInv => GraphFits
  BY DEF FInv, GraphInv
<1> QED
  BY FlowInvariant, <1>1, PTL

(* Whatever order the nodes were visited in, the sweeps stop only when, at *)
(* every node that can be reached, exactly that is live which some path    *)
(* from there uses before it defines it; and never is anything live that   *)
(* no path uses (populateLiveMap, makeVisitList).                          *)
THEOREM LivenessExact == Spec => []LiveIsOnPaths
<1>1. FInv /\ PathInv => LiveIsOnPaths
  <2> SUFFICES ASSUME FInv, PathInv, NEW x \in Uid
               PROVE  LET there == LivePoints[name][x] IN
                        /\ {n \in Nodes : x \in liveIn[n]} \subseteq there
                        /\ phase = "check" =>
                             there \cap visited \subseteq {n \in Nodes : x \in liveIn[n]}
    BY DEF LiveIsOnPaths
  <2>1. LivePoints[name][x] = LiveAt(fn, x)
    BY DEF LivePoints, fn, FInv, FlowTypeOK
  <2>2. {n \in Nodes : x \in liveIn[n]} \subseteq LiveAt(fn, x)
    BY DEF PathInv
  <2> QED BY <2>1, <2>2, PathsAtTheEnd
<1> QED BY FlowInvariant, <1>1, PTL

(* Where uses and defines cover what the statements do, replacing the      *)
(* temporaries by any proper colouring, and removing what the optimizer    *)
(* removes, changes nothing that any statement reads, on any path          *)
(* (populateLiveMap, populateGraph, doRegisterAllocation, Optimizer).      *)
THEOREM Agreement == Spec /\ AllCovered => []Agree
<1>1. IInv => Agree
  <2> SUFFICES ASSUME IInv, phase = "run", NEW u \in fn.reads[pc]
               PROVE  left[u] = right[colour[u]]
    BY DEF Agree
  <2>1. PICK n : n = pc
    OBVIOUS
  <2> QED
    BY <2>1, AtStatement
<1> QED
  BY Invariant, <1>1, PTL

-----------------------------------------------------------------------------
(* What the assembler takes a statement to do covers what it does, where   *)
(* it understands it.                                                      *)
CoveredStatement(s) ==
  /\ ReadsOf(s) \subseteq UsesOf(s)
  /\ WritesOf(s) \subseteq DefsOf(s)
  /\ DefsOf(s) \subseteq WritesOf(s) \cup UsesOf(s)
  /\ IsMoveOf(s) /\ UsesOf(s) # {} /\ DefsOf(s) # {} => IsCopy(s)
  /\ UselessArithmetic(s) => DefsOf(s) \subseteq UsesOf(s)
  /\ IsCopy(s) => /\ \A x, y \in ReadsOf(s) : x = y
                  /\ \A x, y \in WritesOf(s) : x = y
  /\ OfAllocated(Compared(s)) # {} =>
       \/ IsCopy(s) /\ OfAllocated(Compared(s)) \subseteq ReadsOf(s) \X WritesOf(s)
       \/ WritesOf(s) = {}

LEMMA OtherKindsCovered ==
  ASSUME NEW s, Understood(s), s.kind # "instruction"
  PROVE  CoveredStatement(s)
<1>1. ~IsMov(s) /\ ~IsMoveOf(s) /\ Compared(s) = {} /\ ~UselessArithmetic(s)
  BY DEF IsMov, IsMoveOf, Compared, UselessArithmetic
<1>2. OfAllocated({}) = {}
  BY DEF OfAllocated
<1>3. ~IsCopy(s)
  BY DEF IsCopy, IsInstruction, Understood
<1>4. CASE s.kind = "label"
  <2>1. ReadsOf(s) = {} /\ WritesOf(s) = {} /\ DefsOf(s) = {}
    BY <1>4 DEF ReadsOf, WritesOf, Stores, DefsOf, Ordinary
  <2> QED BY <1>1, <1>2, <1>3, <2>1 DEF CoveredStatement
<1>5. CASE s.kind = "return"
  <2>1. ReadsOf(s) = UsesOf(s) /\ WritesOf(s) = {} /\ DefsOf(s) = {}
    BY <1>5 DEF ReadsOf, UsesOf, WritesOf, Stores, DefsOf, Ordinary
  <2> QED BY <1>1, <1>2, <1>3, <2>1 DEF CoveredStatement
<1>6. CASE s.kind = "call"
  <2>1. \A k \in DOMAIN s.params : s.params[k] \in Range(s.params)
    BY DEF Range
  <2>2. \A k \in DOMAIN s.params :
          ShiftArgUID(s.params[k].source) = Shift(s.params[k].source.num, FALSE)
    <3>1. \A k \in DOMAIN s.params : ~s.params[k].source.temp
      BY <1>6, <2>1 DEF Understood, InDataRegister
    <3> QED BY <3>1, Zenon DEF ShiftArgUID, Shift
  <2>3. ReadsOf(s) = UsesOf(s)
    BY <1>6, <2>2 DEF ReadsOf, UsesOf
  <2>4. WritesOf(s) = DefsOf(s)
    BY <1>6 DEF WritesOf, Stores, DefsOf, CallDefines
  <2> QED BY <1>1, <1>2, <1>3, <2>3, <2>4 DEF CoveredStatement
<1> QED BY <1>4, <1>5, <1>6 DEF Understood

\* An instruction other than MOV.
LEMMA OthersCovered ==
  ASSUME NEW s, Understood(s), s.kind = "instruction", s.op # "MOV"
  PROVE  CoveredStatement(s)
<1> DEFINE named == ArgsNaming(s)
           uids == {ShiftArgUID(s.args[k]) : k \in named}
<1>1. InstructionUnderstood(s) /\ OtherUnderstood(s)
  BY DEF Understood, InstructionUnderstood
<1>2. ~IsMov(s) /\ ~IsMoveOf(s) /\ Compared(s) = {} /\ ~IsCopy(s)
  BY DEF IsMov, IsMoveOf, Compared, IsCopy
<1>3. OfAllocated({}) = {}
  BY DEF OfAllocated
<1>4. UsesOf(s) = Ordinary(uids)
  BY <1>2 DEF UsesOf
<1>5. ASSUME NEW u \in ReadsOf(s) PROVE u \in UsesOf(s)
  <2>1. u \in UNION {AddressUIDs(s.args[k]) : k \in named} /\ ~ShiftedIsSpecialReg(u)
    BY <1>5 DEF ReadsOf, Ordinary
  <2>2. PICK k \in named : u \in AddressUIDs(s.args[k])
    BY <2>1
  <2>3. u = ShiftArgUID(s.args[k]) \/ (IsIndexed(s.args[k]) /\ u = IndexUID(s.args[k]))
    BY <2>2 DEF AddressUIDs
  <2>4. u = ShiftArgUID(s.args[k])
    BY <1>1, <2>1, <2>3 DEF InstructionUnderstood
  <2> QED BY <1>4, <2>1, <2>4 DEF Ordinary
<1>6. DefsOf(s) = Ordinary({ShiftArgUID(s.args[k]) :
                     k \in {j \in named : s.args[j].type = "REG" /\ ArgIsDefined(s.op, j)}})
  BY <1>2 DEF DefsOf
<1>7. DefsOf(s) \subseteq UsesOf(s)
  BY <1>4, <1>6 DEF Ordinary
<1>8. ASSUME NEW u \in WritesOf(s) PROVE u \in DefsOf(s)
  <2>1. /\ ~ShiftedIsSpecialReg(u)
        /\ \/ u \in {ShiftArgUID(s.args[k]) : k \in {j \in Target(s) : s.args[j].type = "REG"}}
           \/ u \in {Stepped(s.args[k]) : k \in {j \in named : Steps(s.args[j])}}
    BY <1>8 DEF WritesOf, Stores, Ordinary
  <2>2. ASSUME NEW k \in named, Steps(s.args[k]), u = Stepped(s.args[k]) PROVE FALSE
    <3>1. IsIndexed(s.args[k]) => ShiftedIsSpecialReg(IndexUID(s.args[k]))
      BY <1>1 DEF InstructionUnderstood
    <3>2. ShiftedIsSpecialReg(ShiftArgUID(s.args[k]))
      BY <1>1, <2>2 DEF OtherUnderstood
    <3> QED BY <2>1, <2>2, <3>1, <3>2 DEF Stepped
  <2>3. PICK k \in Target(s) : s.args[k].type = "REG" /\ u = ShiftArgUID(s.args[k])
    BY <2>1, <2>2
  <2>4. k \in named
    BY <1>1, <2>3 DEF OtherUnderstood, ArgsNaming, Names, IsReg
  <2>5. s.op \notin {"POP", "BGET"}
    BY <1>1, <2>1, <2>3 DEF OtherUnderstood
  <2>6. ArgIsDefined(s.op, k)
    BY <2>3, <2>5 DEF Target, Unary, Binary, ArgIsDefined
  <2> QED BY <1>6, <2>1, <2>3, <2>4, <2>6 DEF Ordinary
<1> QED BY <1>2, <1>3, <1>5, <1>7, <1>8 DEF CoveredStatement

\* MOV.
LEMMA MovesCovered ==
  ASSUME NEW s, Understood(s), s.kind = "instruction", s.op = "MOV"
  PROVE  CoveredStatement(s)
<1> DEFINE named == ArgsNaming(s)
           a == s.args[1]
           b == s.args[2]
<1>1. /\ InstructionUnderstood(s)
      /\ DOMAIN s.args = {1, 2}
      /\ MovIsMove(s) => a.type = "REG" /\ ~Steps(b)
      /\ Compared(s) # {} => ~Steps(a) /\ ~Steps(b)
  BY DEF Understood, InstructionUnderstood, MovUnderstood
<1>2. IsMov(s) /\ IsInstruction(s) /\ (IsMoveOf(s) <=> MovIsMove(s)) /\ ~UselessArithmetic(s)
  BY DEF IsMov, IsMoveOf, UselessArithmetic, IsInstruction
<1>3. /\ UsesOf(s) = Ordinary(MovUses(s))
      /\ DefsOf(s) = Ordinary(MovDefs(s))
  BY <1>2 DEF UsesOf, DefsOf, IsMov
<1>4. named \subseteq {1, 2} /\ Target(s) = {2}
  BY <1>1 DEF ArgsNaming, Target, Binary
<1>5. \A k \in named : s.args[k].type = "REG" \/ IsMemory(s.args[k])
  BY <1>1 DEF InstructionUnderstood
<1>6. \A k \in {1, 2} : s.args[k].type = "REG" => k \in named /\ ~IsMemory(s.args[k]) /\ ~IsIndexed(s.args[k])
  BY <1>1 DEF ArgsNaming, Names, IsReg, IsMemory, IsIndexed
<1>7. ASSUME NEW u
      PROVE  u \in ReadsOf(s) <=>
               /\ ~ShiftedIsSpecialReg(u)
               /\ \E k \in named : /\ ~(k = 2 /\ b.type = "REG")
                                   /\ u = ShiftArgUID(s.args[k])
  <2>1. ReadsOf(s) = Ordinary(UNION {AddressUIDs(s.args[k]) : k \in
                       {j \in named : ~(j = 2 /\ b.type = "REG")}})
    BY <1>4 DEF ReadsOf, Overwrites
  <2>2. u \in ReadsOf(s) <=>
          /\ ~ShiftedIsSpecialReg(u)
          /\ \E k \in named : ~(k = 2 /\ b.type = "REG") /\ u \in AddressUIDs(s.args[k])
    BY <2>1 DEF Ordinary
  <2>3. ASSUME NEW k \in named, ~ShiftedIsSpecialReg(u)
        PROVE  u \in AddressUIDs(s.args[k]) <=> u = ShiftArgUID(s.args[k])
    BY <1>1, <2>3 DEF AddressUIDs, InstructionUnderstood
  <2> QED BY <2>2, <2>3
<1>8. ASSUME NEW u
      PROVE  u \in UsesOf(s) <=>
               /\ ~ShiftedIsSpecialReg(u)
               /\ \E k \in named : (k = 1 \/ IsMemory(s.args[k])) /\ u = ShiftArgUID(s.args[k])
  BY <1>3 DEF Ordinary, MovUses
<1>9. ASSUME NEW u
      PROVE  u \in WritesOf(s) <=>
               /\ ~ShiftedIsSpecialReg(u)
               /\ \/ b.type = "REG" /\ u = ShiftArgUID(b)
                  \/ \E k \in named : Steps(s.args[k]) /\ u = Stepped(s.args[k])
  BY <1>4 DEF WritesOf, Stores, Ordinary
<1>10. ASSUME NEW k, Steps(s.args[k])
       PROVE  StepDefs(s, k) = {Stepped(s.args[k])}
  BY <1>10 DEF StepDefs, Stepped
<1>11. ASSUME NEW u
       PROVE  u \in DefsOf(s) <=>
                /\ ~ShiftedIsSpecialReg(u)
                /\ \/ 2 \in named /\ ~IsMemory(b) /\ u = ShiftArgUID(b)
                   \/ \E k \in named : /\ k = 1 \/ IsMemory(s.args[k])
                                       /\ Steps(s.args[k]) /\ u = Stepped(s.args[k])
  <2>1. u \in DefsOf(s) <=>
          /\ ~ShiftedIsSpecialReg(u)
          /\ \/ 2 \in named /\ ~IsMemory(b) /\ u = ShiftArgUID(b)
             \/ \E k \in named : (k = 1 \/ IsMemory(s.args[k])) /\ u \in StepDefs(s, k)
    <3>1. u \in UNION {StepDefs(s, k) : k \in {j \in named : j = 1 \/ IsMemory(s.args[j])}}
            <=> \E k \in named : (k = 1 \/ IsMemory(s.args[k])) /\ u \in StepDefs(s, k)
      OBVIOUS
    <3>2. u \in {ShiftArgUID(s.args[k]) : k \in {j \in named \cap {2} : ~IsMemory(s.args[j])}}
            <=> 2 \in named /\ ~IsMemory(b) /\ u = ShiftArgUID(b)
      OBVIOUS
    <3>3. u \in MovDefs(s)
            <=> \/ 2 \in named /\ ~IsMemory(b) /\ u = ShiftArgUID(b)
                \/ \E k \in named : (k = 1 \/ IsMemory(s.args[k])) /\ u \in StepDefs(s, k)
      BY <3>1, <3>2, Zenon DEF MovDefs
    <3>4. u \in DefsOf(s) <=> ~ShiftedIsSpecialReg(u) /\ u \in MovDefs(s)
      BY <1>3 DEF Ordinary
    <3> QED BY <3>3, <3>4, Zenon
  <2>2. \A k : u \in StepDefs(s, k) <=> Steps(s.args[k]) /\ u = Stepped(s.args[k])
    BY <1>10 DEF StepDefs
  <2> QED BY <2>1, <2>2
<1>12. 2 \in named /\ ~IsMemory(b) <=> b.type = "REG"
  BY <1>5, <1>6
<1>13. b.type = "REG" => Stepped(b) = ShiftArgUID(b)
  BY <1>6 DEF Stepped
<1>14. ReadsOf(s) \subseteq UsesOf(s)
  BY <1>4, <1>5, <1>7, <1>8
<1>15. WritesOf(s) \subseteq DefsOf(s) /\ DefsOf(s) \subseteq WritesOf(s)
  BY <1>4, <1>5, <1>9, <1>11, <1>12, <1>13
<1>16. ASSUME IsMoveOf(s), UsesOf(s) # {}, DefsOf(s) # {} PROVE IsCopy(s)
  <2>1. a.type = "REG" /\ ~Steps(b) /\ ~Steps(a) /\ ~IsMemory(b) /\ IsReg(b)
    BY <1>1, <1>2, <1>16 DEF MovIsMove
  <2>2. 2 \in named
    BY <1>1, <2>1 DEF ArgsNaming, Names
  <2>3. b.type = "REG"
    BY <1>12, <2>1, <2>2
  <2>4. ~ShiftedIsSpecialReg(ShiftArgUID(a))
    BY <1>4, <1>8, <1>16, <2>1
  <2>5. ~ShiftedIsSpecialReg(ShiftArgUID(b))
    BY <1>4, <1>11, <1>16, <2>1
  <2> QED BY <1>2, <2>1, <2>3, <2>4, <2>5 DEF IsCopy
<1>17. ASSUME a.type = "REG", b.type = "REG", ~Steps(a), ~Steps(b)
       PROVE  /\ \A u \in ReadsOf(s) : u = ShiftArgUID(a)
              /\ \A u \in WritesOf(s) : u = ShiftArgUID(b)
              /\ ~ShiftedIsSpecialReg(ShiftArgUID(a)) => ShiftArgUID(a) \in ReadsOf(s)
              /\ ~ShiftedIsSpecialReg(ShiftArgUID(b)) => ShiftArgUID(b) \in WritesOf(s)
  <2>1. named = {1, 2}
    BY <1>4, <1>6, <1>17
  <2>2. \A u : u \in ReadsOf(s) <=> ~ShiftedIsSpecialReg(u) /\ u = ShiftArgUID(a)
    BY <1>7, <1>17, <2>1
  <2>3. \A u : u \in WritesOf(s) <=> ~ShiftedIsSpecialReg(u) /\ u = ShiftArgUID(b)
    BY <1>9, <1>17, <2>1
  <2> QED BY <2>2, <2>3
<1>18. ASSUME IsCopy(s)
       PROVE  /\ \A x, y \in ReadsOf(s) : x = y
              /\ \A x, y \in WritesOf(s) : x = y
  <2>1. a.type = "REG" /\ b.type = "REG" /\ ~Steps(a) /\ ~Steps(b)
    BY <1>18 DEF IsCopy
  <2> QED BY <1>17, <2>1
<1>19. ASSUME OfAllocated(Compared(s)) # {}
       PROVE  \/ IsCopy(s) /\ OfAllocated(Compared(s)) \subseteq ReadsOf(s) \X WritesOf(s)
              \/ WritesOf(s) = {}
  <2>1. Compared(s) # {}
    BY <1>19 DEF OfAllocated
  <2>2. /\ named = {1, 2} /\ a.type = b.type
        /\ Compared(s) = {<<ShiftArgUID(a), ShiftArgUID(b)>>}
    BY <2>1 DEF Compared
  <2>3. /\ ~ShiftedIsSpecialReg(ShiftArgUID(a)) /\ ~ShiftedIsSpecialReg(ShiftArgUID(b))
        /\ OfAllocated(Compared(s)) \subseteq {<<ShiftArgUID(a), ShiftArgUID(b)>>}
    <3>1. PICK p \in OfAllocated(Compared(s)) : p = <<ShiftArgUID(a), ShiftArgUID(b)>>
      BY <1>19, <2>2 DEF OfAllocated
    <3>2. ShiftArgUID(a) \in Ordinary({p[1], p[2]}) /\ ShiftArgUID(b) \in Ordinary({p[1], p[2]})
      BY <3>1 DEF OfAllocated
    <3>3. OfAllocated(Compared(s)) \subseteq Compared(s)
      BY DEF OfAllocated
    <3> QED BY <2>2, <3>2, <3>3 DEF Ordinary
  <2>4. ~Steps(a) /\ ~Steps(b)
    BY <1>1, <2>1
  <2>5. CASE a.type = "REG"
    <3>1. IsCopy(s)
      <4>1. ASSUME NEW k \in 1 .. 2
            PROVE  /\ s.args[k].type = "REG" /\ ~Steps(s.args[k])
                   /\ ~ShiftedIsSpecialReg(ShiftArgUID(s.args[k]))
        <5>1. k = 1 \/ k = 2
          OBVIOUS
        <5>2. b.type = "REG"
          BY <2>2, <2>5
        <5> QED BY <2>3, <2>4, <2>5, <5>1, <5>2, Zenon
      <4> QED BY <1>2, <4>1 DEF IsCopy
    <3>2. ShiftArgUID(a) \in ReadsOf(s) /\ ShiftArgUID(b) \in WritesOf(s)
      BY <1>17, <2>2, <2>3, <2>4, <2>5
    <3> QED BY <2>3, <3>1, <3>2
  <2>6. CASE a.type # "REG"
    BY <1>9, <2>2, <2>4, <2>6
  <2> QED BY <2>5, <2>6
<1> QED
  BY <1>2, <1>14, <1>15, <1>16, <1>18, <1>19 DEF CoveredStatement

LEMMA StatementCovered ==
  ASSUME NEW s, Understood(s)
  PROVE  CoveredStatement(s)
BY OtherKindsCovered, OthersCovered, MovesCovered

\* The graph has for each statement what its definitions say.
LEMMA GraphHas ==
  ASSUME NEW S, NEW stmts \in Seq(S), NEW isMain
  PROVE  LET g == GraphOf(stmts, isMain)
         IN  /\ g.size = Len(stmts) /\ NodesOf(g) = DOMAIN stmts
             /\ \A n \in DOMAIN stmts :
                  /\ g.succs[n] = SuccsOf(stmts, n)
                  /\ g.uses[n] = UsesOf(stmts[n]) /\ g.defs[n] = DefsOf(stmts[n])
                  /\ g.isMove[n] = IsMoveOf(stmts[n])
                  /\ g.reads[n] = ReadsOf(stmts[n]) /\ g.writes[n] = WritesOf(stmts[n])
                  /\ g.copies[n] = IsCopy(stmts[n])
                  /\ g.compared[n] = OfAllocated(Compared(stmts[n]))
                  /\ g.idle[n] = UselessArithmetic(stmts[n])
                  /\ g.effect[n] = EffectOf(stmts[n])
                  /\ g.carries[n] = OfAllocated(CarriesOf(stmts[n]))
<1> DEFINE g == GraphOf(stmts, isMain)
<1>1. Len(stmts) \in Nat /\ DOMAIN stmts = 1..Len(stmts)
  BY LenProperties
<1>2. \A T : \A q \in Seq(T) : <<>> \o q = q
  BY ConcatEmptySeq
<1>3. \A f : f = [n \in DOMAIN stmts |-> f[n]] => <<>> \o f = f
  <2> SUFFICES ASSUME NEW f, f = [n \in DOMAIN stmts |-> f[n]]
               PROVE  <<>> \o f = f
    OBVIOUS
  <2> DEFINE T == {f[n] : n \in DOMAIN stmts}
  <2>1. f \in [1..Len(stmts) -> T]
    BY <1>1
  <2>2. f \in Seq(T)
    BY <1>1, <2>1, SeqDef
  <2> QED BY <1>2, <2>2
<1>4. /\ g.size = Len(stmts)
      /\ g.succs = <<>> \o [n \in DOMAIN stmts |-> SuccsOf(stmts, n)]
      /\ g.uses = <<>> \o [n \in DOMAIN stmts |-> UsesOf(stmts[n])]
      /\ g.defs = <<>> \o [n \in DOMAIN stmts |-> DefsOf(stmts[n])]
      /\ g.isMove = <<>> \o [n \in DOMAIN stmts |-> IsMoveOf(stmts[n])]
      /\ g.reads = <<>> \o [n \in DOMAIN stmts |-> ReadsOf(stmts[n])]
      /\ g.writes = <<>> \o [n \in DOMAIN stmts |-> WritesOf(stmts[n])]
      /\ g.copies = <<>> \o [n \in DOMAIN stmts |-> IsCopy(stmts[n])]
      /\ g.compared = <<>> \o [n \in DOMAIN stmts |-> OfAllocated(Compared(stmts[n]))]
      /\ g.idle = <<>> \o [n \in DOMAIN stmts |-> UselessArithmetic(stmts[n])]
      /\ g.effect = <<>> \o [n \in DOMAIN stmts |-> EffectOf(stmts[n])]
      /\ g.carries = <<>> \o [n \in DOMAIN stmts |-> OfAllocated(CarriesOf(stmts[n]))]
  BY Zenon DEF GraphOf
<1>5. NodesOf(g) = DOMAIN stmts
  BY <1>1, <1>4 DEF NodesOf
<1>6. /\ g.succs = [n \in DOMAIN stmts |-> SuccsOf(stmts, n)]
      /\ g.uses = [n \in DOMAIN stmts |-> UsesOf(stmts[n])]
      /\ g.defs = [n \in DOMAIN stmts |-> DefsOf(stmts[n])]
      /\ g.isMove = [n \in DOMAIN stmts |-> IsMoveOf(stmts[n])]
      /\ g.reads = [n \in DOMAIN stmts |-> ReadsOf(stmts[n])]
      /\ g.writes = [n \in DOMAIN stmts |-> WritesOf(stmts[n])]
  <2>1. <<>> \o [n \in DOMAIN stmts |-> SuccsOf(stmts, n)] = [n \in DOMAIN stmts |-> SuccsOf(stmts, n)]
    BY <1>3
  <2>2. <<>> \o [n \in DOMAIN stmts |-> UsesOf(stmts[n])] = [n \in DOMAIN stmts |-> UsesOf(stmts[n])]
    BY <1>3
  <2>3. <<>> \o [n \in DOMAIN stmts |-> DefsOf(stmts[n])] = [n \in DOMAIN stmts |-> DefsOf(stmts[n])]
    BY <1>3
  <2>4. <<>> \o [n \in DOMAIN stmts |-> IsMoveOf(stmts[n])] = [n \in DOMAIN stmts |-> IsMoveOf(stmts[n])]
    BY <1>3
  <2>5. <<>> \o [n \in DOMAIN stmts |-> ReadsOf(stmts[n])] = [n \in DOMAIN stmts |-> ReadsOf(stmts[n])]
    BY <1>3
  <2>6. <<>> \o [n \in DOMAIN stmts |-> WritesOf(stmts[n])] = [n \in DOMAIN stmts |-> WritesOf(stmts[n])]
    BY <1>3
  <2> QED BY <1>4, <2>1, <2>2, <2>3, <2>4, <2>5, <2>6, Zenon
<1>7. /\ g.copies = [n \in DOMAIN stmts |-> IsCopy(stmts[n])]
      /\ g.compared = [n \in DOMAIN stmts |-> OfAllocated(Compared(stmts[n]))]
      /\ g.idle = [n \in DOMAIN stmts |-> UselessArithmetic(stmts[n])]
      /\ g.effect = [n \in DOMAIN stmts |-> EffectOf(stmts[n])]
      /\ g.carries = [n \in DOMAIN stmts |-> OfAllocated(CarriesOf(stmts[n]))]
  <2>1. <<>> \o [n \in DOMAIN stmts |-> IsCopy(stmts[n])] = [n \in DOMAIN stmts |-> IsCopy(stmts[n])]
    BY <1>3
  <2>2. <<>> \o [n \in DOMAIN stmts |-> OfAllocated(Compared(stmts[n]))]
          = [n \in DOMAIN stmts |-> OfAllocated(Compared(stmts[n]))]
    BY <1>3
  <2>3. <<>> \o [n \in DOMAIN stmts |-> UselessArithmetic(stmts[n])]
          = [n \in DOMAIN stmts |-> UselessArithmetic(stmts[n])]
    BY <1>3
  <2>4. <<>> \o [n \in DOMAIN stmts |-> EffectOf(stmts[n])] = [n \in DOMAIN stmts |-> EffectOf(stmts[n])]
    BY <1>3
  <2>5. <<>> \o [n \in DOMAIN stmts |-> OfAllocated(CarriesOf(stmts[n]))] = [n \in DOMAIN stmts |-> OfAllocated(CarriesOf(stmts[n]))]
    BY <1>3
  <2> QED BY <1>4, <2>1, <2>2, <2>3, <2>4, <2>5, Zenon
<1> HIDE DEF g
<1>8. ASSUME NEW n \in DOMAIN stmts
      PROVE  /\ g.succs[n] = SuccsOf(stmts, n)
             /\ g.uses[n] = UsesOf(stmts[n]) /\ g.defs[n] = DefsOf(stmts[n])
             /\ g.isMove[n] = IsMoveOf(stmts[n])
             /\ g.reads[n] = ReadsOf(stmts[n]) /\ g.writes[n] = WritesOf(stmts[n])
             /\ g.copies[n] = IsCopy(stmts[n])
             /\ g.compared[n] = OfAllocated(Compared(stmts[n]))
             /\ g.idle[n] = UselessArithmetic(stmts[n])
             /\ g.effect[n] = EffectOf(stmts[n])
             /\ g.carries[n] = OfAllocated(CarriesOf(stmts[n]))
  <2>1. /\ g.succs[n] = SuccsOf(stmts, n)
        /\ g.uses[n] = UsesOf(stmts[n]) /\ g.defs[n] = DefsOf(stmts[n])
        /\ g.isMove[n] = IsMoveOf(stmts[n])
        /\ g.reads[n] = ReadsOf(stmts[n]) /\ g.writes[n] = WritesOf(stmts[n])
    BY <1>6, Zenon
  <2>2. /\ g.copies[n] = IsCopy(stmts[n])
        /\ g.compared[n] = OfAllocated(Compared(stmts[n]))
        /\ g.idle[n] = UselessArithmetic(stmts[n])
        /\ g.effect[n] = EffectOf(stmts[n])
        /\ g.carries[n] = OfAllocated(CarriesOf(stmts[n]))
    BY <1>7, Zenon
  <2> QED BY <2>1, <2>2
<1> QED BY <1>4, <1>5, <1>8, Zenon DEF g

LEMMA GraphCovered ==
  ASSUME NEW S, NEW stmts \in Seq(S), NEW isMain,
         \A n \in DOMAIN stmts : Understood(stmts[n])
  PROVE  Covered(GraphOf(stmts, isMain))
<1> DEFINE g == GraphOf(stmts, isMain)
<1>1. NodesOf(g) = DOMAIN stmts
  BY GraphHas
<1>2. ASSUME NEW n \in DOMAIN stmts
      PROVE  /\ g.uses[n] = UsesOf(stmts[n]) /\ g.defs[n] = DefsOf(stmts[n])
             /\ g.isMove[n] = IsMoveOf(stmts[n])
             /\ g.reads[n] = ReadsOf(stmts[n]) /\ g.writes[n] = WritesOf(stmts[n])
             /\ g.copies[n] = IsCopy(stmts[n])
             /\ g.compared[n] = OfAllocated(Compared(stmts[n]))
             /\ g.idle[n] = UselessArithmetic(stmts[n])
  BY GraphHas
<1>3. \A n \in DOMAIN stmts : CoveredStatement(stmts[n])
  BY StatementCovered
<1> HIDE DEF g
<1>4. ASSUME NEW n \in DOMAIN stmts
      PROVE  /\ g.reads[n] \subseteq g.uses[n]
             /\ g.writes[n] \subseteq g.defs[n]
             /\ g.defs[n] \subseteq g.writes[n] \cup g.uses[n]
             /\ g.isMove[n] /\ g.uses[n] # {} /\ g.defs[n] # {} => g.copies[n]
             /\ g.idle[n] => g.defs[n] \subseteq g.uses[n]
             /\ g.copies[n] => /\ \A x, y \in g.reads[n] : x = y
                               /\ \A x, y \in g.writes[n] : x = y
             /\ g.compared[n] # {} =>
                  \/ g.copies[n] /\ g.compared[n] \subseteq g.reads[n] \X g.writes[n]
                  \/ g.writes[n] = {}
  <2>1. CoveredStatement(stmts[n])
    BY <1>3
  <2>2. /\ g.uses[n] = UsesOf(stmts[n]) /\ g.defs[n] = DefsOf(stmts[n])
        /\ g.isMove[n] = IsMoveOf(stmts[n])
        /\ g.reads[n] = ReadsOf(stmts[n]) /\ g.writes[n] = WritesOf(stmts[n])
        /\ g.copies[n] = IsCopy(stmts[n])
        /\ g.compared[n] = OfAllocated(Compared(stmts[n]))
        /\ g.idle[n] = UselessArithmetic(stmts[n])
    BY <1>2
  <2> QED BY <2>1, <2>2, Zenon DEF CoveredStatement
<1>5. Covered(g)
  BY <1>1, <1>4, Zenon DEF Covered
<1> QED BY <1>5 DEF g

-----------------------------------------------------------------------------
(* Frame adds statements that are understood too.                          *)

(* What it moves, and to where.                                            *)
Movable(f) ==
  {a \in {p.source : p \in Range(f.params)}
           \cup {Reg(n) : n \in 0 .. FIRST_TEMPORARY} \cup {SaveTemp(f, n) : n \in Nat}
           \cup UNION {Range(s.args) : s \in {t \in Range(f.stmts) : t.kind \in {"call", "return"}}} :
     Names(a) => InRegister(a)}
Destinations(f) ==
  {p.destination : p \in Range(f.params)}
    \cup {Reg(n) : n \in 0 .. FIRST_TEMPORARY} \cup {SaveTemp(f, n) : n \in Nat}
    \cup UNION {{p.source : p \in Range(s.params)} : s \in {t \in Range(f.stmts) : t.kind = "call"}}

AddedMoves(f) == {Mov(a, b) : a \in Movable(f), b \in Destinations(f)}
AddedOthers(f) ==
  {Instr("PUSH", <<Reg(FRAME_POINTER)>>), Instr("POP", <<Reg(FRAME_POINTER)>>),
   Instr("PUSH", <<Const(0)>>),
   Instr("ADD", <<Const(StackedDataSize(f)), Reg(STACK_POINTER)>>)}
Added(f) == AddedMoves(f) \cup AddedOthers(f)
Stmts(f) == Range(f.stmts) \cup Added(f)

LEMMA RegsAreRegisters ==
  /\ \A n : InRegister(Reg(n)) /\ ~Reg(n).temp /\ InRegister(Temp(n)) /\ Names(Reg(n))
  /\ \A n : ~Names(Const(n)) /\ Const(n).type = "IMMED" /\ ~Steps(Const(n))
  /\ \A f, n : InRegister(SaveTemp(f, n)) /\ SaveTemp(f, n).temp
BY DEF InRegister, Reg, Temp, Const, Names, IsTemporary, IsReg, IsLabel, Steps, SaveTemp

LEMMA AddedMoveUnderstood ==
  ASSUME NEW a, Names(a) => InRegister(a), NEW b, InRegister(b)
  PROVE  Understood(Mov(a, b))
<1> DEFINE s == Mov(a, b)
<1>1. /\ s.kind = "instruction" /\ s.op = "MOV" /\ DOMAIN s.args = {1, 2}
      /\ s.args[1] = a /\ s.args[2] = b
  BY DEF Mov, Instr
<1> HIDE DEF s
<1>2. \A k \in ArgsNaming(s) : InRegister(s.args[k])
  BY <1>1 DEF ArgsNaming
<1>3. \A c : InRegister(c) => c.type = "REG" /\ ~Steps(c) /\ ~IsIndexed(c)
  BY DEF InRegister, IsIndexed
<1>4. MovIsMove(s) => s.args[1].type = "REG" /\ ~Steps(s.args[2])
  BY <1>1, <1>3 DEF MovIsMove, Names
<1>5. Compared(s) # {} => ~Steps(s.args[1]) /\ ~Steps(s.args[2])
  BY <1>1, <1>2, <1>3 DEF Compared
<1>6. InstructionUnderstood(s)
  BY <1>1, <1>2, <1>3, <1>4, <1>5 DEF InstructionUnderstood, MovUnderstood
<1>7. Understood(s)
  BY <1>1, <1>6 DEF Understood
<1> QED BY <1>7 DEF s

LEMMA AddedOtherUnderstood ==
  ASSUME NEW f, NEW s \in AddedOthers(f)
  PROVE  Understood(s)
<1>1. ShiftedIsSpecialReg(ShiftArgUID(Reg(FRAME_POINTER)))
  BY StatementsAssumption
     DEF ShiftedIsSpecialReg, ShiftArgUID, Shift, Reg, FRAME_POINTER, STACK_POINTER, FIRST_TEMPORARY
<1>2. \A c : InRegister(c) => c.type = "REG" /\ ~Steps(c) /\ ~IsIndexed(c)
  BY DEF InRegister, IsIndexed
<1>3. CASE s = Instr("PUSH", <<Reg(FRAME_POINTER)>>)
  <2>1. s.kind = "instruction" /\ s.op = "PUSH" /\ DOMAIN s.args = {1} /\ InRegister(s.args[1])
    BY <1>3, RegsAreRegisters DEF Instr
  <2>2. Target(s) = {}
    BY <2>1 DEF Target, Binary, Unary
  <2>3. ArgsNaming(s) \subseteq {1}
    BY <2>1 DEF ArgsNaming
  <2> QED BY <1>2, <2>1, <2>2, <2>3 DEF Understood, InstructionUnderstood, OtherUnderstood
<1>4. CASE s = Instr("POP", <<Reg(FRAME_POINTER)>>)
  <2>1. /\ s.kind = "instruction" /\ s.op = "POP" /\ DOMAIN s.args = {1}
        /\ s.args[1] = Reg(FRAME_POINTER)
    BY <1>4 DEF Instr
  <2>2. InRegister(s.args[1]) /\ ShiftedIsSpecialReg(ShiftArgUID(s.args[1]))
    BY <1>1, <2>1, RegsAreRegisters
  <2>3. Target(s) = {1}
    BY <2>1 DEF Target, Binary, Unary
  <2>4. ArgsNaming(s) \subseteq {1}
    BY <2>1 DEF ArgsNaming
  <2> QED BY <1>2, <2>1, <2>2, <2>3, <2>4 DEF Understood, InstructionUnderstood, OtherUnderstood
<1>5. CASE s = Instr("PUSH", <<Const(0)>>)
  <2>1. s.kind = "instruction" /\ s.op = "PUSH" /\ DOMAIN s.args = {1} /\ ~Names(s.args[1])
    BY <1>5, RegsAreRegisters DEF Instr
  <2>2. Target(s) = {}
    BY <2>1 DEF Target, Binary, Unary
  <2>3. ArgsNaming(s) = {}
    BY <2>1 DEF ArgsNaming
  <2> QED BY <2>1, <2>2, <2>3 DEF Understood, InstructionUnderstood, OtherUnderstood
<1>6. CASE s = Instr("ADD", <<Const(StackedDataSize(f)), Reg(STACK_POINTER)>>)
  <2>1. /\ s.kind = "instruction" /\ s.op = "ADD" /\ DOMAIN s.args = {1, 2}
        /\ ~Names(s.args[1]) /\ InRegister(s.args[2])
    BY <1>6, RegsAreRegisters DEF Instr
  <2>2. Target(s) = {2}
    BY <2>1 DEF Target, Binary
  <2>3. ArgsNaming(s) \subseteq {2}
    BY <2>1 DEF ArgsNaming
  <2> QED BY <1>2, <2>1, <2>2, <2>3 DEF Understood, InstructionUnderstood, OtherUnderstood
<1> QED BY <1>3, <1>4, <1>5, <1>6 DEF AddedOthers

LEMMA StmtsUnderstood ==
  ASSUME NEW f, FunctionUnderstood(f), NEW s \in Stmts(f)
  PROVE  Understood(s)
<1>1. CASE s \in Range(f.stmts)
  BY <1>1 DEF FunctionUnderstood
<1>2. CASE s \in AddedMoves(f)
  <2>1. PICK a \in Movable(f), b \in Destinations(f) : s = Mov(a, b)
    BY <1>2 DEF AddedMoves
  <2>2. Names(a) => InRegister(a)
    BY <2>1 DEF Movable
  <2>3. InRegister(b)
    <3>1. \A p \in Range(f.params) : InRegister(p.destination)
      BY DEF FunctionUnderstood
    <3>2. \A t \in Range(f.stmts) : t.kind = "call" => \A p \in Range(t.params) : InRegister(p.source)
      BY DEF FunctionUnderstood, Understood, InDataRegister
    <3> QED BY <2>1, <3>1, <3>2, RegsAreRegisters DEF Destinations
  <2> QED BY <2>1, <2>2, <2>3, AddedMoveUnderstood
<1> QED BY <1>1, <1>2, AddedOtherUnderstood DEF Stmts, Added

LEMMA MadeSeq ==
  ASSUME NEW S, NEW n \in Nat, NEW q, q = [i \in 1..n |-> q[i]], \A i \in 1..n : q[i] \in S
  PROVE  q \in Seq(S) /\ Len(q) = n
<1>1. q \in [1..n -> S]
  OBVIOUS
<1> QED BY <1>1, SeqDef

LEMMA ReverseIsSeq ==
  ASSUME NEW S, NEW q \in Seq(S)
  PROVE  /\ Reverse(q) \in Seq(S) /\ Len(Reverse(q)) = Len(q)
         /\ \A i \in 1..Len(q) : Reverse(q)[i] = q[(Len(q) - i) + 1]
<1> DEFINE r == Reverse(q)
<1>1. Len(q) \in Nat
  BY LenProperties
<1>2. r = [i \in 1..Len(q) |-> q[(Len(q) - i) + 1]]
  BY DEF Reverse
<1> HIDE DEF r
<1>3. \A i \in 1..Len(q) : r[i] = q[(Len(q) - i) + 1]
  BY <1>2
<1>4. \A i \in 1..Len(q) : (Len(q) - i) + 1 \in 1..Len(q)
  BY <1>1
<1>5. \A i \in 1..Len(q) : r[i] \in S
  BY <1>3, <1>4, ElementOfSeq
<1>6. r = [i \in 1..Len(q) |-> r[i]]
  BY <1>2
<1>7. r \in Seq(S) /\ Len(r) = Len(q)
  BY <1>1, <1>5, <1>6, MadeSeq
<1> QED BY <1>3, <1>7 DEF r

LEMMA LocalsAreSeq ==
  ASSUME NEW f, FunctionUnderstood(f)
  PROVE  Locals(f) \in Seq({Instr("PUSH", <<Const(0)>>)})
<1> DEFINE P == {Instr("PUSH", <<Const(0)>>)}
           words(k) == [w \in 1 .. WordsOf(f.locals[k]) |-> Instr("PUSH", <<Const(0)>>)]
           pushes == [k \in DOMAIN f.locals |-> words(k)]
<1>1. /\ Len(f.locals) \in Nat /\ DOMAIN f.locals = 1..Len(f.locals)
      /\ \A k \in DOMAIN f.locals : f.locals[k].bytes \in Nat
  BY LenProperties DEF FunctionUnderstood, Range
<1>2. ASSUME NEW k \in 1..Len(f.locals) PROVE pushes[k] \in Seq(P)
  <2>1. WordsOf(f.locals[k]) \in Nat
    BY <1>1 DEF WordsOf, Align4
  <2>2. pushes[k] = words(k)
    BY <1>1
  <2> QED BY <2>1, <2>2, MadeSeq
<1>3. pushes = [k \in 1..Len(f.locals) |-> pushes[k]]
  BY <1>1
<1> HIDE DEF pushes, P
<1>4. pushes \in Seq(Seq(P))
  BY <1>1, <1>2, <1>3, MadeSeq
<1>5. FlattenSeq(Reverse(pushes)) \in Seq(P)
  BY <1>4, ReverseIsSeq, FlattenJoins
<1> QED BY <1>5 DEF Locals, pushes, P

LEMMA PiecesAreSeqs ==
  ASSUME NEW f, FunctionUnderstood(f), NEW omitFP
  PROVE  /\ Saves(f) \in Seq(Added(f)) /\ Arriving(f) \in Seq(Added(f))
         /\ Restores(f) \in Seq(Added(f)) /\ Deallocation(f) \in Seq(Added(f))
         /\ PushFP(f) \in Seq(Added(f)) /\ PopFP(f) \in Seq(Added(f)) /\ SetFP \in Seq(Added(f))
         /\ Locals(f) \in Seq(Added(f))
         /\ \A s \in Range(f.stmts) :
              /\ s.kind = "return" => Returned(s) \in Seq(Added(f))
              /\ s.kind = "call" => Passed(s) \in Seq(Added(f)) /\ Len(Passed(s)) = Len(s.params)
<1>1. AddedOthers(f) \subseteq Added(f) /\ AddedMoves(f) \subseteq Added(f)
  BY DEF Added
<1>2. \A a \in Movable(f), b \in Destinations(f) : Mov(a, b) \in Added(f)
  BY <1>1 DEF AddedMoves
<1>3. NUM_REGS \in Nat /\ STD_CALLEE_SAVE \in 1 .. NUM_REGS
  BY StatementsAssumption
<1>4. \A n \in 0 .. FIRST_TEMPORARY : Reg(n) \in Movable(f) \cap Destinations(f)
  BY RegsAreRegisters DEF Movable, Destinations
<1>5. \A n \in Nat : SaveTemp(f, n) \in Movable(f) \cap Destinations(f)
  BY RegsAreRegisters DEF Movable, Destinations
<1>6. SavedRegs(f) \in Seq(0 .. NUM_REGS)
  <2>1. CASE Returns(f) = {}
    BY <2>1, EmptySeq DEF SavedRegs
  <2>2. CASE Returns(f) # {}
    <3> DEFINE q == [k \in 1 .. NUM_REGS - STD_CALLEE_SAVE |-> STD_CALLEE_SAVE + k - 1]
    <3>1. NUM_REGS - STD_CALLEE_SAVE \in Nat
      BY <1>3
    <3>2. \A k \in 1 .. NUM_REGS - STD_CALLEE_SAVE : q[k] \in 0 .. NUM_REGS
      BY <1>3
    <3>3. q = [k \in 1 .. NUM_REGS - STD_CALLEE_SAVE |-> q[k]]
      OBVIOUS
    <3> HIDE DEF q
    <3>4. q \in Seq(0 .. NUM_REGS)
      BY <3>1, <3>2, <3>3, MadeSeq
    <3> QED BY <2>2, <3>4 DEF SavedRegs, q
  <2> QED BY <2>1, <2>2
<1>7. \A n \in 0 .. NUM_REGS : /\ Mov(Reg(n), SaveTemp(f, n)) \in Added(f)
                               /\ Mov(SaveTemp(f, n), Reg(n)) \in Added(f)
  <2>1. \A n \in 0 .. NUM_REGS : n \in Nat /\ n \in 0 .. FIRST_TEMPORARY
    BY <1>3 DEF FIRST_TEMPORARY
  <2> QED BY <1>2, <1>4, <1>5, <2>1
<1>8. \A q \in Seq(0 .. NUM_REGS) : Len(q) \in Nat /\ DOMAIN q = 1..Len(q)
                                    /\ \A k \in 1..Len(q) : q[k] \in 0 .. NUM_REGS
  BY LenProperties, ElementOfSeq
<1>9. Saves(f) \in Seq(Added(f))
  <2> DEFINE regs == Reverse(SavedRegs(f))
             q == [k \in DOMAIN regs |-> Mov(Reg(regs[k]), SaveTemp(f, regs[k]))]
  <2>1. regs \in Seq(0 .. NUM_REGS)
    BY <1>6, ReverseIsSeq
  <2> HIDE DEF regs
  <2>2. Len(regs) \in Nat /\ q = [k \in 1..Len(regs) |-> q[k]]
    BY <1>8, <2>1
  <2>3. \A k \in 1..Len(regs) : q[k] \in Added(f)
    BY <1>7, <1>8, <2>1
  <2> HIDE DEF q
  <2>4. q \in Seq(Added(f))
    BY <2>2, <2>3, MadeSeq
  <2> QED BY <2>4 DEF Saves, q, regs
<1>10. Restores(f) \in Seq(Added(f))
  <2> DEFINE regs == SavedRegs(f)
             q == [k \in DOMAIN regs |-> Mov(SaveTemp(f, regs[k]), Reg(regs[k]))]
  <2>1. regs \in Seq(0 .. NUM_REGS)
    BY <1>6
  <2> HIDE DEF regs
  <2>2. Len(regs) \in Nat /\ q = [k \in 1..Len(regs) |-> q[k]]
    BY <1>8, <2>1
  <2>3. \A k \in 1..Len(regs) : q[k] \in Added(f)
    BY <1>7, <1>8, <2>1
  <2> HIDE DEF q
  <2>4. q \in Seq(Added(f))
    BY <2>2, <2>3, MadeSeq
  <2> QED BY <2>4 DEF Restores, q, regs
<1>11. Arriving(f) \in Seq(Added(f))
  <2> DEFINE q == [k \in DOMAIN f.params |-> Mov(f.params[k].source, f.params[k].destination)]
  <2>1. Len(f.params) \in Nat /\ DOMAIN f.params = 1..Len(f.params)
    BY LenProperties DEF FunctionUnderstood
  <2>2. \A k \in 1..Len(f.params) : f.params[k] \in Range(f.params)
    BY <2>1 DEF Range
  <2>3. \A p \in Range(f.params) : p.source \in Movable(f) /\ p.destination \in Destinations(f)
    BY DEF Movable, Destinations, FunctionUnderstood
  <2>4. \A k \in 1..Len(f.params) : q[k] \in Added(f)
    BY <1>2, <2>1, <2>2, <2>3
  <2>5. q = [k \in 1..Len(f.params) |-> q[k]]
    BY <2>1
  <2> HIDE DEF q
  <2>6. q \in Seq(Added(f))
    BY <2>1, <2>4, <2>5, MadeSeq
  <2> QED BY <2>6 DEF Arriving, q
<1>12. \A s : s \in Added(f) => <<s>> \in Seq(Added(f))
  OBVIOUS
<1>13. /\ Deallocation(f) \in Seq(Added(f))
       /\ PushFP(f) \in Seq(Added(f)) /\ PopFP(f) \in Seq(Added(f))
  <2>1. Instr("ADD", <<Const(StackedDataSize(f)), Reg(STACK_POINTER)>>) \in Added(f)
    BY <1>1 DEF AddedOthers
  <2>2. Instr("PUSH", <<Reg(FRAME_POINTER)>>) \in Added(f) /\ Instr("POP", <<Reg(FRAME_POINTER)>>) \in Added(f)
    BY <1>1 DEF AddedOthers
  <2>3. <<>> \in Seq(Added(f))
    BY EmptySeq
  <2> QED BY <1>12, <2>1, <2>2, <2>3 DEF Deallocation, PushFP, PopFP
<1>14. SetFP \in Seq(Added(f))
  <2>1. STACK_POINTER \in 0 .. FIRST_TEMPORARY /\ FRAME_POINTER \in 0 .. FIRST_TEMPORARY
    BY <1>3 DEF STACK_POINTER, FRAME_POINTER, FIRST_TEMPORARY
  <2>2. Mov(Reg(STACK_POINTER), Reg(FRAME_POINTER)) \in Added(f)
    BY <1>2, <1>4, <2>1
  <2> QED BY <1>12, <2>2 DEF SetFP
<1>15. Locals(f) \in Seq(Added(f))
  <2>1. {Instr("PUSH", <<Const(0)>>)} \subseteq Added(f)
    BY <1>1 DEF AddedOthers
  <2> QED BY <2>1, LocalsAreSeq, SeqMonotonic
<1>16. ASSUME NEW s \in Range(f.stmts), s.kind = "return"
       PROVE  Returned(s) \in Seq(Added(f))
  <2>1. /\ s.args \in Seq(Range(s.args))
        /\ \A k \in ArgsNaming(s) : InRegister(s.args[k])
    BY <1>16 DEF FunctionUnderstood, Understood
  <2>2. Reg(REG_DATA_0) \in Destinations(f)
    BY <1>3, <1>4 DEF REG_DATA_0, FIRST_TEMPORARY
  <2>3. CASE Len(s.args) = 1
    <3>1. 1 \in DOMAIN s.args /\ s.args[1] \in Range(s.args)
      BY <2>1, <2>3, LenProperties DEF Range
    <3>2. s.args[1] \in Movable(f)
      <4>1. Names(s.args[1]) => InRegister(s.args[1])
        BY <2>1, <3>1 DEF ArgsNaming
      <4> QED BY <1>16, <3>1, <4>1 DEF Movable
    <3>3. Mov(s.args[1], Reg(REG_DATA_0)) \in Added(f)
      BY <1>2, <2>2, <3>2
    <3> QED BY <1>12, <2>3, <3>3 DEF Returned
  <2>4. CASE Len(s.args) # 1
    BY <2>4, EmptySeq DEF Returned
  <2> QED BY <2>3, <2>4
<1>17. ASSUME NEW s \in Range(f.stmts), s.kind = "call"
       PROVE  Passed(s) \in Seq(Added(f)) /\ Len(Passed(s)) = Len(s.params)
  <2> DEFINE n == Len(s.args) - 1
             q == [k \in 1 .. n |-> Mov(s.args[k + 1], s.params[k].source)]
  <2>1. /\ s.args \in Seq(Range(s.args))
        /\ \A k \in ArgsNaming(s) : InRegister(s.args[k])
        /\ s.params \in Seq(Range(s.params)) /\ Len(s.args) = 1 + Len(s.params)
    BY <1>17 DEF FunctionUnderstood, Understood
  <2>2. /\ DOMAIN s.args = 1..Len(s.args) /\ DOMAIN s.params = 1..Len(s.params)
        /\ Len(s.params) \in Nat
    BY <2>1, LenProperties
  <2>3. n = Len(s.params) /\ n \in Nat /\ \A k \in 1..n : k \in DOMAIN s.params /\ k + 1 \in DOMAIN s.args
    BY <2>1, <2>2
  <2> HIDE DEF n
  <2>4. \A k \in 1..n : s.args[k + 1] \in Movable(f)
    <3>1. \A k \in 1..n : s.args[k + 1] \in Range(s.args)
      BY <2>3 DEF Range
    <3>2. \A k \in 1..n : Names(s.args[k + 1]) => InRegister(s.args[k + 1])
      BY <2>1, <2>3 DEF ArgsNaming
    <3> QED BY <1>17, <3>1, <3>2 DEF Movable
  <2>5. \A k \in 1..n : s.params[k].source \in Destinations(f)
    <3>1. \A k \in 1..n : s.params[k] \in Range(s.params)
      BY <2>3 DEF Range
    <3> QED BY <1>17, <3>1 DEF Destinations
  <2>6. \A k \in 1..n : q[k] \in Added(f)
    BY <1>2, <2>4, <2>5
  <2>7. q = [k \in 1..n |-> q[k]]
    OBVIOUS
  <2> HIDE DEF q
  <2>8. q \in Seq(Added(f)) /\ Len(q) = n
    BY <2>3, <2>6, <2>7, MadeSeq
  <2> QED BY <2>3, <2>8 DEF Passed, q, n
<1> QED
  BY <1>9, <1>10, <1>11, <1>13, <1>14, <1>15, <1>16, <1>17

LEMMA FramedIsSeq ==
  ASSUME NEW f, FunctionUnderstood(f), NEW omitFP
  PROVE  /\ Prologue(f, omitFP) \in Seq(Added(f))
         /\ \A s \in Range(f.stmts) : Before(f, omitFP, s) \in Seq(Added(f))
         /\ Framed(f, omitFP) \in Seq(Stmts(f))
<1>1. \A p, q \in Seq(Added(f)) : p \o q \in Seq(Added(f))
  BY ConcatProperties
<1>2. <<>> \in Seq(Added(f))
  BY EmptySeq
<1>3. Prologue(f, omitFP) \in Seq(Added(f))
  <2>1. (IF omitFP THEN <<>> ELSE PushFP(f) \o SetFP) \in Seq(Added(f))
    BY <1>1, <1>2, PiecesAreSeqs
  <2> QED BY <1>1, <2>1, PiecesAreSeqs DEF Prologue
<1>4. ASSUME NEW s \in Range(f.stmts)
      PROVE  Before(f, omitFP, s) \in Seq(Added(f))
  <2>1. CASE s.kind = "return"
    <3>1. (IF omitFP THEN <<>> ELSE PopFP(f)) \in Seq(Added(f))
      BY <1>2, PiecesAreSeqs
    <3>2. Epilogue(f, omitFP, s) \in Seq(Added(f))
      BY <1>1, <2>1, <3>1, PiecesAreSeqs DEF Epilogue
    <3> QED BY <2>1, <3>2 DEF Before
  <2>2. CASE s.kind # "return"
    BY <1>2, <2>2, PiecesAreSeqs DEF Before
  <2> QED BY <2>1, <2>2
<1>5. Framed(f, omitFP) \in Seq(Stmts(f))
  <2> DEFINE piece(k) == Append(Before(f, omitFP, f.stmts[k]), f.stmts[k])
             pieces == [k \in DOMAIN f.stmts |-> piece(k)]
  <2>0. Seq(Added(f)) \subseteq Seq(Stmts(f))
    BY SeqMonotonic DEF Stmts
  <2>1. Len(f.stmts) \in Nat /\ DOMAIN f.stmts = 1..Len(f.stmts)
    BY LenProperties DEF FunctionUnderstood
  <2>2. ASSUME NEW k \in 1..Len(f.stmts) PROVE pieces[k] \in Seq(Stmts(f))
    <3>1. f.stmts[k] \in Range(f.stmts) /\ f.stmts[k] \in Stmts(f)
      BY <2>1 DEF Range, Stmts
    <3>2. Before(f, omitFP, f.stmts[k]) \in Seq(Stmts(f))
      BY <1>4, <2>0, <3>1
    <3>3. piece(k) \in Seq(Stmts(f))
      BY <3>1, <3>2, AppendProperties
    <3> QED BY <2>1, <3>3
  <2>3. pieces = [k \in 1..Len(f.stmts) |-> pieces[k]]
    BY <2>1
  <2> HIDE DEF pieces
  <2>4. pieces \in Seq(Seq(Stmts(f)))
    BY <2>1, <2>2, <2>3, MadeSeq
  <2>5. FlattenSeq(pieces) \in Seq(Stmts(f))
    BY <2>4, FlattenJoins
  <2>6. Framed(f, omitFP) = Prologue(f, omitFP) \o FlattenSeq(pieces)
    BY DEF Framed, pieces
  <2> QED BY <1>3, <2>0, <2>5, <2>6, ConcatProperties
<1> QED BY <1>3, <1>4, <1>5

LEMMA BuildCovered ==
  ASSUME NEW f, FunctionUnderstood(f), NEW omitFP
  PROVE  Covered(Build(f, omitFP))
<1>1. Framed(f, omitFP) \in Seq(Stmts(f))
  BY FramedIsSeq
<1>2. \A n \in DOMAIN Framed(f, omitFP) : Framed(f, omitFP)[n] \in Stmts(f)
  BY <1>1, LenProperties, ElementOfSeq
<1>3. \A n \in DOMAIN Framed(f, omitFP) : Understood(Framed(f, omitFP)[n])
  BY <1>2, StmtsUnderstood
<1> QED BY <1>1, <1>3, GraphCovered DEF Build

-----------------------------------------------------------------------------
(* Functions as the assembler makes them, of statements it understands.    *)
AllUnderstood ==
  \A k \in DOMAIN Table :
    \E f, omitFP : FunctionUnderstood(f) /\ Table[k] = Build(f, omitFP)

LEMMA UnderstoodIsCovered == AllUnderstood => AllCovered
BY BuildCovered DEF AllUnderstood, AllCovered

(* Every statement of such a function, and every one that Frame adds, uses *)
(* what it reads and defines what it writes (_findUsesDefines, _moveInstr, *)
(* Optimizer).                                                             *)
THEOREM UsesAndDefinesAreCovered == Spec /\ AllUnderstood => []UsesAndDefinesCover
<1>1. IInv => UsesAndDefinesCover
  BY DEF IInv, AllCovered, TypeOK, FlowTypeOK, UsesAndDefinesCover, fn
<1> QED
  BY Invariant, UnderstoodIsCovered, <1>1, PTL

(* So whatever such a function computes, it computes after the allocation  *)
(* of registers as well, with the code Frame added, on every path and for  *)
(* every proper colouring.                                                 *)
THEOREM SourcesAgree == Spec /\ AllUnderstood => []Agree
BY Agreement, UnderstoodIsCovered, PTL

-----------------------------------------------------------------------------
(* Where Frame puts what: behind the prologue each statement of the        *)
(* function follows what is put before it, and o is where its piece begins. *)
InPiece(f, omitFP, o, n, j, i) ==
  /\ j \in 1..Len(f.stmts)
  /\ i \in 1..(Len(Before(f, omitFP, f.stmts[j])) + 1)
  /\ n = Len(Prologue(f, omitFP)) + (o[j - 1] + i)

InPrologue(f, omitFP, n) == n \in 1..Len(Prologue(f, omitFP))

PieceAt(f, omitFP, j, i) ==
  IF i <= Len(Before(f, omitFP, f.stmts[j])) THEN Before(f, omitFP, f.stmts[j])[i]
                                             ELSE f.stmts[j]

Layout(f, omitFP, o) ==
  LET q == Framed(f, omitFP)
  IN  /\ \A n \in DOMAIN q : InPrologue(f, omitFP, n) \/ \E j, i : InPiece(f, omitFP, o, n, j, i)
      /\ \A n : InPrologue(f, omitFP, n) => n \in DOMAIN q /\ q[n] = Prologue(f, omitFP)[n]
      /\ \A n, j, i : InPiece(f, omitFP, o, n, j, i) =>
           n \in DOMAIN q /\ q[n] = PieceAt(f, omitFP, j, i)
      /\ \A n \in 0..Len(Prologue(f, omitFP)) : n + 1 \in DOMAIN q =>
           InPrologue(f, omitFP, n + 1) \/ InPiece(f, omitFP, o, n + 1, 1, 1)
      /\ \A n, j, i : InPiece(f, omitFP, o, n, j, i) /\ n + 1 \in DOMAIN q =>
           IF i <= Len(Before(f, omitFP, f.stmts[j]))
             THEN InPiece(f, omitFP, o, n + 1, j, i + 1)
             ELSE InPiece(f, omitFP, o, n + 1, j + 1, 1)

LEMMA ConcatAt ==
  ASSUME NEW S, NEW p \in Seq(S), NEW q \in Seq(S)
  PROVE  /\ p \o q \in Seq(S) /\ Len(p) \in Nat /\ Len(q) \in Nat
         /\ Len(p \o q) = Len(p) + Len(q)
         /\ DOMAIN (p \o q) = 1..(Len(p) + Len(q))
         /\ \A n \in 1..Len(p) : (p \o q)[n] = p[n]
         /\ \A n \in 1..Len(q) : (p \o q)[Len(p) + n] = q[n]
<1>1. /\ p \o q \in Seq(S) /\ Len(p) \in Nat /\ Len(q) \in Nat
      /\ Len(p \o q) = Len(p) + Len(q)
  BY ConcatProperties, LenProperties
<1>2. \A n \in 1..Len(p) + Len(q) : (p \o q)[n] = IF n <= Len(p) THEN p[n] ELSE q[n - Len(p)]
  BY ConcatProperties
<1>3. DOMAIN (p \o q) = 1..(Len(p) + Len(q))
  BY <1>1, LenProperties
<1>4. ASSUME NEW n \in 1..Len(q) PROVE (p \o q)[Len(p) + n] = q[n]
  <2>1. Len(p) + n \in 1..Len(p) + Len(q) /\ ~(Len(p) + n <= Len(p)) /\ (Len(p) + n) - Len(p) = n
    BY <1>1
  <2> QED BY <1>2, <2>1
<1>5. ASSUME NEW n \in 1..Len(p) PROVE (p \o q)[n] = p[n]
  <2>1. n \in 1..Len(p) + Len(q) /\ n <= Len(p)
    BY <1>1
  <2> QED BY <1>2, <2>1
<1> QED BY <1>1, <1>3, <1>4, <1>5

LEMMA LaidOut ==
  ASSUME NEW f, FunctionUnderstood(f), NEW omitFP
  PROVE  \E o : Layout(f, omitFP, o)
<1> DEFINE N == Len(f.stmts)
           before(k) == Before(f, omitFP, f.stmts[k])
           pieces == [k \in DOMAIN f.stmts |-> Append(before(k), f.stmts[k])]
           p == Prologue(f, omitFP)
           r == FlattenSeq(pieces)
           q == Framed(f, omitFP)
<1>1. N \in Nat /\ DOMAIN f.stmts = 1..N /\ \A k \in 1..N : f.stmts[k] \in Range(f.stmts)
  BY LenProperties DEF FunctionUnderstood, Range
<1>2. Seq(Added(f)) \subseteq Seq(Stmts(f)) /\ Range(f.stmts) \subseteq Stmts(f)
  BY SeqMonotonic DEF Stmts
<1>3. p \in Seq(Stmts(f)) /\ Len(p) \in Nat
  BY <1>2, FramedIsSeq, LenProperties
<1>4. ASSUME NEW k \in 1..N
      PROVE  /\ pieces[k] \in Seq(Stmts(f)) /\ Len(before(k)) \in Nat
             /\ Len(pieces[k]) = Len(before(k)) + 1
             /\ \A i \in 1..Len(before(k)) + 1 : pieces[k][i] = PieceAt(f, omitFP, k, i)
  <2>1. before(k) \in Seq(Stmts(f)) /\ f.stmts[k] \in Stmts(f)
    BY <1>1, <1>2, FramedIsSeq
  <2>2. pieces[k] = Append(before(k), f.stmts[k])
    BY <1>1
  <2>3. /\ pieces[k] \in Seq(Stmts(f)) /\ Len(before(k)) \in Nat
        /\ Len(pieces[k]) = Len(before(k)) + 1
        /\ \A i \in 1..Len(before(k)) : pieces[k][i] = before(k)[i]
        /\ pieces[k][Len(before(k)) + 1] = f.stmts[k]
    BY <2>1, <2>2, AppendProperties, LenProperties
  <2> QED BY <2>3 DEF PieceAt
<1>5. pieces = [k \in 1..N |-> pieces[k]]
  BY <1>1
<1>6. q = p \o r
  BY DEF Framed
<1> HIDE DEF pieces, p, r, q
<1>7. pieces \in Seq(Seq(Stmts(f))) /\ Len(pieces) = N
  BY <1>1, <1>4, <1>5, MadeSeq
<1>8. r \in Seq(Stmts(f)) /\ \E o : Begin(o, pieces, N) /\ Joins(r, pieces, o, N)
  BY <1>7, FlattenJoins DEF r
<1>9. PICK o : Begin(o, pieces, N) /\ Joins(r, pieces, o, N)
  BY <1>8
<1>10. /\ \A k \in 0..N : o[k] \in Nat
       /\ o[0] = 0
       /\ \A j \in 1..N : o[j] = o[j - 1] + (Len(before(j)) + 1)
       /\ Len(r) = o[N] /\ Len(r) \in Nat
  <2>1. o \in [0..N -> Nat] /\ o[0] = 0 /\ \A j \in 1..N : o[j] = o[j - 1] + Len(pieces[j])
    BY <1>9 DEF Begin
  <2>2. \A k \in 0..N : o[k] \in Nat
    BY <2>1
  <2>3. \A j \in 1..N : Len(pieces[j]) = Len(before(j)) + 1
    BY <1>4
  <2>4. \A j \in 1..N : o[j] = o[j - 1] + (Len(before(j)) + 1)
    BY <2>1, <2>3
  <2>5. Len(r) = o[N]
    BY <1>9 DEF Joins
  <2> QED BY <1>1, <2>1, <2>2, <2>4, <2>5
<1>11. /\ \A j \in 1..N : \A i \in 1..(Len(before(j)) + 1) :
            o[j - 1] + i \in 1..Len(r) /\ r[o[j - 1] + i] = PieceAt(f, omitFP, j, i)
       /\ \A x \in 1..Len(r) : \E j \in 1..N : x - o[j - 1] \in 1..(Len(before(j)) + 1)
  <2>1. \A j \in 1..N : Len(pieces[j]) = Len(before(j)) + 1
    BY <1>4
  <2>2. \A j \in 1..N : \A i \in 1..Len(pieces[j]) :
          o[j - 1] + i \in 1..Len(r) /\ r[o[j - 1] + i] = pieces[j][i]
    BY <1>9 DEF Joins
  <2>3. \A x \in 1..Len(r) : \E j \in 1..N : x - o[j - 1] \in 1..Len(pieces[j])
    BY <1>9 DEF Joins
  <2> QED BY <1>4, <2>1, <2>2, <2>3
<1>12. /\ DOMAIN q = 1..(Len(p) + Len(r))
       /\ \A n \in 1..Len(p) : q[n] = p[n]
       /\ \A n \in 1..Len(r) : q[Len(p) + n] = r[n]
  BY <1>3, <1>6, <1>8, ConcatAt
<1> DEFINE In(n, j, i) == j \in 1..N /\ i \in 1..(Len(before(j)) + 1) /\ n = Len(p) + (o[j - 1] + i)
<1>13. \A n, j, i : InPiece(f, omitFP, o, n, j, i) <=> In(n, j, i)
  BY DEF InPiece, p
<1>14. \A n : InPrologue(f, omitFP, n) <=> n \in 1..Len(p)
  BY DEF InPrologue, p
<1>15. \A j \in 1..N : o[j - 1] \in Nat /\ o[j] \in Nat /\ Len(before(j)) \in Nat
  BY <1>1, <1>4, <1>10
<1>16. ASSUME NEW n \in DOMAIN q PROVE n \in 1..Len(p) \/ \E j, i : In(n, j, i)
  <2>1. SUFFICES ASSUME n \notin 1..Len(p) PROVE \E j, i : In(n, j, i)
    OBVIOUS
  <2>2. n - Len(p) \in 1..Len(r)
    BY <1>3, <1>10, <1>12, <2>1
  <2>3. PICK j \in 1..N : (n - Len(p)) - o[j - 1] \in 1..(Len(before(j)) + 1)
    BY <1>11, <2>2
  <2>4. n = Len(p) + (o[j - 1] + ((n - Len(p)) - o[j - 1]))
    BY <1>3, <1>10, <1>12, <1>15
  <2> QED BY <2>3, <2>4
<1>17. \A n \in 1..Len(p) : n \in DOMAIN q /\ q[n] = p[n]
  BY <1>3, <1>10, <1>12
<1>18. ASSUME NEW n, NEW j, NEW i, In(n, j, i)
       PROVE  n \in DOMAIN q /\ q[n] = PieceAt(f, omitFP, j, i)
  <2>1. o[j - 1] + i \in 1..Len(r) /\ r[o[j - 1] + i] = PieceAt(f, omitFP, j, i)
    BY <1>11, <1>18
  <2>2. PICK x \in 1..Len(r) : x = o[j - 1] + i
    BY <2>1
  <2>3. n = Len(p) + x /\ r[x] = PieceAt(f, omitFP, j, i)
    BY <1>18, <2>1, <2>2
  <2>4. q[Len(p) + x] = r[x]
    BY <1>12
  <2>5. Len(p) + x \in 1..(Len(p) + Len(r))
    BY <1>3, <1>10
  <2> QED BY <1>12, <2>3, <2>4, <2>5
<1>19. ASSUME NEW n \in 0..Len(p), n + 1 \in DOMAIN q
       PROVE  n + 1 \in 1..Len(p) \/ In(n + 1, 1, 1)
  <2>1. SUFFICES ASSUME n = Len(p) PROVE In(n + 1, 1, 1)
    BY <1>3
  <2>2. N # 0
    BY <1>3, <1>10, <1>12, <1>19, <2>1
  <2>3. 1 \in 1..N /\ o[1 - 1] = 0
    BY <1>1, <1>10, <2>2
  <2>4. 1 \in 1..(Len(before(1)) + 1) /\ n + 1 = Len(p) + (0 + 1)
    BY <1>15, <2>1, <2>3
  <2> QED BY <2>3, <2>4
<1>20. ASSUME NEW n, NEW j, NEW i, In(n, j, i), n + 1 \in DOMAIN q
       PROVE  IF i <= Len(before(j)) THEN In(n + 1, j, i + 1) ELSE In(n + 1, j + 1, 1)
  <2>0. /\ j \in 1..N /\ i \in 1..(Len(before(j)) + 1) /\ n = Len(p) + (o[j - 1] + i)
        /\ o[j - 1] \in Nat /\ Len(before(j)) \in Nat /\ o[j] = o[j - 1] + (Len(before(j)) + 1)
    BY <1>10, <1>15, <1>20
  <2>1. CASE i <= Len(before(j))
    <3>1. i + 1 \in 1..(Len(before(j)) + 1)
      BY <2>0, <2>1
    <3>2. n + 1 = Len(p) + (o[j - 1] + (i + 1))
      <4>1. PICK a \in Nat, b \in Nat, c \in Nat : a = Len(p) /\ b = o[j - 1] /\ c = i
        BY <1>3, <2>0
      <4>2. n = a + (b + c)
        BY <2>0, <4>1
      <4>3. n + 1 = a + (b + (c + 1))
        BY <4>2
      <4> QED BY <4>1, <4>3
    <3> QED BY <2>0, <2>1, <3>1, <3>2
  <2>2. CASE ~(i <= Len(before(j)))
    <3>1. n = Len(p) + o[j]
      <4>1. i = Len(before(j)) + 1
        <5>1. PICK c \in Nat : c = Len(before(j))
          BY <2>0
        <5>2. i \in 1..(c + 1) /\ ~(i <= c)
          BY <2>0, <2>2, <5>1
        <5>3. i = c + 1
          BY <5>2
        <5> QED BY <5>1, <5>3
      <4>2. o[j - 1] + i = o[j]
        BY <2>0, <4>1, Zenon
      <4> QED BY <2>0, <4>2, Zenon
    <3>2. j # N
      BY <1>3, <1>10, <1>12, <1>20, <3>1
    <3>3. j + 1 \in 1..N /\ (j + 1) - 1 = j
      BY <1>1, <2>0, <3>2
    <3>4. 1 \in 1..(Len(before(j + 1)) + 1)
      BY <1>15, <3>3
    <3>5. n + 1 = Len(p) + (o[j] + 1)
      BY <1>3, <2>0, <3>1
    <3> QED BY <2>2, <3>3, <3>4, <3>5
  <2> QED BY <2>1, <2>2
<1> HIDE DEF In
<1>21. Layout(f, omitFP, o)
  <2>1. p = Prologue(f, omitFP) /\ q = Framed(f, omitFP)
    BY DEF p, q
  <2>2. \A n \in DOMAIN q : InPrologue(f, omitFP, n) \/ \E j, i : InPiece(f, omitFP, o, n, j, i)
    BY <1>13, <1>14, <1>16
  <2>3. \A n : InPrologue(f, omitFP, n) => n \in DOMAIN q /\ q[n] = p[n]
    BY <1>14, <1>17
  <2>4. \A n, j, i : InPiece(f, omitFP, o, n, j, i) =>
           n \in DOMAIN q /\ q[n] = PieceAt(f, omitFP, j, i)
    BY <1>13, <1>18
  <2>5. \A n \in 0..Len(p) : n + 1 \in DOMAIN q =>
           InPrologue(f, omitFP, n + 1) \/ InPiece(f, omitFP, o, n + 1, 1, 1)
    BY <1>13, <1>14, <1>19
  <2>6. \A n, j, i : InPiece(f, omitFP, o, n, j, i) /\ n + 1 \in DOMAIN q =>
           IF i <= Len(before(j))
             THEN InPiece(f, omitFP, o, n + 1, j, i + 1)
             ELSE InPiece(f, omitFP, o, n + 1, j + 1, 1)
    BY <1>13, <1>20
  <2> QED BY <2>1, <2>2, <2>3, <2>4, <2>5, <2>6, Zenon DEF Layout
<1> QED BY <1>21

(* What Frame adds jumps nowhere.                                          *)
LEMMA AddedGoesOn ==
  ASSUME NEW f, NEW s \in Added(f)
  PROVE  s.kind = "instruction" /\ ~Jumps(s) /\ FallsThrough(s)
<1>1. \A op, args : Instr(op, args).kind = "instruction" /\ Instr(op, args).op = op
  BY DEF Instr
<1>2. s.kind = "instruction" /\ s.op \in {"MOV", "PUSH", "POP", "ADD"}
  <2>1. CASE s \in AddedMoves(f)
    <3>1. PICK a \in Movable(f), b \in Destinations(f) : s = Mov(a, b)
      BY <2>1 DEF AddedMoves
    <3> QED BY <1>1, <3>1 DEF Mov
  <2>2. CASE s \in AddedOthers(f)
    <3>1. \E op, args : op \in {"PUSH", "POP", "ADD"} /\ s = Instr(op, args)
      BY <2>2 DEF AddedOthers
    <3> QED BY <1>1, <3>1
  <2> QED BY <2>1, <2>2 DEF Added
<1>3. ~Jumps(s)
  BY <1>2 DEF Jumps, ConditionalJumps
<1> QED BY <1>2, <1>3 DEF FallsThrough

(* From where to where the function goes: through what was added, and from *)
(* a statement of its own to the piece of another.                         *)
LEMMA Leads ==
  ASSUME NEW f, FunctionUnderstood(f), NEW omitFP, NEW o, Layout(f, omitFP, o),
         NEW n \in DOMAIN Framed(f, omitFP), NEW m \in SuccsOf(Framed(f, omitFP), n)
  PROVE  /\ InPrologue(f, omitFP, n) =>
              m = n + 1 /\ (InPrologue(f, omitFP, m) \/ InPiece(f, omitFP, o, m, 1, 1))
         /\ \A j, i : InPiece(f, omitFP, o, n, j, i) =>
              IF i <= Len(Before(f, omitFP, f.stmts[j]))
                THEN m = n + 1 /\ InPiece(f, omitFP, o, m, j, i + 1)
                ELSE /\ f.stmts[j].kind # "return"
                     /\ \E k : InPiece(f, omitFP, o, m, k, 1)
<1> DEFINE q == Framed(f, omitFP)
           before(j) == Before(f, omitFP, f.stmts[j])
<1>1. /\ Prologue(f, omitFP) \in Seq(Added(f))
      /\ \A j \in 1..Len(f.stmts) : before(j) \in Seq(Added(f))
  <2>1. \A j \in 1..Len(f.stmts) : f.stmts[j] \in Range(f.stmts)
    BY LenProperties DEF FunctionUnderstood, Range
  <2> QED BY <2>1, FramedIsSeq
<1>2. m \in DOMAIN q
  BY DEF SuccsOf, NodesFor, Jumped
<1>3. q[n] \in Added(f) => m = n + 1
  BY AddedGoesOn DEF SuccsOf
<1>4. ASSUME InPrologue(f, omitFP, n)
      PROVE  m = n + 1 /\ (InPrologue(f, omitFP, m) \/ InPiece(f, omitFP, o, m, 1, 1))
  <2>1. q[n] = Prologue(f, omitFP)[n]
    BY <1>4 DEF Layout
  <2>2. n \in 1..Len(Prologue(f, omitFP))
    BY <1>4 DEF InPrologue
  <2>3. m = n + 1
    BY <1>1, <1>3, <2>1, <2>2, ElementOfSeq
  <2>4. n \in 0..Len(Prologue(f, omitFP))
    BY <1>1, <2>2, LenProperties
  <2> QED BY <1>2, <2>3, <2>4 DEF Layout
<1>5. ASSUME NEW j, NEW i, InPiece(f, omitFP, o, n, j, i), i <= Len(before(j))
      PROVE  m = n + 1 /\ InPiece(f, omitFP, o, m, j, i + 1)
  <2>1. q[n] = before(j)[i]
    BY <1>5 DEF Layout, PieceAt
  <2>2. j \in 1..Len(f.stmts) /\ i \in 1..(Len(before(j)) + 1)
    BY <1>5 DEF InPiece
  <2>3. i \in 1..Len(before(j))
    BY <1>1, <1>5, <2>2, LenProperties
  <2>4. m = n + 1
    BY <1>1, <1>3, <2>1, <2>2, <2>3, ElementOfSeq
  <2> QED BY <1>2, <1>5, <2>4 DEF Layout
<1>6. ASSUME NEW j, NEW i, InPiece(f, omitFP, o, n, j, i), ~(i <= Len(before(j)))
      PROVE  f.stmts[j].kind # "return" /\ \E k : InPiece(f, omitFP, o, m, k, 1)
  <2>1. q[n] = f.stmts[j]
    BY <1>6 DEF Layout, PieceAt
  <2>2. f.stmts[j].kind # "return"
    BY <2>1 DEF SuccsOf, FallsThrough, Jumps
  <2>3. CASE m = n + 1
    <3>1. InPiece(f, omitFP, o, m, j + 1, 1)
      BY <1>2, <1>6, <2>3 DEF Layout
    <3> QED BY <2>2, <3>1
  <2>4. CASE m # n + 1
    <3>1. q[m].kind = "label"
      BY <2>4 DEF SuccsOf, Jumped
    <3>2. ~InPrologue(f, omitFP, m)
      <4>1. SUFFICES ASSUME InPrologue(f, omitFP, m) PROVE FALSE
        OBVIOUS
      <4>2. q[m] = Prologue(f, omitFP)[m] /\ m \in 1..Len(Prologue(f, omitFP))
        BY <4>1 DEF Layout, InPrologue
      <4>3. q[m] \in Added(f)
        BY <1>1, <4>2, ElementOfSeq
      <4> QED BY <3>1, <4>3, AddedGoesOn
    <3>3. PICK k, h : InPiece(f, omitFP, o, m, k, h)
      BY <1>2, <3>2 DEF Layout
    <3>4. k \in 1..Len(f.stmts) /\ h \in 1..(Len(before(k)) + 1) /\ Len(before(k)) \in Nat
      BY <1>1, <3>3, LenProperties DEF InPiece
    <3>5. ~(h <= Len(before(k)))
      <4>1. SUFFICES ASSUME h <= Len(before(k)) PROVE FALSE
        OBVIOUS
      <4>2. q[m] = before(k)[h]
        BY <3>3, <4>1 DEF Layout, PieceAt
      <4>3. h \in 1..Len(before(k))
        BY <3>4, <4>1
      <4>4. q[m] \in Added(f)
        BY <1>1, <3>4, <4>2, <4>3, ElementOfSeq
      <4> QED BY <3>1, <4>4, AddedGoesOn
    <3>6. f.stmts[k].kind = "label"
      BY <3>1, <3>3, <3>5 DEF Layout, PieceAt
    <3>7. Len(before(k)) = 0
      BY <3>6, EmptySeq DEF Before
    <3>8. h = 1
      BY <3>4, <3>5, <3>7
    <3> QED BY <2>2, <3>3, <3>8
  <2> QED BY <2>3, <2>4
<1> QED BY <1>4, <1>5, <1>6

-----------------------------------------------------------------------------
(* What one statement leaves where it is, and what a move takes along.     *)
LEMMA MoveDoes ==
  ASSUME NEW a, InRegister(a), NEW b, InRegister(b), NEW s, s = Mov(a, b)
  PROVE  /\ ReadsOf(s) = Ordinary({ShiftArgUID(a)}) /\ WritesOf(s) = Ordinary({ShiftArgUID(b)})
         /\ ~ShiftedIsSpecialReg(ShiftArgUID(a)) /\ ~ShiftedIsSpecialReg(ShiftArgUID(b)) => IsCopy(s)
         /\ ~UselessArithmetic(s)
         /\ a.temp \/ b.temp => IsMoveOf(s)
         /\ DefsOf(s) = Ordinary({ShiftArgUID(b)})
         /\ b # Reg(FRAME_POINTER) => EffectOf(s) = [kind |-> "none"]
<1>1. /\ s.kind = "instruction" /\ s.op = "MOV" /\ DOMAIN s.args = {1, 2}
      /\ s.args[1] = a /\ s.args[2] = b
  BY DEF Mov, Instr
<1>2. \A c : InRegister(c) =>
        c.type = "REG" /\ ~Steps(c) /\ ~IsIndexed(c) /\ ~IsMemory(c) /\ IsReg(c) /\ Names(c) /\ ~IsLabel(c)
  BY DEF InRegister, IsIndexed, IsMemory, IsReg, Names, IsLabel
<1>3. ArgsNaming(s) = {1, 2} /\ Target(s) = {2}
  BY <1>1, <1>2 DEF ArgsNaming, Target, Binary
<1> HIDE DEF IsCopy
<1>4. ReadsOf(s) = Ordinary({ShiftArgUID(a)})
  <2>1. {j \in ArgsNaming(s) : ~(/\ s.op \in Overwrites /\ j \in Target(s) /\ s.args[j].type = "REG")} = {1}
    BY <1>1, <1>2, <1>3 DEF Overwrites
  <2>2. UNION {AddressUIDs(s.args[k]) : k \in {1}} = {ShiftArgUID(a)}
    BY <1>1, <1>2 DEF AddressUIDs
  <2> QED BY <1>1, <2>1, <2>2 DEF ReadsOf
<1>5. WritesOf(s) = Ordinary({ShiftArgUID(b)})
  <2>1. {j \in Target(s) : s.args[j].type = "REG"} = {2} /\ {j \in ArgsNaming(s) : Steps(s.args[j])} = {}
    BY <1>1, <1>2, <1>3
  <2>2. {ShiftArgUID(s.args[k]) : k \in {2}} \cup {Stepped(s.args[k]) : k \in {}} = {ShiftArgUID(b)}
    BY <1>1
  <2>3. Stores(s) = {ShiftArgUID(b)}
    BY <1>1, <2>1, <2>2 DEF Stores
  <2> QED BY <2>3 DEF WritesOf
<1>6. ~ShiftedIsSpecialReg(ShiftArgUID(a)) /\ ~ShiftedIsSpecialReg(ShiftArgUID(b)) => IsCopy(s)
  BY <1>1, <1>2 DEF IsCopy, IsInstruction
<1>7. ~UselessArithmetic(s)
  BY <1>1 DEF UselessArithmetic
<1>8. a.temp \/ b.temp => IsMoveOf(s)
  BY <1>1, <1>2 DEF IsMoveOf, IsMov, MovIsMove, IsTemporary
<1>9. DefsOf(s) = Ordinary({ShiftArgUID(b)})
  <2>1. {j \in ArgsNaming(s) \cap {2} : ~IsMemory(s.args[j])} = {2}
    BY <1>1, <1>2, <1>3
  <2>2. \A k \in ArgsNaming(s) : StepDefs(s, k) = {}
    BY <1>1, <1>2, <1>3 DEF StepDefs
  <2>3. UNION {StepDefs(s, k) : k \in {j \in ArgsNaming(s) : j = 1 \/ IsMemory(s.args[j])}} = {}
    BY <2>2
  <2>4. {ShiftArgUID(s.args[k]) : k \in {2}} = {ShiftArgUID(b)}
    BY <1>1
  <2>5. MovDefs(s) = {ShiftArgUID(b)}
    BY <2>1, <2>3, <2>4 DEF MovDefs
  <2> QED BY <1>1, <2>5 DEF DefsOf, IsMov
<1>10. b # Reg(FRAME_POINTER) => EffectOf(s) = [kind |-> "none"]
  BY <1>1 DEF EffectOf, IsInstruction, IsMov
<1> QED BY <1>4, <1>5, <1>6, <1>7, <1>8, <1>9, <1>10

(* In the left run.                                                        *)
LEMMA ExecuteHolds ==
  ASSUME IInv, phase = "run", Execute(pc), NEW x \in Uid, NEW y \in Uid,
         \/ x = y /\ y \notin fn.writes[pc]
         \/ fn.copies[pc] /\ ~fn.idle[pc] /\ fn.reads[pc] = {x} /\ fn.writes[pc] = {y}
  PROVE  left'[y] = left[x]
<1>1. left \in [Uid -> Held]
  BY DEF IInv, TypeOK
<1>2. CASE fn.idle[pc]
  BY <1>2 DEF Execute
<1>3. CASE ~fn.idle[pc] /\ fn.copies[pc]
  <2>1. PICK v \in fn.reads[pc], w \in fn.writes[pc] : left' = [left EXCEPT ![w] = left[v]]
    BY <1>3 DEF Execute, Copy
  <2> QED BY <1>1, <2>1
<1>4. CASE ~fn.idle[pc] /\ ~fn.copies[pc]
  <2>1. PICK vals : left' = Written(pc, vals)
    BY <1>4 DEF Execute, Compute
  <2> QED BY <1>4, <2>1 DEF Written
<1> QED BY <1>2, <1>3, <1>4

(* From the left run to the right one.                                     *)
LEMMA ExecuteCarries ==
  ASSUME IInv, phase = "run", Execute(pc), NEW x \in Uid, NEW r \in Registers,
         \/ fn.writes[pc] \subseteq Registers \ {x, r} /\ right[r] = left[x]
         \/ fn.copies[pc] /\ ~fn.idle[pc] /\ fn.reads[pc] = {x} /\ fn.writes[pc] = {r}
  PROVE  right'[r] = left'[x]
<1>1. /\ left \in [Uid -> Held] /\ right \in [Registers -> Held]
      /\ \A u \in Registers : colour[u] = u
      /\ Registers \subseteq Uid
  BY DEF IInv, TypeOK, RunInv, Ran, Uid
<1>2. /\ \A u \in fn.reads[pc] : left[u] = right[colour[u]]
      /\ \A u \in fn.reads[pc] : colour[u] \in Registers
      /\ fn.copies[pc] => /\ \A v, w \in fn.reads[pc] : v = w
                          /\ \A v, w \in fn.writes[pc] : v = w
      /\ fn.compared[pc] # {} =>
           \/ fn.copies[pc] /\ fn.compared[pc] \subseteq fn.reads[pc] \X fn.writes[pc]
           \/ fn.writes[pc] = {}
  <2>1. PICK n : n = pc
    OBVIOUS
  <2> QED BY <2>1, AtStatement
<1>3. CASE fn.idle[pc]
  BY <1>3 DEF Execute
<1>4. CASE ~fn.idle[pc] /\ ~Removed(pc) /\ fn.copies[pc]
  <2>1. PICK v \in fn.reads[pc], w \in fn.writes[pc] :
          /\ left' = [left EXCEPT ![w] = left[v]]
          /\ right' = [right EXCEPT ![colour[w]] = right[colour[v]]]
    BY <1>4 DEF Execute, Copy
  <2>2. CASE fn.writes[pc] \subseteq Registers \ {x, r} /\ right[r] = left[x]
    <3>1. w \in Registers /\ w # x /\ w # r /\ colour[w] = w
      BY <1>1, <2>2
    <3>2. left'[x] = left[x]
      BY <1>1, <2>1, <3>1
    <3>3. right'[r] = right[r]
      BY <1>1, <2>1, <3>1
    <3> QED BY <2>2, <3>2, <3>3
  <2>3. CASE fn.reads[pc] = {x} /\ fn.writes[pc] = {r}
    <3>1. v = x /\ w = r /\ colour[w] = r /\ left[x] = right[colour[x]]
      BY <1>1, <1>2, <2>3
    <3>2. right'[r] = right[colour[x]]
      BY <1>1, <2>1, <3>1
    <3>3. left'[x] = left[x]
      BY <1>1, <2>1, <3>1
    <3> QED BY <3>1, <3>2, <3>3
  <2> QED BY <2>2, <2>3
<1>5. CASE ~fn.idle[pc] /\ ~Removed(pc) /\ ~fn.copies[pc]
  <2>1. PICK vals \in [fn.writes[pc] -> Value], last \in [Used(pc) -> fn.writes[pc]] :
          left' = Written(pc, vals) /\ right' = InRegisters(pc, vals, last)
    BY <1>5 DEF Execute, Compute
  <2>2. fn.writes[pc] \subseteq Registers \ {x, r} /\ right[r] = left[x]
    BY <1>5
  <2>3. left'[x] = left[x]
    BY <2>1, <2>2 DEF Written
  <2>4. r \notin Used(pc)
    BY <1>1, <2>2 DEF Used
  <2>5. right'[r] = right[r]
    BY <2>1, <2>4 DEF InRegisters
  <2> QED BY <2>2, <2>3, <2>5
<1>6. CASE ~fn.idle[pc] /\ Removed(pc) /\ fn.copies[pc]
  <2>1. PICK v \in fn.reads[pc], w \in fn.writes[pc] :
          left' = [left EXCEPT ![w] = left[v]] /\ right' = right
    BY <1>6 DEF Execute
  <2>2. CASE fn.writes[pc] \subseteq Registers \ {x, r} /\ right[r] = left[x]
    <3>1. w # x
      BY <2>2
    <3> QED BY <1>1, <2>1, <2>2, <3>1
  <2>3. CASE fn.reads[pc] = {x} /\ fn.writes[pc] = {r}
    <3>1. v = x /\ w = r /\ colour[r] = r /\ left[x] = right[colour[x]]
      BY <1>1, <1>2, <2>3
    <3>2. PICK p \in fn.compared[pc] : colour[p[1]] = colour[p[2]]
      BY <1>6 DEF Removed
    <3>3. p \in fn.reads[pc] \X fn.writes[pc]
      BY <1>2, <2>3, <3>2
    <3>4. colour[x] = r
      BY <2>3, <3>1, <3>2, <3>3
    <3>5. left'[x] = left[x]
      BY <1>1, <2>1, <3>1
    <3> QED BY <2>1, <3>1, <3>4, <3>5
  <2> QED BY <2>2, <2>3
<1>7. CASE ~fn.idle[pc] /\ Removed(pc) /\ ~fn.copies[pc]
  <2>1. PICK vals : left' = Written(pc, vals) /\ right' = right
    BY <1>7 DEF Execute
  <2>2. fn.writes[pc] \subseteq Registers \ {x, r} /\ right[r] = left[x]
    BY <1>7
  <2>3. left'[x] = left[x]
    BY <2>1, <2>2 DEF Written
  <2> QED BY <2>1, <2>2, <2>3
<1> QED BY <1>3, <1>4, <1>5, <1>6, <1>7

LEMMA OthersDo ==
  ASSUME NEW f
  PROVE  LET push  == Instr("PUSH", <<Const(0)>>)
             save  == Instr("PUSH", <<Reg(FRAME_POINTER)>>)
             load  == Instr("POP", <<Reg(FRAME_POINTER)>>)
             free  == Instr("ADD", <<Const(StackedDataSize(f)), Reg(STACK_POINTER)>>)
             setFP == Mov(Reg(STACK_POINTER), Reg(FRAME_POINTER))
         IN  /\ WritesOf(push) = {} /\ EffectOf(push) = [kind |-> "push"]
             /\ WritesOf(save) = {} /\ EffectOf(save) = [kind |-> "pushFP"]
             /\ WritesOf(load) = {} /\ EffectOf(load) = [kind |-> "popFP"]
             /\ WritesOf(free) = {}
             /\ EffectOf(free) = [kind |-> "release", words |-> StackedDataSize(f) \div 4]
             /\ WritesOf(setFP) = {} /\ EffectOf(setFP) = [kind |-> "setFP"]
<1> DEFINE push  == Instr("PUSH", <<Const(0)>>)
           save  == Instr("PUSH", <<Reg(FRAME_POINTER)>>)
           load  == Instr("POP", <<Reg(FRAME_POINTER)>>)
           free  == Instr("ADD", <<Const(StackedDataSize(f)), Reg(STACK_POINTER)>>)
           setFP == Mov(Reg(STACK_POINTER), Reg(FRAME_POINTER))
<1>1. /\ ShiftedIsSpecialReg(ShiftArgUID(Reg(FRAME_POINTER)))
      /\ ShiftedIsSpecialReg(ShiftArgUID(Reg(STACK_POINTER)))
  BY StatementsAssumption
     DEF ShiftedIsSpecialReg, ShiftArgUID, Shift, Reg, FRAME_POINTER, STACK_POINTER, FIRST_TEMPORARY
<1>2. /\ \A n : Reg(n).type = "REG" /\ ~Steps(Reg(n)) /\ ~IsIndexed(Reg(n)) /\ Names(Reg(n))
      /\ \A n : ~Names(Const(n)) /\ Const(n).type = "IMMED" /\ Const(n).num = n
      /\ \A n, k : Const(n) # Reg(k)
  BY DEF Reg, Const, Steps, Names, IsReg, IsTemporary, IsLabel, IsIndexed
<1>3. \A s : /\ s.kind = "instruction"
             /\ \A j \in Target(s) : s.args[j].type = "REG" => ShiftedIsSpecialReg(ShiftArgUID(s.args[j]))
             /\ \A j \in ArgsNaming(s) : ~Steps(s.args[j])
             => WritesOf(s) = {}
  BY DEF WritesOf, Stores, Ordinary
<1>4. WritesOf(push) = {} /\ EffectOf(push) = [kind |-> "push"]
  <2>1. push.kind = "instruction" /\ push.op = "PUSH" /\ DOMAIN push.args = {1} /\ push.args[1] = Const(0)
    BY DEF Instr
  <2>2. Target(push) = {} /\ ArgsNaming(push) = {}
    BY <1>2, <2>1 DEF Target, Binary, Unary, ArgsNaming
  <2> HIDE DEF push
  <2> QED BY <1>2, <1>3, <2>1, <2>2 DEF EffectOf, IsInstruction, IsMov
<1>5. WritesOf(save) = {} /\ EffectOf(save) = [kind |-> "pushFP"]
  <2>1. /\ save.kind = "instruction" /\ save.op = "PUSH" /\ DOMAIN save.args = {1}
        /\ save.args[1] = Reg(FRAME_POINTER)
    BY DEF Instr
  <2>2. Target(save) = {} /\ ArgsNaming(save) = {1}
    BY <1>2, <2>1 DEF Target, Binary, Unary, ArgsNaming
  <2> HIDE DEF save
  <2> QED BY <1>2, <1>3, <2>1, <2>2 DEF EffectOf, IsInstruction, IsMov
<1>6. WritesOf(load) = {} /\ EffectOf(load) = [kind |-> "popFP"]
  <2>1. /\ load.kind = "instruction" /\ load.op = "POP" /\ DOMAIN load.args = {1}
        /\ load.args[1] = Reg(FRAME_POINTER)
    BY DEF Instr
  <2>2. Target(load) = {1} /\ ArgsNaming(load) = {1}
    BY <1>2, <2>1 DEF Target, Binary, Unary, ArgsNaming
  <2> HIDE DEF load
  <2> QED BY <1>1, <1>2, <1>3, <2>1, <2>2 DEF EffectOf, IsInstruction, IsMov
<1>7. /\ WritesOf(free) = {}
      /\ EffectOf(free) = [kind |-> "release", words |-> StackedDataSize(f) \div 4]
  <2>1. /\ free.kind = "instruction" /\ free.op = "ADD" /\ DOMAIN free.args = {1, 2}
        /\ free.args[1] = Const(StackedDataSize(f)) /\ free.args[2] = Reg(STACK_POINTER)
    BY DEF Instr
  <2>2. Target(free) = {2} /\ ArgsNaming(free) = {2}
    BY <1>2, <2>1 DEF Target, Binary, ArgsNaming
  <2>3. free.args[1].num = StackedDataSize(f)
    BY <1>2, <2>1
  <2> HIDE DEF free
  <2> QED BY <1>1, <1>2, <1>3, <2>1, <2>2, <2>3 DEF EffectOf, IsInstruction, IsMov
<1>8. WritesOf(setFP) = {} /\ EffectOf(setFP) = [kind |-> "setFP"]
  <2>1. /\ setFP.kind = "instruction" /\ setFP.op = "MOV" /\ DOMAIN setFP.args = {1, 2}
        /\ setFP.args[1] = Reg(STACK_POINTER) /\ setFP.args[2] = Reg(FRAME_POINTER)
    BY DEF Mov, Instr
  <2>2. Target(setFP) = {2} /\ ArgsNaming(setFP) = {1, 2}
    BY <1>2, <2>1 DEF Target, Binary, ArgsNaming
  <2> HIDE DEF setFP
  <2> QED BY <1>1, <1>2, <1>3, <2>1, <2>2 DEF EffectOf, IsInstruction, IsMov
<1> QED BY <1>4, <1>5, <1>6, <1>7, <1>8

(* A return: registers are restored, the result moved, the frame released. *)
EpilogueIs(f, omitFP, s, r, t, w) ==
  LET e == Before(f, omitFP, s)
  IN  /\ r \in Nat /\ r = Len(Restores(f)) /\ t \in {0, 1} /\ w \in {0, 1}
      /\ Len(s.args) = 1 <=> t = 1
      /\ omitFP \/ f.main <=> w = 0
      /\ Len(e) = ((r + t) + 1) + w
      /\ \A i \in 1..r : e[i] = Restores(f)[i]
      /\ t = 1 => e[r + 1] = Mov(s.args[1], Reg(REG_DATA_0))
      /\ e[(r + t) + 1] = Instr("ADD", <<Const(StackedDataSize(f)), Reg(STACK_POINTER)>>)
      /\ w = 1 => e[((r + t) + 1) + 1] = Instr("POP", <<Reg(FRAME_POINTER)>>)

LEMMA EpilogueAt ==
  ASSUME NEW f, FunctionUnderstood(f), NEW omitFP, NEW s \in Range(f.stmts), s.kind = "return"
  PROVE  \E r, t, w : EpilogueIs(f, omitFP, s, r, t, w)
<1> DEFINE S == Added(f)
           e == Before(f, omitFP, s)
           r == Len(Restores(f))
           t == IF Len(s.args) = 1 THEN 1 ELSE 0
           w == IF omitFP \/ f.main THEN 0 ELSE 1
           p4 == IF omitFP THEN <<>> ELSE PopFP(f)
           a2 == Restores(f) \o Returned(s)
           a3 == a2 \o Deallocation(f)
<1>1. /\ Restores(f) \in Seq(S) /\ Returned(s) \in Seq(S) /\ Deallocation(f) \in Seq(S)
      /\ PopFP(f) \in Seq(S)
  BY PiecesAreSeqs
<1>2. p4 \in Seq(S) /\ Len(p4) = w /\ (w = 1 => p4[1] = Instr("POP", <<Reg(FRAME_POINTER)>>))
  BY <1>1 DEF PopFP
<1>3. Len(Returned(s)) = t /\ (t = 1 => Returned(s)[1] = Mov(s.args[1], Reg(REG_DATA_0)))
  BY DEF Returned
<1>4. /\ Len(Deallocation(f)) = 1
      /\ Deallocation(f)[1] = Instr("ADD", <<Const(StackedDataSize(f)), Reg(STACK_POINTER)>>)
  BY DEF Deallocation
<1>5. e = a3 \o p4
  BY DEF Before, Epilogue
<1>6. t \in {0, 1} /\ w \in {0, 1}
  OBVIOUS
<1> HIDE DEF S, e, t, w, p4, a2, a3
<1>7. /\ a2 \in Seq(S) /\ r \in Nat /\ Len(a2) = r + t
      /\ \A n \in 1..r : a2[n] = Restores(f)[n]
      /\ \A n \in 1..t : a2[r + n] = Returned(s)[n]
  BY <1>1, <1>3, ConcatAt DEF a2
<1>8. /\ a3 \in Seq(S) /\ Len(a3) = (r + t) + 1
      /\ \A n \in 1..(r + t) : a3[n] = a2[n]
      /\ a3[(r + t) + 1] = Deallocation(f)[1]
  <2>1. /\ a3 \in Seq(S) /\ Len(a3) = Len(a2) + Len(Deallocation(f))
        /\ \A n \in 1..Len(a2) : a3[n] = a2[n]
        /\ \A n \in 1..Len(Deallocation(f)) : a3[Len(a2) + n] = Deallocation(f)[n]
    <3>1. a3 = a2 \o Deallocation(f)
      BY DEF a3
    <3>2. PICK d \in Seq(S) : d = Deallocation(f)
      BY <1>1
    <3>3. /\ a2 \o d \in Seq(S) /\ Len(a2 \o d) = Len(a2) + Len(d)
          /\ \A n \in 1..Len(a2) : (a2 \o d)[n] = a2[n]
          /\ \A n \in 1..Len(d) : (a2 \o d)[Len(a2) + n] = d[n]
      <4>1. a2 \in Seq(S)
        BY <1>7
      <4> QED BY <4>1, ConcatAt
    <3> QED BY <3>1, <3>2, <3>3, Zenon
  <2> QED BY <1>4, <1>7, <2>1
<1>9. /\ Len(e) = ((r + t) + 1) + w
      /\ \A n \in 1..((r + t) + 1) : e[n] = a3[n]
      /\ \A n \in 1..w : e[((r + t) + 1) + n] = p4[n]
  <2>1. /\ Len(e) = Len(a3) + Len(p4)
        /\ \A n \in 1..Len(a3) : e[n] = a3[n]
        /\ \A n \in 1..Len(p4) : e[Len(a3) + n] = p4[n]
    <3>1. a3 \in Seq(S) /\ p4 \in Seq(S) /\ e = a3 \o p4
      BY <1>2, <1>5, <1>8
    <3>2. /\ Len(a3 \o p4) = Len(a3) + Len(p4)
          /\ \A n \in 1..Len(a3) : (a3 \o p4)[n] = a3[n]
          /\ \A n \in 1..Len(p4) : (a3 \o p4)[Len(a3) + n] = p4[n]
      BY <3>1, ConcatAt
    <3> QED BY <3>1, <3>2, Zenon
  <2> QED BY <1>2, <1>8, <2>1
<1>10. \A i \in 1..r : e[i] = Restores(f)[i]
  BY <1>6, <1>7, <1>8, <1>9
<1>11. t = 1 => e[r + 1] = Mov(s.args[1], Reg(REG_DATA_0))
  BY <1>3, <1>6, <1>7, <1>8, <1>9
<1>12. e[(r + t) + 1] = Instr("ADD", <<Const(StackedDataSize(f)), Reg(STACK_POINTER)>>)
  BY <1>4, <1>6, <1>7, <1>8, <1>9
<1>13. w = 1 => e[((r + t) + 1) + 1] = Instr("POP", <<Reg(FRAME_POINTER)>>)
  <2>1. \A n \in 1..w : e[((r + t) + 1) + n] = p4[n]
    BY <1>9
  <2>2. w = 1 => 1 \in 1..w
    OBVIOUS
  <2>3. w = 1 => e[((r + t) + 1) + 1] = p4[1]
    BY <2>1, <2>2, Zenon
  <2> QED BY <1>2, <2>3
<1>14. /\ Len(s.args) = 1 <=> t = 1
       /\ omitFP \/ f.main <=> w = 0
  BY DEF t, w
<1>15. EpilogueIs(f, omitFP, s, r, t, w)
  BY <1>6, <1>7, <1>9, <1>10, <1>11, <1>12, <1>13, <1>14 DEF e, EpilogueIs
<1> QED BY <1>15, Zenon

-----------------------------------------------------------------------------
(* The function under way is one that Frame completed.                     *)
IsOf(f, omitFP, o) ==
  FunctionUnderstood(f) /\ Layout(f, omitFP, o) /\ fn = Build(f, omitFP)

LEMMA BuildHas ==
  ASSUME FlowTypeOK, NEW f, FunctionUnderstood(f), NEW omitFP, fn = Build(f, omitFP)
  PROVE  LET q == Framed(f, omitFP)
         IN  /\ Nodes = DOMAIN q /\ 1 \in DOMAIN q /\ fn.main = f.main
             /\ \A n \in DOMAIN q :
                  /\ fn.succs[n] = SuccsOf(q, n)
                  /\ fn.uses[n] = UsesOf(q[n]) /\ fn.defs[n] = DefsOf(q[n])
                  /\ fn.isMove[n] = IsMoveOf(q[n])
                  /\ fn.reads[n] = ReadsOf(q[n]) /\ fn.writes[n] = WritesOf(q[n])
                  /\ fn.copies[n] = IsCopy(q[n]) /\ fn.idle[n] = UselessArithmetic(q[n])
                  /\ fn.effect[n] = EffectOf(q[n])
                  /\ fn.carries[n] = OfAllocated(CarriesOf(q[n]))
                  /\ ReadsOf(q[n]) \subseteq Uid /\ WritesOf(q[n]) \subseteq Uid
<1> DEFINE q == Framed(f, omitFP)
<1>1. q \in Seq(Stmts(f))
  BY FramedIsSeq
<1>2. fn = GraphOf(q, f.main)
  BY DEF Build
<1> HIDE DEF q
<1>3. /\ NodesOf(fn) = DOMAIN q
      /\ \A n \in DOMAIN q :
           /\ fn.succs[n] = SuccsOf(q, n)
           /\ fn.uses[n] = UsesOf(q[n]) /\ fn.defs[n] = DefsOf(q[n])
           /\ fn.isMove[n] = IsMoveOf(q[n])
           /\ fn.reads[n] = ReadsOf(q[n]) /\ fn.writes[n] = WritesOf(q[n])
           /\ fn.copies[n] = IsCopy(q[n]) /\ fn.idle[n] = UselessArithmetic(q[n])
           /\ fn.effect[n] = EffectOf(q[n])
           /\ fn.carries[n] = OfAllocated(CarriesOf(q[n]))
  BY <1>1, <1>2, GraphHas
<1>4. fn.main = f.main
  BY <1>2 DEF GraphOf
<1>5. /\ fn.size \in Nat \ {0} /\ fn.reads \in [NodesOf(fn) -> SUBSET Uid]
      /\ fn.writes \in [NodesOf(fn) -> SUBSET Uid]
  BY FlowAssumption, CompiledAssumption DEF FlowTypeOK, fn
<1>6. 1 \in NodesOf(fn)
  BY <1>5 DEF NodesOf
<1>7. \A n \in DOMAIN q : ReadsOf(q[n]) \subseteq Uid /\ WritesOf(q[n]) \subseteq Uid
  <2>1. \A n \in NodesOf(fn) : fn.reads[n] \subseteq Uid /\ fn.writes[n] \subseteq Uid
    BY <1>5
  <2> QED BY <1>3, <2>1
<1> QED BY <1>3, <1>4, <1>6, <1>7, Zenon DEF Nodes, q

(* What has been moved to where it is to arrive is still there.            *)
Arrived(x, r) ==
  Ordinary({x, r}) = {x, r} => x \in Uid /\ r \in Registers /\ right[r] = left[x]

ArrivedIn(f, omitFP, j, i) ==
  LET s == f.stmts[j]
  IN  /\ s.kind = "call" =>
           \A k \in 1..(i - 1) : Arrived(ShiftArgUID(s.args[k + 1]), ShiftArgUID(s.params[k].source))
      /\ s.kind = "return" /\ Len(s.args) = 1 /\ i > Len(Restores(f)) + 1 =>
           Arrived(ShiftArgUID(s.args[1]), Shift(REG_DATA_0, FALSE))

ArrivedAt(f, omitFP, o, n) ==
  InPrologue(f, omitFP, n) \/ \E j, i : InPiece(f, omitFP, o, n, j, i) /\ ArrivedIn(f, omitFP, j, i)

ArrivesInv ==
  phase = "run" =>
    \E f, omitFP, o : IsOf(f, omitFP, o) /\ PassedApart(f) /\ ArrivedAt(f, omitFP, o, pc)

LEMMA DataRegistersAre ==
  \A n \in 0 .. NUM_REGS - 1 : Shift(n, FALSE) \in Registers /\ ~ShiftedIsSpecialReg(Shift(n, FALSE))
BY LoweringAssumption, StatementsAssumption DEF Shift, ShiftedIsSpecialReg, STACK_POINTER

(* One step of a move, or of what writes neither.                          *)
LEMMA MoveArrives ==
  ASSUME IInv, phase = "run", Execute(pc), NEW f, NEW omitFP, NEW o, IsOf(f, omitFP, o),
         NEW a, InRegister(a), NEW b, InDataRegister(b),
         pc \in DOMAIN Framed(f, omitFP), Framed(f, omitFP)[pc] = Mov(a, b)
  PROVE  /\ Arrived(ShiftArgUID(a), ShiftArgUID(b))'
         /\ \A x, r : Arrived(x, r) /\ ShiftArgUID(b) \notin {x, r} => Arrived(x, r)'
<1> DEFINE x1 == ShiftArgUID(a)
           r1 == ShiftArgUID(b)
<1>1. FlowTypeOK /\ FunctionUnderstood(f) /\ fn = Build(f, omitFP)
  BY DEF IInv, TypeOK, IsOf
<1>2. /\ fn.reads[pc] = ReadsOf(Mov(a, b)) /\ fn.writes[pc] = WritesOf(Mov(a, b))
      /\ fn.copies[pc] = IsCopy(Mov(a, b)) /\ fn.idle[pc] = UselessArithmetic(Mov(a, b))
      /\ ReadsOf(Mov(a, b)) \subseteq Uid
  BY <1>1, BuildHas
<1>3. r1 \in Registers /\ ~ShiftedIsSpecialReg(r1)
  BY DataRegistersAre DEF InDataRegister, ShiftArgUID, Shift
<1>4. InRegister(b)
  BY DEF InDataRegister
<1>5. /\ fn.reads[pc] = Ordinary({x1}) /\ fn.writes[pc] = Ordinary({r1}) /\ ~fn.idle[pc]
      /\ ~ShiftedIsSpecialReg(x1) => fn.copies[pc]
  <2>1. PICK s : s = Mov(a, b)
    OBVIOUS
  <2>2. /\ ReadsOf(s) = Ordinary({x1}) /\ WritesOf(s) = Ordinary({r1}) /\ ~UselessArithmetic(s)
        /\ ~ShiftedIsSpecialReg(x1) /\ ~ShiftedIsSpecialReg(r1) => IsCopy(s)
    BY <1>4, <2>1, MoveDoes
  <2> QED BY <1>2, <1>3, <2>1, <2>2, Zenon
<1>6. fn.writes[pc] = {r1}
  BY <1>3, <1>5 DEF Ordinary
<1> HIDE DEF x1, r1
<1>7. Arrived(x1, r1)'
  <2>1. SUFFICES ASSUME Ordinary({x1, r1}) = {x1, r1}
                 PROVE  x1 \in Uid /\ r1 \in Registers /\ right'[r1] = left'[x1]
    BY DEF Arrived
  <2>2. ~ShiftedIsSpecialReg(x1)
    BY <2>1 DEF Ordinary
  <2>3. fn.reads[pc] = {x1} /\ x1 \in Uid
    BY <1>2, <1>5, <2>2 DEF Ordinary
  <2> QED BY <1>3, <1>5, <1>6, <2>2, <2>3, ExecuteCarries
<1>8. ASSUME NEW x, NEW r, Arrived(x, r), r1 \notin {x, r}
      PROVE  Arrived(x, r)'
  <2>1. SUFFICES ASSUME Ordinary({x, r}) = {x, r}
                 PROVE  x \in Uid /\ r \in Registers /\ right'[r] = left'[x]
    BY DEF Arrived
  <2>2. x \in Uid /\ r \in Registers /\ right[r] = left[x]
    BY <1>8, <2>1 DEF Arrived
  <2>3. fn.writes[pc] \subseteq Registers \ {x, r}
    BY <1>3, <1>6, <1>8
  <2> QED BY <2>2, <2>3, ExecuteCarries
<1> QED BY <1>7, <1>8 DEF x1, r1

LEMMA StaysArrived ==
  ASSUME IInv, phase = "run", Execute(pc), fn.writes[pc] = {}, NEW x, NEW r, Arrived(x, r)
  PROVE  Arrived(x, r)'
<1>1. SUFFICES ASSUME Ordinary({x, r}) = {x, r}
               PROVE  x \in Uid /\ r \in Registers /\ right'[r] = left'[x]
  BY DEF Arrived
<1>2. x \in Uid /\ r \in Registers /\ right[r] = left[x]
  BY <1>1 DEF Arrived
<1> QED BY <1>2, ExecuteCarries

LEMMA ArrivesInside ==
  ASSUME IInv, phase = "run", Execute(pc), NEW f, NEW omitFP, NEW o, IsOf(f, omitFP, o),
         PassedApart(f), NEW j, NEW i, InPiece(f, omitFP, o, pc, j, i),
         i <= Len(Before(f, omitFP, f.stmts[j])), ArrivedIn(f, omitFP, j, i)
  PROVE  ArrivedIn(f, omitFP, j, i + 1)'
<1> DEFINE s == f.stmts[j]
           e == Before(f, omitFP, s)
<1>1. FlowTypeOK /\ FunctionUnderstood(f) /\ fn = Build(f, omitFP) /\ Layout(f, omitFP, o)
  BY DEF IInv, TypeOK, IsOf
<1>2. j \in 1..Len(f.stmts) /\ i \in 1..(Len(e) + 1) /\ s \in Range(f.stmts)
  BY <1>1, LenProperties DEF InPiece, FunctionUnderstood, Range
<1>3. Len(e) \in Nat /\ i \in 1..Len(e)
  BY <1>1, <1>2, FramedIsSeq, LenProperties
<1>4. /\ pc \in DOMAIN Framed(f, omitFP)
      /\ Framed(f, omitFP)[pc] = e[i]
  BY <1>1 DEF Layout, PieceAt
<1>5. Understood(s)
  BY <1>1, <1>2 DEF FunctionUnderstood
<1>6. ASSUME s.kind = "call", NEW k \in 1..i
      PROVE  Arrived(ShiftArgUID(s.args[k + 1]), ShiftArgUID(s.params[k].source))'
  <2> DEFINE a(h) == s.args[h + 1]
             b(h) == s.params[h].source
  <2>1. /\ s.params \in Seq(Range(s.params)) /\ Len(s.args) = 1 + Len(s.params)
        /\ \A p \in Range(s.params) : InDataRegister(p.source)
        /\ s.args \in Seq(Range(s.args))
        /\ \A h \in ArgsNaming(s) : InRegister(s.args[h])
        /\ \A h \in DOMAIN s.args \ ArgsNaming(s) : s.kind = "call" /\ h = 1
    BY <1>5, <1>6 DEF Understood
  <2>2. /\ Len(s.params) \in Nat /\ DOMAIN s.params = 1..Len(s.params)
        /\ DOMAIN s.args = 1..Len(s.args)
        /\ e = Passed(s) /\ Len(e) = Len(s.params)
    <3>1. e = Passed(s)
      BY <1>6 DEF Before
    <3> QED BY <1>1, <1>2, <1>6, <2>1, <3>1, PiecesAreSeqs, LenProperties
  <2>3. e[i] = Mov(a(i), b(i))
    BY <1>3, <2>1, <2>2 DEF Passed
  <2>4. \A h \in 1..Len(s.params) : InDataRegister(b(h))
    BY <2>1, <2>2 DEF Range
  <2>5. \A h \in 1..Len(s.params) : h + 1 \in DOMAIN s.args /\ h + 1 # 1
    BY <2>1, <2>2
  <2>6. \A h \in 1..Len(s.params) : InRegister(a(h))
    BY <2>1, <2>5
  <2>7. i \in 1..Len(s.params) /\ k \in 1..Len(s.params)
    BY <1>3, <2>2
  <2> HIDE DEF a, b, e
  <2>8. /\ Arrived(ShiftArgUID(a(i)), ShiftArgUID(b(i)))'
        /\ \A x, r : Arrived(x, r) /\ ShiftArgUID(b(i)) \notin {x, r} => Arrived(x, r)'
    <3>1. InRegister(a(i)) /\ InDataRegister(b(i)) /\ Framed(f, omitFP)[pc] = Mov(a(i), b(i))
      BY <1>4, <2>3, <2>4, <2>6, <2>7
    <3> QED BY <1>4, <3>1, MoveArrives
  <2>9. CASE k = i
    BY <2>8, <2>9 DEF a, b
  <2>10. CASE k # i
    <3>1. k \in 1..(i - 1)
      BY <1>3, <2>10
    <3>2. Arrived(ShiftArgUID(a(k)), ShiftArgUID(b(k)))
      BY <1>6, <3>1 DEF ArrivedIn, a, b
    <3>3. ShiftArgUID(b(i)) \notin {ShiftArgUID(b(k)), ShiftArgUID(a(k))}
      BY <1>2, <1>6, <2>2, <2>7, <2>10 DEF PassedApart, a, b
    <3>4. Arrived(ShiftArgUID(a(k)), ShiftArgUID(b(k)))'
      BY <2>8, <3>2, <3>3
    <3> QED BY <3>4 DEF a, b
  <2> QED BY <2>9, <2>10
<1>7. ASSUME s.kind = "return", Len(s.args) = 1, i + 1 > Len(Restores(f)) + 1
      PROVE  Arrived(ShiftArgUID(s.args[1]), Shift(REG_DATA_0, FALSE))'
  <2>0. PICK r, t, w : EpilogueIs(f, omitFP, s, r, t, w)
    BY <1>1, <1>2, <1>7, EpilogueAt
  <2>1. /\ r \in Nat /\ Len(e) = ((r + 1) + 1) + w /\ r = Len(Restores(f))
        /\ e[r + 1] = Mov(s.args[1], Reg(REG_DATA_0))
        /\ e[(r + 1) + 1] = Instr("ADD", <<Const(StackedDataSize(f)), Reg(STACK_POINTER)>>)
        /\ w = 1 => e[((r + 1) + 1) + 1] = Instr("POP", <<Reg(FRAME_POINTER)>>)
        /\ w \in {0, 1}
    BY <1>7, <2>0 DEF EpilogueIs
  <2>3. /\ s.args \in Seq(Range(s.args))
        /\ \A h \in ArgsNaming(s) : InRegister(s.args[h])
        /\ \A h \in DOMAIN s.args \ ArgsNaming(s) : s.kind = "call" /\ h = 1
    BY <1>5, <1>7 DEF Understood
  <2>4. InRegister(s.args[1])
    BY <1>7, <2>3, LenProperties
  <2>5. InDataRegister(Reg(REG_DATA_0)) /\ ShiftArgUID(Reg(REG_DATA_0)) = Shift(REG_DATA_0, FALSE)
    <3>1. 0 \in 0 .. NUM_REGS - 1
      BY StatementsAssumption
    <3> QED BY <3>1, RegsAreRegisters DEF InDataRegister, ShiftArgUID, Reg, REG_DATA_0
  <2> HIDE DEF e, s
  <2>6. CASE i = r + 1
    <3>1. Framed(f, omitFP)[pc] = Mov(s.args[1], Reg(REG_DATA_0))
      BY <1>4, <2>1, <2>6
    <3>2. Arrived(ShiftArgUID(s.args[1]), ShiftArgUID(Reg(REG_DATA_0)))'
      BY <1>4, <2>4, <2>5, <3>1, MoveArrives
    <3> QED BY <2>5, <3>2
  <2>7. CASE i # r + 1
    <3>1. i = (r + 1) + 1 \/ (w = 1 /\ i = ((r + 1) + 1) + 1)
      BY <1>3, <1>7, <2>1, <2>7
    <3>2. WritesOf(e[i]) = {}
      BY <2>1, <3>1, OthersDo
    <3>3. fn.writes[pc] = {}
      BY <1>1, <1>4, <3>2, BuildHas
    <3>4. i > r + 1
      BY <1>3, <2>1, <3>1
    <3>5. Arrived(ShiftArgUID(s.args[1]), Shift(REG_DATA_0, FALSE))
      BY <1>7, <2>1, <3>4 DEF ArrivedIn, s
    <3> QED BY <3>3, <3>5, StaysArrived
  <2> QED BY <2>6, <2>7
<1>8. (i + 1) - 1 = i
  BY <1>3
<1> QED BY <1>6, <1>7, <1>8 DEF ArrivedIn

(* Functions whose calls have their arguments apart.                       *)
AllPassedApart ==
  \A k \in DOMAIN Table :
    \E f, omitFP : FunctionUnderstood(f) /\ PassedApart(f) /\ Table[k] = Build(f, omitFP)

LEMMA NothingMovedYet ==
  ASSUME NEW f, FunctionUnderstood(f), NEW omitFP, NEW k
  PROVE  ArrivedIn(f, omitFP, k, 1)'
<1>1. 1..(1 - 1) = {}
  OBVIOUS
<1>2. ~(1 > Len(Restores(f)) + 1)
  <2>1. Len(Restores(f)) \in Nat
    BY PiecesAreSeqs, LenProperties
  <2> QED BY <2>1
<1> HIDE DEF Arrived
<1> QED BY <1>1, <1>2, Zenon DEF ArrivedIn

LEMMA ArrivesStep ==
  ASSUME IInv, IInv', ArrivesInv, AllPassedApart, [Next]_vars
  PROVE  ArrivesInv'
<1>0. fn' = fn
  BY FnFixed
<1> SUFFICES ASSUME phase' = "run" PROVE ArrivesInv'
  BY DEF ArrivesInv
<1>1. \A f, omitFP, o : IsOf(f, omitFP, o) => IsOf(f, omitFP, o)'
  BY <1>0 DEF IsOf
<1>2. CASE Step
  <2>1. phase = "run" /\ Execute(pc) /\ pc' \in fn.succs[pc]
    BY <1>2 DEF Step
  <2>2. PICK f, omitFP, o : IsOf(f, omitFP, o) /\ PassedApart(f) /\ ArrivedAt(f, omitFP, o, pc)
    BY <2>1 DEF ArrivesInv
  <2>3. /\ FunctionUnderstood(f) /\ Layout(f, omitFP, o) /\ fn = Build(f, omitFP)
        /\ FlowTypeOK /\ pc \in Nodes
    BY <2>2 DEF IsOf, IInv, TypeOK
  <2>4. pc \in DOMAIN Framed(f, omitFP) /\ pc' \in SuccsOf(Framed(f, omitFP), pc)
    BY <2>1, <2>3, BuildHas
  <2>5. ASSUME NEW k, InPiece(f, omitFP, o, pc', k, 1)
        PROVE  ArrivedAt(f, omitFP, o, pc)'
    BY <2>3, <2>5, NothingMovedYet DEF ArrivedAt
  <2>6. CASE InPrologue(f, omitFP, pc)
    <3>1. InPrologue(f, omitFP, pc') \/ InPiece(f, omitFP, o, pc', 1, 1)
      BY <2>3, <2>4, <2>6, Leads
    <3>2. ArrivedAt(f, omitFP, o, pc)'
      BY <2>5, <3>1 DEF ArrivedAt
    <3> QED BY <1>1, <2>2, <3>2 DEF ArrivesInv
  <2>7. CASE ~InPrologue(f, omitFP, pc)
    <3>1. PICK j, i : InPiece(f, omitFP, o, pc, j, i) /\ ArrivedIn(f, omitFP, j, i)
      BY <2>2, <2>7 DEF ArrivedAt
    <3>2. CASE i <= Len(Before(f, omitFP, f.stmts[j]))
      <4>1. InPiece(f, omitFP, o, pc', j, i + 1)
        BY <2>3, <2>4, <3>1, <3>2, Leads
      <4>2. ArrivedIn(f, omitFP, j, i + 1)'
        BY <2>1, <2>2, <3>1, <3>2, ArrivesInside
      <4>3. ArrivedAt(f, omitFP, o, pc)'
        BY <4>1, <4>2 DEF ArrivedAt
      <4> QED BY <1>1, <2>2, <4>3 DEF ArrivesInv
    <3>3. CASE ~(i <= Len(Before(f, omitFP, f.stmts[j])))
      <4>1. \E k : InPiece(f, omitFP, o, pc', k, 1)
        BY <2>3, <2>4, <3>1, <3>3, Leads
      <4>2. ArrivedAt(f, omitFP, o, pc)'
        BY <2>5, <4>1
      <4> QED BY <1>1, <2>2, <4>2 DEF ArrivesInv
    <3> QED BY <3>2, <3>3
  <2> QED BY <2>6, <2>7
<1>3. CASE Allocate
  <2>1. pc' = 1
    <3>1. phase = "built" /\ pc' = pc
      BY <1>3 DEF Allocate
    <3> QED BY <3>1 DEF IInv, RunInv, Ran
  <2>2. FlowTypeOK /\ name \in DOMAIN Table
    BY DEF IInv, TypeOK, FlowTypeOK
  <2>3. PICK f, omitFP : FunctionUnderstood(f) /\ PassedApart(f) /\ fn = Build(f, omitFP)
    BY <2>2 DEF AllPassedApart, fn
  <2>4. PICK o : Layout(f, omitFP, o)
    BY <2>3, LaidOut
  <2>5. 0 + 1 \in DOMAIN Framed(f, omitFP)
    BY <2>2, <2>3, BuildHas
  <2>6. 0 \in 0..Len(Prologue(f, omitFP))
    BY <2>3, FramedIsSeq, LenProperties
  <2>7. InPrologue(f, omitFP, 0 + 1) \/ InPiece(f, omitFP, o, 0 + 1, 1, 1)
    BY <2>4, <2>5, <2>6 DEF Layout
  <2>9. ArrivedIn(f, omitFP, 1, 1)'
    BY <2>3, NothingMovedYet
  <2>10. ArrivedAt(f, omitFP, o, pc)'
    BY <2>1, <2>7, <2>9 DEF ArrivedAt
  <2>11. IsOf(f, omitFP, o)'
    BY <1>0, <2>3, <2>4 DEF IsOf
  <2> QED BY <2>3, <2>10, <2>11 DEF ArrivesInv
<1>4. CASE Analyse
  BY <1>4 DEF Analyse, FlowNext, Descend, Ascend, EndVisit, Sweep, SweepAgain,
     EndSweeps, CheckTemps, Interfere, InterfereThrows, EndInterfere, Move,
     MoveOfNothing, EndMoves
<1>5. CASE Stop
  BY <1>5 DEF Stop
<1>6. CASE UNCHANGED vars
  <2>1. UNCHANGED <<name, phase, pc, left, right>>
    BY <1>6 DEF vars, fvars, run
  <2>2. \A x, r : Arrived(x, r) => Arrived(x, r)'
    BY <2>1 DEF Arrived
  <2>3. \A f, omitFP, j, i : ArrivedIn(f, omitFP, j, i) => ArrivedIn(f, omitFP, j, i)'
    <3> SUFFICES ASSUME NEW f, NEW omitFP, NEW j, NEW i, ArrivedIn(f, omitFP, j, i)
                 PROVE  ArrivedIn(f, omitFP, j, i)'
      OBVIOUS
    <3>1. f.stmts[j].kind = "call" =>
            \A k \in 1..(i - 1) :
              Arrived(ShiftArgUID(f.stmts[j].args[k + 1]), ShiftArgUID(f.stmts[j].params[k].source))'
      BY <2>2, Zenon DEF ArrivedIn
    <3>2. f.stmts[j].kind = "return" /\ Len(f.stmts[j].args) = 1 /\ i > Len(Restores(f)) + 1 =>
            Arrived(ShiftArgUID(f.stmts[j].args[1]), Shift(REG_DATA_0, FALSE))'
      BY <2>2, Zenon DEF ArrivedIn
    <3> QED BY <3>1, <3>2, Zenon DEF ArrivedIn
  <2>4. \A f, omitFP, o : ArrivedAt(f, omitFP, o, pc) => ArrivedAt(f, omitFP, o, pc)'
    BY <2>1, <2>3 DEF ArrivedAt
  <2> QED BY <1>1, <2>1, <2>4 DEF ArrivesInv
<1> QED
  BY <1>2, <1>3, <1>4, <1>5, <1>6 DEF Next

(* At a call the arguments are in the registers the callee takes them      *)
(* from, at a return the result is in the first: where no argument is      *)
(* passed in the register another argument is still in, the moves that     *)
(* Frame inserts survive liveness analysis, allocation and optimizer       *)
(* (mindParamsFCalls, mindReturnStmts).                                    *)
THEOREM ArgumentsArrive == Spec /\ AllPassedApart => []ValuesArrive
<1>1. AllPassedApart => AllUnderstood
  BY DEF AllPassedApart, AllUnderstood
<1>2. Init => ArrivesInv
  BY DEF Init, FlowInit, ArrivesInv
<1>3. IInv /\ ArrivesInv => ValuesArrive
  <2> SUFFICES ASSUME IInv, ArrivesInv, phase = "run", NEW p \in fn.carries[pc]
               PROVE  right[p[2]] = left[p[1]]
    BY DEF ValuesArrive
  <2>1. PICK f, omitFP, o : IsOf(f, omitFP, o) /\ ArrivedAt(f, omitFP, o, pc)
    BY DEF ArrivesInv
  <2>2. /\ FunctionUnderstood(f) /\ Layout(f, omitFP, o) /\ fn = Build(f, omitFP)
        /\ FlowTypeOK /\ pc \in Nodes
    BY <2>1 DEF IsOf, IInv, TypeOK
  <2> DEFINE q == Framed(f, omitFP)
  <2>3. pc \in DOMAIN q /\ p \in OfAllocated(CarriesOf(q[pc]))
    BY <2>2, BuildHas
  <2>4. q[pc] \notin Added(f)
    <3>1. \A s : s.kind = "instruction" => CarriesOf(s) = {}
      BY DEF CarriesOf
    <3> QED BY <2>3, <3>1, AddedGoesOn DEF OfAllocated
  <2>5. PICK j, i : InPiece(f, omitFP, o, pc, j, i) /\ ArrivedIn(f, omitFP, j, i)
    <3>1. SUFFICES ASSUME InPrologue(f, omitFP, pc) PROVE FALSE
      BY <2>1 DEF ArrivedAt
    <3>2. q[pc] = Prologue(f, omitFP)[pc] /\ pc \in 1..Len(Prologue(f, omitFP))
      BY <2>2, <3>1 DEF Layout, InPrologue
    <3> QED BY <2>2, <2>4, <3>2, FramedIsSeq, ElementOfSeq
  <2> DEFINE s == f.stmts[j]
             e == Before(f, omitFP, s)
  <2>6. j \in 1..Len(f.stmts) /\ i \in 1..(Len(e) + 1) /\ s \in Range(f.stmts)
    BY <2>2, <2>5, LenProperties DEF InPiece, FunctionUnderstood, Range
  <2>7. e \in Seq(Added(f)) /\ Len(e) \in Nat
    BY <2>2, <2>6, FramedIsSeq, LenProperties
  <2>8. q[pc] = PieceAt(f, omitFP, j, i)
    BY <2>2, <2>5 DEF Layout
  <2>9. ~(i <= Len(e))
    <3>1. SUFFICES ASSUME i <= Len(e) PROVE FALSE
      OBVIOUS
    <3>2. q[pc] = e[i] /\ i \in 1..Len(e)
      BY <2>6, <2>7, <2>8, <3>1 DEF PieceAt
    <3> QED BY <2>4, <2>7, <3>2, ElementOfSeq
  <2>10. q[pc] = s /\ i = Len(e) + 1
    BY <2>6, <2>7, <2>8, <2>9 DEF PieceAt
  <2>11. p \in CarriesOf(s) /\ Ordinary({p[1], p[2]}) = {p[1], p[2]}
    BY <2>3, <2>10 DEF OfAllocated
  <2>12. CASE s.kind = "return"
    <3>1. Len(s.args) = 1 /\ p = <<ShiftArgUID(s.args[1]), Shift(REG_DATA_0, FALSE)>>
      BY <2>11, <2>12 DEF CarriesOf
    <3>2. PICK r, t, w : EpilogueIs(f, omitFP, s, r, t, w)
      BY <2>2, <2>6, <2>12, EpilogueAt
    <3>3. i > Len(Restores(f)) + 1
      BY <2>10, <3>1, <3>2 DEF EpilogueIs
    <3>4. Arrived(p[1], p[2])
      BY <2>5, <2>12, <3>1, <3>3 DEF ArrivedIn
    <3> QED BY <2>11, <3>4 DEF Arrived
  <2>13. CASE s.kind = "call"
    <3>1. PICK k \in DOMAIN s.params :
            p = <<ShiftArgUID(s.args[k + 1]), ShiftArgUID(s.params[k].source)>>
      BY <2>11, <2>13 DEF CarriesOf
    <3>2. Len(e) = Len(s.params) /\ DOMAIN s.params = 1..Len(s.params)
      <4>1. e = Passed(s)
        BY <2>13 DEF Before
      <4>2. s.params \in Seq(Range(s.params))
        BY <2>2, <2>6, <2>13 DEF FunctionUnderstood, Understood
      <4> QED BY <2>2, <2>6, <2>13, <4>1, <4>2, PiecesAreSeqs, LenProperties
    <3>3. k \in 1..(i - 1)
      BY <2>7, <2>10, <3>1, <3>2
    <3>4. Arrived(p[1], p[2])
      BY <2>5, <2>13, <3>1, <3>3 DEF ArrivedIn
    <3> QED BY <2>11, <3>4 DEF Arrived
  <2>14. CASE s.kind \notin {"return", "call"}
    BY <2>11, <2>14 DEF CarriesOf
  <2> QED BY <2>12, <2>13, <2>14
<1>4. /\ IInv /\ IInv' /\ ArrivesInv /\ AllPassedApart /\ [Next]_vars
      => (ArrivesInv /\ AllPassedApart)'
  BY ArrivesStep
<1> QED
  BY Invariant, UnderstoodIsCovered, <1>1, <1>2, <1>3, <1>4, PTL DEF Spec

-----------------------------------------------------------------------------
(* What Frame pushes for the locals is what it takes from the stack again. *)
LEMMA LocalsTake ==
  ASSUME NEW f, FunctionUnderstood(f), \A d \in Range(f.locals) : d.text \/ d.bytes \in 1 .. 4
  PROVE  StackedDataSize(f) \div 4 = Len(Locals(f)) /\ Len(Locals(f)) \in Nat
<1> DEFINE N == Len(f.locals)
           P == {Instr("PUSH", <<Const(0)>>)}
           W(k) == WordsOf(f.locals[k])
           bytes(k) == f.locals[k].bytes
           words(k) == [w \in 1 .. W(k) |-> Instr("PUSH", <<Const(0)>>)]
           pushes == [k \in DOMAIN f.locals |-> words(k)]
           rev == Reverse(pushes)
           size == CHOOSE z : z = [k \in 0 .. N |-> IF k = 0 THEN 0 ELSE Align4(z[k - 1] + bytes(k))]
<1>1. /\ N \in Nat /\ DOMAIN f.locals = 1..N
      /\ \A k \in 1..N : bytes(k) \in Nat /\ (f.locals[k].text \/ bytes(k) \in 1 .. 4)
  BY LenProperties DEF FunctionUnderstood, Range
<1>2. \A x, y \in Nat : Align4((4 * x) + y) \in Nat
  BY DEF Align4
<1>3. \A x \in Nat, y \in 1 .. 4 : Align4((4 * x) + y) = 4 * (x + 1)
  BY DEF Align4
<1>4. \A x, y \in Nat : Align4((4 * x) + y) = 4 * (x + (Align4(y) \div 4)) /\ Align4(y) \div 4 \in Nat
  BY DEF Align4
<1>5. \A k \in 1..N : W(k) \in Nat
  BY <1>1, <1>4 DEF WordsOf
<1>6. ASSUME NEW k \in 1..N, NEW x \in Nat
      PROVE  Align4((4 * x) + bytes(k)) = 4 * (x + W(k))
  <2>1. CASE f.locals[k].text
    BY <1>1, <1>4, <2>1 DEF WordsOf
  <2>2. CASE ~f.locals[k].text
    BY <1>1, <1>3, <2>2 DEF WordsOf
  <2> QED BY <2>1, <2>2
<1> HIDE DEF N, W, bytes
<1>7. ASSUME NEW k \in 1..N PROVE pushes[k] \in Seq(P) /\ Len(pushes[k]) = W(k)
  <2>1. pushes[k] = words(k)
    BY <1>1
  <2> QED BY <1>5, <2>1, MadeSeq
<1>8. pushes = [k \in 1..N |-> pushes[k]]
  BY <1>1
<1>9. Locals(f) = FlattenSeq(rev)
  BY DEF Locals, W
<1>10. StackedDataSize(f) = size[N]
  BY Zenon DEF StackedDataSize, N, bytes
<1> HIDE DEF pushes, P, size, rev
<1>11. pushes \in Seq(Seq(P)) /\ Len(pushes) = N
  BY <1>1, <1>7, <1>8, MadeSeq
<1>12. rev \in Seq(Seq(P)) /\ Len(rev) = N /\ \A i \in 1..N : rev[i] = pushes[(N - i) + 1]
  BY <1>11, ReverseIsSeq DEF rev
<1>13. PICK o : Begin(o, rev, N) /\ Len(Locals(f)) = o[N]
  BY <1>9, <1>12, FlattenJoins DEF Joins
<1>14. PICK s : Begin(s, pushes, N)
  BY <1>1, <1>5, <1>7, Begins
<1>15. /\ s \in [0..N -> Nat] /\ s[0] = 0 /\ \A j \in 1..N : s[j] = s[j - 1] + W(j)
       /\ o \in [0..N -> Nat] /\ o[0] = 0 /\ \A j \in 1..N : o[j] = o[j - 1] + W((N - j) + 1)
  <2>1. \A j \in 1..N : (N - j) + 1 \in 1..N
    BY <1>1
  <2>2. /\ s \in [0..N -> Nat] /\ s[0] = 0 /\ \A j \in 1..N : s[j] = s[j - 1] + Len(pushes[j])
        /\ o \in [0..N -> Nat] /\ o[0] = 0 /\ \A j \in 1..N : o[j] = o[j - 1] + Len(rev[j])
    BY <1>13, <1>14 DEF Begin
  <2>3. \A j \in 1..N : Len(rev[j]) = W((N - j) + 1)
    BY <1>7, <1>12, <2>1
  <2>4. \A j \in 1..N : s[j] = s[j - 1] + W(j)
    BY <1>7, <2>2
  <2>5. \A j \in 1..N : o[j] = o[j - 1] + W((N - j) + 1)
    BY <2>2, <2>3
  <2> QED BY <2>2, <2>4, <2>5
<1>16. o[N] = s[N]
  <2> DEFINE T == {k \in 0..N : o[k] + s[N - k] = s[N]}
  <2>1. 0 \in T
    BY <1>1, <1>15
  <2>2. ASSUME NEW k \in 0..N, k \in T, k < N
        PROVE  k + 1 \in T
    <3>1. k + 1 \in 1..N /\ N - k \in 1..N /\ (N - k) - 1 = N - (k + 1) /\ (k + 1) - 1 = k
          /\ (N - (k + 1)) + 1 = N - k /\ N - (k + 1) \in 0..N
      BY <1>1, <2>2
    <3>2. o[k + 1] = o[k] + W(N - k) /\ s[N - k] = s[N - (k + 1)] + W(N - k)
      BY <1>15, <3>1
    <3>3. o[k] \in Nat /\ s[N - (k + 1)] \in Nat /\ W(N - k) \in Nat
      BY <1>5, <1>15, <3>1
    <3>4. o[k] + s[N - k] = s[N]
      BY <2>2
    <3>5. o[k + 1] + s[N - (k + 1)] = s[N]
      BY <3>2, <3>3, <3>4
    <3> QED BY <3>1, <3>5
  <2> HIDE DEF T
  <2>3. 0..N \subseteq T
    BY <1>1, <2>1, <2>2, Induct
  <2>4. N \in T /\ N - N = 0
    BY <1>1, <2>3
  <2> QED BY <1>1, <1>15, <2>4 DEF T
<1>17. size = [k \in 0 .. N |-> 4 * s[k]]
  <2> DEFINE z == [k \in 0 .. N |-> 4 * s[k]]
             next(v) == [k \in 0 .. N |-> IF k = 0 THEN 0 ELSE Align4(v[k - 1] + bytes(k))]
  <2>1. ASSUME NEW k \in 0..N PROVE z[k] = IF k = 0 THEN 0 ELSE Align4(z[k - 1] + bytes(k))
    <3>1. CASE k = 0
      BY <1>15, <3>1
    <3>2. CASE k # 0
      <4>1. k \in 1..N /\ k - 1 \in 0..N
        BY <1>1, <3>2
      <4>2. z[k - 1] = 4 * s[k - 1] /\ s[k - 1] \in Nat
        BY <1>15, <4>1
      <4>3. Align4(z[k - 1] + bytes(k)) = 4 * (s[k - 1] + W(k))
        BY <1>6, <4>1, <4>2
      <4>4. z[k] = 4 * (s[k - 1] + W(k))
        BY <1>15, <4>1
      <4> QED BY <3>2, <4>3, <4>4
    <3> QED BY <3>1, <3>2
  <2>2. z = [k \in 0..N |-> z[k]]
    OBVIOUS
  <2>3. z = next(z)
    BY <2>1, <2>2
  <2>4. size = next(size)
    BY <2>3, Zenon DEF size
  <2>5. ASSUME NEW k \in 0..N PROVE size[k] = IF k = 0 THEN 0 ELSE Align4(size[k - 1] + bytes(k))
    BY <2>4
  <2> DEFINE T == {k \in 0..N : size[k] = z[k]}
  <2>6. 0 \in T
    <3>1. 0 \in 0..N
      BY <1>1
    <3>2. z[0] = 0 /\ size[0] = 0
      BY <2>1, <2>5, <3>1
    <3> QED BY <3>1, <3>2
  <2>7. ASSUME NEW k \in 0..N, k \in T, k < N
        PROVE  k + 1 \in T
    <3>1. k + 1 \in 0..N /\ k + 1 # 0 /\ (k + 1) - 1 = k
      BY <1>1, <2>7
    <3>2. size[k + 1] = Align4(size[k] + bytes(k + 1)) /\ z[k + 1] = Align4(z[k] + bytes(k + 1))
      BY <2>1, <2>5, <3>1
    <3>3. size[k] = z[k]
      BY <2>7
    <3> QED BY <3>1, <3>2, <3>3
  <2> HIDE DEF T
  <2>8. 0..N \subseteq T
    BY <1>1, <2>6, <2>7, Induct
  <2>9. \A k \in 0..N : size[k] = z[k]
    BY <2>8 DEF T
  <2>10. size = [k \in 0..N |-> size[k]]
    BY <2>4
  <2> QED BY <2>9, <2>10
<1>18. size[N] = 4 * s[N] /\ s[N] \in Nat
  BY <1>1, <1>15, <1>17
<1>19. (4 * s[N]) \div 4 = s[N]
  BY <1>18
<1> QED BY <1>10, <1>13, <1>16, <1>18, <1>19

(* What the callee's registers are saved in is named by no statement of    *)
(* the function's own.                                                     *)
SaveUID(f, v) == ShiftArgUID(SaveTemp(f, v))

LEMMA NamedAreFinite ==
  ASSUME NEW f, FunctionUnderstood(f), FrameLeft(f)
  PROVE  NamedUIDs(f) \subseteq Nat /\ IsFiniteSet(NamedUIDs(f))
<1> DEFINE I == {i \in DOMAIN f.stmts : IsInstruction(f.stmts[i])}
           g == [k \in I |-> {ShiftArgUID(f.stmts[k].args[j]) : j \in ArgsNaming(f.stmts[k])}]
           d == [k \in DOMAIN f.params |-> ShiftArgUID(f.params[k].destination)]
<1>1. /\ Len(f.stmts) \in Nat /\ DOMAIN f.stmts = 1..Len(f.stmts)
      /\ Len(f.params) \in Nat /\ DOMAIN f.params = 1..Len(f.params)
      /\ \A k \in DOMAIN f.stmts : f.stmts[k] \in Range(f.stmts)
      /\ \A k \in DOMAIN f.params : f.params[k] \in Range(f.params)
  BY LenProperties DEF FunctionUnderstood, Range
<1>2. \A n, temp : n \in Nat => Shift(n, temp) \in Nat
  BY StatementsAssumption DEF Shift, FIRST_TEMPORARY
<1>3. ASSUME NEW k \in I
      PROVE  g[k] \subseteq Nat /\ IsFiniteSet(g[k])
  <2> DEFINE s == f.stmts[k]
             u == [j \in ArgsNaming(s) |-> ShiftArgUID(s.args[j])]
  <2>1. s.args \in Seq(Range(s.args)) /\ \A j \in ArgsNaming(s) : s.args[j].num \in Nat
    BY <1>1, <1>3 DEF FrameLeft, LeavesFrame
  <2>2. g[k] = {u[j] : j \in ArgsNaming(s)}
    OBVIOUS
  <2>3. \A j \in ArgsNaming(s) : u[j] \in Nat
    BY <1>2, <2>1 DEF ShiftArgUID
  <2>4. IsFiniteSet(ArgsNaming(s))
    <3>1. Len(s.args) \in Nat /\ DOMAIN s.args = 1..Len(s.args)
      BY <2>1, LenProperties
    <3>2. IsFiniteSet(1..Len(s.args))
      BY <3>1, FS_Interval
    <3>3. ArgsNaming(s) \in SUBSET (1..Len(s.args))
      BY <3>1 DEF ArgsNaming
    <3> QED BY <3>2, <3>3, FS_Subset
  <2> HIDE DEF u, s, g
  <2>5. IsFiniteSet({u[j] : j \in ArgsNaming(s)})
    BY <2>4, ImageIsFinite
  <2> QED BY <2>2, <2>3, <2>5
<1>4. \A k \in DOMAIN f.params : d[k] \in Nat
  BY <1>1, <1>2 DEF FrameLeft, ShiftArgUID
<1>5. NamedUIDs(f) = {d[k] : k \in DOMAIN f.params} \cup (UNION {g[k] : k \in I})
  <2>1. {ShiftArgUID(f.params[k].destination) : k \in DOMAIN f.params} = {d[k] : k \in DOMAIN f.params}
    OBVIOUS
  <2>2. {{ShiftArgUID(f.stmts[k].args[j]) : j \in ArgsNaming(f.stmts[k])} : k \in I} = {g[k] : k \in I}
    <3> DEFINE h(k) == {ShiftArgUID(f.stmts[k].args[j]) : j \in ArgsNaming(f.stmts[k])}
    <3>1. \A k \in I : g[k] = h(k)
      OBVIOUS
    <3> HIDE DEF h, g, I
    <3>2. {h(k) : k \in I} = {g[k] : k \in I}
      BY <3>1
    <3> QED BY <3>2 DEF h
  <2>3. NamedUIDs(f) = {ShiftArgUID(f.params[k].destination) : k \in DOMAIN f.params} \cup
          (UNION {{ShiftArgUID(f.stmts[k].args[j]) : j \in ArgsNaming(f.stmts[k])} : k \in I})
    BY Zenon DEF NamedUIDs
  <2> QED BY <2>1, <2>2, <2>3, Zenon
<1>6. IsFiniteSet(I) /\ IsFiniteSet(DOMAIN f.params)
  <2>1. IsFiniteSet(1..Len(f.stmts)) /\ IsFiniteSet(1..Len(f.params))
    <3>1. Len(f.stmts) \in Int /\ Len(f.params) \in Int /\ 1 \in Int
      BY <1>1
    <3>2. \A a, b \in Int : IsFiniteSet(a..b)
      BY FS_Interval
    <3> QED BY <3>1, <3>2, Zenon
  <2>2. I \in SUBSET (1..Len(f.stmts))
    BY <1>1
  <2> QED BY <1>1, <2>1, <2>2, FS_Subset
<1> HIDE DEF I, g, d
<1>7. IsFiniteSet({d[k] : k \in DOMAIN f.params}) /\ IsFiniteSet({g[k] : k \in I})
  BY <1>6, ImageIsFinite
<1>8. IsFiniteSet(UNION {g[k] : k \in I})
  BY <1>3, <1>7, FS_UNION
<1>9. IsFiniteSet(NamedUIDs(f))
  <2>1. IsFiniteSet({d[k] : k \in DOMAIN f.params} \cup (UNION {g[k] : k \in I}))
    BY <1>7, <1>8, FS_Union
  <2> QED BY <1>5, <2>1
<1> QED BY <1>3, <1>4, <1>5, <1>9

LEMMA SavedApart ==
  ASSUME NEW f, FunctionUnderstood(f), FrameLeft(f)
  PROVE  /\ \A v \in CalleeSaves :
              /\ SaveUID(f, v) \in Nat /\ SaveUID(f, v) >= FIRST_TEMPORARY
              /\ SaveUID(f, v) \notin NamedUIDs(f)
         /\ \A v, w \in CalleeSaves : v # w => SaveUID(f, v) # SaveUID(f, w)
<1> DEFINE N == NamedUIDs(f)
           S == {FIRST_TEMPORARY} \cup {u + 1 : u \in N}
           g == [u \in N |-> u + 1]
           t == MinNewTemp(f)
<1>1. NUM_REGS \in Nat /\ STD_CALLEE_SAVE \in 1 .. NUM_REGS /\ FIRST_TEMPORARY \in Nat
  BY StatementsAssumption DEF FIRST_TEMPORARY
<1>2. N \subseteq Nat /\ IsFiniteSet(N)
  BY NamedAreFinite
<1>3. {u + 1 : u \in N} = {g[u] : u \in N}
  OBVIOUS
<1> HIDE DEF g, N
<1>4. S \subseteq Nat /\ S # {} /\ IsFiniteSet(S)
  <2>1. IsFiniteSet({u + 1 : u \in N})
    BY <1>2, <1>3, ImageIsFinite
  <2>2. IsFiniteSet({u + 1 : u \in N} \cup {FIRST_TEMPORARY})
    BY <2>1, FS_AddElement
  <2>3. S = {u + 1 : u \in N} \cup {FIRST_TEMPORARY}
    OBVIOUS
  <2>4. \A u \in N : u + 1 \in Nat
    BY <1>2
  <2> QED BY <1>1, <2>2, <2>3, <2>4
<1>5. \E n \in S : n >= FIRST_TEMPORARY /\ \A u \in N : u < n
  <2>1. PICK n \in S : \A m \in S : m <= n
    BY <1>4, LargestNumber
  <2>2. n >= FIRST_TEMPORARY
    BY <1>1, <1>4, <2>1
  <2>3. ASSUME NEW u \in N PROVE u < n
    <3>1. u + 1 \in S /\ u \in Nat
      BY <1>2
    <3>2. u + 1 <= n /\ n \in Nat
      BY <1>4, <2>1, <3>1
    <3> QED BY <3>1, <3>2
  <2> QED BY <2>2, <2>3
<1>6. t = CHOOSE n \in S : n >= FIRST_TEMPORARY /\ \A u \in N : u < n
  BY Zenon DEF MinNewTemp, N
<1>7. t \in S /\ t >= FIRST_TEMPORARY /\ \A u \in N : u < t
  BY <1>5, <1>6, Zenon
<1>8. t \in Nat
  BY <1>4, <1>7
<1> HIDE DEF t
<1>9. \A v \in CalleeSaves : SaveUID(f, v) = t + (v - STD_CALLEE_SAVE)
  <2>1. \A v : SaveTemp(f, v).temp /\ SaveTemp(f, v).num = t + (v - STD_CALLEE_SAVE) - FIRST_TEMPORARY - 1
    BY DEF SaveTemp, Temp, Reg, t
  <2>2. \A v \in CalleeSaves : v \in Nat /\ v >= STD_CALLEE_SAVE
    BY <1>1 DEF CalleeSaves
  <2>3. ASSUME NEW v \in CalleeSaves PROVE SaveUID(f, v) = t + (v - STD_CALLEE_SAVE)
    <3>1. SaveUID(f, v) = (FIRST_TEMPORARY + 1) + (t + (v - STD_CALLEE_SAVE) - FIRST_TEMPORARY - 1)
      BY <2>1 DEF SaveUID, ShiftArgUID, Shift
    <3> QED BY <1>1, <1>8, <2>2, <3>1
  <2> QED BY <2>3
<1>10. \A v \in CalleeSaves : v \in Nat /\ v >= STD_CALLEE_SAVE
  BY <1>1 DEF CalleeSaves
<1>11. ASSUME NEW v \in CalleeSaves
       PROVE  SaveUID(f, v) \in Nat /\ SaveUID(f, v) >= FIRST_TEMPORARY /\ SaveUID(f, v) \notin N
  <2>1. SaveUID(f, v) >= t /\ SaveUID(f, v) \in Nat
    BY <1>1, <1>8, <1>9, <1>10
  <2>2. SaveUID(f, v) \notin N
    <3>1. \A u \in N : u \in Nat /\ u < t
      BY <1>2, <1>7
    <3> QED BY <1>8, <2>1, <3>1
  <2> QED BY <1>1, <1>7, <1>8, <2>1, <2>2
<1>12. ASSUME NEW v \in CalleeSaves, NEW w \in CalleeSaves, v # w
       PROVE  SaveUID(f, v) # SaveUID(f, w)
  BY <1>1, <1>8, <1>9, <1>10, <1>12
<1> QED BY <1>11, <1>12 DEF N

(* What is in the prologue: the frame pointer, the locals, the registers    *)
(* that are saved and the parameters.                                      *)
Fronted(f, omitFP) == IF omitFP THEN 0 ELSE IF f.main THEN 1 ELSE 2
Data(f)  == Len(Locals(f))
Saved(f) == IF Returns(f) = {} THEN 0 ELSE NUM_REGS - STD_CALLEE_SAVE

LEMMA SavesAt ==
  ASSUME NEW f
  PROVE  /\ Saved(f) \in Nat /\ Len(Saves(f)) = Saved(f) /\ Len(Restores(f)) = Saved(f)
         /\ \A k \in 1..Saved(f) :
              /\ Saves(f)[k] = Mov(Reg(NUM_REGS - k), SaveTemp(f, NUM_REGS - k))
              /\ Restores(f)[k] = Mov(SaveTemp(f, (STD_CALLEE_SAVE + k) - 1), Reg((STD_CALLEE_SAVE + k) - 1))
<1> DEFINE c == Saved(f)
           q == SavedRegs(f)
           r == Reverse(q)
<1>1. NUM_REGS \in Nat /\ STD_CALLEE_SAVE \in 1 .. NUM_REGS /\ c \in Nat
  BY StatementsAssumption DEF Saved
<1>2. q \in Seq(Int) /\ Len(q) = c /\ \A k \in 1..c : q[k] = (STD_CALLEE_SAVE + k) - 1
  <2>1. CASE Returns(f) = {}
    <3>1. q = <<>> /\ c = 0
      BY <2>1 DEF SavedRegs, Saved
    <3> QED BY <3>1, EmptySeq
  <2>2. CASE Returns(f) # {}
    <3> DEFINE w == [k \in 1 .. NUM_REGS - STD_CALLEE_SAVE |-> STD_CALLEE_SAVE + k - 1]
    <3>1. q = w /\ c = NUM_REGS - STD_CALLEE_SAVE
      BY <2>2 DEF SavedRegs, Saved
    <3>2. \A k \in 1..c : w[k] = (STD_CALLEE_SAVE + k) - 1 /\ w[k] \in Int
      BY <1>1, <3>1
    <3>3. w = [k \in 1..c |-> w[k]]
      BY <3>1
    <3> HIDE DEF w
    <3>4. w \in Seq(Int) /\ Len(w) = c
      BY <1>1, <3>2, <3>3, MadeSeq
    <3> QED BY <3>1, <3>2, <3>4
  <2> QED BY <2>1, <2>2
<1>3. c = 0 \/ c = NUM_REGS - STD_CALLEE_SAVE
  BY DEF Saved
<1> HIDE DEF q, c
<1>4. r \in Seq(Int) /\ Len(r) = c /\ \A k \in 1..c : r[k] = q[(c - k) + 1]
  BY <1>2, ReverseIsSeq
<1>5. \A k \in 1..c : r[k] = NUM_REGS - k
  <2> SUFFICES ASSUME NEW k \in 1..c PROVE r[k] = NUM_REGS - k
    OBVIOUS
  <2>1. (c - k) + 1 \in 1..c /\ c = NUM_REGS - STD_CALLEE_SAVE
    BY <1>1, <1>3
  <2>2. q[(c - k) + 1] = (STD_CALLEE_SAVE + ((c - k) + 1)) - 1
    BY <1>2, <2>1
  <2> QED BY <1>1, <1>4, <2>1, <2>2
<1> HIDE DEF r
<1>6. DOMAIN q = 1..c /\ DOMAIN r = 1..c
  BY <1>2, <1>4, LenProperties
<1>7. Saves(f) = [k \in 1..c |-> Mov(Reg(r[k]), SaveTemp(f, r[k]))]
  BY <1>6 DEF Saves, q, r
<1>8. Restores(f) = [k \in 1..c |-> Mov(SaveTemp(f, q[k]), Reg(q[k]))]
  BY <1>6 DEF Restores, q
<1>9. Len(Saves(f)) = c
  BY <1>1, <1>7
<1>10. Len(Restores(f)) = c
  BY <1>1, <1>8
<1>11. \A k \in 1..c : Saves(f)[k] = Mov(Reg(NUM_REGS - k), SaveTemp(f, NUM_REGS - k))
  BY <1>5, <1>7
<1>12. \A k \in 1..c : Restores(f)[k] = Mov(SaveTemp(f, (STD_CALLEE_SAVE + k) - 1), Reg((STD_CALLEE_SAVE + k) - 1))
  BY <1>2, <1>8
<1> QED BY <1>1, <1>9, <1>10, <1>11, <1>12 DEF c

PrologueIs(f, omitFP, a, l, c, m) ==
  LET p == Prologue(f, omitFP)
  IN  /\ a = Fronted(f, omitFP) /\ l = Data(f) /\ c = Saved(f) /\ m = Len(f.params)
      /\ a \in 0..2 /\ l \in Nat /\ c \in Nat /\ m \in Nat
      /\ Len(p) = ((a + l) + c) + m
      /\ a = 2 => p[1] = Instr("PUSH", <<Reg(FRAME_POINTER)>>)
      /\ a > 0 => p[a] = Mov(Reg(STACK_POINTER), Reg(FRAME_POINTER))
      /\ \A k \in 1..l : p[a + k] = Instr("PUSH", <<Const(0)>>)
      /\ \A k \in 1..c : p[(a + l) + k] = Saves(f)[k]
      /\ \A k \in 1..m : p[((a + l) + c) + k] = Mov(f.params[k].source, f.params[k].destination)

LEMMA PrologueAt ==
  ASSUME NEW f, FunctionUnderstood(f), NEW omitFP
  PROVE  \E a, l, c, m : PrologueIs(f, omitFP, a, l, c, m)
<1> DEFINE S == Added(f)
           front == IF omitFP THEN <<>> ELSE PushFP(f) \o SetFP
           q1 == front \o Locals(f)
           q2 == q1 \o Saves(f)
           p == Prologue(f, omitFP)
           a == Fronted(f, omitFP)
           l == Data(f)
           c == Saved(f)
           m == Len(f.params)
<1>1. /\ Locals(f) \in Seq(S) /\ Saves(f) \in Seq(S) /\ Arriving(f) \in Seq(S)
      /\ PushFP(f) \in Seq(S) /\ SetFP \in Seq(S)
  BY PiecesAreSeqs
<1>2. /\ front \in Seq(S) /\ Len(front) = a /\ a \in 0..2
      /\ a = 2 => front[1] = Instr("PUSH", <<Reg(FRAME_POINTER)>>)
      /\ a > 0 => front[a] = Mov(Reg(STACK_POINTER), Reg(FRAME_POINTER))
  <2>1. CASE omitFP
    <3>1. front = <<>> /\ a = 0
      BY <2>1 DEF Fronted
    <3> HIDE DEF front, a, S
    <3> QED BY <3>1, EmptySeq
  <2>2. CASE ~omitFP
    <3>1. front = PushFP(f) \o SetFP
      BY <2>2
    <3>2. Len(SetFP) = 1 /\ SetFP[1] = Mov(Reg(STACK_POINTER), Reg(FRAME_POINTER))
      BY DEF SetFP
    <3> HIDE DEF front, S
    <3>3. /\ front \in Seq(S) /\ Len(front) = Len(PushFP(f)) + 1
          /\ \A n \in 1..Len(PushFP(f)) : front[n] = PushFP(f)[n]
          /\ front[Len(PushFP(f)) + 1] = SetFP[1]
      <4>1. PushFP(f) \in Seq(S) /\ SetFP \in Seq(S)
        BY <1>1
      <4>2. /\ front \in Seq(S) /\ Len(front) = Len(PushFP(f)) + Len(SetFP)
            /\ \A n \in 1..Len(PushFP(f)) : front[n] = PushFP(f)[n]
            /\ \A n \in 1..Len(SetFP) : front[Len(PushFP(f)) + n] = SetFP[n]
        BY <3>1, <4>1, ConcatAt
      <4> QED BY <3>2, <4>2
    <3>4. CASE f.main
      <4>1. PushFP(f) = <<>> /\ a = 1
        BY <2>2, <3>4 DEF PushFP, Fronted
      <4> QED BY <3>2, <3>3, <4>1
    <3>5. CASE ~f.main
      <4>1. PushFP(f) = <<Instr("PUSH", <<Reg(FRAME_POINTER)>>)>> /\ a = 2
        BY <2>2, <3>5 DEF PushFP, Fronted
      <4>2. Len(PushFP(f)) = 1 /\ PushFP(f)[1] = Instr("PUSH", <<Reg(FRAME_POINTER)>>)
        BY <4>1
      <4> QED BY <3>2, <3>3, <4>1, <4>2
    <3> QED BY <3>4, <3>5
  <2> QED BY <2>1, <2>2
<1>3. p = q2 \o Arriving(f)
  BY DEF Prologue
<1>4. /\ Locals(f) \in Seq({Instr("PUSH", <<Const(0)>>)}) /\ l \in Nat
      /\ \A k \in 1..l : Locals(f)[k] = Instr("PUSH", <<Const(0)>>)
  <2>1. Locals(f) \in Seq({Instr("PUSH", <<Const(0)>>)})
    BY LocalsAreSeq
  <2> QED BY <2>1, LenProperties, ElementOfSeq DEF Data
<1>5. c \in Nat /\ Len(Saves(f)) = c
  BY SavesAt
<1>6. m \in Nat /\ Len(Arriving(f)) = m
      /\ \A k \in 1..m : Arriving(f)[k] = Mov(f.params[k].source, f.params[k].destination)
  <2>1. m \in Nat /\ DOMAIN f.params = 1..m
    BY LenProperties DEF FunctionUnderstood
  <2> QED BY <2>1 DEF Arriving
<1> HIDE DEF S, front, p, q1, q2, a, c, m
<1>7. /\ q1 \in Seq(S) /\ Len(q1) = a + l
      /\ \A n \in 1..a : q1[n] = front[n]
      /\ \A n \in 1..l : q1[a + n] = Locals(f)[n]
  <2>1. front \in Seq(S) /\ Len(front) = a /\ q1 = front \o Locals(f) /\ Locals(f) \in Seq(S)
    BY <1>1, <1>2 DEF q1
  <2>2. /\ front \o Locals(f) \in Seq(S)
        /\ Len(front \o Locals(f)) = Len(front) + Len(Locals(f))
        /\ \A n \in 1..Len(front) : (front \o Locals(f))[n] = front[n]
        /\ \A n \in 1..Len(Locals(f)) : (front \o Locals(f))[Len(front) + n] = Locals(f)[n]
    BY <2>1, ConcatAt
  <2>3. Len(Locals(f)) = l
    BY DEF Data
  <2> QED BY <2>1, <2>2, <2>3, Zenon
<1> HIDE DEF l
<1>8. /\ q2 \in Seq(S) /\ Len(q2) = (a + l) + c
      /\ \A n \in 1..(a + l) : q2[n] = q1[n]
      /\ \A n \in 1..c : q2[(a + l) + n] = Saves(f)[n]
  <2>1. q2 = q1 \o Saves(f)
    BY DEF q2
  <2>2. q1 \in Seq(S) /\ Saves(f) \in Seq(S)
    BY <1>1, <1>7
  <2>3. /\ q2 \in Seq(S) /\ Len(q2) = Len(q1) + Len(Saves(f))
        /\ \A n \in 1..Len(q1) : q2[n] = q1[n]
        /\ \A n \in 1..Len(Saves(f)) : q2[Len(q1) + n] = Saves(f)[n]
    BY <2>1, <2>2, ConcatAt
  <2> QED BY <1>5, <1>7, <2>3
<1>9. /\ Len(p) = ((a + l) + c) + m
      /\ \A n \in 1..((a + l) + c) : p[n] = q2[n]
      /\ \A n \in 1..m : p[((a + l) + c) + n] = Arriving(f)[n]
  <2>1. q2 \in Seq(S) /\ Arriving(f) \in Seq(S)
    BY <1>1, <1>8
  <2>2. /\ Len(p) = Len(q2) + Len(Arriving(f))
        /\ \A n \in 1..Len(q2) : p[n] = q2[n]
        /\ \A n \in 1..Len(Arriving(f)) : p[Len(q2) + n] = Arriving(f)[n]
    BY <1>3, <2>1, ConcatAt
  <2> QED BY <1>6, <1>8, <2>2
<1>10. \A n \in 1..a : n \in 1..(a + l) /\ n \in 1..((a + l) + c) /\ p[n] = front[n]
  BY <1>2, <1>4, <1>5, <1>7, <1>8, <1>9
<1>11. \A k \in 1..l : p[a + k] = Instr("PUSH", <<Const(0)>>)
  <2> SUFFICES ASSUME NEW k \in 1..l PROVE p[a + k] = Instr("PUSH", <<Const(0)>>)
    OBVIOUS
  <2>1. a + k \in 1..(a + l) /\ a + k \in 1..((a + l) + c)
    BY <1>2, <1>4, <1>5
  <2>2. p[a + k] = q2[a + k] /\ q2[a + k] = q1[a + k] /\ q1[a + k] = Locals(f)[k]
    BY <1>7, <1>8, <1>9, <2>1
  <2> QED BY <1>4, <2>2
<1>12. \A k \in 1..c : p[(a + l) + k] = Saves(f)[k]
  <2> SUFFICES ASSUME NEW k \in 1..c PROVE p[(a + l) + k] = Saves(f)[k]
    OBVIOUS
  <2>1. (a + l) + k \in 1..((a + l) + c)
    BY <1>2, <1>4, <1>5
  <2> QED BY <1>8, <1>9, <2>1
<1>13. \A k \in 1..m : p[((a + l) + c) + k] = Mov(f.params[k].source, f.params[k].destination)
  BY <1>6, <1>9
<1>14. a = 2 => p[1] = Instr("PUSH", <<Reg(FRAME_POINTER)>>)
  BY <1>2, <1>10
<1>15. a > 0 => p[a] = Mov(Reg(STACK_POINTER), Reg(FRAME_POINTER))
  BY <1>2, <1>10
<1>16. a = Fronted(f, omitFP) /\ l = Data(f) /\ c = Saved(f) /\ m = Len(f.params)
  BY DEF a, l, c, m
<1>17. PrologueIs(f, omitFP, a, l, c, m)
  BY <1>2, <1>4, <1>5, <1>6, <1>9, <1>11, <1>12, <1>13, <1>14, <1>15, <1>16 DEF PrologueIs, p
<1> QED BY <1>17, Zenon

(* The statements of the function's own leave the frame alone, and what    *)
(* the registers are saved in.                                             *)
LEMMA OwnLeavesFrame ==
  ASSUME NEW f, FunctionUnderstood(f), FrameLeft(f), NEW s \in Range(f.stmts)
  PROVE  /\ EffectOf(s) \in {[kind |-> "none"], [kind |-> "return"], [kind |-> "halt"]}
         /\ EffectOf(s).kind = "return" <=> s.kind = "return"
         /\ \A v \in CalleeSaves : SaveUID(f, v) \notin WritesOf(s)
<1>1. Understood(s) /\ LeavesFrame(s)
  BY DEF FunctionUnderstood, FrameLeft
<1>2. s.kind \in {"label", "instruction", "call", "return"}
  BY <1>1 DEF Understood
<1>3. /\ NUM_REGS \in Nat /\ STD_CALLEE_SAVE \in 1 .. NUM_REGS
      /\ FIRST_TEMPORARY = NUM_REGS + 5 /\ STACK_POINTER = NUM_REGS
  BY StatementsAssumption DEF FIRST_TEMPORARY, STACK_POINTER
<1>4. /\ EffectOf(s) \in {[kind |-> "none"], [kind |-> "return"], [kind |-> "halt"]}
      /\ EffectOf(s).kind = "return" <=> s.kind = "return"
  <2>1. CASE s.kind = "label"
    BY <2>1 DEF EffectOf, IsInstruction
  <2>2. CASE s.kind = "return"
    BY <2>2 DEF EffectOf, IsInstruction
  <2>3. CASE s.kind = "call"
    <3>1. s.op = "JSR"
      BY <1>1, <2>3 DEF Understood
    <3> QED BY <2>3, <3>1 DEF EffectOf, IsInstruction, IsMov
  <2>4. CASE s.kind = "instruction"
    <3>1. /\ s.op \notin {"PUSH", "POP"}
          /\ Shift(STACK_POINTER, FALSE) \notin Stores(s) /\ Shift(FRAME_POINTER, FALSE) \notin Stores(s)
      BY <1>1, <2>4 DEF LeavesFrame
    <3>2. s.op \in {"MOV", "ADD"} => s.args[2].type # "REG" \/ ShiftArgUID(s.args[2]) \in Stores(s)
      <4>1. s.op \in {"MOV", "ADD"} => Target(s) = {2}
        BY DEF Target, Binary
      <4> QED BY <2>4, <4>1 DEF Stores
    <3>a. \A n : Reg(n).type = "REG" /\ ShiftArgUID(Reg(n)) = Shift(n, FALSE)
      BY DEF Reg, ShiftArgUID
    <3>3. ~(IsMov(s) /\ s.args[2] = Reg(FRAME_POINTER))
      BY <3>1, <3>2, <3>a DEF IsMov
    <3>4. ~(s.op = "ADD" /\ s.args[2] = Reg(STACK_POINTER))
      BY <3>1, <3>2, <3>a
    <3> QED BY <2>4, <3>1, <3>3, <3>4 DEF EffectOf, IsInstruction
  <2> QED BY <1>2, <2>1, <2>2, <2>3, <2>4
<1>5. ASSUME NEW v \in CalleeSaves, SaveUID(f, v) \in WritesOf(s) PROVE FALSE
  <2>1. /\ SaveUID(f, v) \in Nat /\ SaveUID(f, v) >= FIRST_TEMPORARY
        /\ SaveUID(f, v) \notin NamedUIDs(f)
    BY SavedApart
  <2>2. SaveUID(f, v) \in Stores(s) /\ ~ShiftedIsSpecialReg(SaveUID(f, v))
    BY <1>5 DEF WritesOf, Ordinary
  <2>3. CASE s.kind \in {"label", "return"}
    BY <2>2, <2>3 DEF Stores
  <2>4. CASE s.kind = "call"
    <3>1. PICK n \in CallerSaves : SaveUID(f, v) = Shift(n, FALSE)
      BY <2>2, <2>4 DEF Stores
    <3>2. n \in 0 .. STD_CALLEE_SAVE - 1 /\ SaveUID(f, v) = 1 + n
      BY <3>1 DEF CallerSaves, Shift
    <3> QED BY <1>3, <2>1, <3>2
  <2>5. CASE s.kind = "instruction"
    <3>1. PICK i \in DOMAIN f.stmts : f.stmts[i] = s
      BY DEF Range
    <3>2. IsInstruction(s)
      BY <2>5 DEF IsInstruction
    <3>3. \A k \in ArgsNaming(s) : ShiftArgUID(s.args[k]) \in NamedUIDs(f)
      BY <3>1, <3>2 DEF NamedUIDs
    <3>4. InstructionUnderstood(s)
      BY <1>1, <2>5 DEF Understood
    <3>5. \A k \in ArgsNaming(s) : IsIndexed(s.args[k]) => ShiftedIsSpecialReg(IndexUID(s.args[k]))
      BY <3>4 DEF InstructionUnderstood
    <3>6. Target(s) \subseteq DOMAIN s.args
      <4>1. CASE s.op = "MOV"
        <5>1. DOMAIN s.args = {1, 2}
          BY <3>4, <4>1 DEF InstructionUnderstood, MovUnderstood
        <5> QED BY <4>1, <5>1 DEF Target, Binary
      <4>2. CASE s.op # "MOV"
        BY <3>4, <4>2 DEF InstructionUnderstood, OtherUnderstood
      <4> QED BY <4>1, <4>2
    <3>7. \A j \in Target(s) : s.args[j].type = "REG" => j \in ArgsNaming(s)
      BY <3>6 DEF ArgsNaming, Names, IsReg
    <3>8. CASE \E k \in Target(s) : s.args[k].type = "REG" /\ SaveUID(f, v) = ShiftArgUID(s.args[k])
      BY <2>1, <3>3, <3>7, <3>8
    <3>9. CASE \E k \in ArgsNaming(s) : SaveUID(f, v) = Stepped(s.args[k])
      BY <2>1, <2>2, <3>3, <3>5, <3>9 DEF Stepped
    <3>10. \/ \E k \in Target(s) : s.args[k].type = "REG" /\ SaveUID(f, v) = ShiftArgUID(s.args[k])
           \/ \E k \in ArgsNaming(s) : SaveUID(f, v) = Stepped(s.args[k])
      BY <2>2, <2>5 DEF Stores
    <3> QED BY <3>8, <3>9, <3>10
  <2> QED BY <1>2, <2>3, <2>4, <2>5
<1> QED BY <1>4, <1>5

-----------------------------------------------------------------------------
(* Stack and frame pointer: p words of the caller's, the frame pointer's   *)
(* among them once it is pushed, and under them d words of data.           *)
Words == {"caller's", "return", "own", "datum"}

IsFrame(p, d, base) ==
  /\ stack \in Seq(Words) /\ Len(stack) = p + d
  /\ stack[1] = "caller's" /\ stack[2] = "return"
  /\ p = 3 => stack[3] = "caller's"
  /\ fp = base

LEMMA EffectsAre ==
  ASSUME NEW p \in {2, 3}, NEW d \in Nat, NEW base \in {"own", "caller's"}, IsFrame(p, d, base),
         NEW e, Effect(e)
  PROVE  /\ e.kind \in {"none", "return"} => IsFrame(p, d, base)'
         /\ e.kind = "pushFP" /\ p = 2 /\ d = 0 /\ base = "caller's" => IsFrame(3, 0, "caller's")'
         /\ e.kind = "setFP" => IsFrame(p, d, "own")'
         /\ e.kind = "push" => IsFrame(p, d + 1, base)'
         /\ e.kind = "release" /\ e.words = d => IsFrame(p, 0, base)'
         /\ e.kind = "popFP" /\ p = 3 /\ d = 0 => IsFrame(2, 0, "caller's")'
<1>1. /\ stack \in Seq(Words) /\ Len(stack) = p + d
      /\ stack[1] = "caller's" /\ stack[2] = "return"
      /\ p = 3 => stack[3] = "caller's"
      /\ fp = base
      /\ fp \in Words /\ "datum" \in Words
  BY DEF IsFrame, Words
<1>2. /\ e.kind = "setFP" => fp' = "own"
      /\ e.kind = "popFP" => fp' = TopOf(stack)
      /\ e.kind \notin {"setFP", "popFP"} => fp' = fp
      /\ e.kind = "pushFP" => stack' = Append(stack, fp)
      /\ e.kind = "push" => stack' = Append(stack, "datum")
      /\ e.kind = "popFP" => stack' = Pop(stack, 1)
      /\ e.kind = "release" => stack' = Pop(stack, e.words)
      /\ e.kind \in {"none", "return", "setFP"} => stack' = stack
  BY DEF Effect
<1>3. ASSUME NEW w \in Words
      PROVE  /\ Append(stack, w) \in Seq(Words) /\ Len(Append(stack, w)) = (p + d) + 1
             /\ \A k \in 1..(p + d) : Append(stack, w)[k] = stack[k]
             /\ Append(stack, w)[(p + d) + 1] = w
  BY <1>1, AppendProperties
<1>4. ASSUME NEW n \in 1..(p + d)
      PROVE  LET q == Pop(stack, n)
             IN  /\ q \in Seq(Words) /\ Len(q) = (p + d) - n
                 /\ \A k \in 1..((p + d) - n) : q[k] = stack[k]
  <2>1. Pop(stack, n) = SubSeq(stack, 1, (p + d) - n)
    BY <1>1 DEF Pop
  <2>2. /\ SubSeq(stack, 1, (p + d) - n) \in Seq(Words)
        /\ Len(SubSeq(stack, 1, (p + d) - n)) = (p + d) - n
        /\ \A k \in 1..((p + d) - n) : SubSeq(stack, 1, (p + d) - n)[k] = stack[k]
    <3>1. \A i \in 1..((p + d) - n) : stack[i] \in Words
      BY <1>1, ElementOfSeq
    <3> QED BY <1>1, <3>1, SubSeqProperties
  <2> QED BY <2>1, <2>2
<1>5. ASSUME e.kind \in {"none", "return"} PROVE IsFrame(p, d, base)'
  BY <1>1, <1>2, <1>5 DEF IsFrame
<1>6. ASSUME e.kind = "setFP" PROVE IsFrame(p, d, "own")'
  BY <1>1, <1>2, <1>6 DEF IsFrame
<1>7. ASSUME e.kind = "pushFP", p = 2, d = 0, base = "caller's" PROVE IsFrame(3, 0, "caller's")'
  <2>1. stack' = Append(stack, fp) /\ fp' = fp /\ fp = "caller's"
    BY <1>1, <1>2, <1>7
  <2>2. stack' \in Seq(Words) /\ Len(stack') = 3 /\ stack'[1] = stack[1] /\ stack'[2] = stack[2] /\ stack'[3] = fp
    BY <1>1, <1>3, <1>7, <2>1
  <2> QED BY <1>1, <2>1, <2>2 DEF IsFrame
<1>8. ASSUME e.kind = "push" PROVE IsFrame(p, d + 1, base)'
  <2>1. stack' = Append(stack, "datum") /\ fp' = fp
    BY <1>2, <1>8
  <2>2. /\ stack' \in Seq(Words) /\ Len(stack') = p + (d + 1)
        /\ \A k \in 1..(p + d) : stack'[k] = stack[k]
    BY <1>1, <1>3, <2>1
  <2>3. 1 \in 1..(p + d) /\ 2 \in 1..(p + d) /\ (p = 3 => 3 \in 1..(p + d))
    OBVIOUS
  <2> QED BY <1>1, <2>1, <2>2, <2>3 DEF IsFrame
<1>9. ASSUME e.kind = "release", e.words = d PROVE IsFrame(p, 0, base)'
  <2>1. stack' = Pop(stack, d) /\ fp' = fp
    BY <1>2, <1>9
  <2>2. CASE d = 0
    <3>1. Pop(stack, 0) = stack
      <4>1. Pop(stack, 0) = SubSeq(stack, 1, Len(stack))
        BY <1>1 DEF Pop
      <4> QED BY <1>1, <4>1, SubSeqFull
    <3> QED BY <1>1, <2>1, <2>2, <3>1 DEF IsFrame
  <2>3. CASE d # 0
    <3>1. d \in 1..(p + d) /\ (p + d) - d = p
      BY <2>3
    <3>2. stack' \in Seq(Words) /\ Len(stack') = p /\ \A k \in 1..p : stack'[k] = stack[k]
      BY <1>4, <2>1, <3>1
    <3>3. 1 \in 1..p /\ 2 \in 1..p /\ (p = 3 => 3 \in 1..p) /\ p = p + 0
      OBVIOUS
    <3> QED BY <1>1, <2>1, <3>2, <3>3 DEF IsFrame
  <2> QED BY <2>2, <2>3
<1>10. ASSUME e.kind = "popFP", p = 3, d = 0 PROVE IsFrame(2, 0, "caller's")'
  <2>1. stack' = Pop(stack, 1) /\ fp' = TopOf(stack)
    BY <1>2, <1>10
  <2>2. fp' = "caller's"
    <3>1. Len(stack) = 3 /\ stack[3] = "caller's"
      BY <1>1, <1>10
    <3>2. stack # <<>>
      BY <3>1, EmptySeq
    <3> QED BY <2>1, <3>1, <3>2 DEF TopOf
  <2>3. 1 \in 1..(p + d) /\ (p + d) - 1 = 2
    BY <1>10
  <2>4. stack' \in Seq(Words) /\ Len(stack') = 2 /\ \A k \in 1..2 : stack'[k] = stack[k]
    BY <1>4, <2>1, <2>3
  <2> QED BY <1>1, <2>2, <2>4 DEF IsFrame
<1> QED BY <1>5, <1>6, <1>7, <1>8, <1>9, <1>10

LEMMA MovesAreQuiet ==
  ASSUME NEW a, InRegister(a), NEW b, InRegister(b), b # Reg(FRAME_POINTER)
  PROVE  /\ EffectOf(Mov(a, b)) = [kind |-> "none"]
         /\ WritesOf(Mov(a, b)) = Ordinary({ShiftArgUID(b)})
<1>1. WritesOf(Mov(a, b)) = Ordinary({ShiftArgUID(b)})
  BY MoveDoes
<1>2. EffectOf(Mov(a, b)) = [kind |-> "none"]
  <2>1. PICK s : s = Mov(a, b)
    OBVIOUS
  <2>2. s.kind = "instruction" /\ s.op = "MOV" /\ s.args[2] = b
    BY <2>1 DEF Mov, Instr
  <2>3. EffectOf(s) = [kind |-> "none"]
    BY <2>2 DEF EffectOf, IsInstruction, IsMov
  <2> QED BY <2>1, <2>3
<1> QED BY <1>1, <1>2

(* What each statement of the prologue does.                               *)
DoneInFront(f, a, l, c, n, s) ==
  \/ a = 2 /\ n = 1 /\ EffectOf(s) = [kind |-> "pushFP"] /\ WritesOf(s) = {}
  \/ a > 0 /\ n = a /\ EffectOf(s) = [kind |-> "setFP"] /\ WritesOf(s) = {}
  \/ n > a /\ n <= a + l /\ EffectOf(s) = [kind |-> "push"] /\ WritesOf(s) = {}
  \/ /\ Returns(f) # {} /\ EffectOf(s) = [kind |-> "none"]
     /\ \E v \in CalleeSaves : n = (a + l) + (NUM_REGS - v) /\ s = Mov(Reg(v), SaveTemp(f, v))
  \/ n > (a + l) + c /\ EffectOf(s) = [kind |-> "none"] /\ WritesOf(s) \subseteq NamedUIDs(f)

LEMMA FrontDoes ==
  ASSUME NEW f, FunctionUnderstood(f), FrameLeft(f), NEW omitFP,
         NEW a, NEW l, NEW c, NEW m, PrologueIs(f, omitFP, a, l, c, m),
         NEW n \in 1..Len(Prologue(f, omitFP)), NEW s, s = Prologue(f, omitFP)[n]
  PROVE  DoneInFront(f, a, l, c, n, s)
<1> DEFINE p == Prologue(f, omitFP)
<1>1. /\ a \in 0..2 /\ l \in Nat /\ c \in Nat /\ m \in Nat /\ c = Saved(f) /\ m = Len(f.params)
      /\ Len(p) = ((a + l) + c) + m
      /\ a = 2 => p[1] = Instr("PUSH", <<Reg(FRAME_POINTER)>>)
      /\ a > 0 => p[a] = Mov(Reg(STACK_POINTER), Reg(FRAME_POINTER))
      /\ \A k \in 1..l : p[a + k] = Instr("PUSH", <<Const(0)>>)
      /\ \A k \in 1..c : p[(a + l) + k] = Saves(f)[k]
      /\ \A k \in 1..m : p[((a + l) + c) + k] = Mov(f.params[k].source, f.params[k].destination)
  BY DEF PrologueIs
<1>2. NUM_REGS \in Nat /\ STD_CALLEE_SAVE \in 1 .. NUM_REGS
  BY StatementsAssumption
<1>3. \A b : b.temp => b # Reg(FRAME_POINTER)
  BY DEF Reg
<1> HIDE DEF p
<1>4. n \in 1..((a + l) + c) + m /\ s = p[n]
  BY <1>1 DEF p
<1>a. a \in 0..2 /\ l \in Nat /\ c \in Nat /\ m \in Nat /\ n \in Nat /\ 1 <= n /\ n <= ((a + l) + c) + m
  BY <1>1, <1>4
<1>5. CASE a = 2 /\ n = 1
  BY <1>1, <1>4, <1>5, OthersDo DEF DoneInFront
<1>6. CASE a > 0 /\ n = a
  BY <1>1, <1>4, <1>6, OthersDo DEF DoneInFront
<1>7. CASE n > a /\ n <= a + l
  <2>1. n - a \in 1..l /\ a + (n - a) = n
    BY <1>1, <1>4, <1>7
  <2>2. s = Instr("PUSH", <<Const(0)>>)
    BY <1>1, <1>4, <2>1
  <2> QED BY <1>7, <2>2, OthersDo DEF DoneInFront
<1>8. CASE n > a + l /\ n <= (a + l) + c
  <2> DEFINE v == NUM_REGS - (n - (a + l))
  <2>1. n - (a + l) \in 1..c /\ (a + l) + (n - (a + l)) = n
    BY <1>8, <1>a
  <2>2. c = NUM_REGS - STD_CALLEE_SAVE /\ Returns(f) # {}
    <3>1. c # 0 /\ c = Saved(f)
      BY <1>1, <2>1
    <3> QED BY <3>1 DEF Saved
  <2>3. v \in CalleeSaves /\ n = (a + l) + (NUM_REGS - v)
    BY <1>1, <1>2, <2>1, <2>2 DEF CalleeSaves
  <2>4. s = Mov(Reg(v), SaveTemp(f, v))
    BY <1>1, <1>4, <2>1, SavesAt
  <2> HIDE DEF v
  <2>5. EffectOf(s) = [kind |-> "none"]
    <3>1. InRegister(Reg(v)) /\ InRegister(SaveTemp(f, v)) /\ SaveTemp(f, v).temp
      BY RegsAreRegisters
    <3>2. SaveTemp(f, v) # Reg(FRAME_POINTER)
      BY <1>3, <3>1
    <3> QED BY <2>4, <3>1, <3>2, MovesAreQuiet
  <2> QED BY <2>2, <2>3, <2>4, <2>5, Zenon DEF DoneInFront
<1>9. CASE n > (a + l) + c
  <2> DEFINE k == n - ((a + l) + c)
             x == f.params[k].source
             y == f.params[k].destination
  <2>1. k \in 1..m /\ ((a + l) + c) + k = n
    BY <1>9, <1>a
  <2>2. s = Mov(x, y)
    BY <1>1, <1>4, <2>1
  <2>3. k \in DOMAIN f.params /\ f.params[k] \in Range(f.params)
    BY <1>1, <2>1, LenProperties DEF FunctionUnderstood, Range
  <2>4. InRegister(x) /\ InRegister(y) /\ y.temp
    BY <2>3 DEF FunctionUnderstood, FrameLeft
  <2>5. ShiftArgUID(y) \in NamedUIDs(f)
    BY <2>3 DEF NamedUIDs
  <2> HIDE DEF k, x, y
  <2>6. EffectOf(s) = [kind |-> "none"] /\ WritesOf(s) = Ordinary({ShiftArgUID(y)})
    BY <1>3, <2>2, <2>4, MovesAreQuiet
  <2> QED BY <1>9, <2>5, <2>6 DEF Ordinary, DoneInFront
<1>10. \/ a = 2 /\ n = 1
       \/ a > 0 /\ n = a
       \/ n > a /\ n <= a + l
       \/ n > a + l /\ n <= (a + l) + c
       \/ n > (a + l) + c
  BY <1>a
<1> QED BY <1>5, <1>6, <1>7, <1>8, <1>9, <1>10, Zenon

(* And each statement before a return.                                     *)
DoneBefore(f, r, t, w, i, x) ==
  \/ /\ i <= r /\ EffectOf(x) = [kind |-> "none"]
     /\ \E v \in CalleeSaves : i = (v - STD_CALLEE_SAVE) + 1 /\ x = Mov(SaveTemp(f, v), Reg(v))
  \/ /\ i = r + 1 /\ t = 1 /\ EffectOf(x) = [kind |-> "none"]
     /\ WritesOf(x) \subseteq {Shift(REG_DATA_0, FALSE)}
  \/ /\ i = (r + t) + 1 /\ WritesOf(x) = {}
     /\ EffectOf(x).kind = "release" /\ EffectOf(x).words = Data(f)
  \/ w = 1 /\ i = ((r + t) + 1) + 1 /\ EffectOf(x) = [kind |-> "popFP"] /\ WritesOf(x) = {}

LEMMA BackDoes ==
  ASSUME NEW f, FunctionUnderstood(f), FrameLeft(f), NEW omitFP, NEW k \in DOMAIN f.stmts,
         NEW s, s = f.stmts[k], s.kind = "return",
         NEW r, NEW t, NEW w, EpilogueIs(f, omitFP, s, r, t, w),
         NEW i \in 1..Len(Before(f, omitFP, s)), NEW x, x = Before(f, omitFP, s)[i]
  PROVE  DoneBefore(f, r, t, w, i, x)
<1> DEFINE e == Before(f, omitFP, s)
<1>1. /\ r \in Nat /\ r = Len(Restores(f)) /\ t \in {0, 1} /\ w \in {0, 1}
      /\ Len(s.args) = 1 <=> t = 1
      /\ Len(e) = ((r + t) + 1) + w
      /\ \A h \in 1..r : e[h] = Restores(f)[h]
      /\ t = 1 => e[r + 1] = Mov(s.args[1], Reg(REG_DATA_0))
      /\ e[(r + t) + 1] = Instr("ADD", <<Const(StackedDataSize(f)), Reg(STACK_POINTER)>>)
      /\ w = 1 => e[((r + t) + 1) + 1] = Instr("POP", <<Reg(FRAME_POINTER)>>)
  BY DEF EpilogueIs
<1>2. NUM_REGS \in Nat /\ STD_CALLEE_SAVE \in 1 .. NUM_REGS /\ FRAME_POINTER = NUM_REGS + 2
  BY StatementsAssumption DEF FRAME_POINTER
<1>3. \A n \in 0..NUM_REGS : Reg(n) # Reg(FRAME_POINTER)
  <2>1. \A n : Reg(n).num = n
    BY DEF Reg
  <2>2. \A n \in 0..NUM_REGS : n # FRAME_POINTER
    BY <1>2
  <2> QED BY <2>1, <2>2
<1> HIDE DEF e
<1>4. i \in 1..((r + t) + 1) + w /\ x = e[i]
  BY <1>1 DEF e
<1>5. CASE i <= r
  <2> DEFINE v == (STD_CALLEE_SAVE + i) - 1
  <2>1. i \in 1..r /\ r = Saved(f)
    BY <1>1, <1>4, <1>5, SavesAt
  <2>2. r = NUM_REGS - STD_CALLEE_SAVE
    BY <1>1, <2>1 DEF Saved
  <2>3. v \in CalleeSaves /\ i = (v - STD_CALLEE_SAVE) + 1 /\ v \in 0..NUM_REGS
    BY <1>1, <1>2, <2>1, <2>2 DEF CalleeSaves
  <2>4. x = Mov(SaveTemp(f, v), Reg(v))
    BY <1>1, <1>4, <2>1, SavesAt
  <2> HIDE DEF v
  <2>5. EffectOf(x) = [kind |-> "none"]
    <3>1. InRegister(Reg(v)) /\ InRegister(SaveTemp(f, v))
      BY RegsAreRegisters
    <3>2. Reg(v) # Reg(FRAME_POINTER)
      BY <1>3, <2>3
    <3> QED BY <2>4, <3>1, <3>2, MovesAreQuiet
  <2> QED BY <1>5, <2>3, <2>4, <2>5, Zenon DEF DoneBefore
<1>6. CASE i = r + 1 /\ t = 1
  <2>1. s \in Range(f.stmts)
    BY DEF Range
  <2>2. /\ s.args \in Seq(Range(s.args))
        /\ \A h \in ArgsNaming(s) : InRegister(s.args[h])
        /\ \A h \in DOMAIN s.args \ ArgsNaming(s) : s.kind = "call" /\ h = 1
    BY <2>1 DEF FunctionUnderstood, Understood
  <2>3. InRegister(s.args[1])
    BY <1>1, <1>6, <2>2, LenProperties
  <2>4. InRegister(Reg(REG_DATA_0)) /\ Reg(REG_DATA_0) # Reg(FRAME_POINTER)
        /\ ShiftArgUID(Reg(REG_DATA_0)) = Shift(REG_DATA_0, FALSE)
    <3>1. REG_DATA_0 \in 0..NUM_REGS
      BY <1>2 DEF REG_DATA_0
    <3>2. ShiftArgUID(Reg(REG_DATA_0)) = Shift(REG_DATA_0, FALSE)
      BY DEF ShiftArgUID, Reg
    <3> QED BY <1>3, <3>1, <3>2, RegsAreRegisters
  <2>5. x = Mov(s.args[1], Reg(REG_DATA_0))
    BY <1>1, <1>4, <1>6
  <2>6. EffectOf(x) = [kind |-> "none"] /\ WritesOf(x) = Ordinary({Shift(REG_DATA_0, FALSE)})
    BY <2>3, <2>4, <2>5, MovesAreQuiet
  <2> QED BY <1>6, <2>6 DEF Ordinary, DoneBefore
<1>7. CASE i = (r + t) + 1
  <2>1. x = Instr("ADD", <<Const(StackedDataSize(f)), Reg(STACK_POINTER)>>)
    BY <1>1, <1>4, <1>7
  <2>2. EffectOf(x) = [kind |-> "release", words |-> StackedDataSize(f) \div 4] /\ WritesOf(x) = {}
    BY <2>1, OthersDo
  <2>3. StackedDataSize(f) \div 4 = Data(f)
    BY LocalsTake DEF FrameLeft, Data
  <2>4. EffectOf(x).kind = "release" /\ EffectOf(x).words = Data(f)
    BY <2>2, <2>3
  <2> QED BY <1>7, <2>2, <2>4, Zenon DEF DoneBefore
<1>8. CASE w = 1 /\ i = ((r + t) + 1) + 1
  BY <1>1, <1>4, <1>8, OthersDo DEF DoneBefore
<1>9. \/ i <= r
      \/ i = r + 1 /\ t = 1
      \/ i = (r + t) + 1
      \/ w = 1 /\ i = ((r + t) + 1) + 1
  <2>1. r \in Nat /\ t \in {0, 1} /\ w \in {0, 1} /\ i \in 1..((r + t) + 1) + w
    BY <1>1, <1>4
  <2> QED BY <2>1
<1> QED BY <1>5, <1>6, <1>7, <1>8, <1>9, Zenon

(* What a register was when the function was called, and where that is.    *)
Kept(x, v) ==
  x \in Uid /\ ~ShiftedIsSpecialReg(x) /\ left[x] = entry[Shift(v, FALSE)]

LEMMA KeptOn ==
  ASSUME IInv, phase = "run", Execute(pc), entry' = entry,
         NEW x, NEW v, Kept(x, v), x \notin fn.writes[pc]
  PROVE  Kept(x, v)'
<1>1. left'[x] = left[x]
  BY ExecuteHolds DEF Kept
<1> QED BY <1>1 DEF Kept, Uid

LEMMA KeptMoved ==
  ASSUME IInv, phase = "run", Execute(pc), entry' = entry,
         NEW f, NEW omitFP, NEW o, IsOf(f, omitFP, o),
         NEW a, InRegister(a), NEW b, InRegister(b), a.temp \/ b.temp,
         pc \in DOMAIN Framed(f, omitFP), Framed(f, omitFP)[pc] = Mov(a, b),
         NEW v, Kept(ShiftArgUID(a), v)
  PROVE  Kept(ShiftArgUID(b), v)'
<1> DEFINE x == ShiftArgUID(a)
           y == ShiftArgUID(b)
           s == Mov(a, b)
<1>1. FlowTypeOK /\ FunctionUnderstood(f) /\ fn = Build(f, omitFP) /\ pc \in Nodes /\ GraphInv
  BY DEF IInv, FInv, TypeOK, IsOf
<1>2. /\ fn.reads[pc] = ReadsOf(s) /\ fn.writes[pc] = WritesOf(s) /\ fn.defs[pc] = DefsOf(s)
      /\ fn.copies[pc] = IsCopy(s) /\ fn.idle[pc] = UselessArithmetic(s) /\ fn.isMove[pc] = IsMoveOf(s)
      /\ WritesOf(s) \subseteq Uid
  BY <1>1, BuildHas
<1>3. x \in Uid /\ ~ShiftedIsSpecialReg(x) /\ left[x] = entry[Shift(v, FALSE)]
  BY DEF Kept
<1> HIDE DEF x, y, s
<1>4. /\ ReadsOf(s) = Ordinary({x}) /\ WritesOf(s) = Ordinary({y}) /\ DefsOf(s) = Ordinary({y})
      /\ ~ShiftedIsSpecialReg(x) /\ ~ShiftedIsSpecialReg(y) => IsCopy(s)
      /\ ~UselessArithmetic(s) /\ IsMoveOf(s)
  BY MoveDoes DEF x, y, s
<1>5. fn.defs[pc] # {}
  BY <1>1, <1>2, <1>4 DEF GraphInv, Ran, IsOneToOne
<1>6. ~ShiftedIsSpecialReg(y)
  BY <1>2, <1>4, <1>5 DEF Ordinary
<1>7. /\ fn.reads[pc] = {x} /\ fn.writes[pc] = {y} /\ fn.copies[pc] /\ ~fn.idle[pc] /\ y \in Uid
  BY <1>2, <1>3, <1>4, <1>6 DEF Ordinary
<1>8. left'[y] = left[x]
  BY <1>3, <1>7, ExecuteHolds
<1> QED BY <1>3, <1>6, <1>7, <1>8 DEF Kept, Uid, y

(* The frame before the statement n of the prologue: a words of it are the *)
(* frame pointer's, l are data.                                            *)
FrontFrame(a, l, n) ==
  IsFrame(IF a = 2 /\ n > 1 THEN 3 ELSE 2,
          IF n <= a THEN 0 ELSE IF n <= a + l THEN (n - a) - 1 ELSE l,
          IF a > 0 /\ n > a THEN "own" ELSE "caller's")

LEMMA FrontFrameStep ==
  ASSUME NEW a \in 0..2, NEW l \in Nat, NEW n \in Nat, n > 0, FrontFrame(a, l, n),
         NEW e, Effect(e),
         \/ a = 2 /\ n = 1 /\ e = [kind |-> "pushFP"]
         \/ a > 0 /\ n = a /\ e = [kind |-> "setFP"]
         \/ n > a /\ n <= a + l /\ e = [kind |-> "push"]
         \/ n > a + l /\ e = [kind |-> "none"]
  PROVE  FrontFrame(a, l, n + 1)'
<1>1. CASE a = 2 /\ n = 1 /\ e = [kind |-> "pushFP"]
  <2>1. IsFrame(2, 0, "caller's")
    BY <1>1 DEF FrontFrame
  <2>2. e.kind = "pushFP"
    BY <1>1
  <2>3. IsFrame(3, 0, "caller's")'
    BY <2>1, <2>2, EffectsAre
  <2> QED BY <1>1, <2>3 DEF FrontFrame
<1>2. CASE a > 0 /\ n = a /\ e = [kind |-> "setFP"]
  <2>1. PICK p \in {2, 3} : p = IF a = 2 THEN 3 ELSE 2
    OBVIOUS
  <2>2. IsFrame(p, 0, "caller's")
    BY <1>2, <2>1 DEF FrontFrame
  <2>3. e.kind = "setFP"
    BY <1>2
  <2>4. IsFrame(p, 0, "own")'
    BY <2>2, <2>3, EffectsAre
  <2>5. /\ p = IF a = 2 /\ n + 1 > 1 THEN 3 ELSE 2
        /\ 0 = IF n + 1 <= a THEN 0 ELSE IF n + 1 <= a + l THEN ((n + 1) - a) - 1 ELSE l
        /\ "own" = IF a > 0 /\ n + 1 > a THEN "own" ELSE "caller's"
    BY <1>2, <2>1
  <2> QED BY <2>4, <2>5 DEF FrontFrame
<1>3. CASE n > a /\ n <= a + l /\ e = [kind |-> "push"]
  <2>1. PICK p \in {2, 3}, w \in {"own", "caller's"} :
          p = (IF a = 2 THEN 3 ELSE 2) /\ w = (IF a > 0 THEN "own" ELSE "caller's")
    OBVIOUS
  <2>2. PICK d \in Nat : d = (n - a) - 1
    BY <1>3
  <2>3. IsFrame(p, d, w)
    BY <1>3, <2>1, <2>2 DEF FrontFrame
  <2>4. e.kind = "push"
    BY <1>3
  <2>5. IsFrame(p, d + 1, w)'
    BY <2>3, <2>4, EffectsAre
  <2>6. /\ p = IF a = 2 /\ n + 1 > 1 THEN 3 ELSE 2
        /\ d + 1 = IF n + 1 <= a THEN 0 ELSE IF n + 1 <= a + l THEN ((n + 1) - a) - 1 ELSE l
        /\ w = IF a > 0 /\ n + 1 > a THEN "own" ELSE "caller's"
    BY <1>3, <2>1, <2>2
  <2> QED BY <2>5, <2>6 DEF FrontFrame
<1>4. CASE n > a + l /\ e = [kind |-> "none"]
  <2>1. PICK p \in {2, 3}, w \in {"own", "caller's"} :
          p = (IF a = 2 THEN 3 ELSE 2) /\ w = (IF a > 0 THEN "own" ELSE "caller's")
    OBVIOUS
  <2>2. IsFrame(p, l, w)
    BY <1>4, <2>1 DEF FrontFrame
  <2>3. e.kind = "none"
    BY <1>4
  <2>4. IsFrame(p, l, w)'
    BY <2>2, <2>3, EffectsAre
  <2>5. /\ p = IF a = 2 /\ n + 1 > 1 THEN 3 ELSE 2
        /\ l = IF n + 1 <= a THEN 0 ELSE IF n + 1 <= a + l THEN ((n + 1) - a) - 1 ELSE l
        /\ w = IF a > 0 /\ n + 1 > a THEN "own" ELSE "caller's"
    BY <1>4, <2>1
  <2> QED BY <2>4, <2>5 DEF FrontFrame
<1> QED BY <1>1, <1>2, <1>3, <1>4

(* Where it is before the statement n of the prologue.                     *)
HeldInFront(f, omitFP, n, v) ==
  IF n <= (Fronted(f, omitFP) + Data(f)) + (NUM_REGS - v) THEN Shift(v, FALSE) ELSE SaveUID(f, v)

InFront(f, omitFP, n) ==
  /\ FrontFrame(Fronted(f, omitFP), Data(f), n)
  /\ Returns(f) # {} => \A v \in CalleeSaves : Kept(HeldInFront(f, omitFP, n, v), v)

(* In the function, and before the statement i of those before a return:   *)
(* the statement z releases the data.                                      *)
OwnFrame(a, d) == IsFrame(IF a = 2 THEN 3 ELSE 2, d, IF a > 0 THEN "own" ELSE "caller's")

BackFrame(a, l, z, i) ==
  /\ i <= z => OwnFrame(a, l)
  /\ i = z + 1 => OwnFrame(a, 0)
  /\ i > z + 1 => IsFrame(2, 0, "caller's")

ReleaseAt(f, s) == (Len(Restores(f)) + (IF Len(s.args) = 1 THEN 1 ELSE 0)) + 1

HeldInPiece(f, s, i, v) ==
  IF s.kind = "return" /\ i > (v - STD_CALLEE_SAVE) + 1 THEN Shift(v, FALSE) ELSE SaveUID(f, v)

Piece(f, omitFP, j, i) ==
  /\ IF f.stmts[j].kind = "return"
       THEN BackFrame(Fronted(f, omitFP), Data(f), ReleaseAt(f, f.stmts[j]), i)
       ELSE OwnFrame(Fronted(f, omitFP), Data(f))
  /\ Returns(f) # {} => \A v \in CalleeSaves : Kept(HeldInPiece(f, f.stmts[j], i, v), v)

LEMMA BackFrameStep ==
  ASSUME NEW a \in 0..2, NEW l \in Nat, NEW z \in Nat, NEW i \in Nat, BackFrame(a, l, z, i),
         NEW e, Effect(e),
         \/ i < z /\ e = [kind |-> "none"]
         \/ i = z /\ e.kind = "release" /\ e.words = l
         \/ a = 2 /\ i = z + 1 /\ e = [kind |-> "popFP"]
  PROVE  BackFrame(a, l, z, i + 1)'
<1>1. PICK p \in {2, 3}, w \in {"own", "caller's"} :
        p = (IF a = 2 THEN 3 ELSE 2) /\ w = (IF a > 0 THEN "own" ELSE "caller's")
  OBVIOUS
<1>2. \A d : OwnFrame(a, d) <=> IsFrame(p, d, w)
  BY <1>1 DEF OwnFrame
<1>3. \A d : OwnFrame(a, d)' <=> IsFrame(p, d, w)'
  BY <1>1 DEF OwnFrame
<1>4. CASE i < z /\ e = [kind |-> "none"]
  <2>1. IsFrame(p, l, w) /\ e.kind = "none"
    BY <1>2, <1>4 DEF BackFrame
  <2>2. IsFrame(p, l, w)'
    BY <2>1, EffectsAre
  <2>3. i + 1 <= z /\ i + 1 # z + 1 /\ ~(i + 1 > z + 1)
    BY <1>4
  <2> QED BY <1>3, <2>2, <2>3 DEF BackFrame
<1>5. CASE i = z /\ e.kind = "release" /\ e.words = l
  <2>1. IsFrame(p, l, w)
    BY <1>2, <1>5 DEF BackFrame
  <2>2. IsFrame(p, 0, w)'
    BY <1>5, <2>1, EffectsAre
  <2>3. ~(i + 1 <= z) /\ i + 1 = z + 1 /\ ~(i + 1 > z + 1)
    BY <1>5
  <2> QED BY <1>3, <2>2, <2>3 DEF BackFrame
<1>6. CASE a = 2 /\ i = z + 1 /\ e = [kind |-> "popFP"]
  <2>1. p = 3 /\ e.kind = "popFP"
    BY <1>1, <1>6
  <2>2. IsFrame(p, 0, w)
    BY <1>2, <1>6 DEF BackFrame
  <2>3. IsFrame(2, 0, "caller's")'
    BY <2>1, <2>2, EffectsAre
  <2>4. ~(i + 1 <= z) /\ i + 1 # z + 1 /\ i + 1 > z + 1
    BY <1>6
  <2> QED BY <2>3, <2>4 DEF BackFrame
<1> QED BY <1>4, <1>5, <1>6

(* A register and what it is saved in are different uids.                  *)
LEMMA HeldApart ==
  ASSUME NEW f, FunctionUnderstood(f), FrameLeft(f), NEW v \in CalleeSaves, NEW w \in CalleeSaves
  PROVE  /\ v \in Nat /\ v >= STD_CALLEE_SAVE /\ v < NUM_REGS
         /\ Shift(v, FALSE) # SaveUID(f, w) /\ Shift(v, FALSE) = v + 1
         /\ v # w => SaveUID(f, v) # SaveUID(f, w) /\ Shift(v, FALSE) # Shift(w, FALSE)
         /\ SaveUID(f, v) \notin NamedUIDs(f)
         /\ Shift(v, FALSE) # Shift(REG_DATA_0, FALSE) /\ SaveUID(f, v) # Shift(REG_DATA_0, FALSE)
         /\ Shift(v, FALSE) \in Registers /\ ~ShiftedIsSpecialReg(Shift(v, FALSE))
         /\ \A n \in 0 .. NUM_REGS - 1 : SaveUID(f, v) # Shift(n, FALSE)
<1>1. NUM_REGS \in Nat /\ STD_CALLEE_SAVE \in 1 .. NUM_REGS /\ FIRST_TEMPORARY = NUM_REGS + 5
  BY StatementsAssumption DEF FIRST_TEMPORARY
<1>2. \A u \in CalleeSaves : u \in Nat /\ u >= STD_CALLEE_SAVE /\ u < NUM_REGS
  BY <1>1 DEF CalleeSaves
<1>4. /\ \A u \in CalleeSaves : /\ SaveUID(f, u) \in Nat /\ SaveUID(f, u) >= FIRST_TEMPORARY
                                /\ SaveUID(f, u) \notin NamedUIDs(f)
      /\ \A u, x \in CalleeSaves : u # x => SaveUID(f, u) # SaveUID(f, x)
  BY SavedApart
<1>5. \A u \in CalleeSaves, n \in 0 .. NUM_REGS - 1 : SaveUID(f, u) # Shift(n, FALSE)
  <2> SUFFICES ASSUME NEW u \in CalleeSaves, NEW n \in 0 .. NUM_REGS - 1, SaveUID(f, u) = Shift(n, FALSE)
               PROVE  FALSE
    OBVIOUS
  <2>1. SaveUID(f, u) >= NUM_REGS + 5
    BY <1>1, <1>4
  <2>2. Shift(n, FALSE) = n + 1
    BY DEF Shift
  <2>3. n + 1 >= NUM_REGS + 5
    BY <2>1, <2>2
  <2> QED BY <1>1, <2>3
<1>6. v \in 0 .. NUM_REGS - 1 /\ w \in 0 .. NUM_REGS - 1 /\ 0 \in 0 .. NUM_REGS - 1 /\ v # 0
  BY <1>1, <1>2
<1>7. Shift(v, FALSE) \in Registers /\ ~ShiftedIsSpecialReg(Shift(v, FALSE))
  BY <1>6, DataRegistersAre
<1>8. Shift(v, FALSE) = v + 1
  BY <1>2 DEF Shift
<1>9. v # w => SaveUID(f, v) # SaveUID(f, w)
  BY <1>4
<1>10. v # w => Shift(v, FALSE) # Shift(w, FALSE)
  BY <1>2 DEF Shift
<1>11. Shift(v, FALSE) # Shift(0, FALSE)
  BY <1>2, <1>6 DEF Shift
<1>12. Shift(v, FALSE) # SaveUID(f, w) /\ SaveUID(f, v) # Shift(0, FALSE)
  BY <1>5, <1>6
<1> QED BY <1>2, <1>4, <1>5, <1>7, <1>8, <1>9, <1>10, <1>11, <1>12 DEF REG_DATA_0

LEMMA FrontStep ==
  ASSUME IInv, phase = "run", Execute(pc), Effect(fn.effect[pc]), entry' = entry,
         NEW f, FrameLeft(f), NEW omitFP, NEW o, IsOf(f, omitFP, o),
         NEW n, n = pc, InPrologue(f, omitFP, n), InFront(f, omitFP, n)
  PROVE  InFront(f, omitFP, n + 1)'
<1>1. /\ FlowTypeOK /\ FunctionUnderstood(f) /\ fn = Build(f, omitFP) /\ Layout(f, omitFP, o)
      /\ n \in 1..Len(Prologue(f, omitFP)) /\ Len(Prologue(f, omitFP)) \in Nat
  <2>1. FlowTypeOK /\ FunctionUnderstood(f) /\ fn = Build(f, omitFP) /\ Layout(f, omitFP, o)
    BY DEF IInv, TypeOK, IsOf
  <2> QED BY <2>1, FramedIsSeq, LenProperties DEF InPrologue
<1>2. PICK a, l, c, m : PrologueIs(f, omitFP, a, l, c, m)
  BY <1>1, PrologueAt
<1>3. /\ a = Fronted(f, omitFP) /\ l = Data(f) /\ c = Saved(f)
      /\ a \in 0..2 /\ l \in Nat /\ c \in Nat /\ n \in Nat /\ n > 0
  BY <1>1, <1>2 DEF PrologueIs
<1>4. PICK s : s = Prologue(f, omitFP)[n]
  OBVIOUS
<1>5. n \in DOMAIN Framed(f, omitFP) /\ Framed(f, omitFP)[n] = s
  BY <1>1, <1>4 DEF Layout
<1>6. fn.effect[n] = EffectOf(s) /\ fn.writes[n] = WritesOf(s)
  BY <1>1, <1>5, BuildHas
<1>7. DoneInFront(f, a, l, c, n, s)
  BY <1>1, <1>2, <1>4, FrontDoes
<1>8. NUM_REGS \in Nat /\ STD_CALLEE_SAVE \in 1 .. NUM_REGS
      /\ \A v \in CalleeSaves : v \in Nat /\ v >= STD_CALLEE_SAVE /\ v < NUM_REGS
  BY StatementsAssumption DEF CalleeSaves
<1>9. FrontFrame(a, l, n + 1)'
  <2> DEFINE e == EffectOf(s)
  <2>1. FrontFrame(a, l, n) /\ Effect(e)
    BY <1>3, <1>6 DEF InFront
  <2>2. \/ a = 2 /\ n = 1 /\ e = [kind |-> "pushFP"]
        \/ a > 0 /\ n = a /\ e = [kind |-> "setFP"]
        \/ n > a /\ n <= a + l /\ e = [kind |-> "push"]
        \/ n > a + l /\ e = [kind |-> "none"]
    <3>1. \A v \in CalleeSaves : n = (a + l) + (NUM_REGS - v) => n > a + l
      BY <1>3, <1>8
    <3>2. n > (a + l) + c => n > a + l
      BY <1>3
    <3> HIDE DEF e
    <3> QED BY <1>7, <3>1, <3>2, Zenon DEF e, DoneInFront
  <2> HIDE DEF e
  <2> QED BY <1>3, <2>1, <2>2, FrontFrameStep
<1>10. ASSUME Returns(f) # {}, NEW v \in CalleeSaves
       PROVE  Kept(HeldInFront(f, omitFP, n + 1, v), v)'
  <2> DEFINE b == (a + l) + (NUM_REGS - v)
             x == HeldInFront(f, omitFP, n, v)
             y == HeldInFront(f, omitFP, n + 1, v)
  <2>1. Kept(x, v)
    BY <1>10 DEF InFront
  <2>2. /\ x = IF n <= b THEN Shift(v, FALSE) ELSE SaveUID(f, v)
        /\ y = IF n + 1 <= b THEN Shift(v, FALSE) ELSE SaveUID(f, v)
    BY <1>3 DEF HeldInFront
  <2>3. b \in Nat /\ b > a + l /\ (b = n => v = NUM_REGS - (n - (a + l)))
    BY <1>3, <1>8
  <2>4. c = NUM_REGS - STD_CALLEE_SAVE /\ b <= (a + l) + c
    <3>1. c = NUM_REGS - STD_CALLEE_SAVE
      BY <1>3, <1>10 DEF Saved
    <3> QED BY <1>3, <1>8, <3>1
  <2> HIDE DEF b, x, y
  <2>5. ASSUME WritesOf(s) = {}, n <= a + l PROVE Kept(y, v)'
    <3>1. n <= b /\ n + 1 <= b
      BY <1>3, <2>3, <2>5
    <3>2. x = y
      BY <2>2, <3>1
    <3>3. x \notin fn.writes[pc]
      BY <1>6, <2>5
    <3> QED BY <2>1, <3>2, <3>3, KeptOn
  <2>6. ASSUME NEW w \in CalleeSaves, n = (a + l) + (NUM_REGS - w), s = Mov(Reg(w), SaveTemp(f, w))
        PROVE  Kept(y, v)'
    <3>0. /\ InRegister(Reg(w)) /\ InRegister(SaveTemp(f, w)) /\ SaveTemp(f, w).temp
          /\ ShiftArgUID(Reg(w)) = Shift(w, FALSE)
      BY RegsAreRegisters DEF ShiftArgUID, Reg
    <3>1. CASE w = v
      <4>1. n <= b /\ ~(n + 1 <= b)
        BY <1>3, <1>8, <2>6, <3>1 DEF b
      <4>2. x = Shift(v, FALSE) /\ y = SaveUID(f, v)
        BY <2>2, <4>1
      <4>3. Kept(ShiftArgUID(Reg(w)), v)
        BY <2>1, <3>0, <3>1, <4>2
      <4>4. Kept(ShiftArgUID(SaveTemp(f, w)), v)'
        BY <1>5, <2>6, <3>0, <4>3, KeptMoved
      <4> QED BY <3>1, <4>2, <4>4 DEF SaveUID
    <3>2. CASE w # v
      <4>1. n <= b <=> n + 1 <= b
        BY <1>3, <1>8, <2>6, <3>2 DEF b
      <4>2. x = y
        BY <2>2, <4>1
      <4>3. WritesOf(s) \subseteq {SaveUID(f, w)}
        BY <2>6, <3>0, MoveDoes DEF Ordinary, SaveUID
      <4>4. x # SaveUID(f, w)
        BY <1>1, <2>2, <3>2, HeldApart
      <4>5. x \notin fn.writes[pc]
        BY <1>6, <4>3, <4>4
      <4> QED BY <2>1, <4>2, <4>5, KeptOn
    <3> QED BY <3>1, <3>2
  <2>7. ASSUME n > (a + l) + c, WritesOf(s) \subseteq NamedUIDs(f) PROVE Kept(y, v)'
    <3>1. ~(n <= b) /\ ~(n + 1 <= b)
      BY <1>3, <2>3, <2>4, <2>7
    <3>2. x = SaveUID(f, v) /\ y = SaveUID(f, v)
      BY <2>2, <3>1
    <3>3. x \notin fn.writes[pc]
      BY <1>1, <1>6, <2>7, <3>2, HeldApart
    <3> QED BY <2>1, <3>2, <3>3, KeptOn
  <2>8. /\ a = 2 /\ n = 1 => n <= a + l
        /\ a > 0 /\ n = a => n <= a + l
    BY <1>3
  <2>9. Kept(y, v)'
    BY <1>7, <2>5, <2>6, <2>7, <2>8 DEF DoneInFront
  <2> QED BY <2>9 DEF y
<1>11. Returns(f) # {} => \A v \in CalleeSaves : Kept(HeldInFront(f, omitFP, n + 1, v), v)'
  BY <1>10, Zenon
<1>12. FrontFrame(Fronted(f, omitFP), Data(f), n + 1)'
  BY <1>3, <1>9
<1> QED BY <1>11, <1>12, Zenon DEF InFront

(* The moves before a call write no more than the callee's arguments.      *)
LEMMA PassedDoes ==
  ASSUME NEW f, FunctionUnderstood(f), NEW omitFP, NEW s \in Range(f.stmts), s.kind = "call",
         NEW i \in 1..Len(Before(f, omitFP, s)), NEW x, x = Before(f, omitFP, s)[i]
  PROVE  /\ EffectOf(x) = [kind |-> "none"]
         /\ \E n \in 0 .. NUM_REGS - 1 : WritesOf(x) \subseteq {Shift(n, FALSE)}
<1> DEFINE a == s.args[i + 1]
           b == s.params[i].source
<1>1. Understood(s)
  BY DEF FunctionUnderstood
<1>2. /\ s.params \in Seq(Range(s.params)) /\ Len(s.args) = 1 + Len(s.params)
      /\ \A p \in Range(s.params) : InDataRegister(p.source)
      /\ s.args \in Seq(Range(s.args))
      /\ \A h \in ArgsNaming(s) : InRegister(s.args[h])
      /\ \A h \in DOMAIN s.args \ ArgsNaming(s) : s.kind = "call" /\ h = 1
  BY <1>1 DEF Understood
<1>3. /\ Len(s.params) \in Nat /\ DOMAIN s.params = 1..Len(s.params)
      /\ DOMAIN s.args = 1..Len(s.args)
      /\ Before(f, omitFP, s) = Passed(s) /\ Len(Before(f, omitFP, s)) = Len(s.params)
  <2>1. Before(f, omitFP, s) = Passed(s)
    BY DEF Before
  <2> QED BY <1>2, <2>1, PiecesAreSeqs, LenProperties
<1>4. x = Mov(a, b)
  BY <1>2, <1>3 DEF Passed
<1>5. InRegister(a) /\ InDataRegister(b)
  <2>1. i \in 1..Len(s.params) /\ i + 1 \in DOMAIN s.args /\ i + 1 # 1
    BY <1>2, <1>3
  <2> QED BY <1>2, <1>3, <2>1 DEF Range
<1> HIDE DEF a, b
<1>6. /\ InRegister(b) /\ ~b.temp /\ b.num \in 0 .. NUM_REGS - 1
  BY <1>5 DEF InDataRegister
<1>7. b # Reg(FRAME_POINTER)
  <2>1. FRAME_POINTER \notin 0 .. NUM_REGS - 1
    BY StatementsAssumption DEF FRAME_POINTER
  <2> QED BY <1>6, <2>1 DEF Reg
<1>8. ShiftArgUID(b) = Shift(b.num, FALSE)
  BY <1>6 DEF ShiftArgUID, Shift
<1>9. EffectOf(x) = [kind |-> "none"] /\ WritesOf(x) = Ordinary({ShiftArgUID(b)})
  BY <1>4, <1>5, <1>6, <1>7, MovesAreQuiet
<1> QED BY <1>6, <1>8, <1>9 DEF Ordinary

(* Where the frame is the function's own, nothing but what Frame adds      *)
(* changes it.                                                             *)
LEMMA OwnFrameStays ==
  ASSUME NEW a \in 0..2, NEW d \in Nat, OwnFrame(a, d), NEW e, Effect(e), e.kind \in {"none", "return"}
  PROVE  OwnFrame(a, d)'
<1>1. PICK p \in {2, 3}, w \in {"own", "caller's"} :
        p = (IF a = 2 THEN 3 ELSE 2) /\ w = (IF a > 0 THEN "own" ELSE "caller's")
  OBVIOUS
<1>2. IsFrame(p, d, w)
  BY <1>1 DEF OwnFrame
<1>3. IsFrame(p, d, w)'
  BY <1>2, EffectsAre
<1> QED BY <1>1, <1>3 DEF OwnFrame

LEMMA FrontedIs ==
  ASSUME NEW f, FunctionUnderstood(f), FrameLeft(f), NEW omitFP
  PROVE  Fronted(f, omitFP) \in 0..2 /\ Data(f) \in Nat
BY LocalsTake DEF Fronted, Data, FrameLeft

LEMMA PieceStep ==
  ASSUME IInv, phase = "run", Execute(pc), Effect(fn.effect[pc]), entry' = entry,
         NEW f, FrameLeft(f), NEW omitFP, NEW o, IsOf(f, omitFP, o),
         NEW j, NEW i, InPiece(f, omitFP, o, pc, j, i),
         i <= Len(Before(f, omitFP, f.stmts[j])), Piece(f, omitFP, j, i)
  PROVE  Piece(f, omitFP, j, i + 1)'
<1> DEFINE s == f.stmts[j]
           e == Before(f, omitFP, s)
           a == Fronted(f, omitFP)
           l == Data(f)
<1>1. FlowTypeOK /\ FunctionUnderstood(f) /\ fn = Build(f, omitFP) /\ Layout(f, omitFP, o)
  BY DEF IInv, TypeOK, IsOf
<1>2. j \in 1..Len(f.stmts) /\ j \in DOMAIN f.stmts /\ i \in 1..(Len(e) + 1) /\ s \in Range(f.stmts)
  BY <1>1, LenProperties DEF InPiece, FunctionUnderstood, Range
<1>3. Len(e) \in Nat /\ i \in 1..Len(e) /\ i \in Nat
  BY <1>1, <1>2, FramedIsSeq, LenProperties
<1>4. PICK x : x = e[i]
  OBVIOUS
<1>5. pc \in DOMAIN Framed(f, omitFP) /\ Framed(f, omitFP)[pc] = x
  BY <1>1, <1>4 DEF Layout, PieceAt
<1>6. fn.effect[pc] = EffectOf(x) /\ fn.writes[pc] = WritesOf(x)
  BY <1>1, <1>5, BuildHas
<1>7. a \in 0..2 /\ l \in Nat
  BY <1>1, FrontedIs
<1>8. Returns(f) # {} => \A v \in CalleeSaves : Kept(HeldInPiece(f, s, i, v), v)
  BY DEF Piece
<1>9. CASE s.kind = "call"
  <2>1. EffectOf(x) = [kind |-> "none"]
    BY <1>1, <1>2, <1>3, <1>4, <1>9, PassedDoes
  <2>2. PICK n \in 0 .. NUM_REGS - 1 : WritesOf(x) \subseteq {Shift(n, FALSE)}
    BY <1>1, <1>2, <1>3, <1>4, <1>9, PassedDoes
  <2>3. OwnFrame(a, l)
    BY <1>9 DEF Piece
  <2> HIDE DEF s, e, a, l
  <2>4. OwnFrame(a, l)'
    <3>1. EffectOf(x).kind = "none" /\ Effect(EffectOf(x))
      BY <1>6, <2>1
    <3> QED BY <1>7, <2>3, <3>1, OwnFrameStays
  <2>5. ASSUME Returns(f) # {}, NEW v \in CalleeSaves
        PROVE  Kept(HeldInPiece(f, s, i + 1, v), v)'
    <3>1. \A k : HeldInPiece(f, s, k, v) = SaveUID(f, v)
      BY <1>9 DEF HeldInPiece
    <3>2. Kept(SaveUID(f, v), v)
      BY <1>8, <2>5, <3>1
    <3>3. SaveUID(f, v) \notin fn.writes[pc]
      <4>1. SaveUID(f, v) # Shift(n, FALSE)
        BY <1>1, HeldApart, Zenon
      <4> QED BY <1>6, <2>2, <4>1
    <3>4. Kept(SaveUID(f, v), v)'
      BY <3>2, <3>3, KeptOn
    <3>5. HeldInPiece(f, s, i + 1, v) = SaveUID(f, v)
      BY <3>1
    <3> QED BY <3>4, <3>5
  <2> QED BY <1>9, <2>4, <2>5, Zenon DEF Piece, s, a, l
<1>10. CASE s.kind = "return"
  <2>1. PICK r, t, w : EpilogueIs(f, omitFP, s, r, t, w)
    BY <1>1, <1>2, <1>10, EpilogueAt
  <2>2. /\ r \in Nat /\ r = Len(Restores(f)) /\ t \in {0, 1} /\ w \in {0, 1}
        /\ Len(s.args) = 1 <=> t = 1
        /\ omitFP \/ f.main <=> w = 0
    BY <2>1 DEF EpilogueIs
  <2>3. DoneBefore(f, r, t, w, i, x)
    BY <1>1, <1>2, <1>3, <1>4, <1>10, <2>1, BackDoes
  <2>4. PICK z \in Nat : z = (r + t) + 1 /\ z = ReleaseAt(f, s)
    <3>1. ReleaseAt(f, s) = (r + t) + 1
      BY <2>2 DEF ReleaseAt
    <3> QED BY <2>2, <3>1
  <2>5. w = 1 => a = 2
    BY <2>2 DEF Fronted
  <2>6. Returns(f) # {} /\ r = NUM_REGS - STD_CALLEE_SAVE
    <3>1. Returns(f) # {}
      BY <1>2, <1>10 DEF Returns
    <3> QED BY <2>2, <3>1, SavesAt DEF Saved
  <2>7. BackFrame(a, l, z, i)
    BY <1>10, <2>4 DEF Piece
  <2> HIDE DEF s, e, a, l
  <2>8. BackFrame(a, l, z, i + 1)'
    <3> DEFINE y == EffectOf(x)
    <3>1. Effect(y)
      BY <1>6
    <3>2. \/ i < z /\ y = [kind |-> "none"]
          \/ i = z /\ y.kind = "release" /\ y.words = l
          \/ a = 2 /\ i = z + 1 /\ y = [kind |-> "popFP"]
      <4>1. /\ i <= r => i < z
            /\ i = r + 1 /\ t = 1 => i < z
            /\ i = ((r + t) + 1) + 1 => i = z + 1
        BY <1>3, <2>2, <2>4
      <4> HIDE DEF y
      <4> QED BY <2>3, <2>4, <2>5, <4>1 DEF DoneBefore, y, l
    <3> HIDE DEF y
    <3> QED BY <1>3, <1>7, <2>7, <3>1, <3>2, BackFrameStep
  <2>9. NUM_REGS \in Nat /\ STD_CALLEE_SAVE \in 1 .. NUM_REGS
        /\ \A v \in CalleeSaves : v \in Nat /\ v >= STD_CALLEE_SAVE /\ v < NUM_REGS
    BY StatementsAssumption DEF CalleeSaves
  <2>10. ASSUME NEW v \in CalleeSaves
         PROVE  Kept(HeldInPiece(f, s, i + 1, v), v)'
    <3> DEFINE b == (v - STD_CALLEE_SAVE) + 1
               y == HeldInPiece(f, s, i, v)
               y1 == HeldInPiece(f, s, i + 1, v)
    <3>1. Kept(y, v)
      BY <1>8, <2>6
    <3>2. /\ y = IF i > b THEN Shift(v, FALSE) ELSE SaveUID(f, v)
          /\ y1 = IF i + 1 > b THEN Shift(v, FALSE) ELSE SaveUID(f, v)
      BY <1>10 DEF HeldInPiece
    <3>3. b \in 1..r
      BY <2>6, <2>9
    <3> HIDE DEF b, y, y1
    <3>4. ASSUME NEW u \in CalleeSaves, i = (u - STD_CALLEE_SAVE) + 1, x = Mov(SaveTemp(f, u), Reg(u))
          PROVE  Kept(y1, v)'
      <4>0. /\ InRegister(Reg(u)) /\ InRegister(SaveTemp(f, u)) /\ SaveTemp(f, u).temp
            /\ ShiftArgUID(Reg(u)) = Shift(u, FALSE)
        BY RegsAreRegisters DEF ShiftArgUID, Reg
      <4>1. CASE u = v
        <5>1. ~(i > b) /\ i + 1 > b
          BY <1>3, <2>9, <3>4, <4>1 DEF b
        <5>2. y = SaveUID(f, v) /\ y1 = Shift(v, FALSE)
          BY <3>2, <5>1
        <5>3. Kept(ShiftArgUID(SaveTemp(f, u)), v)
          BY <3>1, <4>1, <5>2 DEF SaveUID
        <5>4. Kept(ShiftArgUID(Reg(u)), v)'
          BY <1>5, <3>4, <4>0, <5>3, KeptMoved
        <5> QED BY <4>0, <4>1, <5>2, <5>4
      <4>2. CASE u # v
        <5>1. i > b <=> i + 1 > b
          BY <1>3, <2>9, <3>4, <4>2 DEF b
        <5>2. y = y1
          BY <3>2, <5>1
        <5>3. WritesOf(x) \subseteq {Shift(u, FALSE)}
          <6>1. WritesOf(Mov(SaveTemp(f, u), Reg(u))) = Ordinary({ShiftArgUID(Reg(u))})
          BY <4>0, MoveDoes
        <6> QED BY <3>4, <4>0, <6>1 DEF Ordinary
        <5>4. Shift(v, FALSE) # Shift(u, FALSE) /\ Shift(u, FALSE) # SaveUID(f, v)
          BY <1>1, <4>2, HeldApart
        <5>5. y # Shift(u, FALSE)
          BY <3>2, <5>4
        <5>6. y \notin fn.writes[pc]
          BY <1>6, <5>3, <5>5
        <5> QED BY <3>1, <5>2, <5>6, KeptOn
      <4> QED BY <4>1, <4>2
    <3>5. ASSUME i > r, WritesOf(x) \subseteq {Shift(REG_DATA_0, FALSE)}
          PROVE  Kept(y1, v)'
      <4>1. i > b /\ i + 1 > b
        BY <1>3, <2>2, <3>3, <3>5
      <4>2. y = Shift(v, FALSE) /\ y1 = Shift(v, FALSE)
        BY <3>2, <4>1
      <4>3. Shift(v, FALSE) # Shift(REG_DATA_0, FALSE)
        BY <1>1, HeldApart
      <4>4. y \notin fn.writes[pc]
        BY <1>6, <3>5, <4>2, <4>3
      <4> QED BY <3>1, <4>2, <4>4, KeptOn
    <3>6. /\ i = r + 1 => i > r
          /\ i = (r + t) + 1 => i > r
          /\ i = ((r + t) + 1) + 1 => i > r
      BY <1>3, <2>2
    <3>7. Kept(y1, v)'
      BY <2>3, <3>4, <3>5, <3>6 DEF DoneBefore
    <3> QED BY <3>7 DEF y1
  <2>11. BackFrame(a, l, ReleaseAt(f, s), i + 1)'
    BY <2>4, <2>8
  <2> QED BY <1>10, <2>10, <2>11, Zenon DEF Piece, s, a, l
<1>11. CASE s.kind \notin {"call", "return"}
  <2>1. e = <<>>
    BY <1>11 DEF Before
  <2> HIDE DEF e
  <2> QED BY <1>3, <2>1, EmptySeq
<1> QED BY <1>9, <1>10, <1>11

(* Behind the prologue, and behind each statement of the function's own.   *)
LEMMA PieceBegins ==
  ASSUME NEW f, FunctionUnderstood(f), FrameLeft(f), NEW omitFP, NEW j \in 1..Len(f.stmts),
         OwnFrame(Fronted(f, omitFP), Data(f))',
         \A v \in CalleeSaves : Returns(f) # {} => Kept(SaveUID(f, v), v)'
  PROVE  Piece(f, omitFP, j, 1)'
<1> DEFINE s == f.stmts[j]
           a == Fronted(f, omitFP)
           l == Data(f)
           z == ReleaseAt(f, s)
<1>1. z \in Nat /\ z >= 1
  <2>1. Len(Restores(f)) \in Nat
    BY PiecesAreSeqs, LenProperties
  <2> QED BY <2>1 DEF ReleaseAt
<1> HIDE DEF z
<1>2. BackFrame(a, l, z, 1)'
  <2>1. 1 <= z /\ 1 # z + 1 /\ ~(1 > z + 1)
    BY <1>1
  <2> QED BY <2>1, Zenon DEF BackFrame
<1>3. ASSUME NEW v \in CalleeSaves PROVE HeldInPiece(f, s, 1, v) = SaveUID(f, v)
  <2>1. ~(1 > (v - STD_CALLEE_SAVE) + 1)
    BY StatementsAssumption DEF CalleeSaves
  <2> QED BY <2>1 DEF HeldInPiece
<1>4. ASSUME Returns(f) # {}, NEW v \in CalleeSaves PROVE Kept(HeldInPiece(f, s, 1, v), v)'
  <2>1. Kept(SaveUID(f, v), v)'
    BY <1>4, Zenon
  <2>2. HeldInPiece(f, s, 1, v) = SaveUID(f, v)
    BY <1>3
  <2> QED BY <2>1, <2>2
<1> QED BY <1>2, <1>4, Zenon DEF Piece, z

LEMMA FrontEnds ==
  ASSUME NEW f, FunctionUnderstood(f), FrameLeft(f), NEW omitFP, NEW j \in 1..Len(f.stmts),
         NEW n, n = Len(Prologue(f, omitFP)) + 1, InFront(f, omitFP, n)'
  PROVE  Piece(f, omitFP, j, 1)'
<1>1. PICK a, l, c, m : PrologueIs(f, omitFP, a, l, c, m)
  BY PrologueAt
<1>2. /\ a = Fronted(f, omitFP) /\ l = Data(f) /\ c = Saved(f)
      /\ a \in 0..2 /\ l \in Nat /\ c \in Nat /\ m \in Nat
      /\ n = (((a + l) + c) + m) + 1
  BY <1>1 DEF PrologueIs
<1>3. n > a /\ n > a + l /\ n > (a + l) + c /\ (a = 2 => n > 1) /\ n \in Nat
  <2>1. a \in Nat
    <3>1. a \in 0..2
      BY <1>2
    <3> QED BY <3>1
  <2>2. l \in Nat /\ c \in Nat /\ m \in Nat
    BY <1>2
  <2>3. n = (((a + l) + c) + m) + 1
    BY <1>2
  <2> QED BY <2>1, <2>2, <2>3
<1>4. OwnFrame(a, l)'
  <2>1. FrontFrame(a, l, n)'
    BY <1>2 DEF InFront
  <2>2. /\ (IF a = 2 /\ n > 1 THEN 3 ELSE 2) = IF a = 2 THEN 3 ELSE 2
        /\ (IF n <= a THEN 0 ELSE IF n <= a + l THEN (n - a) - 1 ELSE l) = l
        /\ (IF a > 0 /\ n > a THEN "own" ELSE "caller's") = IF a > 0 THEN "own" ELSE "caller's"
    <3>1. n > a /\ (a = 2 => n > 1)
      BY <1>3
    <3>2. ~(n <= a) /\ (n <= a + l => (n - a) - 1 = l)
      <4>1. PICK b \in Nat, d \in Nat : b = a /\ d = l
        BY <1>2
      <4>2. n > b /\ n > b + d
        BY <1>3, <4>1
      <4> QED BY <1>3, <4>1, <4>2
    <3> QED BY <3>1, <3>2, Zenon
  <2> QED BY <2>1, <2>2 DEF FrontFrame, OwnFrame
<1>5. ASSUME NEW v \in CalleeSaves, Returns(f) # {} PROVE Kept(SaveUID(f, v), v)'
  <2>1. /\ NUM_REGS \in Nat /\ STD_CALLEE_SAVE \in 1 .. NUM_REGS
        /\ v \in Nat /\ v >= STD_CALLEE_SAVE /\ v < NUM_REGS
    BY StatementsAssumption DEF CalleeSaves
  <2>2. c = NUM_REGS - STD_CALLEE_SAVE
    BY <1>2, <1>5 DEF Saved
  <2>3. ~(n <= (a + l) + (NUM_REGS - v))
    BY <1>2, <1>3, <2>1, <2>2
  <2>4. HeldInFront(f, omitFP, n, v) = SaveUID(f, v)
    BY <1>2, <2>3 DEF HeldInFront
  <2>5. Kept(HeldInFront(f, omitFP, n, v), v)'
    BY <1>5, Zenon DEF InFront
  <2> QED BY <2>4, <2>5
<1>6. OwnFrame(Fronted(f, omitFP), Data(f))'
  BY <1>2, <1>4
<1> QED BY <1>5, <1>6, PieceBegins

LEMMA OwnStep ==
  ASSUME IInv, phase = "run", Execute(pc), Effect(fn.effect[pc]), entry' = entry,
         fn.effect[pc].kind # "halt",
         NEW f, FrameLeft(f), NEW omitFP, NEW o, IsOf(f, omitFP, o),
         NEW j, NEW i, InPiece(f, omitFP, o, pc, j, i), Piece(f, omitFP, j, i),
         ~(i <= Len(Before(f, omitFP, f.stmts[j]))), f.stmts[j].kind # "return",
         NEW k \in 1..Len(f.stmts)
  PROVE  Piece(f, omitFP, k, 1)'
<1> DEFINE s == f.stmts[j]
<1>1. FlowTypeOK /\ FunctionUnderstood(f) /\ fn = Build(f, omitFP) /\ Layout(f, omitFP, o)
  BY DEF IInv, TypeOK, IsOf
<1>2. j \in 1..Len(f.stmts) /\ s \in Range(f.stmts)
  BY <1>1, LenProperties DEF InPiece, FunctionUnderstood, Range
<1>3. pc \in DOMAIN Framed(f, omitFP) /\ Framed(f, omitFP)[pc] = s
  BY <1>1 DEF Layout, PieceAt
<1>4. fn.effect[pc] = EffectOf(s) /\ fn.writes[pc] = WritesOf(s)
  BY <1>1, <1>3, BuildHas
<1>5. EffectOf(s).kind = "none"
  <2>1. /\ EffectOf(s) \in {[kind |-> "none"], [kind |-> "return"], [kind |-> "halt"]}
        /\ EffectOf(s).kind # "return"
    BY <1>1, <1>2, OwnLeavesFrame
  <2> QED BY <1>4, <2>1
<1>6. OwnFrame(Fronted(f, omitFP), Data(f))'
  <2>1. Fronted(f, omitFP) \in 0..2 /\ Data(f) \in Nat
    BY <1>1, FrontedIs
  <2>2. OwnFrame(Fronted(f, omitFP), Data(f))
    BY DEF Piece
  <2>3. Effect(EffectOf(s))
    BY <1>4
  <2> QED BY <1>5, <2>1, <2>2, <2>3, OwnFrameStays
<1>7. ASSUME NEW v \in CalleeSaves, Returns(f) # {} PROVE Kept(SaveUID(f, v), v)'
  <2>1. HeldInPiece(f, s, i, v) = SaveUID(f, v)
    BY DEF HeldInPiece
  <2>2. Kept(HeldInPiece(f, s, i, v), v)
    BY <1>7 DEF Piece
  <2>3. SaveUID(f, v) \notin fn.writes[pc]
    BY <1>1, <1>2, <1>4, OwnLeavesFrame
  <2>4. Kept(SaveUID(f, v), v)
    BY <2>1, <2>2
  <2> QED BY <2>3, <2>4, KeptOn
<1> QED BY <1>1, <1>6, <1>7, PieceBegins

(* At the return itself.                                                   *)
LEMMA PieceEnds ==
  ASSUME IInv, phase = "returned", NEW f, FrameLeft(f), NEW omitFP, NEW o, IsOf(f, omitFP, o),
         NEW j, NEW i, InPiece(f, omitFP, o, pc, j, i), Piece(f, omitFP, j, i),
         fn.effect[pc].kind = "return"
  PROVE  /\ (IsFrame(2, 0, "own") /\ fn.main) \/ IsFrame(2, 0, "caller's")
         /\ \A r \in CalleeSaved : right[r] = entry[r]
<1> DEFINE s == f.stmts[j]
           e == Before(f, omitFP, s)
           a == Fronted(f, omitFP)
           l == Data(f)
<1>1. FlowTypeOK /\ FunctionUnderstood(f) /\ fn = Build(f, omitFP) /\ Layout(f, omitFP, o)
  BY DEF IInv, TypeOK, IsOf
<1>2. j \in 1..Len(f.stmts) /\ j \in DOMAIN f.stmts /\ i \in 1..(Len(e) + 1) /\ s \in Range(f.stmts)
  BY <1>1, LenProperties DEF InPiece, FunctionUnderstood, Range
<1>3. pc \in DOMAIN Framed(f, omitFP) /\ Framed(f, omitFP)[pc] = PieceAt(f, omitFP, j, i)
  BY <1>1 DEF Layout
<1>4. e \in Seq(Added(f)) /\ Len(e) \in Nat
  BY <1>1, <1>2, FramedIsSeq, LenProperties
<1>5. fn.effect[pc] = EffectOf(PieceAt(f, omitFP, j, i)) /\ fn.main = f.main
      /\ fn.uses[pc] = UsesOf(PieceAt(f, omitFP, j, i))
  BY <1>1, <1>3, BuildHas
<1>6. ~(i <= Len(e))
  <2>1. SUFFICES ASSUME i <= Len(e) PROVE FALSE
    OBVIOUS
  <2>2. PICK x : x = e[i]
    OBVIOUS
  <2>3. x \in Added(f)
    BY <1>2, <1>4, <2>1, <2>2, ElementOfSeq
  <2>4. x.kind = "instruction"
    BY <2>3, AddedGoesOn
  <2>5. fn.effect[pc] = EffectOf(x)
    BY <1>5, <2>1, <2>2 DEF PieceAt
  <2>6. EffectOf(x).kind # "return"
    BY <2>4 DEF EffectOf
  <2> QED BY <2>5, <2>6
<1>7. PieceAt(f, omitFP, j, i) = s /\ i = Len(e) + 1
  BY <1>2, <1>4, <1>6 DEF PieceAt
<1>8. s.kind = "return"
  BY <1>1, <1>2, <1>5, <1>7, OwnLeavesFrame
<1>9. PICK r, t, w : EpilogueIs(f, omitFP, s, r, t, w)
  BY <1>1, <1>2, <1>8, EpilogueAt
<1>10. /\ r \in Nat /\ r = Len(Restores(f)) /\ t \in {0, 1} /\ w \in {0, 1}
       /\ Len(s.args) = 1 <=> t = 1
       /\ omitFP \/ f.main <=> w = 0
       /\ Len(e) = ((r + t) + 1) + w
  BY <1>9 DEF EpilogueIs
<1>11. PICK z \in Nat : z = (r + t) + 1 /\ z = ReleaseAt(f, s)
  <2>1. ReleaseAt(f, s) = (r + t) + 1
    BY <1>10 DEF ReleaseAt
  <2> QED BY <1>10, <2>1
<1>12. BackFrame(a, l, z, i)
  BY <1>8, <1>11 DEF Piece
<1>13. (IsFrame(2, 0, "own") /\ fn.main) \/ IsFrame(2, 0, "caller's")
  <2>1. i = (z + w) + 1
    BY <1>7, <1>10, <1>11
  <2>2. CASE w = 1
    <3>1. i > z + 1
      BY <2>1, <2>2
    <3> QED BY <1>12, <3>1 DEF BackFrame
  <2>3. CASE w = 0
    <3>1. i = z + 1
      BY <2>1, <2>3
    <3>2. OwnFrame(a, 0)
      BY <1>12, <3>1 DEF BackFrame
    <3>3. a = 0 \/ (a = 1 /\ f.main)
      BY <1>10, <2>3 DEF Fronted
    <3>4. CASE a = 0
      BY <3>2, <3>4 DEF OwnFrame
    <3>5. CASE a = 1 /\ f.main
      BY <1>5, <3>2, <3>5 DEF OwnFrame
    <3> QED BY <3>3, <3>4, <3>5
  <2> QED BY <1>10, <2>2, <2>3
<1>14. ASSUME NEW q \in CalleeSaved PROVE right[q] = entry[q]
  <2>1. PICK v \in CalleeSaves : q = Shift(v, FALSE)
    BY LoweringAssumption
  <2>2. Returns(f) # {} /\ r = NUM_REGS - STD_CALLEE_SAVE
    <3>1. Returns(f) # {}
      BY <1>2, <1>8 DEF Returns
    <3> QED BY <1>10, <3>1, SavesAt DEF Saved
  <2>3. i > (v - STD_CALLEE_SAVE) + 1
    <3>1. v \in Nat /\ v >= STD_CALLEE_SAVE /\ v < NUM_REGS /\ NUM_REGS \in Nat /\ STD_CALLEE_SAVE \in Nat
      BY StatementsAssumption DEF CalleeSaves
    <3>2. i = (((r + t) + 1) + w) + 1 /\ r \in Nat /\ t \in Nat /\ w \in Nat
      BY <1>7, <1>10
    <3>3. i > r
      BY <3>2
    <3>4. r >= (v - STD_CALLEE_SAVE) + 1
      BY <2>2, <3>1
    <3> QED BY <3>1, <3>2, <3>3, <3>4
  <2>4. HeldInPiece(f, s, i, v) = q
    BY <1>8, <2>1, <2>3 DEF HeldInPiece
  <2>5. Kept(HeldInPiece(f, s, i, v), v)
    BY <2>2 DEF Piece
  <2>6. left[q] = entry[q]
    BY <2>1, <2>4, <2>5 DEF Kept
  <2>7. q \in fn.uses[pc]
    <3>1. ~ShiftedIsSpecialReg(Shift(v, FALSE))
      BY <1>1, HeldApart
    <3> QED BY <1>5, <1>7, <1>8, <2>1, <3>1 DEF UsesOf, Ordinary
  <2>8. q \in liveIn[pc] /\ colour[q] = q /\ \A u \in liveIn[pc] : left[u] = right[colour[u]]
    <3>1. pc \in Nodes /\ LiveInv /\ RunInv
      BY DEF IInv, FInv, TypeOK
    <3>2. q \in Registers
      BY <1>1, <2>1, HeldApart
    <3> QED BY <2>7, <3>1, <3>2 DEF LiveInv, RunInv, Ran
  <2> QED BY <2>6, <2>8
<1> QED BY <1>13, <1>14

(* Functions that leave stack and frame pointer to Frame.                  *)
AllFrameLeft ==
  \A k \in DOMAIN Table :
    \E f, omitFP : FunctionUnderstood(f) /\ FrameLeft(f) /\ Table[k] = Build(f, omitFP)

FramedAt(f, omitFP, o, n) ==
  \/ InPrologue(f, omitFP, n) /\ InFront(f, omitFP, n)
  \/ \E j, i : InPiece(f, omitFP, o, n, j, i) /\ Piece(f, omitFP, j, i)

FrameInv ==
  /\ phase \notin Ran => IsFrame(2, 0, "caller's")
  /\ phase \in {"run", "returned"} =>
       \E f, omitFP, o : IsOf(f, omitFP, o) /\ FrameLeft(f) /\ FramedAt(f, omitFP, o, pc)
  /\ phase = "returned" => fn.effect[pc].kind = "return"

LEMMA FrontBegins ==
  ASSUME NEW f, FunctionUnderstood(f), FrameLeft(f), NEW omitFP, IsFrame(2, 0, "caller's")',
         \A r \in Registers : r \in Uid /\ left'[r] = entry'[r]
  PROVE  InFront(f, omitFP, 1)'
<1> DEFINE a == Fronted(f, omitFP)
           l == Data(f)
<1>1. a \in 0..2 /\ l \in Nat
  BY FrontedIs
<1> HIDE DEF a, l
<1>2. FrontFrame(a, l, 1)'
  <2>1. /\ (IF a = 2 /\ 1 > 1 THEN 3 ELSE 2) = 2
        /\ (IF 1 <= a THEN 0 ELSE IF 1 <= a + l THEN (1 - a) - 1 ELSE l) = 0
        /\ (IF a > 0 /\ 1 > a THEN "own" ELSE "caller's") = "caller's"
    BY <1>1
  <2> QED BY <2>1 DEF FrontFrame
<1>3. ASSUME NEW v \in CalleeSaves PROVE Kept(HeldInFront(f, omitFP, 1, v), v)'
  <2>1. v \in Nat /\ v < NUM_REGS /\ NUM_REGS \in Nat
    BY StatementsAssumption DEF CalleeSaves
  <2>2. 1 <= (a + l) + (NUM_REGS - v)
    BY <1>1, <2>1
  <2>3. HeldInFront(f, omitFP, 1, v) = Shift(v, FALSE)
    BY <2>2 DEF HeldInFront, a, l
  <2>4. Shift(v, FALSE) \in Registers /\ ~ShiftedIsSpecialReg(Shift(v, FALSE))
    BY HeldApart
  <2>5. Kept(Shift(v, FALSE), v)'
    BY <2>4 DEF Kept, Uid
  <2> QED BY <2>3, <2>5
<1> QED BY <1>2, <1>3, Zenon DEF InFront, a, l

LEMMA FrameStep ==
  ASSUME IInv, IInv', FrameInv, AllFrameLeft, [Next]_vars
  PROVE  FrameInv'
<1>0. fn' = fn
  BY FnFixed
<1>1. \A f, omitFP, o : IsOf(f, omitFP, o) => IsOf(f, omitFP, o)'
  BY <1>0 DEF IsOf
<1>a. ASSUME stack' = stack, fp' = fp PROVE \A p, d, w : IsFrame(p, d, w) => IsFrame(p, d, w)'
  BY <1>a DEF IsFrame
<1>2. CASE Step
  <2>1. /\ phase = "run" /\ phase' = "run" /\ Execute(pc) /\ pc' \in fn.succs[pc]
        /\ Effect(fn.effect[pc]) /\ fn.effect[pc].kind # "halt" /\ entry' = entry
    BY <1>2 DEF Step, fvars
  <2>2. PICK f, omitFP, o : IsOf(f, omitFP, o) /\ FrameLeft(f) /\ FramedAt(f, omitFP, o, pc)
    BY <2>1 DEF FrameInv
  <2>3. /\ FunctionUnderstood(f) /\ Layout(f, omitFP, o) /\ fn = Build(f, omitFP)
        /\ FlowTypeOK /\ pc \in Nodes
    BY <2>2 DEF IsOf, IInv, TypeOK
  <2>4. pc \in DOMAIN Framed(f, omitFP) /\ pc' \in SuccsOf(Framed(f, omitFP), pc)
    BY <2>1, <2>3, BuildHas
  <2>5. SUFFICES FramedAt(f, omitFP, o, pc)'
    <3>1. IsOf(f, omitFP, o)'
      BY <1>1, <2>2
    <3> QED BY <2>1, <2>2, <2>5, <3>1 DEF FrameInv, Ran
  <2>6. CASE InPrologue(f, omitFP, pc) /\ InFront(f, omitFP, pc)
    <3>1. PICK n : n = pc
      OBVIOUS
    <3>2. pc' = n + 1 /\ (InPrologue(f, omitFP, pc') \/ InPiece(f, omitFP, o, pc', 1, 1))
      BY <2>3, <2>4, <2>6, <3>1, Leads
    <3>3. InFront(f, omitFP, n + 1)'
      BY <2>1, <2>2, <2>6, <3>1, FrontStep
    <3>4. CASE InPrologue(f, omitFP, pc')
      BY <3>2, <3>3, <3>4 DEF FramedAt
    <3>5. CASE ~InPrologue(f, omitFP, pc')
      <4>1. InPiece(f, omitFP, o, pc', 1, 1)
        BY <3>2, <3>5
      <4>2. 1 \in 1..Len(f.stmts)
        BY <4>1 DEF InPiece
      <4>3. n + 1 = Len(Prologue(f, omitFP)) + 1
        <5>1. n \in 1..Len(Prologue(f, omitFP)) /\ Len(Prologue(f, omitFP)) \in Nat
          BY <2>3, <2>6, <3>1, FramedIsSeq, LenProperties DEF InPrologue
        <5>2. n + 1 \notin 1..Len(Prologue(f, omitFP))
          BY <3>2, <3>5 DEF InPrologue
        <5> QED BY <5>1, <5>2
      <4>4. Piece(f, omitFP, 1, 1)'
        BY <2>2, <2>3, <3>3, <4>2, <4>3, FrontEnds
      <4> QED BY <4>1, <4>4 DEF FramedAt
    <3> QED BY <3>4, <3>5
  <2>7. CASE ~(InPrologue(f, omitFP, pc) /\ InFront(f, omitFP, pc))
    <3>1. PICK j, i : InPiece(f, omitFP, o, pc, j, i) /\ Piece(f, omitFP, j, i)
      BY <2>2, <2>7 DEF FramedAt
    <3>2. CASE i <= Len(Before(f, omitFP, f.stmts[j]))
      <4>1. InPiece(f, omitFP, o, pc', j, i + 1)
        BY <2>3, <2>4, <3>1, <3>2, Leads
      <4>2. Piece(f, omitFP, j, i + 1)'
        BY <2>1, <2>2, <3>1, <3>2, PieceStep
      <4> QED BY <4>1, <4>2 DEF FramedAt
    <3>3. CASE ~(i <= Len(Before(f, omitFP, f.stmts[j])))
      <4>1. f.stmts[j].kind # "return" /\ \E k : InPiece(f, omitFP, o, pc', k, 1)
        BY <2>3, <2>4, <3>1, <3>3, Leads
      <4>2. PICK k : InPiece(f, omitFP, o, pc', k, 1)
        BY <4>1
      <4>3. k \in 1..Len(f.stmts)
        BY <4>2 DEF InPiece
      <4>4. Piece(f, omitFP, k, 1)'
        BY <2>1, <2>2, <3>1, <3>3, <4>1, <4>3, OwnStep
      <4> QED BY <4>2, <4>4 DEF FramedAt
    <3> QED BY <3>2, <3>3
  <2> QED BY <2>6, <2>7
<1>3. CASE Allocate
  <2>1. phase = "built" /\ phase' = "run" /\ pc' = 1 /\ stack' = stack /\ fp' = fp
    <3>1. phase = "built" /\ phase' = "run" /\ pc' = pc /\ stack' = stack /\ fp' = fp
      BY <1>3 DEF Allocate
    <3> QED BY <3>1 DEF IInv, RunInv, Ran
  <2>2. FlowTypeOK /\ name \in DOMAIN Table
    BY DEF IInv, TypeOK, FlowTypeOK
  <2>3. PICK f, omitFP : FunctionUnderstood(f) /\ FrameLeft(f) /\ fn = Build(f, omitFP)
    BY <2>2 DEF AllFrameLeft, fn
  <2>4. PICK o : Layout(f, omitFP, o)
    BY <2>3, LaidOut
  <2>5. 0 + 1 \in DOMAIN Framed(f, omitFP)
    BY <2>2, <2>3, BuildHas
  <2>6. 0 \in 0..Len(Prologue(f, omitFP)) /\ Len(Prologue(f, omitFP)) \in Nat
    BY <2>3, FramedIsSeq, LenProperties
  <2>7. InPrologue(f, omitFP, 0 + 1) \/ InPiece(f, omitFP, o, 0 + 1, 1, 1)
    BY <2>4, <2>5, <2>6 DEF Layout
  <2>8. IsFrame(2, 0, "caller's")'
    <3>1. IsFrame(2, 0, "caller's")
      BY <2>1 DEF FrameInv, Ran
    <3> QED BY <1>a, <2>1, <3>1
  <2>9. \A r \in Registers : r \in Uid /\ left'[r] = entry'[r]
    BY <1>3 DEF Allocate, Uid
  <2>10. InFront(f, omitFP, 1)'
    BY <2>3, <2>8, <2>9, FrontBegins
  <2>11. FramedAt(f, omitFP, o, pc)'
    <3>1. CASE InPrologue(f, omitFP, 0 + 1)
      BY <2>1, <2>10, <3>1 DEF FramedAt
    <3>2. CASE ~InPrologue(f, omitFP, 0 + 1)
      <4>1. InPiece(f, omitFP, o, 1, 1, 1)
        BY <2>7, <3>2
      <4>2. 1 \in 1..Len(f.stmts)
        BY <4>1 DEF InPiece
      <4>3. 1 = Len(Prologue(f, omitFP)) + 1
        <5>1. 1 \notin 1..Len(Prologue(f, omitFP))
          BY <3>2 DEF InPrologue
        <5> QED BY <2>6, <5>1
      <4>4. Piece(f, omitFP, 1, 1)'
        BY <2>3, <2>10, <4>2, <4>3, FrontEnds
      <4> QED BY <2>1, <4>1, <4>4 DEF FramedAt
    <3> QED BY <3>1, <3>2
  <2>12. IsOf(f, omitFP, o)'
    BY <1>0, <2>3, <2>4 DEF IsOf
  <2> QED BY <2>1, <2>3, <2>11, <2>12 DEF FrameInv, Ran
<1>b. ASSUME UNCHANGED <<pc, left, entry, stack, fp>>
      PROVE  \A f, omitFP, o : FramedAt(f, omitFP, o, pc) => FramedAt(f, omitFP, o, pc)'
  <2>1. \A p, d, w : IsFrame(p, d, w) => IsFrame(p, d, w)'
    BY <1>a, <1>b
  <2>2. \A x, v : Kept(x, v) => Kept(x, v)'
    BY <1>b DEF Kept, Uid
  <2>3. \A f, omitFP, n : InFront(f, omitFP, n) => InFront(f, omitFP, n)'
    <3>1. \A a, l, n : FrontFrame(a, l, n) => FrontFrame(a, l, n)'
      BY <2>1, SMTT(30) DEF FrontFrame
    <3> QED BY <2>2, <3>1, Zenon DEF InFront
  <2>4. \A a, l, z, i : BackFrame(a, l, z, i) => BackFrame(a, l, z, i)'
    <3> SUFFICES ASSUME NEW a, NEW l, NEW z, NEW i, BackFrame(a, l, z, i)
                 PROVE  BackFrame(a, l, z, i)'
      OBVIOUS
    <3> DEFINE d == IF a = 2 THEN 3 ELSE 2
               o == IF a > 0 THEN "own" ELSE "caller's"
    <3>1. BackFrame(a, l, z, i) <=> /\ i <= z => IsFrame(d, l, o)
                                    /\ i = z + 1 => IsFrame(d, 0, o)
                                    /\ i > z + 1 => IsFrame(2, 0, "caller's")
      BY Zenon DEF BackFrame, OwnFrame
    <3>2. BackFrame(a, l, z, i)' <=> /\ i <= z => IsFrame(d, l, o)'
                                     /\ i = z + 1 => IsFrame(d, 0, o)'
                                     /\ i > z + 1 => IsFrame(2, 0, "caller's")'
      BY Zenon DEF BackFrame, OwnFrame
    <3> HIDE DEF d, o
    <3> QED BY <2>1, <3>1, <3>2, Zenon
  <2>5. \A a, l : OwnFrame(a, l) => OwnFrame(a, l)'
    BY <2>1, Zenon DEF OwnFrame
  <2>6. \A f, omitFP, j, i : Piece(f, omitFP, j, i) => Piece(f, omitFP, j, i)'
    <3> SUFFICES ASSUME NEW f, NEW omitFP, NEW j, NEW i, Piece(f, omitFP, j, i)
                 PROVE  Piece(f, omitFP, j, i)'
      OBVIOUS
    <3> DEFINE a == Fronted(f, omitFP)
               l == Data(f)
               z == ReleaseAt(f, f.stmts[j])
               h(v) == HeldInPiece(f, f.stmts[j], i, v)
    <3>1. Piece(f, omitFP, j, i) <=> /\ IF f.stmts[j].kind = "return" THEN BackFrame(a, l, z, i)
                                                                      ELSE OwnFrame(a, l)
                                     /\ Returns(f) # {} => \A v \in CalleeSaves : Kept(h(v), v)
      BY Zenon DEF Piece
    <3>2. Piece(f, omitFP, j, i)' <=> /\ IF f.stmts[j].kind = "return" THEN BackFrame(a, l, z, i)'
                                                                       ELSE OwnFrame(a, l)'
                                      /\ Returns(f) # {} => \A v \in CalleeSaves : Kept(h(v), v)'
      BY Zenon DEF Piece
    <3>3. BackFrame(a, l, z, i) => BackFrame(a, l, z, i)'
      BY <2>4
    <3>4. OwnFrame(a, l) => OwnFrame(a, l)'
      BY <2>5
    <3>5. \A v : Kept(h(v), v) => Kept(h(v), v)'
      BY <2>2
    <3> HIDE DEF a, l, z, h
    <3> QED BY <3>1, <3>2, <3>3, <3>4, <3>5, Zenon
  <2> QED BY <1>b, <2>3, <2>6 DEF FramedAt
<1>4. CASE Analyse
  <2>1. phase \notin Ran /\ phase' \notin Ran
    BY <1>4 DEF Analyse, FlowNext, Descend, Ascend, EndVisit, Sweep, SweepAgain,
       EndSweeps, CheckTemps, Interfere, InterfereThrows, EndInterfere, Move,
       MoveOfNothing, EndMoves, Ran
  <2>2. UNCHANGED <<stack, fp>>
    BY <1>4 DEF Analyse, run
  <2> QED BY <1>a, <2>1, <2>2 DEF FrameInv, Ran
<1>5. CASE Stop
  <2>1. /\ phase = "run" /\ UNCHANGED <<pc, left, entry, stack, fp>>
        /\ phase' \in Ran \ {"run"} /\ (phase' = "returned" => fn.effect[pc].kind = "return")
    BY <1>5 DEF Stop, run, Ran
  <2> QED BY <1>0, <1>1, <1>b, <2>1 DEF FrameInv, Ran
<1>6. CASE UNCHANGED vars
  <2>1. UNCHANGED <<phase, pc, left, entry, stack, fp>>
    BY <1>6 DEF vars, fvars, run
  <2> QED BY <1>0, <1>1, <1>a, <1>b, <2>1 DEF FrameInv
<1> QED
  BY <1>2, <1>3, <1>4, <1>5, <1>6 DEF Next

(* A function that returns leaves its caller the stack, its frame pointer  *)
(* and the registers that the callee saves as they were, whatever it       *)
(* pushed for its locals, wherever the allocator saved the registers and   *)
(* on every path to every return: where its locals are numbers of a word   *)
(* at most or texts, and its own statements leave stack and frame pointer  *)
(* alone (mindCalleeSaveRegs, allocateLocalVariables,                      *)
(* deallocateLocalVariables, updateFramePointer).                          *)
THEOREM ConventionIsKept == Spec /\ AllFrameLeft => []ConventionKept
<1>1. AllFrameLeft => AllUnderstood
  BY DEF AllFrameLeft, AllUnderstood
<1>2. Init => FrameInv
  <2> SUFFICES ASSUME Init PROVE FrameInv
    OBVIOUS
  <2>1. phase \in {"thrown", "visit"} /\ stack = <<"caller's", "return">> /\ fp = "caller's"
    BY DEF Init, FlowInit
  <2> QED BY <2>1 DEF FrameInv, Ran, IsFrame, Words
<1>3. IInv /\ FrameInv => ConventionKept
  <2> SUFFICES ASSUME IInv, FrameInv, phase = "returned"
               PROVE  /\ stack = <<"caller's", "return">>
                      /\ fn.main \/ fp = "caller's"
                      /\ \A r \in CalleeSaved : right[r] = entry[r]
    BY DEF ConventionKept
  <2>1. PICK f, omitFP, o : IsOf(f, omitFP, o) /\ FrameLeft(f) /\ FramedAt(f, omitFP, o, pc)
    BY DEF FrameInv
  <2>2. fn.effect[pc].kind = "return"
    BY DEF FrameInv
  <2>3. /\ FunctionUnderstood(f) /\ Layout(f, omitFP, o) /\ fn = Build(f, omitFP) /\ FlowTypeOK
    BY <2>1 DEF IsOf, IInv, TypeOK
  <2>4. ~InPrologue(f, omitFP, pc)
    <3>1. SUFFICES ASSUME InPrologue(f, omitFP, pc) PROVE FALSE
      OBVIOUS
    <3>2. PICK x : x = Prologue(f, omitFP)[pc]
      OBVIOUS
    <3>3. pc \in DOMAIN Framed(f, omitFP) /\ Framed(f, omitFP)[pc] = x
      BY <2>3, <3>1, <3>2 DEF Layout
    <3>4. x \in Added(f)
      BY <2>3, <3>1, <3>2, FramedIsSeq, ElementOfSeq DEF InPrologue
    <3>5. x.kind = "instruction"
      BY <3>4, AddedGoesOn
    <3>6. fn.effect[pc] = EffectOf(x)
      BY <2>3, <3>3, BuildHas
    <3>7. EffectOf(x).kind # "return"
      BY <3>5 DEF EffectOf
    <3> QED BY <2>2, <3>6, <3>7
  <2>5. PICK j, i : InPiece(f, omitFP, o, pc, j, i) /\ Piece(f, omitFP, j, i)
    BY <2>1, <2>4 DEF FramedAt
  <2>6. /\ (IsFrame(2, 0, "own") /\ fn.main) \/ IsFrame(2, 0, "caller's")
        /\ \A r \in CalleeSaved : right[r] = entry[r]
    BY <2>1, <2>2, <2>5, PieceEnds
  <2>7. stack = <<"caller's", "return">>
    <3>1. stack \in Seq(Words) /\ Len(stack) = 2 /\ stack[1] = "caller's" /\ stack[2] = "return"
      BY <2>6 DEF IsFrame
    <3> QED BY <3>1
  <2>8. fn.main \/ fp = "caller's"
    BY <2>6 DEF IsFrame
  <2> QED BY <2>6, <2>7, <2>8
<1>4. /\ IInv /\ IInv' /\ FrameInv /\ AllFrameLeft /\ [Next]_vars
      => (FrameInv /\ AllFrameLeft)'
  <2>1. ASSUME AllFrameLeft PROVE AllFrameLeft'
    BY <2>1 DEF AllFrameLeft
  <2> QED BY <2>1, FrameStep
<1> QED
  BY Invariant, UnderstoodIsCovered, <1>1, <1>2, <1>3, <1>4, PTL DEF Spec
=============================================================================
