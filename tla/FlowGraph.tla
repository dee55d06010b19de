----------------------------- MODULE FlowGraph -----------------------------
(***************************************************************************)
(* The liveness analysis (FlowGraph::populateLiveMap, with makeVisitList   *)
(* of Graph) and the interference graph made from it                       *)
(* (InterferenceGraph::populateGraph), for any flow graph, as the C++      *)
(* templates are.  One step is one node: a call of makeVisitList, or an    *)
(* iteration of the loop over the nodes.                                   *)
(*                                                                         *)
(* A node is its place in the list of nodes; the uids that are used and    *)
(* defined are numbers, those of the registers first.                      *)
(***************************************************************************)
EXTENDS Integers, Sequences, FiniteSets

CONSTANTS
  Registers,  (* the uids of the precoloured nodes                         *)
  Temps,      (* the uids of the temporaries                               *)
  Functions   (* the flow graphs, by name; one that throws could not be    *)
              (* built, for a jump that leads nowhere                      *)

Uid == Registers \cup Temps
Arcs == Uid \X Uid
Flip(a) == <<a[2], a[1]>>
NodesOf(f) == 1 .. f.size
Table == Functions        (* which TLC evaluates once, unlike a constant   *)

(* A move has at most one use and one define, as _moveInstr leaves it.     *)
ASSUME FlowAssumption ==
  /\ Registers \cap Temps = {}
  /\ IsFiniteSet(Uid)
  /\ \A name \in DOMAIN Table : LET f == Table[name] IN
       /\ f.size \in Nat \ {0}
       /\ f.throws \in BOOLEAN
       /\ f.succs \in [NodesOf(f) -> SUBSET NodesOf(f)]
       /\ f.uses \in [NodesOf(f) -> SUBSET Uid]
       /\ f.defs \in [NodesOf(f) -> SUBSET Uid]
       /\ f.isMove \in [NodesOf(f) -> BOOLEAN]
       /\ \A n \in NodesOf(f) : f.isMove[n] =>
            /\ \A x, y \in f.uses[n] : x = y
            /\ \A x, y \in f.defs[n] : x = y

VARIABLES
  name,       (* the function                                              *)
  phase,      (* where its compilation is                                  *)
  path,       (* the calls of makeVisitList under way                      *)
  visitList,  (* the nodes it has left, in that order                      *)
  at,         (* the loop over the nodes, or over the visit list           *)
  modified,   (* whether this sweep has added anything                     *)
  liveIn, liveOut,
  interf,     (* the interference graph                                    *)
  moves       (* its move relation                                         *)

visit == <<path, visitList>>
live  == <<liveIn, liveOut>>
graph == <<interf, moves>>
fvars == <<name, phase, visit, at, modified, live, graph>>

fn    == Table[name]
Nodes == NodesOf(fn)
Deepest == path[Len(path)]
Elements(s) == {s[k] : k \in DOMAIN s}
visitedOnPath == Elements(path)                                   (* mutant *)
visited == Elements(path) \cup Elements(visitList)

Phases == {"visit", "sweep", "check", "interfere", "move", "built", "thrown",
           "crashed"}

(* A node is visited once.                                                 *)
FlowTypeOK ==
  /\ name \in DOMAIN Table
  /\ path \in Seq(Nodes)
  /\ visitList \in Seq(Nodes)
  /\ \A j, k \in DOMAIN visitList : visitList[j] = visitList[k] => j = k
  /\ at \in Nat
  /\ modified \in BOOLEAN
  /\ liveIn \in [Nodes -> SUBSET Uid]
  /\ liveOut \in [Nodes -> SUBSET Uid]
  /\ interf \subseteq Arcs
  /\ moves \subseteq Arcs

FlowInit ==
  /\ name \in DOMAIN Table
  /\ phase = IF fn.throws THEN "thrown" ELSE "visit"
  /\ path = <<1>>
  /\ visitList = <<>>
  /\ at = 1
  /\ modified = FALSE
  /\ liveIn = fn.uses
  /\ liveOut = [n \in Nodes |-> {}]
  /\ interf = {}
  /\ moves = {}

-----------------------------------------------------------------------------
(* makeVisitList: depth first from the first node, the successors in the   *)
(* order of their addresses, a node after all it leads to.                 *)
Descend ==
  /\ phase = "visit"
  /\ path # <<>>
  /\ \E s \in fn.succs[Deepest] \ visited : path' = Append(path, s)
  /\ UNCHANGED <<name, phase, visitList, at, modified, live, graph>>

Ascend ==
  /\ phase = "visit"
  /\ path # <<>>
  /\ fn.succs[Deepest] \subseteq visited
  /\ visitList' = Append(visitList, Deepest)
  /\ path' = SubSeq(path, 1, Len(path) - 1)
  /\ UNCHANGED <<name, phase, at, modified, live, graph>>

EndVisit ==
  /\ phase = "visit"
  /\ path = <<>>
  /\ phase' = "sweep"
  /\ UNCHANGED <<name, visit, at, modified, live, graph>>

-----------------------------------------------------------------------------
(* populateLiveMap: what is live at a node is live behind the nodes that   *)
(* lead to it; what is live behind it and not defined by it, before it.    *)
FlowOutOnce(n) ==                                                 (* mutant *)
  [p \in Nodes |-> IF n \in fn.succs[p] /\ p <= n
                     THEN liveOut[p] \cup liveIn[n] ELSE liveOut[p]]
FlowOut(n) ==
  [p \in Nodes |-> IF n \in fn.succs[p]
                     THEN liveOut[p] \cup liveIn[n] ELSE liveOut[p]]
FlowIn(n, out) == [liveIn EXCEPT ![n] = @ \cup (out[n] \ fn.defs[n])]

Sweep ==
  /\ phase = "sweep"
  /\ at <= Len(visitList)
  /\ LET n == visitList[at]
     IN  /\ liveOut' = FlowOut(n)
         /\ liveIn' = FlowIn(n, liveOut')
  /\ modified' = (modified \/ live' # live)
  /\ at' = at + 1
  /\ UNCHANGED <<name, phase, visit, graph>>

SweepAgain ==
  /\ phase = "sweep"
  /\ at > Len(visitList)
  /\ modified
  /\ at' = 1
  /\ modified' = FALSE
  /\ UNCHANGED <<name, phase, visit, live, graph>>

EndSweeps ==
  /\ phase = "sweep"
  /\ at > Len(visitList)
  /\ ~modified
  /\ phase' = "check"
  /\ at' = 1
  /\ UNCHANGED <<name, visit, modified, live, graph>>

(* checkTempsUsedUndefined: a temporary live at the start has no value.    *)
Undefined == liveIn[1] \cap Temps

CheckTemps ==
  /\ phase = "check"
  /\ phase' = IF Undefined = {} THEN "interfere" ELSE "thrown"
  /\ UNCHANGED <<name, visit, at, modified, live, graph>>

-----------------------------------------------------------------------------
(* InterferenceGraph::populateGraph.  What a node defines interferes with  *)
(* what is live behind it, but the two ends of a move do not by the move.  *)
IsOneToOne(n) == fn.uses[n] # {} /\ fn.defs[n] # {}

NewArcsApart(n) ==                                                (* mutant *)
  LET one == {a \in fn.defs[n] \X (liveOut[n] \ fn.uses[n]) : a[1] # a[2]}
  IN  one \cup {Flip(a) : a \in one}
NewArcsOfTemps(n) ==                                              (* mutant *)
  LET one == (fn.defs[n] \cap Temps) \X (liveOut[n] \ (fn.uses[n] \cup fn.defs[n]))
  IN  one \cup {Flip(a) : a \in one}
NewArcs(n) ==
  LET apart == IF fn.isMove[n] THEN fn.uses[n] ELSE {}
      one == {a \in fn.defs[n] \X (liveOut[n] \ apart) : a[1] # a[2]}
  IN  one \cup {Flip(a) : a \in one}

Interfere ==
  /\ phase = "interfere"
  /\ at <= fn.size
  /\ liveOut[at] # {} /\ fn.isMove[at] => IsOneToOne(at)
  /\ interf' = interf \cup NewArcs(at)
  /\ at' = at + 1
  /\ UNCHANGED <<name, phase, visit, modified, live, moves>>

(* "A move instruction should have both one define and one use"            *)
InterfereThrows ==
  /\ phase = "interfere"
  /\ at <= fn.size
  /\ liveOut[at] # {} /\ fn.isMove[at] /\ ~IsOneToOne(at)
  /\ phase' = "thrown"
  /\ UNCHANGED <<name, visit, at, modified, live, graph>>

EndInterfere ==
  /\ phase = "interfere"
  /\ at > fn.size
  /\ phase' = "move"
  /\ at' = 1
  /\ UNCHANGED <<name, visit, modified, live, graph>>

(* Moves between nodes that interfere, and between registers, are left out *)
NewMovesAll(n) ==                                                 (* mutant *)
  IF fn.isMove[n] THEN fn.uses[n] \X fn.defs[n] ELSE {}
NewMoves(n) ==
  IF fn.isMove[n]
    THEN {a \in fn.uses[n] \X fn.defs[n] :
            a \notin interf /\ ~(a \in Registers \X Registers)}
    ELSE {}

Move ==
  /\ phase = "move"
  /\ at <= fn.size
  /\ fn.isMove[at] => IsOneToOne(at)
  /\ moves' = moves \cup NewMoves(at)
  /\ at' = at + 1
  /\ UNCHANGED <<name, phase, visit, modified, live, interf>>

(* A move from or to a special register has no use, or no define, and the  *)
(* first of none is read.                                                  *)
MoveOfNothing ==
  /\ phase = "move"
  /\ at <= fn.size
  /\ fn.isMove[at] /\ ~IsOneToOne(at)
  /\ phase' = "crashed"
  /\ UNCHANGED <<name, visit, at, modified, live, graph>>

EndMoves ==
  /\ phase = "move"
  /\ at > fn.size
  /\ phase' = "built"
  /\ UNCHANGED <<name, visit, at, modified, live, graph>>

FlowNext ==
  \/ Descend \/ Ascend \/ EndVisit
  \/ Sweep \/ SweepAgain \/ EndSweeps \/ CheckTemps
  \/ Interfere \/ InterfereThrows \/ EndInterfere
  \/ Move \/ MoveOfNothing \/ EndMoves

-----------------------------------------------------------------------------
(* The nodes from which a path leads to a use of x that x is not defined   *)
(* on before: what live means.                                             *)
LiveAt(f, x) ==
  LET within[k \in 0 .. f.size] ==
        IF k = 0 THEN {n \in NodesOf(f) : x \in f.uses[n]}
        ELSE LET nearer == within[k - 1]
             IN  nearer \cup {n \in NodesOf(f) : /\ x \notin f.defs[n]
                                                /\ f.succs[n] \cap nearer # {}}
  IN  within[f.size]
LivePoints == [k \in DOMAIN Table |-> [x \in Uid |-> LiveAt(Table[k], x)]]

(* When the sweeps end, exactly that is live at the nodes that can be      *)
(* reached, and nothing more anywhere, whatever order they were visited in *)
(* (populateLiveMap).                                                      *)
LiveIsOnPaths ==
  \A x \in Uid : LET there == LivePoints[name][x] IN
    /\ {n \in Nodes : x \in liveIn[n]} \subseteq there
    /\ phase = "check" => there \cap visited \subseteq {n \in Nodes : x \in liveIn[n]}

(* The graph is what the register allocator relies on: no arcs of a node   *)
(* to itself, arcs both ways, no move along an arc.                        *)
GraphFits ==
  /\ \A a \in interf : a[1] # a[2] /\ Flip(a) \in interf
  /\ moves \cap interf = {}
=============================================================================
