------------------------------- MODULE RegAlloc -------------------------------
(***************************************************************************)
(* RegAllocator (src/src/vasm/backend/RegAllocator.cpp) at work on an      *)
(* interference graph: the temporaries are simplified, coalesced or chosen *)
(* as potential spills one at a time, and popped off the stack again to be *)
(* given registers.  One step is one iteration of a loop.                  *)
(*                                                                         *)
(* A node is its uid: register number plus one for the precoloured nodes,  *)
(* which come first in the list of nodes.  The special registers, which    *)
(* the flow graph keeps out of the uses and defines, are left out.         *)
(***************************************************************************)
EXTENDS AliasMaps, Sequences, FiniteSets

CONSTANTS
  MaxRegs,      (* registers to give away: 8 in the code                   *)
  Temps,        (* the temporaries                                         *)
  Graphs        (* the interference graphs the allocator may be given      *)

Precolored == 1 .. MaxRegs
NotYet == -1    (* no entry in assignedRegs; 0 there is an actual spill    *)

Arcs == Node \X Node
Flip(a) == <<a[2], a[1]>>

ASSUME RegAllocAssumption ==
  /\ MaxRegs \in Nat \ {0}
  /\ Node = Precolored \cup Temps
  /\ Precolored \cap Temps = {}
  /\ IsFiniteSet(Temps)
  /\ \A g \in Graphs :
       /\ g \in [interf : SUBSET Arcs, moves : SUBSET Arcs]
       /\ \A a \in g.interf : a[1] # a[2] /\ Flip(a) \in g.interf
       /\ \A a \in g.moves : a \notin g.interf

VARIABLES
  given,        (* the graph it works for                                  *)
  coalescing,   (* coalesceAllocateRegs, not simpleAllocateRegs            *)
  phase,        (* where the allocation is                                 *)
  nodes, interf, moves,    (* the working copy of the graph                *)
  nodesStack,   (* simplified nodes, and whether each may have to spill    *)
  safe, unsafe, usingSafe, (* the aliases, before and after such a spill   *)
  assigned,     (* assignedRegs                                            *)
  register      (* what applySelectedRegisters writes into the arguments   *)

graph   == <<nodes, interf, moves>>
aliases == <<safe, unsafe, usingSafe>>
vars == <<given, coalescing, phase, graph, nodesStack, aliases, assigned, register>>

Phases == {"simplify", "apply", "select", "assigned", "done", "spilled",
           "thrown", "crashed"}

TypeOK ==
  /\ given \in [interf : SUBSET Arcs, moves : SUBSET Arcs]
  /\ coalescing \in BOOLEAN
  /\ phase \in Phases
  /\ nodes \subseteq Node
  /\ interf \subseteq Arcs
  /\ moves \subseteq Arcs
  /\ nodesStack \in Seq([uid : Temps, spill : BOOLEAN])
  /\ safe \in Maps
  /\ unsafe \in Maps
  /\ usingSafe \in BOOLEAN
  /\ assigned \in [Node -> 0 .. MaxRegs \cup {NotYet}]
  /\ register \in [Node -> 0 .. MaxRegs]

Init ==
  /\ given \in Graphs
  /\ coalescing \in BOOLEAN
  /\ phase = "simplify"
  /\ nodes = Node
  /\ interf = given.interf
  /\ moves = given.moves
  /\ nodesStack = <<>>
  /\ safe = NoAliases
  /\ unsafe = NoAliases
  /\ usingSafe = TRUE
  /\ assigned = [n \in Node |-> NotYet]
  /\ register = [n \in Node |-> 0]

getAliases == IF usingSafe THEN safe ELSE unsafe

-----------------------------------------------------------------------------
(* The working graph.                                                      *)
Adj(n) == {m \in nodes : <<n, m>> \in interf}
MoveAdj(n) == {m \in nodes : <<n, m>> \in moves \/ <<m, n>> \in moves}
Degree(n) == Cardinality(Adj(n))

Work == nodes \cap Temps
LowDegreeAt(n) == Degree(n) <= MaxRegs                            (* mutant *)
LowDegree(n) == Degree(n) < MaxRegs
nodeIsMoveRelated(n) == MoveAdj(n) # {}

(* How an iteration sorts the nodes that are left.                         *)
SimplifyNodes ==
  {n \in Work : LowDegree(n) /\ (coalescing => ~nodeIsMoveRelated(n))}
FreezeNodes ==
  {n \in Work : LowDegree(n) /\ coalescing /\ nodeIsMoveRelated(n)}
HighDegNodesAbove == {n \in Work : Degree(n) > MaxRegs}           (* mutant *)
HighDegNodes == {n \in Work : ~LowDegree(n)}

(* _findMax: of the nodes of largest degree, the last in the list.         *)
IsMax(n, S) ==
  /\ n \in S
  /\ \A m \in S : Degree(m) < Degree(n) \/ (Degree(m) = Degree(n) /\ m <= n)
IsFirst(n, S) == n \in S /\ \A m \in S : n <= m

(* _pushNode                                                               *)
PushNode(n, spill) ==
  /\ nodesStack' = Append(nodesStack, [uid |-> n, spill |-> spill])
  /\ nodes' = nodes \ {n}
  /\ interf' = {a \in interf : n \notin {a[1], a[2]}}
  /\ moves' = {a \in moves : n \notin {a[1], a[2]}}

(* Graph::_coalesce: the arcs of the alias become arcs of final.           *)
Merge(arcs, final, alias) ==
  LET In(n) == IF n = alias THEN final ELSE n
  IN  {<<In(a[1]), In(a[2])>> : a \in arcs}

MergeForgets(arcs, final, alias) ==                               (* mutant *)
  {a \in arcs : alias \notin {a[1], a[2]}}
MergeInterf(arcs, final, alias) == Merge(arcs, final, alias)

(* fixCoalesce: no move of a node to itself, none between nodes that       *)
(* interfere, and none between precoloured nodes; but erasing the last     *)
(* kind from the set it walks, it may miss all but one of a node's.        *)
NotSelfKept(arcs) == arcs                                         (* mutant *)
NotSelf(arcs) == {a \in arcs : a[1] # a[2]}
NotInterferingKept(arcs, against) == arcs                         (* mutant *)
NotInterfering(arcs, against) == {a \in arcs : a \notin against}
Unfixed(arcs, against) == NotInterfering(NotSelf(arcs), against)
BothPrecolored(a) == a[1] \in Precolored /\ a[2] \in Precolored
FixCoalesce(arcs, against, missed) ==
  LET left == Unfixed(arcs, against)
      pre  == {a \in left : BothPrecolored(a)}
  IN  /\ missed \subseteq pre
      /\ \A a \in pre : \E b \in pre \ missed : a[1] = b[1]

-----------------------------------------------------------------------------
(* The simplify loops.                                                     *)
Simplify ==
  /\ phase = "simplify"
  /\ \E n \in SimplifyNodes : IsMax(n, SimplifyNodes) /\ PushNode(n, FALSE)
  /\ UNCHANGED <<given, coalescing, phase, aliases, assigned, register>>

(* getCoalesceCouple takes whatever the first freeze node has a move with: *)
(* the loops over the neighbours that should count the ones of significant *)
(* degree stop where they start, so neither criterion ever says no, and    *)
(* the branch that freezes a node is never reached.  The order of the      *)
(* move's ends is that of their addresses.                                 *)
Coalesce ==
  /\ phase = "simplify"
  /\ SimplifyNodes = {}
  /\ \E alias \in FreezeNodes :
       /\ IsFirst(alias, FreezeNodes)
       /\ \E final \in MoveAdj(alias) \ {alias} :
            LET arcs == Merge(moves, final, alias)
                merged == MergeInterf(interf, final, alias)
            IN  /\ nodes' = nodes \ {alias}
                /\ interf' = merged
                /\ \E missed \in SUBSET {a \in arcs : BothPrecolored(a)} :
                     /\ FixCoalesce(arcs, merged, missed)
                     /\ moves' = {a \in Unfixed(arcs, merged) :
                                    BothPrecolored(a) => a \in missed}
                /\ IF usingSafe
                     THEN safe' = Add(safe, alias, final) /\ UNCHANGED unsafe
                     ELSE unsafe' = Add(unsafe, alias, final) /\ UNCHANGED safe
  /\ UNCHANGED <<given, coalescing, phase, nodesStack, usingSafe, assigned, register>>

(* "Same final & alias": a move of a temporary to itself.                  *)
CoalesceThrows ==
  /\ phase = "simplify"
  /\ SimplifyNodes = {}
  /\ \E alias \in FreezeNodes :
       IsFirst(alias, FreezeNodes) /\ alias \in MoveAdj(alias)
  /\ phase' = "thrown"
  /\ UNCHANGED <<given, coalescing, graph, nodesStack, aliases, assigned, register>>

(* The safe aliases are inserted again at every potential spill.           *)
PotentialSpill ==
  /\ phase = "simplify"
  /\ SimplifyNodes = {}
  /\ FreezeNodes = {}
  /\ \E n \in HighDegNodes : IsMax(n, HighDegNodes) /\ PushNode(n, TRUE)
  /\ IF coalescing
       THEN usingSafe' = FALSE /\ unsafe' = Insert(unsafe, safe) /\ UNCHANGED safe
       ELSE UNCHANGED aliases
  /\ UNCHANGED <<given, coalescing, phase, assigned, register>>

(* hasOnlyPrecolored: on to a copy of the whole graph, whose moves are not *)
(* looked at any more.                                                     *)
EndSimplify ==
  /\ phase = "simplify"
  /\ Work = {}
  /\ phase' = IF coalescing THEN "apply" ELSE "select"
  /\ nodes' = Node
  /\ interf' = given.interf
  /\ moves' = {}
  /\ UNCHANGED <<given, coalescing, nodesStack, aliases, assigned, register>>

-----------------------------------------------------------------------------
(* _applyCoalescingToGraph: alias after alias, in the order of the map.    *)
(* Both nodes of a couple must still be there.                             *)
Unapplied == {n \in nodes : getAliases.to[n] # 0}

ApplyCoalescing ==
  /\ phase = "apply"
  /\ \E alias \in Unapplied :
       LET final == getAliases.to[alias]
       IN  /\ IsFirst(alias, Unapplied)
           /\ IF final \in nodes
                THEN /\ nodes' = nodes \ {alias}
                     /\ interf' = MergeInterf(interf, final, alias)
                     /\ UNCHANGED phase
                ELSE phase' = "thrown" /\ UNCHANGED <<nodes, interf>>
  /\ UNCHANGED <<given, coalescing, moves, nodesStack, aliases, assigned, register>>

EndApply ==
  /\ phase = "apply"
  /\ Unapplied = {}
  /\ phase' = "select"
  /\ UNCHANGED <<given, coalescing, graph, nodesStack, aliases, assigned, register>>

-----------------------------------------------------------------------------
(* _simpleSelect: the registers of the neighbours already popped, and of   *)
(* the precoloured ones, are taken; the lowest other one is given.         *)
TakenByTemps(n) == {assigned[m] : m \in Adj(n)} \ {0, NotYet}     (* mutant *)
Taken(n) ==
  ({assigned[m] : m \in Adj(n)} \ {0, NotYet})
    \cup {m \in Adj(n) \cap Precolored : assigned[m] = NotYet}

IsLowestFree(r, n) ==
  LET free == Precolored \ Taken(n)
  IN  IF free = {} THEN r = 0 ELSE IsFirst(r, free)

Top == nodesStack[Len(nodesStack)]

Select ==
  /\ phase = "select"
  /\ nodesStack # <<>>
  /\ \E r \in 0 .. MaxRegs :
       /\ IsLowestFree(r, Top.uid)
       /\ assigned' = [assigned EXCEPT ![Top.uid] = IF @ = NotYet THEN r ELSE @]
  /\ nodesStack' = SubSeq(nodesStack, 1, Len(nodesStack) - 1)
  /\ UNCHANGED <<given, coalescing, phase, graph, aliases, register>>

(* A neighbour was spilled: the bit written for it is far behind the       *)
(* vector.  The process may die of it, or not notice (Select).             *)
SelectOutOfRange ==
  /\ phase = "select"
  /\ nodesStack # <<>>
  /\ \E m \in Adj(Top.uid) : assigned[m] = 0
  /\ phase' = "crashed"
  /\ UNCHANGED <<given, coalescing, graph, nodesStack, aliases, assigned, register>>

(* "Return true if there were no spills"                                   *)
EndSelect ==
  /\ phase = "select"
  /\ nodesStack = <<>>
  /\ phase' = IF \E n \in Node : assigned[n] = 0 THEN "spilled" ELSE "assigned"
  /\ UNCHANGED <<given, coalescing, graph, nodesStack, aliases, assigned, register>>

(* applySelectedRegisters, with the aliases if there are any; a temporary  *)
(* that was not considered makes it throw.                                 *)
ToBeAssignedFinal(n) ==                                           (* mutant *)
  LET final == IF coalescing THEN Final(getAliases, n) ELSE n
  IN  IF final \in Precolored \/ final # n THEN final ELSE assigned[final]
ToBeAssigned(n) ==
  LET final == IF coalescing THEN Final(getAliases, n) ELSE n
  IN  IF final \in Precolored THEN final ELSE assigned[final]

ApplySelectedRegisters ==
  /\ phase = "assigned"
  /\ IF \E n \in Temps : ToBeAssigned(n) \in {NotYet, 0}
       THEN phase' = "thrown" /\ UNCHANGED register
       ELSE /\ phase' = "done"
            /\ register' = [n \in Node |-> ToBeAssigned(n)]
  /\ UNCHANGED <<given, coalescing, graph, nodesStack, aliases, assigned>>

Next ==
  \/ Simplify \/ Coalesce \/ CoalesceThrows \/ PotentialSpill \/ EndSimplify
  \/ ApplyCoalescing \/ EndApply
  \/ Select \/ SelectOutOfRange \/ EndSelect \/ ApplySelectedRegisters

Spec == Init /\ [][Next]_vars
FairSpec == Spec /\ WF_vars(Next)

-----------------------------------------------------------------------------
(* A move never joins nodes that interfere, so a couple that is coalesced  *)
(* may share a register (populateGraph, coalesce, fixCoalesce).            *)
MovesDoNotInterfere ==
  phase = "simplify" =>
    \A a \in moves : a \notin interf /\ Flip(a) \notin interf

(* The alias map is flat, its finals are nodes of their own and each       *)
(* lists its aliases, after any sequence of couples and potential spills   *)
(* (ReverseAliasMap::add and the insertions at a spill).                   *)
AliasesAreFlat ==
  \A n \in Node : LET f == getAliases.to[n] IN
    f # 0 => /\ n \in Temps
             /\ getAliases.to[f] = 0
             /\ n \in getAliases.of[f]

(* Temporaries live at the same time, and those live with a precoloured    *)
(* node, end up in different registers, coalesced and spilled around as    *)
(* they may have been (Backend::doRegisterAllocation as a whole).          *)
ProperColouring ==
  phase = "done" => \A a \in given.interf : register[a[1]] # register[a[2]]

(* A node that left the graph with few neighbours finds a register free,   *)
(* although the select phase works on the graph with all the coalescing    *)
(* done, the later one too: only a potential spill spills.                 *)
OnlyPotentialSpillsSpill ==
  [][phase = "select" /\ nodesStack' # nodesStack /\ ~Top.spill
       => assigned'[Top.uid] # 0]_vars

(* Whatever is coalesced, applying it and writing the registers finds      *)
(* every node in place: nothing throws, unless the function held a move of *)
(* a temporary to itself.                                                  *)
ThrowsForSelfMoves == phase = "thrown" => \E n \in Temps : <<n, n>> \in given.moves

(* The allocation ends: no node is in none of the worklists for ever.      *)
Terminates == <>(phase \in {"done", "spilled", "thrown", "crashed"})

(* "For precolored Nodes we use George criterion", "For ordinary Nodes we  *)
(* use Briggs criterion" (getCoalesceCouple): as the loops of the two      *)
(* would decide if they looked at the neighbours.                          *)
Significant(n) == Degree(n) >= MaxRegs
GeorgeCanCoalesce(final, alias) ==
  \A m \in Adj(alias) : ~Significant(m) \/ m \in Precolored \/ m \in Adj(final)
BriggsCanCoalesce(final, alias) ==
  Cardinality({m \in Adj(final) \cup Adj(alias) : Significant(m)}) < MaxRegs
CoalescesByCriterion ==
  [][usingSafe /\ safe' # safe =>
       \A alias \in nodes \ nodes' :
         LET final == safe'.to[alias]
         IN  IF final \in Precolored THEN GeorgeCanCoalesce(final, alias)
                                     ELSE BriggsCanCoalesce(final, alias)]_vars

(* The allocation extends a proper partial colouring of the given graph,   *)
(* by classes of coalesced nodes, and never takes a colour back.           *)
Colours ==
  [n \in Node |-> IF ToBeAssigned(n) = NotYet THEN 0 ELSE ToBeAssigned(n)]
Outcome ==
  IF phase = "done" THEN "solved"
  ELSE IF phase \in {"spilled", "thrown", "crashed"} THEN "failed" ELSE "open"
Abstract == INSTANCE Colouring WITH
  Colour <- Precolored, arcs <- given.interf, colour <- Colours, outcome <- Outcome
ImplementsColouring == Abstract!CSpec
=============================================================================
