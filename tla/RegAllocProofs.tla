---------------------------- MODULE RegAllocProofs ----------------------------
(***************************************************************************)
(* Theorems about RegAlloc for every number of registers, every finite set *)
(* of temporaries and every set of interference graphs.                    *)
(***************************************************************************)
EXTENDS RegAlloc, SequenceTheorems, FiniteSetTheorems, TLAPS

LEMMA Constants ==
  /\ MaxRegs \in Nat /\ MaxRegs > 0
  /\ Precolored \subseteq Node /\ Temps \subseteq Node
  /\ Precolored \cap Temps = {}
  /\ \A n \in Node : n \in Nat /\ n # 0 /\ (n \in Precolored \/ n \in Temps)
  /\ 0 \notin Precolored /\ NotYet \notin Precolored /\ NotYet \notin Node
  /\ 0 \notin Node /\ 0 # NotYet
  /\ Precolored = 1 .. MaxRegs
  BY NodeAssumption, RegAllocAssumption DEF Precolored, NotYet

-----------------------------------------------------------------------------
(* The alias maps.                                                         *)
Flat(m) ==
  \A n \in Node :
    m.to[n] # 0 => /\ n \in Temps
                   /\ m.to[n] \in Node
                   /\ m.to[m.to[n]] = 0
                   /\ n \in m.of[m.to[n]]

(* Nodes that are no aliases list nothing but their aliases.               *)
Listed(m, S) ==
  \A f \in S : m.to[f] = 0 /\ \A n \in m.of[f] : m.to[n] = f

LEMMA MapsType ==
  ASSUME NEW m \in Maps, NEW n \in Node
  PROVE  m.to[n] \in Node \cup {0} /\ m.of[n] \in SUBSET Node
  BY DEF Maps

LEMMA NoAliasesType ==
  NoAliases \in Maps /\ Flat(NoAliases) /\ Listed(NoAliases, Node)
  BY Constants DEF NoAliases, Maps, Flat, Listed

LEMMA AddType ==
  ASSUME NEW m \in Maps, NEW alias \in Node, NEW final \in Node
  PROVE  Add(m, alias, final) \in Maps
  BY DEF Maps, Add

LEMMA InsertType ==
  ASSUME NEW m \in Maps, NEW other \in Maps
  PROVE  Insert(m, other) \in Maps
  BY DEF Maps, Insert

(* Every node led to the new alias is led to its final, the others keep    *)
(* their way: the alias's entry lists the right ones to move.              *)
LEMMA AddLeads ==
  ASSUME NEW m \in Maps, NEW alias \in Node, NEW final \in Node,
         Flat(m), Listed(m, {alias, final}), alias # final
  PROVE  \A n \in Node :
           Final(Add(m, alias, final), n)
             = IF Final(m, n) = alias THEN final ELSE Final(m, n)
<1>1. SUFFICES ASSUME NEW n \in Node
      PROVE Final(Add(m, alias, final), n)
              = IF Final(m, n) = alias THEN final ELSE Final(m, n)
  OBVIOUS
<1>2. n \in m.of[alias] \cup {alias} <=> Final(m, n) = alias
  BY Constants DEF Flat, Listed, Final
<1>3. Add(m, alias, final).to[n]
        = IF n \in m.of[alias] \cup {alias} THEN final ELSE m.to[n]
  BY DEF Add
<1> QED
  BY <1>2, <1>3, Constants DEF Final

LEMMA AddKeepsFlat ==
  ASSUME NEW m \in Maps, NEW alias \in Temps, NEW final \in Node,
         Flat(m), Listed(m, {alias, final}), alias # final
  PROVE  Flat(Add(m, alias, final))
<1> DEFINE moved == m.of[alias] \cup {alias}
           a == Add(m, alias, final)
<1>0. alias \in Node /\ moved \subseteq Node
  BY Constants, MapsType
<1>1. \A n \in Node : a.to[n] = IF n \in moved THEN final ELSE m.to[n]
  BY DEF Add
<1>2. \A n \in Node : a.of[n] =
        IF n = alias THEN {}
        ELSE IF n = final THEN m.of[n] \cup moved ELSE m.of[n]
  BY DEF Add
<1>3. final \notin moved
  BY Constants DEF Listed
<1>4. \A n \in moved : n \in Temps
  BY <1>0, Constants DEF Flat, Listed
<1>5. SUFFICES ASSUME NEW n \in Node, a.to[n] # 0
      PROVE /\ n \in Temps /\ a.to[n] \in Node /\ a.to[a.to[n]] = 0
            /\ n \in a.of[a.to[n]]
  BY DEF Flat
<1>6. CASE n \in moved
  BY <1>1, <1>2, <1>3, <1>4, <1>6 DEF Listed
<1>7. CASE n \notin moved
  <2>1. /\ a.to[n] = m.to[n] /\ n \in Temps /\ m.to[n] \in Node
        /\ m.to[m.to[n]] = 0 /\ n \in m.of[m.to[n]]
    BY <1>1, <1>5, <1>7 DEF Flat
  <2>2. m.to[n] # alias
    BY <2>1, <1>7
  <2>3. m.to[n] \notin moved
    BY <2>1, <2>2, <1>0, Constants DEF Listed
  <2> QED
    BY <2>1, <2>2, <2>3, <1>1, <1>2
<1> QED
  BY <1>6, <1>7

LEMMA AddKeepsListed ==
  ASSUME NEW m \in Maps, NEW alias \in Node, NEW final \in Node,
         NEW S \in SUBSET Node, alias \in S, final \in S,
         Listed(m, S), alias # final
  PROVE  Listed(Add(m, alias, final), S \ {alias})
<1> DEFINE moved == m.of[alias] \cup {alias}
           a == Add(m, alias, final)
<1>0. moved \subseteq Node
  BY MapsType
<1>1. \A n \in Node : a.to[n] = IF n \in moved THEN final ELSE m.to[n]
  BY DEF Add
<1>2. \A n \in Node : a.of[n] =
        IF n = alias THEN {}
        ELSE IF n = final THEN m.of[n] \cup moved ELSE m.of[n]
  BY DEF Add
<1>3. SUFFICES ASSUME NEW f \in S \ {alias}
      PROVE a.to[f] = 0 /\ \A n \in a.of[f] : a.to[n] = f
  BY DEF Listed
<1>4. f \notin moved /\ m.to[f] = 0
  BY Constants DEF Listed
<1>5. ASSUME NEW n \in a.of[f] PROVE a.to[n] = f
  <2>1. n \in Node
    BY <1>0, <1>2, MapsType
  <2>2. CASE f = final
    BY <2>1, <2>2, <1>1, <1>2, <1>5 DEF Listed
  <2>3. CASE f # final
    <3>1. n \in m.of[f] /\ m.to[n] = f
      BY <2>3, <1>2, <1>5 DEF Listed
    <3>2. n \notin moved
      BY <3>1, <1>4, Constants DEF Listed
    <3> QED
      BY <2>1, <3>1, <3>2, <1>1
  <2> QED
    BY <2>2, <2>3
<1> QED
  BY <1>1, <1>4, <1>5

-----------------------------------------------------------------------------
(* Merging a node into another, and removing one.                          *)
Into(n, final, alias) == IF n = alias THEN final ELSE n

LEMMA MergeArcs ==
  ASSUME NEW arcs \in SUBSET Arcs, NEW final \in Node, NEW alias \in Node
  PROVE  /\ MergeInterf(arcs, final, alias) \in SUBSET Arcs
         /\ \A u, v \in Node :
              <<u, v>> \in arcs =>
                <<Into(u, final, alias), Into(v, final, alias)>>
                  \in MergeInterf(arcs, final, alias)
  BY DEF MergeInterf, Merge, Arcs, Into

Closed(arcs, ends) ==
  \A u, v \in Node : <<u, v>> \in arcs => <<v, u>> \in arcs /\ u \in ends /\ v \in ends

LEMMA MergeKeepsClosed ==
  ASSUME NEW arcs \in SUBSET Arcs, NEW ends \in SUBSET Node,
         NEW final \in ends, NEW alias \in ends, final # alias,
         Closed(arcs, ends)
  PROVE  Closed(MergeInterf(arcs, final, alias), ends \ {alias})
<1>1. SUFFICES ASSUME NEW u \in Node, NEW v \in Node,
                      <<u, v>> \in MergeInterf(arcs, final, alias)
      PROVE /\ <<v, u>> \in MergeInterf(arcs, final, alias)
            /\ u \in ends \ {alias} /\ v \in ends \ {alias}
  BY DEF Closed
<1>2. PICK x, y \in Node : /\ <<x, y>> \in arcs
                           /\ u = Into(x, final, alias)
                           /\ v = Into(y, final, alias)
  BY <1>1 DEF MergeInterf, Merge, Into, Arcs
<1>3. <<y, x>> \in arcs /\ x \in ends /\ y \in ends
  BY <1>2 DEF Closed
<1>4. <<v, u>> \in MergeInterf(arcs, final, alias)
  <2>1. final \in Node /\ alias \in Node
    OBVIOUS
  <2> QED
    BY <1>2, <1>3, <2>1, MergeArcs
<1> QED
  BY <1>2, <1>3, <1>4 DEF Into

LEMMA RemoveKeepsClosed ==
  ASSUME NEW arcs \in SUBSET Arcs, NEW ends \in SUBSET Node, NEW n \in Node,
         Closed(arcs, ends)
  PROVE  /\ {a \in arcs : n \notin {a[1], a[2]}} \in SUBSET Arcs
         /\ Closed({a \in arcs : n \notin {a[1], a[2]}}, ends \ {n})
  BY DEF Closed, Arcs

-----------------------------------------------------------------------------
(* The inductive invariant.                                                *)
Rep(n) == Final(getAliases, n)

(* The second set of maps takes over from the first at a potential spill.  *)
AliasInv ==
  /\ Flat(getAliases)
  /\ phase = "simplify" => Listed(getAliases, nodes)
  /\ usingSafe => unsafe = NoAliases
  /\ ~usingSafe => \A n \in Node : safe.to[n] # 0 => unsafe.to[n] # 0
  /\ ~usingSafe /\ phase = "simplify" =>
       \A f \in nodes : safe.of[f] \subseteq unsafe.of[f]
  /\ ~coalescing => usingSafe /\ safe = NoAliases

GraphInv ==
  /\ given \in Graphs
  /\ Closed(interf, nodes)
  /\ phase = "simplify" => \A a \in moves : a \notin interf

(* Nodes that interfere are never merged, and what is left of the graph,   *)
(* or of the copy the aliases are applied to, has an arc for each pair.    *)
Current(n) == IF n \in nodes THEN n ELSE Rep(n)
RepInv ==
  /\ \A u, v \in Node : <<u, v>> \in given.interf => Rep(u) # Rep(v)
  /\ phase = "simplify" =>
       \A u, v \in Node :
         <<u, v>> \in given.interf /\ Rep(u) \in nodes /\ Rep(v) \in nodes
           => <<Rep(u), Rep(v)>> \in interf
  /\ phase = "apply" =>
       \A u, v \in Node :
         <<u, v>> \in given.interf => <<Current(u), Current(v)>> \in interf
  /\ phase \in {"select", "assigned"} =>
       \A u, v \in Node :
         <<u, v>> \in given.interf => <<Rep(u), Rep(v)>> \in interf

(* The registers given so far differ between neighbours.                   *)
Col(n) == IF n \in Precolored THEN n ELSE assigned[n]
ColourInv ==
  /\ \A n \in Precolored : assigned[n] = NotYet
  /\ phase \in {"simplify", "apply"} => \A n \in Node : assigned[n] = NotYet
  /\ phase \in {"select", "assigned"} =>
       \A u, v \in Node :
         <<u, v>> \in interf /\ u # v => ~(Col(u) = Col(v) /\ Col(u) \in Precolored)

IInv == TypeOK /\ AliasInv /\ GraphInv /\ RepInv /\ ColourInv /\ ProperColouring

LEMMA GivenGraph ==
  ASSUME given \in Graphs
  PROVE  /\ given.interf \in SUBSET Arcs /\ given.moves \in SUBSET Arcs
         /\ given \in [interf : SUBSET Arcs, moves : SUBSET Arcs]
         /\ Closed(given.interf, Node)
         /\ \A u \in Node : <<u, u>> \notin given.interf
         /\ \A a \in given.moves : a \notin given.interf
<1>1. /\ given.interf \in SUBSET Arcs /\ given.moves \in SUBSET Arcs
      /\ given \in [interf : SUBSET Arcs, moves : SUBSET Arcs]
      /\ \A a \in given.interf : a[1] # a[2] /\ Flip(a) \in given.interf
      /\ \A a \in given.moves : a \notin given.interf
  BY RegAllocAssumption
<1>2. Closed(given.interf, Node)
  BY <1>1 DEF Closed, Flip, Arcs
<1>3. \A u \in Node : <<u, u>> \notin given.interf
  BY <1>1
<1> QED
  BY <1>1, <1>2, <1>3

LEMMA AliasesType ==
  ASSUME TypeOK
  PROVE  getAliases \in Maps /\ \A n \in Node : Rep(n) \in Node
  BY MapsType DEF TypeOK, getAliases, Rep, Final

-----------------------------------------------------------------------------
LEMMA InitIInv == Init => IInv
<1> SUFFICES ASSUME Init PROVE IInv
  OBVIOUS
<1>1. getAliases = NoAliases /\ \A n \in Node : Rep(n) = n
  BY DEF Init, getAliases, Rep, Final, NoAliases
<1>2. TypeOK
  <2>1. given \in [interf : SUBSET Arcs, moves : SUBSET Arcs]
    BY GivenGraph DEF Init
  <2> QED
    BY <2>1, GivenGraph, NoAliasesType, Constants DEF Init, TypeOK, Phases
<1>3. AliasInv
  BY <1>1, NoAliasesType DEF Init, AliasInv
<1>4. GraphInv
  BY GivenGraph DEF Init, GraphInv
<1>5. RepInv
  BY <1>1, GivenGraph DEF Init, RepInv
<1>6. ColourInv /\ ProperColouring
  BY Constants DEF Init, ColourInv, ProperColouring
<1> QED
  BY <1>2, <1>3, <1>4, <1>5, <1>6 DEF IInv

-----------------------------------------------------------------------------
(* A step that keeps the aliases keeps what nodes stand for.               *)
LEMMA SameAliases ==
  ASSUME UNCHANGED aliases
  PROVE  getAliases' = getAliases /\ \A n : Rep(n)' = Rep(n)
  BY DEF aliases, getAliases, Rep

(* Taking a node off the graph.                                            *)
LEMMA PushStep ==
  ASSUME IInv, phase = "simplify", NEW n \in Work, NEW b \in BOOLEAN,
         PushNode(n, b), UNCHANGED <<given, coalescing, phase, assigned, register>>,
         getAliases' = getAliases \/ \A x \in Node : Rep(x)' = Rep(x)
  PROVE  /\ nodes' \in SUBSET Node /\ interf' \in SUBSET Arcs
         /\ moves' \in SUBSET Arcs
         /\ nodesStack' \in Seq([uid : Temps, spill : BOOLEAN])
         /\ nodes' = nodes \ {n}
         /\ GraphInv' /\ RepInv' /\ ColourInv' /\ ProperColouring'
<1>1. n \in Temps /\ n \in Node
  BY Constants DEF Work
<1>2. \A x \in Node : Rep(x)' = Rep(x)
  BY DEF Rep
<1>3. /\ nodes' = nodes \ {n}
      /\ interf' = {a \in interf : n \notin {a[1], a[2]}}
      /\ moves' = {a \in moves : n \notin {a[1], a[2]}}
      /\ nodesStack' = Append(nodesStack, [uid |-> n, spill |-> b])
  BY DEF PushNode
<1>4. /\ nodes' \in SUBSET Node /\ moves' \in SUBSET Arcs
      /\ nodesStack' \in Seq([uid : Temps, spill : BOOLEAN])
  BY <1>1, <1>3 DEF IInv, TypeOK
<1>5. interf' \in SUBSET Arcs /\ GraphInv'
  <2>1. interf' \in SUBSET Arcs /\ Closed(interf', nodes')
    BY <1>1, <1>3, RemoveKeepsClosed DEF IInv, TypeOK, GraphInv
  <2> QED
    BY <2>1, <1>3 DEF IInv, GraphInv
<1>6. RepInv'
  <2>1. \A u, v \in Node : <<u, v>> \in given.interf => Rep(u) # Rep(v)
    BY DEF IInv, RepInv
  <2>2. ASSUME NEW u \in Node, NEW v \in Node, <<u, v>> \in given.interf,
               Rep(u) \in nodes', Rep(v) \in nodes'
        PROVE  <<Rep(u), Rep(v)>> \in interf'
    BY <1>3, <2>2 DEF IInv, RepInv
  <2> QED
    BY <1>2, <2>1, <2>2 DEF RepInv
<1>7. ColourInv' /\ ProperColouring'
  BY DEF IInv, ColourInv, ProperColouring
<1> QED
  BY <1>3, <1>4, <1>5, <1>6, <1>7

LEMMA SimplifyStep == IInv /\ Simplify => IInv'
<1> SUFFICES ASSUME IInv, Simplify PROVE IInv'
  OBVIOUS
<1>1. PICK n \in SimplifyNodes : PushNode(n, FALSE)
  BY DEF Simplify
<1>2. n \in Work
  BY DEF SimplifyNodes
<1>3. /\ phase = "simplify"
      /\ UNCHANGED <<given, coalescing, phase, assigned, register>>
      /\ UNCHANGED aliases
  BY DEF Simplify
<1>4. getAliases' = getAliases
  BY <1>3, SameAliases
<1>5. /\ nodes' \in SUBSET Node /\ interf' \in SUBSET Arcs
      /\ moves' \in SUBSET Arcs
      /\ nodesStack' \in Seq([uid : Temps, spill : BOOLEAN])
      /\ nodes' = nodes \ {n}
      /\ GraphInv' /\ RepInv' /\ ColourInv' /\ ProperColouring'
  BY <1>1, <1>2, <1>3, <1>4, PushStep
<1>6. TypeOK'
  BY <1>3, <1>5 DEF IInv, TypeOK, aliases
<1>7. AliasInv'
  BY <1>3, <1>4, <1>5 DEF IInv, AliasInv, aliases, Listed
<1> QED
  BY <1>5, <1>6, <1>7 DEF IInv

LEMMA PotentialSpillStep == IInv /\ PotentialSpill => IInv'
<1> SUFFICES ASSUME IInv, PotentialSpill PROVE IInv'
  OBVIOUS
<1>1. PICK n \in HighDegNodes : PushNode(n, TRUE)
  BY DEF PotentialSpill
<1>2. n \in Work
  BY DEF HighDegNodes
<1>3. /\ phase = "simplify"
      /\ UNCHANGED <<given, coalescing, phase, assigned, register>>
      /\ nodes' = nodes \ {n}
  BY <1>1 DEF PotentialSpill, PushNode
<1>4. CASE ~coalescing
  <2>1. UNCHANGED aliases
    BY <1>4 DEF PotentialSpill
  <2>2. getAliases' = getAliases
    BY <2>1, SameAliases
  <2>3. TypeOK'
    BY <1>1, <1>2, <1>3, <2>1, <2>2, PushStep DEF IInv, TypeOK, aliases
  <2>4. AliasInv'
    BY <1>3, <2>1, <2>2 DEF IInv, AliasInv, aliases, Listed
  <2> QED
    BY <1>1, <1>2, <1>3, <2>2, <2>3, <2>4, PushStep DEF IInv
<1>5. CASE coalescing
  <2>1. usingSafe' = FALSE /\ unsafe' = Insert(unsafe, safe) /\ safe' = safe
    BY <1>5 DEF PotentialSpill
  <2>2. /\ safe \in Maps /\ unsafe \in Maps /\ unsafe' \in Maps
        /\ getAliases' = unsafe' /\ getAliases \in Maps
        /\ nodes \subseteq Node
    BY <2>1, InsertType DEF IInv, TypeOK, getAliases
  <2>3. \A x \in Node : unsafe'.to[x] = getAliases.to[x]
    <3>1. SUFFICES ASSUME NEW x \in Node PROVE unsafe'.to[x] = getAliases.to[x]
      OBVIOUS
    <3>2. unsafe'.to[x] = IF unsafe.to[x] = 0 THEN safe.to[x] ELSE unsafe.to[x]
      BY <2>1 DEF Insert
    <3>3. CASE usingSafe
      BY <3>2, <3>3 DEF IInv, AliasInv, getAliases, NoAliases
    <3>4. CASE ~usingSafe
      BY <3>2, <3>4 DEF IInv, AliasInv, getAliases
    <3> QED
      BY <3>3, <3>4
  <2>4. \A x \in Node : /\ getAliases.of[x] \subseteq unsafe'.of[x]
                        /\ x \in nodes => unsafe'.of[x] = getAliases.of[x]
    <3>1. SUFFICES ASSUME NEW x \in Node
          PROVE /\ getAliases.of[x] \subseteq unsafe'.of[x]
                /\ x \in nodes => unsafe'.of[x] = getAliases.of[x]
      OBVIOUS
    <3>2. unsafe'.of[x] = IF unsafe.of[x] = {} THEN safe.of[x] ELSE unsafe.of[x]
      BY <2>1 DEF Insert
    <3>3. CASE usingSafe
      BY <3>2, <3>3 DEF IInv, AliasInv, getAliases, NoAliases
    <3>4. CASE ~usingSafe
      BY <3>2, <3>4, <1>3 DEF IInv, AliasInv, getAliases
    <3> QED
      BY <3>3, <3>4
  <2>5. \A x \in Node : Rep(x)' = Rep(x)
    BY <2>2, <2>3 DEF Rep, Final
  <2>6. Flat(getAliases)'
    BY <2>2, <2>3, <2>4, MapsType, Constants DEF IInv, AliasInv, Flat
  <2>7. Listed(getAliases, nodes)'
    BY <2>2, <2>3, <2>4, <1>3, MapsType DEF IInv, AliasInv, Listed
  <2>8. /\ \A x \in Node : safe'.to[x] # 0 => unsafe'.to[x] # 0
        /\ \A f \in nodes' : safe'.of[f] \subseteq unsafe'.of[f]
    <3>1. CASE usingSafe
      BY <3>1, <2>1, <2>2, <2>3, <2>4, <1>3 DEF getAliases
    <3>2. CASE ~usingSafe
      BY <3>2, <2>1, <2>2, <2>3, <2>4, <1>3 DEF getAliases, IInv, AliasInv
    <3> QED
      BY <3>1, <3>2
  <2>9. AliasInv'
    BY <1>3, <1>5, <2>1, <2>6, <2>7, <2>8 DEF AliasInv
  <2>10. TypeOK'
    BY <1>1, <1>2, <1>3, <2>1, <2>2, <2>5, PushStep DEF IInv, TypeOK
  <2> QED
    BY <1>1, <1>2, <1>3, <2>5, <2>9, <2>10, PushStep DEF IInv
<1> QED
  BY <1>4, <1>5

-----------------------------------------------------------------------------
(* Coalescing two nodes joined by a move.                                  *)
LEMMA CoalesceStep == IInv /\ Coalesce => IInv'
<1> SUFFICES ASSUME IInv, Coalesce PROVE IInv'
  OBVIOUS
<1> DEFINE Merged(alias, final) ==
        /\ nodes' = nodes \ {alias}
        /\ interf' = MergeInterf(interf, final, alias)
        /\ \E missed : moves' = {a \in Unfixed(Merge(moves, final, alias), interf') :
                                  BothPrecolored(a) => a \in missed}
        /\ IF usingSafe
             THEN safe' = Add(safe, alias, final) /\ unsafe' = unsafe
             ELSE unsafe' = Add(unsafe, alias, final) /\ safe' = safe
<1>0. PICK alias \in FreezeNodes :
        \E final \in MoveAdj(alias) \ {alias} : Merged(alias, final)
  BY Zenon DEF Coalesce
<1>1. PICK final \in MoveAdj(alias) \ {alias} : Merged(alias, final)
  BY <1>0
<1>2. /\ phase = "simplify" /\ coalescing
      /\ UNCHANGED <<given, coalescing, phase, nodesStack, usingSafe, assigned, register>>
  <2>1. phase = "simplify"
        /\ UNCHANGED <<given, coalescing, phase, nodesStack, usingSafe, assigned, register>>
    BY DEF Coalesce
  <2> QED
    BY <1>1, <2>1 DEF FreezeNodes
<1>3. /\ alias \in nodes /\ final \in nodes /\ alias # final
      /\ alias \in Temps /\ alias \in Node /\ final \in Node
  BY <1>1 DEF FreezeNodes, MoveAdj, Work, IInv, TypeOK
<1>4. <<alias, final>> \notin interf /\ <<final, alias>> \notin interf
  BY <1>1, <1>2, <1>3 DEF MoveAdj, IInv, GraphInv, Closed
<1>5. /\ interf \in SUBSET Arcs /\ moves \in SUBSET Arcs /\ nodes \in SUBSET Node
      /\ getAliases \in Maps /\ \A n \in Node : Rep(n) \in Node
  BY AliasesType DEF IInv, TypeOK
<1>6. /\ Flat(getAliases) /\ Listed(getAliases, nodes)
      /\ Listed(getAliases, {alias, final})
  BY <1>2, <1>3 DEF IInv, AliasInv, Listed
<1>7. getAliases' = Add(getAliases, alias, final)
  BY <1>1, <1>2 DEF getAliases
<1>8. \A n \in Node : Rep(n)' = Into(Rep(n), final, alias)
  BY <1>3, <1>5, <1>6, <1>7, AddLeads DEF Rep, Into
<1>9. AliasInv'
  <2>1. Flat(getAliases)'
    BY <1>3, <1>5, <1>6, <1>7, AddKeepsFlat
  <2>2. Listed(getAliases, nodes)'
    BY <1>1, <1>3, <1>5, <1>6, <1>7, AddKeepsListed
  <2>3. usingSafe' => unsafe' = NoAliases
    BY <1>1, <1>2 DEF IInv, AliasInv
  <2>4. ~usingSafe' => /\ \A n \in Node : safe'.to[n] # 0 => unsafe'.to[n] # 0
                       /\ \A f \in nodes' : safe'.of[f] \subseteq unsafe'.of[f]
    <3> SUFFICES ASSUME ~usingSafe
        PROVE /\ \A n \in Node : safe'.to[n] # 0 => unsafe'.to[n] # 0
              /\ \A f \in nodes' : safe'.of[f] \subseteq unsafe'.of[f]
      BY <1>2
    <3>1. unsafe' = Add(unsafe, alias, final) /\ safe' = safe
      BY <1>1
    <3>2. \A n \in Node : unsafe.to[n] # 0 => unsafe'.to[n] # 0
      BY <3>1, <1>3, Constants DEF Add
    <3>3. \A f \in nodes' : unsafe.of[f] \subseteq unsafe'.of[f]
      BY <3>1, <1>1, <1>5 DEF Add
    <3> QED
      BY <3>1, <3>2, <3>3, <1>1, <1>2 DEF IInv, AliasInv
  <2> QED
    BY <1>2, <2>1, <2>2, <2>3, <2>4 DEF AliasInv
<1>10. /\ nodes' \in SUBSET Node /\ interf' \in SUBSET Arcs
       /\ Closed(interf', nodes')
  BY <1>1, <1>3, <1>5, MergeArcs, MergeKeepsClosed DEF IInv, GraphInv
<1>11. moves' \in SUBSET Arcs /\ \A a \in moves' : a \notin interf'
  <2>1. Merge(moves, final, alias) \in SUBSET Arcs
    BY <1>3, <1>5, MergeArcs DEF MergeInterf
  <2> QED
    BY <1>1, <2>1 DEF Unfixed, NotInterfering, NotSelf
<1>12. RepInv'
  <2>1. ASSUME NEW u \in Node, NEW v \in Node, <<u, v>> \in given.interf
        PROVE  Rep(u)' # Rep(v)'
    <3>1. Rep(u) # Rep(v)
      BY <2>1 DEF IInv, RepInv
    <3>2. ~(Rep(u) = alias /\ Rep(v) = final) /\ ~(Rep(u) = final /\ Rep(v) = alias)
      BY <2>1, <1>2, <1>3, <1>4 DEF IInv, RepInv
    <3> QED
      BY <3>1, <3>2, <1>8 DEF Into
  <2>2. ASSUME NEW u \in Node, NEW v \in Node, <<u, v>> \in given.interf,
               Rep(u)' \in nodes', Rep(v)' \in nodes'
        PROVE  <<Rep(u)', Rep(v)'>> \in interf'
    <3>1. Rep(u) \in nodes /\ Rep(v) \in nodes
      BY <2>2, <1>1, <1>3, <1>8 DEF Into
    <3>2. <<Rep(u), Rep(v)>> \in interf
      BY <2>2, <3>1, <1>2 DEF IInv, RepInv
    <3>3. <<Into(Rep(u), final, alias), Into(Rep(v), final, alias)>> \in interf'
      BY <3>2, <1>1, <1>3, <1>5, MergeArcs
    <3> QED
      BY <3>3, <1>8
  <2> QED
    BY <1>2, <2>1, <2>2 DEF RepInv
<1>13. TypeOK'
  <2>1. safe' \in Maps /\ unsafe' \in Maps
    BY <1>1, <1>3, AddType DEF IInv, TypeOK
  <2> QED
    BY <2>1, <1>2, <1>10, <1>11 DEF IInv, TypeOK
<1>14. GraphInv' /\ ColourInv' /\ ProperColouring'
  BY <1>2, <1>10, <1>11 DEF IInv, GraphInv, ColourInv, ProperColouring
<1> QED
  BY <1>9, <1>12, <1>13, <1>14 DEF IInv

(* Steps that move on, or stop, without touching graph or aliases.         *)
LEMMA StopStep ==
  ASSUME IInv, UNCHANGED <<given, coalescing, graph, nodesStack, aliases, assigned, register>>,
         phase' \in {"thrown", "crashed", "spilled"}
  PROVE  IInv'
<1>1. getAliases' = getAliases /\ \A n \in Node : Rep(n)' = Rep(n)
  BY SameAliases
<1>2. TypeOK'
  BY DEF IInv, TypeOK, Phases, graph, aliases
<1>3. AliasInv' /\ GraphInv'
  BY <1>1 DEF IInv, AliasInv, GraphInv, graph, aliases
<1>4. RepInv' /\ ColourInv' /\ ProperColouring'
  BY <1>1 DEF IInv, RepInv, ColourInv, ProperColouring
<1> QED
  BY <1>2, <1>3, <1>4 DEF IInv

LEMMA EndSimplifyStep == IInv /\ EndSimplify => IInv'
<1> SUFFICES ASSUME IInv, EndSimplify PROVE IInv'
  OBVIOUS
<1>1. /\ phase = "simplify" /\ nodes' = Node /\ interf' = given.interf /\ moves' = {}
      /\ phase' = IF coalescing THEN "apply" ELSE "select"
      /\ UNCHANGED <<given, coalescing, nodesStack, aliases, assigned, register>>
  BY DEF EndSimplify
<1>2. getAliases' = getAliases /\ \A n \in Node : Rep(n)' = Rep(n)
  BY <1>1, SameAliases
<1>3. given \in Graphs /\ interf' \in SUBSET Arcs /\ Closed(interf', nodes')
  BY <1>1, GivenGraph DEF IInv, GraphInv
<1>4. TypeOK'
  BY <1>1, <1>3 DEF IInv, TypeOK, Phases, aliases
<1>5. AliasInv' /\ GraphInv'
  BY <1>1, <1>2, <1>3 DEF IInv, AliasInv, GraphInv, aliases
<1>6. RepInv'
  <2>1. ~coalescing => \A n \in Node : Rep(n)' = n
    BY <1>2 DEF IInv, AliasInv, Rep, Final, getAliases, NoAliases
  <2>2. \A n \in Node : Current(n)' = n
    BY <1>1 DEF Current
  <2>3. \A u, v \in Node : <<u, v>> \in given.interf => Rep(u)' # Rep(v)'
    BY <1>2 DEF IInv, RepInv
  <2> QED
    BY <1>1, <2>1, <2>2, <2>3 DEF RepInv
<1>7. ColourInv' /\ ProperColouring'
  BY <1>1, Constants DEF IInv, ColourInv, ProperColouring, Col
<1> QED
  BY <1>4, <1>5, <1>6, <1>7 DEF IInv

(* Once an alias is applied, its nodes have moved into its final.          *)
LEMMA AppliedLeads ==
  ASSUME IInv, NEW alias \in Unapplied, getAliases.to[alias] \in nodes,
         nodes' = nodes \ {alias}, \A n \in Node : Rep(n)' = Rep(n)
  PROVE  \A n \in Node : Current(n)' = Into(Current(n), getAliases.to[alias], alias)
<1> DEFINE final == getAliases.to[alias]
<1>1. /\ alias \in nodes /\ alias \in Node /\ final \in nodes /\ final # 0
      /\ getAliases.to[final] = 0 /\ alias # final
  BY DEF Unapplied, IInv, TypeOK, AliasInv, Flat
<1>2. SUFFICES ASSUME NEW n \in Node
      PROVE Current(n)' = Into(Current(n), final, alias)
  OBVIOUS
<1>3. Rep(alias) = final /\ Rep(n) # alias
  BY <1>1 DEF Rep, Final, IInv, AliasInv, Flat
<1> QED
  BY <1>1, <1>3 DEF Current, Into

LEMMA ApplyStep == IInv /\ ApplyCoalescing => IInv'
<1> SUFFICES ASSUME IInv, ApplyCoalescing PROVE IInv'
  OBVIOUS
<1>1. PICK alias \in Unapplied :
        IF getAliases.to[alias] \in nodes
          THEN /\ nodes' = nodes \ {alias}
               /\ interf' = MergeInterf(interf, getAliases.to[alias], alias)
               /\ phase' = phase
          ELSE phase' = "thrown" /\ nodes' = nodes /\ interf' = interf
  BY DEF ApplyCoalescing
<1>2. /\ phase = "apply"
      /\ UNCHANGED <<given, coalescing, moves, nodesStack, aliases, assigned, register>>
  BY DEF ApplyCoalescing
<1>3. CASE getAliases.to[alias] \notin nodes
  BY <1>1, <1>2, <1>3, StopStep DEF graph
<1>4. CASE getAliases.to[alias] \in nodes
  <2> DEFINE final == getAliases.to[alias]
  <2>1. /\ nodes' = nodes \ {alias} /\ interf' = MergeInterf(interf, final, alias)
        /\ phase' = "apply"
    BY <1>1, <1>2, <1>4
  <2>2. /\ alias \in nodes /\ alias \in Node /\ final \in nodes /\ final # 0
        /\ final \in Node /\ getAliases.to[final] = 0 /\ alias # final
    BY <1>4 DEF Unapplied, IInv, TypeOK, AliasInv, Flat
  <2>3. getAliases' = getAliases /\ \A n \in Node : Rep(n)' = Rep(n)
    BY <1>2, SameAliases
  <2>4. interf \in SUBSET Arcs /\ nodes \in SUBSET Node
    BY DEF IInv, TypeOK
  <2>5. /\ nodes' \in SUBSET Node /\ interf' \in SUBSET Arcs
        /\ Closed(interf', nodes')
    BY <2>1, <2>2, <2>4, MergeArcs, MergeKeepsClosed DEF IInv, GraphInv
  <2>6. TypeOK'
    BY <1>2, <2>1, <2>5 DEF IInv, TypeOK, aliases, Phases
  <2>7. AliasInv' /\ GraphInv'
    BY <1>2, <2>1, <2>3, <2>5 DEF IInv, AliasInv, GraphInv, aliases
  <2>8. \A n \in Node : Current(n)' = Into(Current(n), final, alias)
    BY <1>1, <1>4, <2>1, <2>3, AppliedLeads
  <2>9. RepInv'
    <3>1. \A u, v \in Node : <<u, v>> \in given.interf => Rep(u)' # Rep(v)'
      BY <2>3 DEF IInv, RepInv
    <3>2. ASSUME NEW u \in Node, NEW v \in Node, <<u, v>> \in given.interf
          PROVE  <<Current(u)', Current(v)'>> \in interf'
      <4>1. <<Current(u), Current(v)>> \in interf
        BY <1>2, <3>2 DEF IInv, RepInv
      <4>2. Current(u) \in Node /\ Current(v) \in Node
        BY AliasesType DEF Current, IInv
      <4> QED
        BY <4>1, <4>2, <2>1, <2>2, <2>4, <2>8, MergeArcs
    <3> QED
      BY <1>2, <2>1, <3>1, <3>2 DEF RepInv
  <2>10. ColourInv' /\ ProperColouring'
    BY <1>2, <2>1 DEF IInv, ColourInv, ProperColouring
  <2> QED
    BY <2>6, <2>7, <2>9, <2>10 DEF IInv
<1> QED
  BY <1>3, <1>4

LEMMA EndApplyStep == IInv /\ EndApply => IInv'
<1> SUFFICES ASSUME IInv, EndApply PROVE IInv'
  OBVIOUS
<1>1. /\ phase = "apply" /\ Unapplied = {} /\ phase' = "select"
      /\ UNCHANGED <<given, coalescing, graph, nodesStack, aliases, assigned, register>>
  BY DEF EndApply
<1>2. getAliases' = getAliases /\ \A n \in Node : Rep(n)' = Rep(n)
  BY <1>1, SameAliases
<1>3. TypeOK'
  BY <1>1 DEF IInv, TypeOK, Phases, graph, aliases
<1>4. AliasInv' /\ GraphInv'
  BY <1>1, <1>2 DEF IInv, AliasInv, GraphInv, graph, aliases
<1>5. \A n \in Node : Current(n) = Rep(n)
  BY <1>1 DEF Unapplied, Current, Rep, Final
<1>6. RepInv'
  BY <1>1, <1>2, <1>5 DEF IInv, RepInv, graph
<1>7. ColourInv' /\ ProperColouring'
  BY <1>1, Constants DEF IInv, ColourInv, ProperColouring, Col, graph
<1> QED
  BY <1>3, <1>4, <1>6, <1>7 DEF IInv

-----------------------------------------------------------------------------
(* Giving a node its register.                                             *)
LEMMA SelectStep == IInv /\ Select => IInv'
<1> SUFFICES ASSUME IInv, Select PROVE IInv'
  OBVIOUS
<1>2. /\ phase = "select" /\ nodesStack # <<>>
      /\ nodesStack' = SubSeq(nodesStack, 1, Len(nodesStack) - 1)
      /\ UNCHANGED <<given, coalescing, phase, graph, aliases, register>>
  BY DEF Select
<1>3. nodesStack \in Seq([uid : Temps, spill : BOOLEAN])
  BY DEF IInv, TypeOK
<1>4. Len(nodesStack) \in Nat /\ Len(nodesStack) > 0
  BY <1>2, <1>3
<1>5. PICK n \in Temps : n = Top.uid /\ n \in Node /\ n \notin Precolored
  <2>1. Len(nodesStack) \in 1 .. Len(nodesStack)
    BY <1>4
  <2>2. Top \in [uid : Temps, spill : BOOLEAN]
    BY <2>1, <1>3, ElementOfSeq DEF Top
  <2> QED
    BY <2>2, Constants
<1>1. PICK r \in 0 .. MaxRegs :
        /\ IsLowestFree(r, n)
        /\ assigned' = [assigned EXCEPT ![n] = IF @ = NotYet THEN r ELSE @]
  BY <1>5 DEF Select
<1>6. nodesStack' \in Seq([uid : Temps, spill : BOOLEAN])
  <2>1. \A i \in 1 .. Len(nodesStack) - 1 :
          nodesStack[i] \in [uid : Temps, spill : BOOLEAN]
    <3>1. \A i \in 1 .. Len(nodesStack) - 1 : i \in 1 .. Len(nodesStack)
      BY <1>4
    <3> QED
      BY <3>1, <1>3, ElementOfSeq
  <2>2. 1 \in Int /\ Len(nodesStack) - 1 \in Int
    BY <1>4
  <2> QED
    BY <1>2, <2>1, <2>2, SubSeqProperties
<1>7. getAliases' = getAliases /\ \A x \in Node : Rep(x)' = Rep(x)
  BY <1>2, SameAliases
<1>8. /\ assigned \in [Node -> 0 .. MaxRegs \cup {NotYet}]
      /\ assigned' \in [Node -> 0 .. MaxRegs \cup {NotYet}]
  BY <1>1, <1>5 DEF IInv, TypeOK
<1>9. TypeOK'
  BY <1>2, <1>6, <1>8 DEF IInv, TypeOK, graph, aliases
<1>10. AliasInv' /\ GraphInv' /\ RepInv' /\ ProperColouring'
  BY <1>2, <1>7 DEF IInv, AliasInv, GraphInv, RepInv, ProperColouring, graph, aliases
<1>11. ColourInv'
  <2>1. \A x \in Precolored : assigned'[x] = NotYet
    BY <1>1, <1>5, <1>8, Constants DEF IInv, ColourInv
  <2>2. \A x \in Node \ {n} : Col(x)' = Col(x)
    BY <1>1, <1>8 DEF Col
  <2>3. Col(n)' = IF Col(n) = NotYet THEN r ELSE Col(n)
    BY <1>1, <1>5, <1>8 DEF Col
  <2>4. ASSUME NEW m \in Node, <<n, m>> \in interf, Col(m) = r, r \in Precolored
        PROVE  FALSE
    <3>1. m \in Adj(n)
      BY <2>4, <1>5 DEF Adj, IInv, GraphInv, Closed
    <3>2. r \in Taken(n)
      <4>1. CASE m \in Precolored
        BY <3>1, <4>1, <2>4, Constants DEF Taken, Col, IInv, ColourInv
      <4>2. CASE m \notin Precolored
        BY <3>1, <4>2, <2>4, Constants DEF Taken, Col
      <4> QED
        BY <4>1, <4>2
    <3>3. r \in Precolored \ Taken(n) \/ r = 0
      BY <1>1 DEF IsLowestFree, IsFirst
    <3> QED
      BY <3>2, <3>3, <2>4, Constants
  <2>5. ASSUME NEW u \in Node, NEW v \in Node, <<u, v>> \in interf, u # v,
               Col(u)' = Col(v)', Col(u)' \in Precolored
        PROVE  FALSE
    <3>1. <<v, u>> \in interf
      BY <2>5 DEF IInv, GraphInv, Closed
    <3>2. ~(Col(u) = Col(v) /\ Col(u) \in Precolored)
      BY <2>5, <1>2 DEF IInv, ColourInv
    <3>3. CASE u = n
      BY <3>3, <3>1, <3>2, <2>2, <2>3, <2>4, <2>5
    <3>4. CASE v = n
      BY <3>4, <3>1, <3>2, <2>2, <2>3, <2>4, <2>5
    <3>5. CASE u # n /\ v # n
      BY <3>5, <3>2, <2>2, <2>5
    <3> QED
      BY <3>3, <3>4, <3>5
  <2> QED
    BY <2>1, <2>5, <1>2 DEF ColourInv, graph
<1> QED
  BY <1>9, <1>10, <1>11 DEF IInv

LEMMA EndSelectStep == IInv /\ EndSelect => IInv'
<1> SUFFICES ASSUME IInv, EndSelect PROVE IInv'
  OBVIOUS
<1>1. /\ phase = "select"
      /\ phase' = IF \E n \in Node : assigned[n] = 0 THEN "spilled" ELSE "assigned"
      /\ UNCHANGED <<given, coalescing, graph, nodesStack, aliases, assigned, register>>
  BY DEF EndSelect
<1>2. CASE phase' = "spilled"
  BY <1>1, <1>2, StopStep
<1>3. CASE phase' = "assigned"
  <2>1. getAliases' = getAliases /\ \A n \in Node : Rep(n)' = Rep(n)
    BY <1>1, SameAliases
  <2>2. TypeOK'
    BY <1>1, <1>3 DEF IInv, TypeOK, Phases, graph, aliases
  <2>3. AliasInv' /\ GraphInv' /\ RepInv'
    BY <1>1, <1>3, <2>1 DEF IInv, AliasInv, GraphInv, RepInv, graph, aliases
  <2>4. ColourInv' /\ ProperColouring'
    BY <1>1, <1>3 DEF IInv, ColourInv, ProperColouring, Col, graph
  <2> QED
    BY <2>2, <2>3, <2>4 DEF IInv
<1> QED
  BY <1>1, <1>2, <1>3

(* The registers written are those of the nodes the temporaries stand for. *)
LEMMA ApplyRegistersStep == IInv /\ ApplySelectedRegisters => IInv'
<1> SUFFICES ASSUME IInv, ApplySelectedRegisters PROVE IInv'
  OBVIOUS
<1>1. /\ phase = "assigned"
      /\ UNCHANGED <<given, coalescing, graph, nodesStack, aliases, assigned>>
      /\ \/ phase' = "thrown" /\ UNCHANGED register
         \/ /\ \A n \in Temps : ToBeAssigned(n) \notin {NotYet, 0}
            /\ phase' = "done"
            /\ register' = [n \in Node |-> ToBeAssigned(n)]
  BY DEF ApplySelectedRegisters
<1>2. CASE phase' = "thrown" /\ UNCHANGED register
  BY <1>1, <1>2, StopStep
<1>3. CASE /\ \A n \in Temps : ToBeAssigned(n) \notin {NotYet, 0}
           /\ phase' = "done"
           /\ register' = [n \in Node |-> ToBeAssigned(n)]
  <2>1. getAliases' = getAliases /\ \A n \in Node : Rep(n)' = Rep(n)
    BY <1>1, SameAliases
  <2>2. \A n \in Node : Rep(n) \in Node /\ ToBeAssigned(n) = Col(Rep(n))
    <3>1. \A n \in Node : Rep(n) \in Node
      BY AliasesType DEF IInv
    <3>2. ~coalescing => \A n \in Node : Rep(n) = n
      <4>1. ~coalescing => getAliases = NoAliases
        BY DEF IInv, AliasInv, getAliases
      <4>2. \A n \in Node : NoAliases.to[n] = 0
        BY DEF NoAliases
      <4> QED
        BY <4>1, <4>2 DEF Rep, Final
    <3>3. \A n \in Node : ToBeAssigned(n) = Col(Rep(n))
      BY <3>2 DEF ToBeAssigned, Col, Rep
    <3> QED
      BY <3>1, <3>3
  <2>3. \A n \in Node : ToBeAssigned(n) \in Precolored
    <3>1. SUFFICES ASSUME NEW n \in Node PROVE ToBeAssigned(n) \in Precolored
      OBVIOUS
    <3>2. CASE n \in Precolored
      <4>1. Rep(n) = n
        BY <3>2, Constants DEF IInv, AliasInv, Flat, Rep, Final
      <4> QED
        BY <4>1, <2>2, <3>2 DEF Col
    <3>3. CASE n \in Temps
      <4>1. Col(Rep(n)) \in Precolored \cup {0, NotYet}
        <5>1. Rep(n) \in Node /\ assigned[Rep(n)] \in 0 .. MaxRegs \cup {NotYet}
          BY <2>2 DEF IInv, TypeOK
        <5> QED
          BY <5>1, Constants DEF Col
      <4> QED
        BY <4>1, <1>3, <2>2, <3>3
    <3> QED
      BY <3>2, <3>3, Constants
  <2>4. TypeOK'
    <3>1. register' \in [Node -> 0 .. MaxRegs]
      BY <1>3, <2>3, Constants
    <3> QED
      BY <3>1, <1>1, <1>3 DEF IInv, TypeOK, Phases, graph, aliases
  <2>5. AliasInv' /\ GraphInv' /\ RepInv' /\ ColourInv'
    <3>1. AliasInv' /\ GraphInv'
      BY <1>1, <1>3, <2>1 DEF IInv, AliasInv, GraphInv, graph, aliases
    <3>2. RepInv' /\ ColourInv'
      BY <1>1, <1>3, <2>1 DEF IInv, RepInv, ColourInv, graph
    <3> QED
      BY <3>1, <3>2
  <2>6. ProperColouring'
    <3>1. ASSUME NEW u \in Node, NEW v \in Node, <<u, v>> \in given.interf
          PROVE  ToBeAssigned(u) # ToBeAssigned(v)
      <4>1. Rep(u) # Rep(v) /\ <<Rep(u), Rep(v)>> \in interf
        BY <3>1, <1>1 DEF IInv, RepInv
      <4> QED
        BY <4>1, <2>2, <2>3, <1>1 DEF IInv, ColourInv
    <3>2. given.interf \in SUBSET (Node \X Node)
      BY GivenGraph DEF IInv, GraphInv, Arcs
    <3>3. \A a \in given.interf : a[1] \in Node /\ a[2] \in Node /\ a = <<a[1], a[2]>>
      BY <3>2
    <3>4. \A a \in given.interf : register'[a[1]] # register'[a[2]]
      BY <3>1, <3>3, <1>3
    <3> QED
      BY <3>4, <1>1 DEF ProperColouring
  <2> QED
    BY <2>4, <2>5, <2>6 DEF IInv
<1> QED
  BY <1>1, <1>2, <1>3

-----------------------------------------------------------------------------
LEMMA NextIInv == IInv /\ [Next]_vars => IInv'
<1> SUFFICES ASSUME IInv, [Next]_vars PROVE IInv'
  OBVIOUS
<1>1. CASE CoalesceThrows
  BY <1>1, StopStep DEF CoalesceThrows
<1>2. CASE SelectOutOfRange
  BY <1>2, StopStep DEF SelectOutOfRange
<1>3. CASE UNCHANGED vars
  <2>1. /\ UNCHANGED <<given, coalescing, phase, nodes, interf, moves, nodesStack>>
        /\ UNCHANGED <<safe, unsafe, usingSafe, assigned, register>>
    BY <1>3 DEF vars, graph, aliases
  <2>2. getAliases' = getAliases /\ \A n \in Node : Rep(n)' = Rep(n)
    BY <2>1, SameAliases DEF aliases
  <2>3. TypeOK' /\ AliasInv' /\ GraphInv'
    BY <2>1, <2>2 DEF IInv, TypeOK, AliasInv, GraphInv
  <2>4. RepInv' /\ ColourInv' /\ ProperColouring'
    BY <2>1, <2>2 DEF IInv, RepInv, ColourInv, ProperColouring, Current, Col
  <2> QED
    BY <2>3, <2>4 DEF IInv
<1> QED
  BY <1>1, <1>2, <1>3, SimplifyStep, CoalesceStep, PotentialSpillStep,
     EndSimplifyStep, ApplyStep, EndApplyStep, SelectStep, EndSelectStep,
     ApplyRegistersStep DEF Next

(* The inductive invariant of the allocator, for every graph it is given   *)
(* (simpleAllocateRegs, coalesceAllocateRegs).                             *)
THEOREM Invariant == Spec => []IInv
<1> QED
  BY InitIInv, NextIInv, PTL DEF Spec

(* Every variable of the allocator keeps its type.                         *)
THEOREM TypeCorrect == Spec => []TypeOK
<1>1. IInv => TypeOK
  BY DEF IInv
<1> QED
  BY <1>1, Invariant, PTL

(* No move joins nodes that interfere, whatever was coalesced before.      *)
THEOREM MovesAreFree == Spec => []MovesDoNotInterfere
<1>1. IInv => MovesDoNotInterfere
  <2> SUFFICES ASSUME IInv, phase = "simplify", NEW a \in moves
      PROVE a \notin interf /\ Flip(a) \notin interf
    BY DEF MovesDoNotInterfere
  <2>1. a \in Node \X Node /\ a \notin interf
    BY DEF IInv, TypeOK, GraphInv, Arcs
  <2>2. a = <<a[1], a[2]>> /\ a[1] \in Node /\ a[2] \in Node
    BY <2>1
  <2> QED
    BY <2>1, <2>2 DEF IInv, GraphInv, Closed, Flip
<1> QED
  BY <1>1, Invariant, PTL

(* The alias map in use is flat, and its reverse lists every alias.        *)
THEOREM AliasesStayFlat == Spec => []AliasesAreFlat
<1>1. IInv => AliasesAreFlat
  BY Constants DEF IInv, AliasInv, Flat, AliasesAreFlat
<1> QED
  BY <1>1, Invariant, PTL

(* A finished allocation never gives interfering nodes the same register.  *)
THEOREM AllocationIsProper == Spec => []ProperColouring
<1>1. IInv => ProperColouring
  BY DEF IInv
<1> QED
  BY <1>1, Invariant, PTL

-----------------------------------------------------------------------------
(***************************************************************************)
(* RegAlloc implements Colouring, throws for moves of a temporary to       *)
(* itself alone and spills no node but potential spills: for every number  *)
(* of registers, every finite set of temporaries and every set of          *)
(* interference graphs.                                                    *)
(***************************************************************************)

(* What becomes of the aliases in the two steps that change them.          *)
LEMMA SpillKeepsAliases ==
  ASSUME IInv, PotentialSpill
  PROVE  /\ \A n \in Node : getAliases'.to[n] = getAliases.to[n]
         /\ \A n \in Node : Rep(n)' = Rep(n)
<1>1. \A n \in Node : getAliases'.to[n] = getAliases.to[n]
  <2>1. CASE ~coalescing
    BY <2>1, SameAliases DEF PotentialSpill
  <2>2. CASE coalescing
    <3>1. usingSafe' = FALSE /\ unsafe' = Insert(unsafe, safe)
      BY <2>2 DEF PotentialSpill
    <3>2. ASSUME NEW n \in Node PROVE unsafe'.to[n] = getAliases.to[n]
      <4>1. unsafe'.to[n] = IF unsafe.to[n] = 0 THEN safe.to[n] ELSE unsafe.to[n]
        BY <3>1 DEF Insert
      <4>2. CASE usingSafe
        BY <4>1, <4>2 DEF IInv, AliasInv, getAliases, NoAliases
      <4>3. CASE ~usingSafe
        BY <4>1, <4>3 DEF IInv, AliasInv, getAliases
      <4> QED
        BY <4>2, <4>3
    <3> QED
      BY <3>1, <3>2 DEF getAliases
  <2> QED
    BY <2>1, <2>2
<1> QED
  BY <1>1 DEF Rep, Final

LEMMA CoalesceLeads ==
  ASSUME IInv, Coalesce
  PROVE  \E alias \in nodes \cap Temps, final \in nodes :
           /\ alias # final
           /\ nodes' = nodes \ {alias}
           /\ getAliases' = Add(getAliases, alias, final)
           /\ \A n \in Node : Rep(n)' = Into(Rep(n), final, alias)
           /\ \A a \in moves' : a[1] # a[2]
<1> DEFINE Merged(alias, final) ==
        /\ nodes' = nodes \ {alias}
        /\ interf' = MergeInterf(interf, final, alias)
        /\ \E missed : moves' = {a \in Unfixed(Merge(moves, final, alias), interf') :
                                  BothPrecolored(a) => a \in missed}
        /\ IF usingSafe
             THEN safe' = Add(safe, alias, final) /\ unsafe' = unsafe
             ELSE unsafe' = Add(unsafe, alias, final) /\ safe' = safe
<1>0. PICK alias \in FreezeNodes :
        \E final \in MoveAdj(alias) \ {alias} : Merged(alias, final)
  BY Zenon DEF Coalesce
<1>1. PICK final \in MoveAdj(alias) \ {alias} : Merged(alias, final)
  BY <1>0
<1>2. phase = "simplify" /\ usingSafe' = usingSafe
  BY DEF Coalesce
<1>3. /\ alias \in nodes /\ final \in nodes /\ alias # final
      /\ alias \in Temps /\ alias \in Node /\ final \in Node
  BY <1>1 DEF FreezeNodes, MoveAdj, Work, IInv, TypeOK
<1>4. getAliases' = Add(getAliases, alias, final)
  BY <1>1, <1>2 DEF getAliases
<1>5. /\ getAliases \in Maps /\ Flat(getAliases)
      /\ Listed(getAliases, {alias, final})
  BY <1>2, <1>3, AliasesType DEF IInv, AliasInv, Listed
<1>6. \A n \in Node : Rep(n)' = Into(Rep(n), final, alias)
  BY <1>3, <1>4, <1>5, AddLeads DEF Rep, Into
<1>7. \A a \in moves' : a[1] # a[2]
  BY <1>1 DEF Unfixed, NotInterfering, NotSelf
<1> QED
  BY <1>1, <1>3, <1>4, <1>6, <1>7

-----------------------------------------------------------------------------
(* The colour of a node is that of the node it stands for.                 *)
Shown(c) == IF c = NotYet THEN 0 ELSE c

ColoursShown ==
  \A n \in Node : Rep(n) \in Node /\ Colours[n] = Shown(Col(Rep(n)))

LEMMA ColoursAre == IInv => ColoursShown
<1> SUFFICES ASSUME IInv, NEW n \in Node
    PROVE Rep(n) \in Node /\ ToBeAssigned(n) = Col(Rep(n))
  BY DEF ColoursShown, Colours, Shown
<1>1. ~coalescing => Rep(n) = n
  BY DEF IInv, AliasInv, getAliases, NoAliases, Rep, Final
<1> QED
  BY <1>1, AliasesType DEF IInv, ToBeAssigned, Col, Rep

LEMMA ColoursAreNext == IInv' => ColoursShown'
  BY ColoursAre, PTL

AbstractStep == [Abstract!CNext]_<<given.interf, Colours, Outcome>>

(* A step that changes no colour.                                          *)
LEMMA SameColours ==
  ASSUME IInv, IInv', \A n \in Node : Col(Rep(n))' = Col(Rep(n))
  PROVE  Colours' = Colours
<1>1. \A n \in Node : Colours'[n] = Colours[n]
  BY ColoursAre, ColoursAreNext DEF ColoursShown, Shown
<1> QED
  BY <1>1 DEF Colours

LEMMA Stutters ==
  ASSUME IInv, IInv', UNCHANGED given, Outcome' = Outcome,
         \A n \in Node : Col(Rep(n))' = Col(Rep(n))
  PROVE  AbstractStep
  BY SameColours DEF AbstractStep

LEMMA GivesUp ==
  ASSUME IInv, IInv', Outcome = "open", phase' \in {"spilled", "thrown", "crashed"},
         UNCHANGED <<given, coalescing, nodesStack, aliases, assigned>>
  PROVE  AbstractStep
<1>1. \A n \in Node : Col(Rep(n))' = Col(Rep(n))
  BY SameAliases DEF Col
<1>2. Colours' = Colours
  BY <1>1, SameColours
<1>3. Outcome' = "failed"
  BY DEF Outcome
<1> QED
  BY <1>2, <1>3 DEF AbstractStep, Abstract!CNext, Abstract!GiveUp

(* A step that gives the nodes that stand for one node a colour.           *)
LEMMA Gives ==
  ASSUME IInv, IInv', UNCHANGED given, Outcome = "open", Outcome' = "open",
         NEW x \in Node, NEW c \in Precolored, Col(x) = NotYet,
         \A n \in Node : Col(Rep(n))' = IF Rep(n) = x THEN c ELSE Col(Rep(n)),
         \A u, v \in Node : <<u, v>> \in given.interf =>
                              ~(Col(Rep(u))' = c /\ Col(Rep(v))' = c)
  PROVE  AbstractStep
<1> DEFINE together == {n \in Node : Rep(n) = x}
<1>1. \A n \in Node : /\ Colours[n] = Shown(Col(Rep(n)))
                      /\ Colours'[n] = IF n \in together THEN c ELSE Colours[n]
  BY ColoursAre, ColoursAreNext, Constants DEF ColoursShown, Shown
<1>2. together \in SUBSET Abstract!Uncoloured
  BY <1>1 DEF Abstract!Uncoloured, Shown
<1>3. Colours' = [n \in Node |-> IF n \in together THEN c ELSE Colours[n]]
  BY <1>1 DEF Colours
<1>4. CASE together = {}
  <2>1. \A n \in Node : Col(Rep(n))' = Col(Rep(n))
    BY <1>4
  <2> QED
    BY <2>1, Stutters
<1>5. CASE together # {}
  <2>1. ASSUME NEW n \in together, NEW m \in Node, <<n, m>> \in given.interf
        PROVE  m \notin together /\ Colours[m] # c
    <3>1. Col(Rep(n))' = c /\ Col(Rep(m))' # c
      BY <2>1
    <3>2. m \notin together
      BY <3>1
    <3>3. Col(Rep(m)) # c
      BY <3>1, <3>2
    <3> QED
      BY <3>2, <3>3, <1>1, Constants DEF Shown
  <2>2. Abstract!Give(together, c)
    BY <1>3, <1>5, <2>1 DEF Abstract!Give
  <2> QED
    BY <1>2, <2>2 DEF AbstractStep, Abstract!CNext
<1> QED
  BY <1>4, <1>5

-----------------------------------------------------------------------------
(* One step for each action.                                               *)
LEMMA CoalesceGives ==
  ASSUME IInv, IInv', Coalesce
  PROVE  AbstractStep
<1>1. /\ phase = "simplify" /\ phase' = "simplify"
      /\ UNCHANGED <<given, coalescing, assigned>>
  BY DEF Coalesce
<1>2. Outcome = "open" /\ Outcome' = "open"
  BY <1>1 DEF Outcome
<1>3. PICK alias \in nodes \cap Temps, final \in nodes :
        \A n \in Node : Rep(n)' = Into(Rep(n), final, alias)
  BY CoalesceLeads
<1>4. alias \in Node /\ alias \notin Precolored /\ final \in Node
  BY Constants DEF IInv, TypeOK
<1>5. /\ \A n \in Node : Col(n) = IF n \in Precolored THEN n ELSE NotYet
      /\ \A n \in Node : Col(n)' = Col(n)
  BY <1>1 DEF Col, IInv, ColourInv
<1>6. \A n \in Node : Rep(n) \in Node /\ Rep(n)' \in Node
  <2>1. \A n \in Node : Rep(n) \in Node
    BY AliasesType DEF IInv
  <2> QED
    BY <2>1, <1>3, <1>4 DEF Into
<1>7. \A n \in Node : Col(Rep(n))' = IF Rep(n) = alias THEN Col(final) ELSE Col(Rep(n))
  <2>1. SUFFICES ASSUME NEW n \in Node
        PROVE Col(Rep(n))' = IF Rep(n) = alias THEN Col(final) ELSE Col(Rep(n))
    OBVIOUS
  <2>2. Col(Rep(n))' = IF Rep(n)' \in Precolored THEN Rep(n)' ELSE assigned[Rep(n)']
    BY <1>1 DEF Col
  <2> QED
    BY <2>2, <1>3, <1>4 DEF Into, Col
<1>8. CASE final \notin Precolored
  <2>1. \A n \in Node : Col(Rep(n))' = Col(Rep(n))
    BY <1>4, <1>5, <1>7, <1>8
  <2> QED
    BY <1>1, <1>2, <2>1, Stutters
<1>9. CASE final \in Precolored
  <2>1. Col(alias) = NotYet /\ Col(final) = final
    BY <1>4, <1>5, <1>9
  <2>2. ASSUME NEW u \in Node, NEW v \in Node, <<u, v>> \in given.interf,
               Col(Rep(u))' = final, Col(Rep(v))' = final
        PROVE  FALSE
    <3>1. \A n \in Node : Col(Rep(n))' = final => Rep(n)' = final
      <4>1. ASSUME NEW n \in Node, Col(Rep(n))' = final PROVE Rep(n)' = final
        <5>1. Col(Rep(n))' = IF Rep(n)' \in Precolored THEN Rep(n)' ELSE assigned[Rep(n)']
          BY <1>1 DEF Col
        <5>2. Rep(n)' \notin Precolored => assigned[Rep(n)'] = NotYet
          BY <1>1, <1>6 DEF IInv, ColourInv
        <5> QED
          BY <4>1, <5>1, <5>2, <1>9, Constants
      <4> QED
        BY <4>1
    <3>2. Rep(u)' # Rep(v)'
      BY <2>2, <1>1 DEF IInv, RepInv
    <3> QED
      BY <2>2, <3>1, <3>2
  <2>3. \A n \in Node : Col(Rep(n))' = IF Rep(n) = alias THEN final ELSE Col(Rep(n))
    BY <1>7, <2>1
  <2> QED
    BY <1>1, <1>2, <1>4, <1>9, <2>1, <2>2, <2>3, Gives
<1> QED
  BY <1>8, <1>9

LEMMA SelectGives ==
  ASSUME IInv, IInv', Select
  PROVE  AbstractStep
<1>1. /\ phase = "select" /\ phase' = "select" /\ nodesStack # <<>>
      /\ UNCHANGED <<given, coalescing, graph, aliases>>
  BY DEF Select
<1>2. Outcome = "open" /\ Outcome' = "open"
  BY <1>1 DEF Outcome
<1>3. PICK n \in Temps : n = Top.uid
  <2>1. nodesStack \in Seq([uid : Temps, spill : BOOLEAN])
    BY DEF IInv, TypeOK
  <2>2. Len(nodesStack) \in 1 .. Len(nodesStack)
    BY <1>1, <2>1
  <2>3. Top \in [uid : Temps, spill : BOOLEAN]
    BY <2>1, <2>2, ElementOfSeq DEF Top
  <2> QED
    BY <2>3
<1>4. n \in Node /\ n \notin Precolored
  BY Constants
<1>5. PICK r \in 0 .. MaxRegs :
        /\ IsLowestFree(r, n)
        /\ assigned' = [assigned EXCEPT ![n] = IF @ = NotYet THEN r ELSE @]
  BY <1>3 DEF Select
<1>6. assigned \in [Node -> 0 .. MaxRegs \cup {NotYet}]
  BY DEF IInv, TypeOK
<1>7. \A m \in Node : Col(m)' = IF m = n /\ Col(n) = NotYet THEN r ELSE Col(m)
  BY <1>4, <1>5, <1>6 DEF Col
<1>8. \A m \in Node : Rep(m) \in Node /\ Rep(m)' = Rep(m)
  BY <1>1, SameAliases, AliasesType DEF IInv
<1>9. \A m \in Node :
        Col(Rep(m))' = IF Rep(m) = n /\ Col(n) = NotYet THEN r ELSE Col(Rep(m))
  <2>1. SUFFICES ASSUME NEW m \in Node
        PROVE Col(Rep(m))' = IF Rep(m) = n /\ Col(n) = NotYet THEN r ELSE Col(Rep(m))
    OBVIOUS
  <2>2. Col(Rep(m))' = IF Rep(m) \in Precolored THEN Rep(m) ELSE assigned'[Rep(m)]
    BY <1>8 DEF Col
  <2> QED
    BY <2>2, <1>4, <1>5, <1>6, <1>8 DEF Col
<1>10. CASE Col(n) # NotYet
  <2>1. \A m \in Node : Col(Rep(m))' = Col(Rep(m))
    BY <1>9, <1>10
  <2> QED
    BY <1>1, <1>2, <2>1, Stutters
<1>11. CASE Col(n) = NotYet /\ r = 0
  <2>1. \A m \in Node : Colours'[m] = Colours[m]
    BY <1>9, <1>11, ColoursAre, ColoursAreNext DEF ColoursShown, Shown
  <2>2. Colours' = Colours
    BY <2>1 DEF Colours
  <2> QED
    BY <1>1, <1>2, <2>2 DEF AbstractStep
<1>12. CASE Col(n) = NotYet /\ r \in Precolored
  <2>1. ASSUME NEW u \in Node, NEW v \in Node, <<u, v>> \in given.interf,
               Col(Rep(u))' = r, Col(Rep(v))' = r
        PROVE  FALSE
    <3>1. Rep(u)' # Rep(v)' /\ <<Rep(u)', Rep(v)'>> \in interf'
      BY <2>1, <1>1 DEF IInv, RepInv
    <3>2. Rep(u)' \in Node /\ Rep(v)' \in Node
      BY <1>8
    <3>3. \A x, y \in Node :
            <<x, y>> \in interf' /\ x # y => ~(Col(x)' = Col(y)' /\ Col(x)' \in Precolored)
      BY <1>1 DEF IInv, ColourInv
    <3>4. \A m \in Node : Col(Rep(m))'
            = IF Rep(m)' \in Precolored THEN Rep(m)' ELSE assigned'[Rep(m)']
      BY DEF Col
    <3>5. \A x \in Node : Col(x)' = IF x \in Precolored THEN x ELSE assigned'[x]
      BY DEF Col
    <3> QED
      BY <2>1, <3>1, <3>2, <3>3, <3>4, <3>5, <1>12
  <2>2. \A m \in Node : Col(Rep(m))' = IF Rep(m) = n THEN r ELSE Col(Rep(m))
    BY <1>9, <1>12
  <2> QED
    BY <1>1, <1>2, <1>4, <1>12, <2>1, <2>2, Gives
<1> QED
  BY <1>10, <1>11, <1>12, Constants

LEMMA RegistersSucceed ==
  ASSUME IInv, IInv', ApplySelectedRegisters
  PROVE  AbstractStep
<1>1. /\ phase = "assigned"
      /\ UNCHANGED <<given, coalescing, nodesStack, aliases, assigned>>
      /\ \/ phase' = "thrown"
         \/ phase' = "done" /\ \A n \in Temps : ToBeAssigned(n) \notin {NotYet, 0}
  BY DEF ApplySelectedRegisters
<1>2. Outcome = "open"
  BY <1>1 DEF Outcome
<1>3. CASE phase' = "thrown"
  BY <1>1, <1>2, <1>3, GivesUp
<1>4. CASE phase' = "done" /\ \A n \in Temps : ToBeAssigned(n) \notin {NotYet, 0}
  <2>1. Outcome' = "solved"
    BY <1>4 DEF Outcome
  <2>2. \A n \in Node : Col(Rep(n))' = Col(Rep(n))
    BY <1>1, SameAliases DEF Col
  <2>3. Colours' = Colours
    BY <2>2, SameColours
  <2>4. \A n \in Precolored : ToBeAssigned(n) = n
    BY Constants DEF IInv, AliasInv, Flat, ToBeAssigned, Final
  <2>5. \A n \in Node : Colours[n] # 0
    BY <1>4, <2>4, Constants DEF Colours
  <2>6. Abstract!Succeed
    BY <2>1, <2>3, <2>5 DEF Abstract!Succeed, Abstract!Uncoloured
  <2> QED
    BY <1>1, <1>2, <2>6 DEF AbstractStep, Abstract!CNext
<1> QED
  BY <1>1, <1>3, <1>4

-----------------------------------------------------------------------------
LEMMA InitColouring == Init => Abstract!CInit
<1> SUFFICES ASSUME Init PROVE Abstract!CInit
  OBVIOUS
<1>1. IInv /\ given \in Graphs /\ phase = "simplify"
  BY InitIInv DEF Init
<1>2. \A n \in Node : Rep(n) = n
  BY DEF Init, getAliases, Rep, Final, NoAliases
<1>3. \A n \in Node : Colours[n] = IF n \in Precolored THEN n ELSE 0
  <2>1. \A n \in Node : assigned[n] = NotYet
    BY <1>1 DEF IInv, ColourInv
  <2>2. \A n \in Node : Col(n) = IF n \in Precolored THEN n ELSE NotYet
    BY <2>1 DEF Col
  <2>3. \A n \in Node : Colours[n] = Shown(Col(n))
    BY <1>1, <1>2, ColoursAre DEF ColoursShown
  <2> QED
    BY <2>2, <2>3, Constants DEF Shown
<1>4. Colours = [n \in Node |-> IF n \in Precolored THEN n ELSE 0]
  BY <1>3 DEF Colours
<1>5. Outcome = "open"
  BY <1>1 DEF Outcome
<1>6. given.interf \subseteq Node \X Node
  BY <1>1, GivenGraph DEF Arcs
<1> QED
  BY <1>4, <1>5, <1>6 DEF Abstract!CInit

LEMMA NextColouring == IInv /\ IInv' /\ [Next]_vars => AbstractStep
<1> SUFFICES ASSUME IInv, IInv', [Next]_vars PROVE AbstractStep
  OBVIOUS
<1> DEFINE Quiet == UNCHANGED <<given, coalescing, aliases, assigned>>
<1>1. ASSUME Quiet, Outcome' = Outcome PROVE AbstractStep
  <2>1. \A n \in Node : Col(Rep(n))' = Col(Rep(n))
    BY <1>1, SameAliases DEF Col
  <2> QED
    BY <1>1, <2>1, Stutters
<1>2. CASE Simplify
  BY <1>1, <1>2 DEF Simplify, Outcome
<1>3. CASE Coalesce
  BY <1>3, CoalesceGives
<1>4. CASE CoalesceThrows
  BY <1>4, GivesUp DEF CoalesceThrows, Outcome
<1>5. CASE PotentialSpill
  <2>1. UNCHANGED <<given, phase, assigned>>
    BY <1>5 DEF PotentialSpill
  <2>2. \A n \in Node : Rep(n)' = Rep(n)
    BY <1>5, SpillKeepsAliases
  <2>3. \A n \in Node : Col(Rep(n))' = Col(Rep(n))
    BY <2>1, <2>2 DEF Col
  <2> QED
    BY <2>1, <2>3, Stutters DEF Outcome
<1>6. CASE EndSimplify
  BY <1>1, <1>6 DEF EndSimplify, Outcome
<1>7. CASE ApplyCoalescing
  <2>1. /\ phase = "apply" /\ UNCHANGED <<given, coalescing, nodesStack, aliases, assigned>>
        /\ phase' = phase \/ phase' = "thrown"
    BY <1>7 DEF ApplyCoalescing
  <2> QED
    BY <1>1, <2>1, GivesUp DEF Outcome
<1>8. CASE EndApply
  BY <1>1, <1>8 DEF EndApply, Outcome
<1>9. CASE Select
  BY <1>9, SelectGives
<1>10. CASE SelectOutOfRange
  BY <1>10, GivesUp DEF SelectOutOfRange, Outcome
<1>11. CASE EndSelect
  <2>1. /\ phase = "select" /\ phase' \in {"spilled", "assigned"}
        /\ UNCHANGED <<given, coalescing, nodesStack, aliases, assigned>>
    BY <1>11 DEF EndSelect
  <2> QED
    BY <1>1, <2>1, GivesUp DEF Outcome
<1>12. CASE ApplySelectedRegisters
  BY <1>12, RegistersSucceed
<1>13. CASE UNCHANGED vars
  BY <1>1, <1>13 DEF vars, aliases, Outcome
<1> QED
  BY <1>2, <1>3, <1>4, <1>5, <1>6, <1>7, <1>8, <1>9, <1>10, <1>11, <1>12, <1>13 DEF Next

(* The allocator extends a proper partial colouring of the graph it was    *)
(* given, by classes of nodes that do not interfere, never takes a colour  *)
(* back, and writes registers only when every node has one.                *)
THEOREM Refinement == Spec => ImplementsColouring
<1>1. IInv /\ IInv' /\ [Next]_vars => [Abstract!CNext]_(Abstract!cvars)
  BY NextColouring DEF AbstractStep, Abstract!cvars
<1> QED
  BY <1>1, InitColouring, Invariant, PTL DEF Spec, ImplementsColouring, Abstract!CSpec

-----------------------------------------------------------------------------
(* No temporary is lost on the way: until it is simplified it is in the    *)
(* graph, an alias, or on the stack; then it has a register or is still on *)
(* the stack, and the copy of the graph has every node that is no alias.   *)
OnStack(n) == \E i \in 1 .. Len(nodesStack) : nodesStack[i].uid = n
IsAlias(n) == getAliases.to[n] # 0

SelfMovesGiven ==
  phase = "simplify" =>
    \A n \in Temps : <<n, n>> \in moves => <<n, n>> \in given.moves
NoneLost ==
  phase = "simplify" => \A n \in Temps : n \in nodes \/ IsAlias(n) \/ OnStack(n)
FinalsStay ==
  phase = "apply" => \A n \in Node : ~IsAlias(n) => n \in nodes
NoneForgotten ==
  phase \in {"apply", "select", "assigned"} =>
    \A n \in Temps : IsAlias(n) \/ OnStack(n) \/ assigned[n] # NotYet
AllAssigned ==
  phase = "assigned" => nodesStack = <<>> /\ \A n \in Node : assigned[n] # 0

KeptInv ==
  /\ SelfMovesGiven /\ NoneLost /\ FinalsStay /\ NoneForgotten /\ AllAssigned
  /\ ThrowsForSelfMoves

LEMMA InitKept == Init => KeptInv
<1> SUFFICES ASSUME Init PROVE KeptInv
  OBVIOUS
<1>1. phase = "simplify" /\ nodes = Node /\ moves = given.moves
  BY DEF Init
<1> QED
  BY <1>1, Constants
     DEF KeptInv, SelfMovesGiven, NoneLost, FinalsStay, NoneForgotten, AllAssigned,
         ThrowsForSelfMoves

(* A node that is simplified is put on the stack and everything else stays *)
(* where it was.                                                           *)
LEMMA PushKeeps ==
  ASSUME IInv, KeptInv, phase = "simplify", phase' = phase, given' = given,
         NEW n \in Work, NEW b \in BOOLEAN, PushNode(n, b),
         \A x \in Node : IsAlias(x)' <=> IsAlias(x)
  PROVE  KeptInv'
<1>1. n \in Temps /\ Temps \subseteq Node
  BY Constants DEF Work
<1>2. /\ nodes' = nodes \ {n} /\ moves' \subseteq moves
      /\ nodesStack' = Append(nodesStack, [uid |-> n, spill |-> b])
      /\ nodesStack \in Seq([uid : Temps, spill : BOOLEAN])
  BY DEF PushNode, IInv, TypeOK
<1>3. OnStack(n)'
  <2>1. Len(nodesStack') = Len(nodesStack) + 1 /\ Len(nodesStack) \in Nat
    BY <1>1, <1>2
  <2>2. nodesStack'[Len(nodesStack) + 1].uid = n
    BY <1>1, <1>2
  <2> QED
    BY <2>1, <2>2 DEF OnStack
<1>4. ASSUME NEW x \in Temps, OnStack(x) PROVE OnStack(x)'
  <2>1. PICK i \in 1 .. Len(nodesStack) : nodesStack[i].uid = x
    BY <1>4 DEF OnStack
  <2>2. /\ i \in 1 .. Len(nodesStack')
        /\ nodesStack'[i] = nodesStack[i]
    BY <1>1, <1>2
  <2> QED
    BY <2>1, <2>2 DEF OnStack
<1>5. NoneLost'
  <2>1. SUFFICES ASSUME NEW x \in Temps PROVE (x \in nodes \/ IsAlias(x) \/ OnStack(x))'
    BY DEF NoneLost
  <2>2. x \in nodes \/ IsAlias(x) \/ OnStack(x)
    BY DEF KeptInv, NoneLost
  <2> QED
    BY <2>2, <1>1, <1>2, <1>3, <1>4
<1>6. SelfMovesGiven'
  BY <1>2 DEF KeptInv, SelfMovesGiven
<1> QED
  BY <1>5, <1>6
     DEF KeptInv, FinalsStay, NoneForgotten, AllAssigned, ThrowsForSelfMoves

LEMMA CoalesceKeeps ==
  ASSUME IInv, KeptInv, Coalesce
  PROVE  KeptInv'
<1>1. phase = "simplify" /\ UNCHANGED <<given, phase, nodesStack>>
  BY DEF Coalesce
<1>2. PICK alias \in nodes \cap Temps, final \in nodes :
           /\ nodes' = nodes \ {alias}
           /\ getAliases' = Add(getAliases, alias, final)
           /\ \A a \in moves' : a[1] # a[2]
  BY CoalesceLeads
<1>3. alias \in Node /\ final \in Node /\ final # 0 /\ Temps \subseteq Node
  BY Constants DEF IInv, TypeOK
<1>4. \A n \in Node : IsAlias(n) \/ n = alias => IsAlias(n)'
  BY <1>2, <1>3 DEF IsAlias, Add
<1>5. NoneLost'
  BY <1>1, <1>2, <1>3, <1>4 DEF KeptInv, NoneLost, OnStack
<1>6. SelfMovesGiven'
  BY <1>2 DEF SelfMovesGiven
<1> QED
  BY <1>1, <1>5, <1>6
     DEF KeptInv, FinalsStay, NoneForgotten, AllAssigned, ThrowsForSelfMoves

LEMMA SelectKeeps ==
  ASSUME IInv, KeptInv, Select
  PROVE  KeptInv'
<1>1. /\ phase = "select" /\ nodesStack # <<>>
      /\ nodesStack' = SubSeq(nodesStack, 1, Len(nodesStack) - 1)
      /\ UNCHANGED <<given, coalescing, phase, aliases>>
  BY DEF Select
<1>2. /\ nodesStack \in Seq([uid : Temps, spill : BOOLEAN])
      /\ Len(nodesStack) \in Nat /\ Len(nodesStack) > 0
      /\ assigned \in [Node -> 0 .. MaxRegs \cup {NotYet}]
  BY <1>1 DEF IInv, TypeOK
<1>3. PICK r \in 0 .. MaxRegs :
        assigned' = [assigned EXCEPT ![Top.uid] = IF @ = NotYet THEN r ELSE @]
  BY DEF Select
<1>4. r # NotYet
  BY Constants DEF NotYet
<1>5. SUFFICES ASSUME NEW n \in Temps
      PROVE (IsAlias(n) \/ OnStack(n) \/ assigned[n] # NotYet)'
  BY <1>1 DEF KeptInv, SelfMovesGiven, NoneLost, FinalsStay, NoneForgotten, AllAssigned,
              ThrowsForSelfMoves
<1>6. IsAlias(n) \/ OnStack(n) \/ assigned[n] # NotYet
  BY <1>1 DEF KeptInv, NoneForgotten
<1>7. CASE IsAlias(n)
  BY <1>1, <1>7, SameAliases DEF IsAlias
<1>8. CASE assigned[n] # NotYet
  BY <1>2, <1>3, <1>4, <1>8, Constants
<1>9. CASE OnStack(n)
  <2>1. PICK i \in 1 .. Len(nodesStack) : nodesStack[i].uid = n
    BY <1>9 DEF OnStack
  <2>2. CASE i = Len(nodesStack)
    <3>1. Top.uid = n
      BY <2>1, <2>2 DEF Top
    <3> QED
      BY <3>1, <1>2, <1>3, <1>4, Constants
  <2>3. CASE i # Len(nodesStack)
    <3>1. i \in 1 .. Len(nodesStack') /\ nodesStack'[i] = nodesStack[i]
      BY <2>1, <2>3, <1>1, <1>2
    <3> QED
      BY <2>1, <3>1 DEF OnStack
  <2> QED
    BY <2>2, <2>3
<1> QED
  BY <1>6, <1>7, <1>8, <1>9

LEMMA ApplyKeeps ==
  ASSUME IInv, KeptInv, ApplyCoalescing
  PROVE  KeptInv'
<1>1. /\ phase = "apply"
      /\ UNCHANGED <<given, coalescing, nodesStack, aliases, assigned>>
  BY DEF ApplyCoalescing
<1>2. PICK alias \in Unapplied :
        IF getAliases.to[alias] \in nodes THEN nodes' = nodes \ {alias} /\ phase' = phase
        ELSE phase' = "thrown"
  BY DEF ApplyCoalescing
<1>3. /\ alias \in Node /\ IsAlias(alias)
      /\ getAliases.to[alias] \in Node /\ ~IsAlias(getAliases.to[alias])
  BY DEF Unapplied, IsAlias, IInv, TypeOK, AliasInv, Flat
<1>4. getAliases.to[alias] \in nodes
  BY <1>1, <1>3 DEF KeptInv, FinalsStay
<1>5. \A n \in Node : IsAlias(n)' <=> IsAlias(n)
  BY <1>1, SameAliases DEF IsAlias
<1>6. FinalsStay'
  BY <1>1, <1>2, <1>3, <1>4, <1>5 DEF KeptInv, FinalsStay
<1>7. NoneForgotten'
  BY <1>1, <1>2, <1>4, <1>5, Constants DEF KeptInv, NoneForgotten, OnStack
<1> QED
  BY <1>1, <1>2, <1>4, <1>6, <1>7
     DEF KeptInv, SelfMovesGiven, NoneLost, AllAssigned, ThrowsForSelfMoves

(* Every node was given a register that is not 0, so nothing throws.       *)
LEMMA RegistersKeep ==
  ASSUME IInv, KeptInv, ApplySelectedRegisters
  PROVE  KeptInv'
<1>1. phase = "assigned" /\ given' = given /\ phase' \in {"done", "thrown"}
  BY DEF ApplySelectedRegisters
<1>2. ASSUME NEW n \in Temps PROVE ToBeAssigned(n) \notin {NotYet, 0}
  <2>1. n \in Node /\ Rep(n) \in Node /\ ToBeAssigned(n) = Col(Rep(n))
    <3>1. n \in Node
      BY Constants
    <3>2. ~coalescing => Rep(n) = n
      BY <3>1 DEF IInv, AliasInv, getAliases, NoAliases, Rep, Final
    <3> QED
      BY <3>1, <3>2, AliasesType DEF IInv, ToBeAssigned, Col, Rep
  <2>2. ~IsAlias(Rep(n))
    BY <2>1 DEF IsAlias, Rep, Final, IInv, AliasInv, Flat
  <2>3. CASE Rep(n) \in Precolored
    BY <2>1, <2>3, Constants DEF Col
  <2>4. CASE Rep(n) \in Temps
    <3>1. nodesStack = <<>> /\ assigned[Rep(n)] # 0
      BY <1>1, <2>1 DEF KeptInv, AllAssigned
    <3>2. ~OnStack(Rep(n))
      BY <3>1 DEF OnStack
    <3>3. assigned[Rep(n)] # NotYet
      BY <1>1, <2>2, <2>4, <3>2 DEF KeptInv, NoneForgotten
    <3> QED
      BY <2>1, <2>4, <3>1, <3>3, Constants DEF Col
  <2> QED
    BY <2>1, <2>3, <2>4, Constants
<1>3. phase' = "done"
  BY <1>2 DEF ApplySelectedRegisters
<1> QED
  BY <1>3
     DEF KeptInv, SelfMovesGiven, NoneLost, FinalsStay, NoneForgotten, AllAssigned,
         ThrowsForSelfMoves

LEMMA NextKept == IInv /\ KeptInv /\ [Next]_vars => KeptInv'
<1> SUFFICES ASSUME IInv, KeptInv, [Next]_vars PROVE KeptInv'
  OBVIOUS
<1> USE DEF KeptInv
<1>1. CASE Simplify
  <2>1. PICK n \in SimplifyNodes : PushNode(n, FALSE)
    BY <1>1 DEF Simplify
  <2>2. phase = "simplify" /\ UNCHANGED <<given, phase, aliases>>
    BY <1>1 DEF Simplify
  <2>3. n \in Work /\ \A x \in Node : IsAlias(x)' <=> IsAlias(x)
    BY <2>2, SameAliases DEF SimplifyNodes, IsAlias
  <2> QED
    BY <2>1, <2>2, <2>3, PushKeeps
<1>2. CASE PotentialSpill
  <2>1. PICK n \in HighDegNodes : PushNode(n, TRUE)
    BY <1>2 DEF PotentialSpill
  <2>2. phase = "simplify" /\ UNCHANGED <<given, phase>>
    BY <1>2 DEF PotentialSpill
  <2>3. n \in Work /\ \A x \in Node : IsAlias(x)' <=> IsAlias(x)
    BY <1>2, SpillKeepsAliases DEF HighDegNodes, IsAlias
  <2> QED
    BY <2>1, <2>2, <2>3, PushKeeps
<1>3. CASE CoalesceThrows
  <2>1. PICK n \in FreezeNodes : n \in MoveAdj(n)
    BY <1>3 DEF CoalesceThrows
  <2>2. n \in Temps /\ <<n, n>> \in moves
    BY <2>1 DEF FreezeNodes, Work, MoveAdj
  <2>3. phase = "simplify" /\ phase' = "thrown" /\ given' = given
    BY <1>3 DEF CoalesceThrows
  <2>4. <<n, n>> \in given.moves
    BY <2>2, <2>3 DEF SelfMovesGiven
  <2> QED
    BY <2>2, <2>3, <2>4 DEF SelfMovesGiven, NoneLost, FinalsStay, NoneForgotten,
                            AllAssigned, ThrowsForSelfMoves
<1>4. CASE EndSimplify
  <2>1. /\ phase = "simplify" /\ phase' \in {"apply", "select"} /\ Work = {}
        /\ nodes' = Node /\ UNCHANGED <<given, nodesStack, aliases, assigned>>
    BY <1>4 DEF EndSimplify
  <2>2. \A n \in Node : IsAlias(n)' <=> IsAlias(n)
    BY <2>1, SameAliases DEF IsAlias
  <2>3. \A n \in Temps : IsAlias(n) \/ OnStack(n)
    BY <2>1 DEF NoneLost, Work
  <2>4. NoneForgotten'
    BY <2>1, <2>2, <2>3, Constants DEF NoneForgotten, OnStack
  <2>5. FinalsStay'
    BY <2>1 DEF FinalsStay
  <2> QED
    BY <2>1, <2>4, <2>5 DEF SelfMovesGiven, NoneLost, AllAssigned, ThrowsForSelfMoves
<1>5. CASE EndApply
  <2>1. /\ phase = "apply" /\ phase' = "select"
        /\ UNCHANGED <<given, nodesStack, aliases, assigned>>
    BY <1>5 DEF EndApply
  <2>2. \A n \in Node : IsAlias(n)' <=> IsAlias(n)
    BY <2>1, SameAliases DEF IsAlias
  <2>3. NoneForgotten'
    BY <2>1, <2>2, Constants DEF NoneForgotten, OnStack
  <2> QED
    BY <2>1, <2>3 DEF SelfMovesGiven, NoneLost, FinalsStay, AllAssigned, ThrowsForSelfMoves
<1>6. CASE SelectOutOfRange
  BY <1>6 DEF SelectOutOfRange, SelfMovesGiven, NoneLost, FinalsStay, NoneForgotten,
              AllAssigned, ThrowsForSelfMoves
<1>7. CASE EndSelect
  <2>1. /\ phase = "select" /\ nodesStack = <<>>
        /\ phase' = IF \E n \in Node : assigned[n] = 0 THEN "spilled" ELSE "assigned"
        /\ UNCHANGED <<given, nodesStack, aliases, assigned>>
    BY <1>7 DEF EndSelect
  <2>2. \A n \in Node : IsAlias(n)' <=> IsAlias(n)
    BY <2>1, SameAliases DEF IsAlias
  <2>3. NoneForgotten'
    BY <2>1, <2>2, Constants DEF NoneForgotten, OnStack
  <2>4. AllAssigned'
    BY <2>1 DEF AllAssigned
  <2> QED
    BY <2>1, <2>3, <2>4 DEF SelfMovesGiven, NoneLost, FinalsStay, ThrowsForSelfMoves
<1>8. CASE UNCHANGED vars
  <2>1. /\ UNCHANGED <<given, phase, nodes, moves, nodesStack, assigned>>
        /\ UNCHANGED aliases
    BY <1>8 DEF vars, graph
  <2>2. getAliases' = getAliases
    BY <2>1, SameAliases
  <2> QED
    BY <2>1, <2>2 DEF SelfMovesGiven, NoneLost, FinalsStay, NoneForgotten, AllAssigned,
                      ThrowsForSelfMoves, IsAlias, OnStack
<1> QED
  BY <1>1, <1>2, <1>3, <1>4, <1>5, <1>6, <1>7, <1>8, CoalesceKeeps, ApplyKeeps,
     SelectKeeps, RegistersKeep DEF Next

(* Applying the aliases finds both nodes of every couple, and every        *)
(* temporary has a register in the end: the allocator throws for a move of *)
(* a temporary to itself and for nothing else.                             *)
THEOREM ThrowsForSelfMovesOnly == Spec => []ThrowsForSelfMoves
<1>1. KeptInv => ThrowsForSelfMoves
  BY DEF KeptInv
<1> QED
  BY <1>1, InitKept, NextKept, Invariant, PTL DEF Spec
-----------------------------------------------------------------------------
(* Which nodes may spill.  Beside(n, away): what n interferes with, each   *)
(* neighbour as the node it was merged into, when the nodes away are gone. *)
Away(k) == {nodesStack[j].uid : j \in 1 .. k - 1}
Beside(n, away) ==
  {m \in Node \ away :
     \E u, v \in Node : <<u, v>> \in given.interf /\ Rep(u) = n /\ Rep(v) = m}

StackInv ==
  \A k \in 1 .. Len(nodesStack) :
    /\ assigned[nodesStack[k].uid] = NotYet
    /\ nodesStack[k].uid \notin Away(k)
    /\ phase = "simplify" => nodesStack[k].uid \notin nodes
PlaceInv ==
  phase = "simplify" => \A n \in Node : Rep(n) \in nodes \/ OnStack(Rep(n))

(* A node simplified with few neighbours keeps few: those pushed before it *)
(* are popped after it, and coalescing the others only merges them.        *)
FewInv ==
  \A k \in 1 .. Len(nodesStack) :
    ~nodesStack[k].spill => Cardinality(Beside(nodesStack[k].uid, Away(k))) < MaxRegs

(* The copy of the graph the aliases are applied to has no other arcs.     *)
ExactInv ==
  /\ phase = "apply" =>
       \A a \in interf : \E u, v \in Node :
         <<u, v>> \in given.interf /\ a = <<Current(u), Current(v)>>
  /\ phase = "select" =>
       \A a \in interf : \E u, v \in Node :
         <<u, v>> \in given.interf /\ a = <<Rep(u), Rep(v)>>

SpillInv == StackInv /\ PlaceInv /\ FewInv /\ ExactInv

LEMMA NodesAreFinite == IsFiniteSet(Node) /\ \A S \in SUBSET Node : IsFiniteSet(S)
<1>1. IsFiniteSet(1 .. MaxRegs)
  BY Constants, FS_Interval
<1>2. IsFiniteSet(Precolored) /\ IsFiniteSet(Temps)
  BY <1>1, RegAllocAssumption DEF Precolored
<1>3. IsFiniteSet(Node)
  BY <1>2, FS_Union, RegAllocAssumption
<1> QED
  BY <1>3, FS_Subset

LEMMA SubsetIsSmaller ==
  ASSUME NEW S \in SUBSET Node, NEW T \in SUBSET S
  PROVE  /\ Cardinality(T) <= Cardinality(S)
         /\ Cardinality(T) \in Nat /\ Cardinality(S) \in Nat
<1>1. IsFiniteSet(S) /\ IsFiniteSet(T)
  BY NodesAreFinite
<1> QED
  BY <1>1, FS_Subset, FS_CardinalityType

LEMMA ImageIsSmaller ==
  ASSUME NEW S \in SUBSET Node, NEW f, f = [x \in S |-> f[x]]
  PROVE  LET T == {f[x] : x \in S}
         IN  /\ IsFiniteSet(T) /\ Cardinality(T) <= Cardinality(S)
             /\ Cardinality(T) \in Nat /\ Cardinality(S) \in Nat
<1> DEFINE T == {f[x] : x \in S}
<1>1. IsFiniteSet(S)
  BY NodesAreFinite
<1>2. f \in Surjection(S, T)
  BY DEF Surjection
<1>3. IsFiniteSet(T) /\ Cardinality(T) <= Cardinality(S)
  BY <1>1, <1>2, FS_Surjection
<1> QED
  BY <1>1, <1>3, FS_CardinalityType

(* Neighbours and what is away stay the same for an entry of the stack.    *)
LEMMA SameBeside ==
  ASSUME given' = given, \A n \in Node : Rep(n)' = Rep(n)
  PROVE  \A n, away : Beside(n, away)' = Beside(n, away)
  BY DEF Beside

LEMMA SameStack ==
  ASSUME SpillInv, UNCHANGED <<given, nodesStack, aliases, assigned>>,
         phase' # "simplify", ExactInv'
  PROVE  SpillInv'
<1>1. \A n \in Node : Rep(n)' = Rep(n)
  BY SameAliases
<1>2. \A n, away : Beside(n, away)' = Beside(n, away)
  BY <1>1, SameBeside
<1>3. StackInv' /\ PlaceInv'
  BY DEF SpillInv, StackInv, PlaceInv, Away
<1>4. FewInv'
  BY <1>2 DEF SpillInv, FewInv, Away
<1> QED
  BY <1>3, <1>4 DEF SpillInv

LEMMA InitSpill == Init => SpillInv
<1> SUFFICES ASSUME Init PROVE SpillInv
  OBVIOUS
<1>1. phase = "simplify" /\ nodes = Node /\ nodesStack = <<>> /\ Len(nodesStack) = 0
  BY DEF Init
<1>2. \A n \in Node : Rep(n) = n
  BY DEF Init, Rep, Final, getAliases, NoAliases
<1> QED
  BY <1>1, <1>2 DEF SpillInv, StackInv, PlaceInv, FewInv, ExactInv

(* What PushNode does to the stack.                                        *)
LEMMA Pushed ==
  ASSUME TypeOK, NEW n \in Work, NEW b \in BOOLEAN, PushNode(n, b)
  PROVE  LET N == Len(nodesStack)
         IN  /\ N \in Nat /\ Len(nodesStack') = N + 1
             /\ nodesStack'[N + 1].uid = n /\ nodesStack'[N + 1].spill = b
             /\ \A k \in 1 .. N : nodesStack'[k] = nodesStack[k]
             /\ \A k \in 1 .. N + 1 : Away(k)' = Away(k)
<1> DEFINE N == Len(nodesStack)
           e == [uid |-> n, spill |-> b]
<1>1. /\ nodesStack \in Seq([uid : Temps, spill : BOOLEAN])
      /\ e \in [uid : Temps, spill : BOOLEAN]
      /\ nodesStack' = Append(nodesStack, e)
  BY DEF TypeOK, PushNode, Work
<1>2. /\ N \in Nat /\ Len(nodesStack') = N + 1 /\ nodesStack'[N + 1] = e
      /\ \A k \in 1 .. N : nodesStack'[k] = nodesStack[k]
  BY <1>1
<1>3. ASSUME NEW k \in 1 .. N + 1 PROVE Away(k)' = Away(k)
  <2>1. \A j \in 1 .. k - 1 : j \in 1 .. N
    BY <1>2
  <2> QED
    BY <1>2, <2>1 DEF Away
<1> QED
  BY <1>2, <1>3

LEMMA PushSpills ==
  ASSUME IInv, SpillInv, phase = "simplify",
         UNCHANGED <<given, phase, assigned>>,
         NEW n \in Work, NEW b \in BOOLEAN, PushNode(n, b), b \/ LowDegree(n),
         \A x \in Node : Rep(x)' = Rep(x)
  PROVE  SpillInv'
<1> DEFINE N == Len(nodesStack)
<1>1. /\ N \in Nat /\ Len(nodesStack') = N + 1
      /\ nodesStack'[N + 1].uid = n /\ nodesStack'[N + 1].spill = b
      /\ \A k \in 1 .. N : nodesStack'[k] = nodesStack[k]
      /\ \A k \in 1 .. N + 1 : Away(k)' = Away(k)
  BY Pushed DEF IInv
<1>2. nodes' = nodes \ {n} /\ n \in nodes /\ n \in Temps /\ n \in Node /\ nodes \in SUBSET Node
  BY Constants DEF PushNode, Work, IInv, TypeOK
<1>3. \A k \in 1 .. N : nodesStack[k].uid \notin nodes /\ nodesStack[k].uid # n
  BY <1>2 DEF SpillInv, StackInv
<1> HIDE DEF N
<1>4. \A k \in 1 .. N + 1 : k \in 1 .. N \/ k = N + 1
  BY <1>1
<1>5. n \notin Away(N + 1)
  BY <1>1, <1>3 DEF Away
<1>6. StackInv'
  <2>1. SUFFICES ASSUME NEW k \in 1 .. N + 1
        PROVE  /\ assigned[nodesStack'[k].uid] = NotYet
               /\ nodesStack'[k].uid \notin Away(k)
               /\ nodesStack'[k].uid \notin nodes'
    BY <1>1 DEF StackInv
  <2>2. CASE k \in 1 .. N
    BY <2>2, <1>1, <1>2, <1>3 DEF SpillInv, StackInv, N
  <2>3. CASE k = N + 1
    BY <2>3, <1>1, <1>2, <1>5 DEF IInv, ColourInv
  <2> QED
    BY <1>4, <2>2, <2>3
<1>7. PlaceInv'
  <2>1. \A x : OnStack(x) \/ x = n => OnStack(x)'
    <3>1. \A k \in 1 .. N : k \in 1 .. N + 1
      BY <1>1
    <3>2. N + 1 \in 1 .. N + 1
      BY <1>1
    <3> QED
      BY <1>1, <3>1, <3>2 DEF OnStack, N
  <2> QED
    BY <1>2, <2>1 DEF SpillInv, PlaceInv
<1>8. \A x, away : Beside(x, away)' = Beside(x, away)
  BY SameBeside
<1>9. FewInv'
  <2>1. SUFFICES ASSUME NEW k \in 1 .. N + 1, ~nodesStack'[k].spill
        PROVE  Cardinality(Beside(nodesStack'[k].uid, Away(k))) < MaxRegs
    BY <1>1, <1>8 DEF FewInv
  <2>2. CASE k \in 1 .. N
    BY <2>1, <2>2, <1>1 DEF SpillInv, FewInv, N
  <2>3. CASE k = N + 1
    <3>1. LowDegree(n)
      BY <2>1, <2>3, <1>1
    <3>2. Beside(n, Away(N + 1)) \subseteq Adj(n)
      <4>1. SUFFICES ASSUME NEW m \in Beside(n, Away(N + 1)) PROVE m \in Adj(n)
        OBVIOUS
      <4>2. PICK u, v \in Node : <<u, v>> \in given.interf /\ Rep(u) = n /\ Rep(v) = m
        BY <4>1 DEF Beside
      <4>3. ~OnStack(m)
        <5>1. m \notin Away(N + 1)
          BY <4>1 DEF Beside
        <5>2. N + 1 - 1 = N
          BY <1>1
        <5> QED
          BY <5>1, <5>2 DEF Away, OnStack, N
      <4>4. m \in nodes
        BY <4>2, <4>3 DEF SpillInv, PlaceInv
      <4>5. <<n, m>> \in interf
        BY <4>2, <4>4, <1>2 DEF IInv, RepInv
      <4> QED
        BY <4>4, <4>5 DEF Adj
    <3>3. Adj(n) \in SUBSET Node
      BY <1>2 DEF Adj
    <3>4. /\ Cardinality(Beside(n, Away(N + 1))) <= Cardinality(Adj(n))
          /\ Cardinality(Beside(n, Away(N + 1))) \in Nat /\ Cardinality(Adj(n)) \in Nat
      BY <3>2, <3>3, SubsetIsSmaller
    <3> QED
      BY <2>3, <3>1, <3>4, <1>1, Constants DEF LowDegree, Degree
  <2> QED
    BY <1>4, <2>2, <2>3
<1>10. ExactInv'
  BY DEF ExactInv
<1> QED
  BY <1>6, <1>7, <1>9, <1>10 DEF SpillInv

LEMMA CoalesceSpills ==
  ASSUME IInv, SpillInv, Coalesce
  PROVE  SpillInv'
<1>1. /\ phase = "simplify" /\ phase' = "simplify"
      /\ UNCHANGED <<given, nodesStack, assigned>>
  BY DEF Coalesce
<1>2. PICK alias \in nodes \cap Temps, final \in nodes :
           /\ alias # final
           /\ nodes' = nodes \ {alias}
           /\ \A n \in Node : Rep(n)' = Into(Rep(n), final, alias)
  BY CoalesceLeads
<1>3. /\ \A n \in Node : Rep(n) \in Node
      /\ alias \in Node /\ final \in Node
  BY AliasesType DEF IInv, TypeOK
<1>4. \A k \in 1 .. Len(nodesStack) :
        /\ Away(k)' = Away(k)
        /\ nodesStack[k].uid \notin nodes
        /\ alias \notin Away(k) /\ final \notin Away(k)
  <2>1. Len(nodesStack) \in Nat
    BY DEF IInv, TypeOK
  <2>2. ASSUME NEW k \in 1 .. Len(nodesStack), NEW j \in 1 .. k - 1
        PROVE  j \in 1 .. Len(nodesStack)
    BY <2>1
  <2>3. \A k \in 1 .. Len(nodesStack) : nodesStack[k].uid \notin nodes
    BY <1>1 DEF SpillInv, StackInv
  <2> QED
    BY <1>1, <1>2, <2>2, <2>3 DEF Away
<1>5. StackInv'
  BY <1>1, <1>2, <1>4 DEF SpillInv, StackInv
<1>6. PlaceInv'
  BY <1>1, <1>2, <1>3 DEF SpillInv, PlaceInv, OnStack, Into
<1>7. FewInv'
  <2>1. SUFFICES ASSUME NEW k \in 1 .. Len(nodesStack), ~nodesStack[k].spill
        PROVE  Cardinality(Beside(nodesStack[k].uid, Away(k))') < MaxRegs
    <3>1. \A k \in 1 .. Len(nodesStack) :
            /\ nodesStack'[k] = nodesStack[k] /\ Away(k)' = Away(k)
      BY <1>1, <1>4
    <3> QED
      BY <1>1, <2>1, <3>1 DEF FewInv
  <2> DEFINE n == nodesStack[k].uid
             away == Away(k)
             S == Beside(n, away)
             f == [m \in S |-> Into(m, final, alias)]
             T == {f[m] : m \in S}
  <2>2. n \notin nodes /\ alias \notin away /\ final \notin away /\ n' = n /\ away' = away
    BY <1>1, <1>4
  <2>3. S \in SUBSET Node /\ Cardinality(S) < MaxRegs
    BY <2>1 DEF SpillInv, FewInv, Beside
  <2> HIDE DEF n, away
  <2>4. Beside(n, away)' \subseteq T
    <3>1. SUFFICES ASSUME NEW m \in Beside(n, away)' PROVE m \in T
      OBVIOUS
    <3>2. PICK u, v \in Node : <<u, v>> \in given.interf /\ Rep(u)' = n /\ Rep(v)' = m
      BY <3>1, <2>2, <1>1 DEF Beside
    <3>3. m \in Node \ away
      BY <3>1, <2>2 DEF Beside
    <3>4. Rep(u) = n /\ m = Into(Rep(v), final, alias)
      BY <3>2, <1>2, <2>2 DEF Into
    <3>5. Rep(v) \in Node \ away
      BY <3>3, <3>4, <1>3, <2>2 DEF Into
    <3>6. Rep(v) \in S
      BY <3>2, <3>4, <3>5 DEF Beside
    <3> QED
      BY <3>4, <3>6
  <2>5. T \in SUBSET Node
    BY <2>3, <1>3 DEF Into
  <2>6. Cardinality(T) <= Cardinality(S) /\ Cardinality(T) \in Nat /\ Cardinality(S) \in Nat
    BY <2>3, ImageIsSmaller
  <2> HIDE DEF T, S
  <2>7. /\ Cardinality(Beside(n, away)') <= Cardinality(T)
        /\ Cardinality(Beside(n, away)') \in Nat
    BY <2>4, <2>5, SubsetIsSmaller
  <2>8. Cardinality(Beside(n, away)') < MaxRegs
    BY <2>3, <2>6, <2>7, Constants
  <2> QED
    BY <2>8 DEF n, away
<1>8. ExactInv'
  BY <1>1 DEF ExactInv
<1> QED
  BY <1>5, <1>6, <1>7, <1>8 DEF SpillInv

(* Applying the coalescing to the copy of the graph makes no new arc.      *)
LEMMA EndSimplifySpills ==
  ASSUME IInv, SpillInv, EndSimplify
  PROVE  SpillInv'
<1>1. /\ phase' = IF coalescing THEN "apply" ELSE "select"
      /\ nodes' = Node /\ interf' = given.interf
      /\ UNCHANGED <<given, coalescing, nodesStack, aliases, assigned>>
  BY DEF EndSimplify
<1>2. getAliases' = getAliases /\ \A n \in Node : Rep(n)' = Rep(n)
  BY <1>1, SameAliases
<1>3. \A n \in Node : Current(n)' = n
  BY <1>1 DEF Current
<1>4. ~coalescing => \A n \in Node : Rep(n)' = n
  BY <1>2 DEF IInv, AliasInv, Rep, Final, getAliases, NoAliases
<1>5. \A a \in given.interf : a[1] \in Node /\ a[2] \in Node /\ a = <<a[1], a[2]>>
  BY GivenGraph DEF IInv, GraphInv, Arcs
<1>6. ExactInv'
  BY <1>1, <1>3, <1>4, <1>5 DEF ExactInv
<1> QED
  BY <1>1, <1>6, SameStack

LEMMA ApplySpills ==
  ASSUME IInv, SpillInv, ApplyCoalescing
  PROVE  SpillInv'
<1>1. PICK alias \in Unapplied :
        IF getAliases.to[alias] \in nodes
          THEN /\ nodes' = nodes \ {alias}
               /\ interf' = MergeInterf(interf, getAliases.to[alias], alias)
               /\ phase' = phase
          ELSE phase' = "thrown" /\ nodes' = nodes /\ interf' = interf
  BY DEF ApplyCoalescing
<1>2. /\ phase = "apply"
      /\ UNCHANGED <<given, coalescing, moves, nodesStack, aliases, assigned, register>>
  BY DEF ApplyCoalescing
<1>3. CASE getAliases.to[alias] \notin nodes
  <2>1. phase' = "thrown"
    BY <1>1, <1>3
  <2>2. ExactInv'
    BY <2>1 DEF ExactInv
  <2> QED
    BY <1>2, <2>1, <2>2, SameStack
<1>4. CASE getAliases.to[alias] \in nodes
  <2> DEFINE final == getAliases.to[alias]
  <2>1. /\ nodes' = nodes \ {alias} /\ interf' = MergeInterf(interf, final, alias)
        /\ phase' = "apply"
    BY <1>1, <1>2, <1>4
  <2>2. getAliases' = getAliases /\ \A n \in Node : Rep(n)' = Rep(n)
    BY <1>2, SameAliases
  <2>3. \A n \in Node : Current(n)' = Into(Current(n), final, alias)
    BY <1>1, <1>4, <2>1, <2>2, AppliedLeads
  <2>4. ASSUME NEW a \in interf'
        PROVE  \E u, v \in Node :
                 <<u, v>> \in given.interf' /\ a = <<Current(u)', Current(v)'>>
    <3>1. PICK b \in interf : a = <<Into(b[1], final, alias), Into(b[2], final, alias)>>
      BY <2>1, <2>4 DEF MergeInterf, Merge, Into
    <3>2. PICK u, v \in Node : <<u, v>> \in given.interf /\ b = <<Current(u), Current(v)>>
      BY <1>2 DEF SpillInv, ExactInv
    <3> QED
      BY <1>2, <2>3, <3>1, <3>2
  <2>5. ExactInv'
    BY <2>1, <2>4 DEF ExactInv
  <2> QED
    BY <1>2, <2>1, <2>5, SameStack
<1> QED
  BY <1>3, <1>4

LEMMA EndApplySpills ==
  ASSUME IInv, SpillInv, EndApply
  PROVE  SpillInv'
<1>1. /\ phase = "apply" /\ Unapplied = {} /\ phase' = "select"
      /\ UNCHANGED <<given, coalescing, graph, nodesStack, aliases, assigned, register>>
  BY DEF EndApply
<1>2. \A n \in Node : Rep(n)' = Rep(n)
  BY <1>1, SameAliases
<1>3. \A n \in Node : Current(n) = Rep(n)
  BY <1>1 DEF Unapplied, Current, Rep, Final
<1>4. ASSUME NEW a \in interf
      PROVE  \E u, v \in Node : <<u, v>> \in given.interf /\ a = <<Rep(u)', Rep(v)'>>
  <2>1. PICK u, v \in Node : <<u, v>> \in given.interf /\ a = <<Current(u), Current(v)>>
    BY <1>1 DEF SpillInv, ExactInv
  <2> QED
    BY <1>2, <1>3, <2>1
<1>5. ExactInv'
  BY <1>1, <1>4 DEF ExactInv, graph
<1> QED
  BY <1>1, <1>5, SameStack

(* The registers taken are those of neighbours that are not away any more. *)
LEMMA FewAreTaken ==
  ASSUME IInv, SpillInv, phase = "select", nodesStack # <<>>, ~Top.spill
  PROVE  Precolored \ Taken(Top.uid) # {}
<1> DEFINE N == Len(nodesStack)
           n == Top.uid
           S == Beside(n, Away(N))
           M == {m \in Adj(n) : m \in Precolored \/ assigned[m] \notin {0, NotYet}}
           f == [m \in M |-> Col(m)]
           T == {f[m] : m \in M}
<1>1. /\ nodesStack \in Seq([uid : Temps, spill : BOOLEAN]) /\ N \in Nat /\ N \in 1 .. N
      /\ Top = nodesStack[N]
  BY DEF IInv, TypeOK, Top
<1>2. S \in SUBSET Node /\ Cardinality(S) < MaxRegs
  BY <1>1 DEF SpillInv, FewInv, Beside
<1>3. M \subseteq S
  <2>1. SUFFICES ASSUME NEW m \in M PROVE m \in S
    OBVIOUS
  <2>2. m \in nodes /\ m \in Node /\ <<n, m>> \in interf
    BY <2>1 DEF Adj, IInv, TypeOK
  <2>3. PICK u, v \in Node : <<u, v>> \in given.interf /\ <<n, m>> = <<Rep(u), Rep(v)>>
    BY <2>2 DEF SpillInv, ExactInv
  <2>4. m \notin Away(N)
    <3>1. SUFFICES ASSUME NEW j \in 1 .. N - 1, m = nodesStack[j].uid PROVE FALSE
      BY DEF Away
    <3>2. j \in 1 .. N
      BY <1>1
    <3>3. m \in Temps /\ assigned[m] = NotYet
      <4>1. nodesStack[j] \in [uid : Temps, spill : BOOLEAN]
        BY <1>1, <3>2, ElementOfSeq
      <4> QED
        BY <3>1, <3>2, <4>1 DEF SpillInv, StackInv
    <3> QED
      BY <2>1, <3>3, Constants
  <2> QED
    BY <2>2, <2>3, <2>4 DEF Beside
<1>4. Taken(n) \subseteq T
  <2>1. \A m \in Precolored : assigned[m] = NotYet
    BY DEF IInv, ColourInv
  <2>2. ASSUME NEW r \in Taken(n) PROVE \E m \in M : r = Col(m)
    <3>1. CASE r \in {assigned[m] : m \in Adj(n)} \ {0, NotYet}
      <4>1. PICK m \in Adj(n) : r = assigned[m] /\ assigned[m] \notin {0, NotYet}
        BY <3>1
      <4> QED
        BY <4>1, <2>1 DEF Col
    <3>2. CASE r \in Adj(n) \cap Precolored
      BY <3>2 DEF Col
    <3> QED
      BY <2>2, <3>1, <3>2 DEF Taken
  <2> QED
    BY <2>2
<1> HIDE DEF N, n
<1>5. M \in SUBSET Node /\ M \in SUBSET S
  BY <1>2, <1>3
<1>6. IsFiniteSet(T) /\ Cardinality(T) <= Cardinality(M) /\ Cardinality(T) \in Nat
  <2>1. f = [m \in M |-> f[m]]
    OBVIOUS
  <2> HIDE DEF M, f
  <2> QED
    BY <1>5, <2>1, ImageIsSmaller
<1> HIDE DEF M, S
<1>7. Cardinality(M) <= Cardinality(S) /\ Cardinality(M) \in Nat /\ Cardinality(S) \in Nat
  BY <1>2, <1>5, SubsetIsSmaller
<1> HIDE DEF T
<1>8. Cardinality(T) < MaxRegs
  BY <1>2, <1>6, <1>7, Constants
<1>9. Cardinality(Precolored) = MaxRegs
  BY Constants, FS_Interval
<1>10. ASSUME Precolored \subseteq T PROVE FALSE
  <2>1. Cardinality(Precolored) <= Cardinality(T)
    BY <1>6, <1>10, FS_Subset
  <2> QED
    BY <1>6, <1>8, <1>9, <2>1, Constants
<1> QED
  BY <1>4, <1>10 DEF n

LEMMA SelectSpills ==
  ASSUME IInv, SpillInv, Select
  PROVE  /\ SpillInv'
         /\ ~Top.spill => assigned'[Top.uid] # 0
<1> DEFINE N == Len(nodesStack)
           n == Top.uid
<1>1. /\ phase = "select" /\ nodesStack # <<>>
      /\ nodesStack' = SubSeq(nodesStack, 1, N - 1)
      /\ UNCHANGED <<given, coalescing, phase, graph, aliases, register>>
  BY DEF Select
<1>2. PICK r \in 0 .. MaxRegs :
        /\ IsLowestFree(r, n)
        /\ assigned' = [assigned EXCEPT ![n] = IF @ = NotYet THEN r ELSE @]
  BY DEF Select
<1>3. /\ nodesStack \in Seq([uid : Temps, spill : BOOLEAN]) /\ N \in Nat /\ N \in 1 .. N
      /\ Top = nodesStack[N] /\ assigned \in [Node -> 0 .. MaxRegs \cup {NotYet}]
  BY <1>1 DEF IInv, TypeOK, Top
<1>4. n \in Node /\ assigned[n] = NotYet /\ n \notin Away(N)
  <2>1. nodesStack[N] \in [uid : Temps, spill : BOOLEAN]
    BY <1>3, ElementOfSeq
  <2> QED
    BY <1>3, <2>1, Constants DEF SpillInv, StackInv
<1>5. assigned'[n] = r
  BY <1>2, <1>3, <1>4
<1>6. ~Top.spill => r # 0
  <2>1. SUFFICES ASSUME ~Top.spill PROVE r # 0
    OBVIOUS
  <2>2. Precolored \ Taken(n) # {}
    BY <1>1, <2>1, FewAreTaken
  <2>3. r \in Precolored
    BY <1>2, <2>2 DEF IsLowestFree, IsFirst
  <2> QED
    BY <2>3, Constants
<1> HIDE DEF N, n
<1>7. Len(nodesStack') = N - 1 /\ \A k \in 1 .. N - 1 : nodesStack'[k] = nodesStack[k]
  <2> DEFINE e == N - 1
  <2>1. e \in Nat /\ e <= N /\ 1 \in Nat
    BY <1>3
  <2>2. nodesStack' = [k \in 1 .. e |-> nodesStack[k]]
    BY <1>1, <1>3
  <2> QED
    BY <2>1, <2>2
<1>8. \A k \in 1 .. N - 1 : k \in 1 .. N /\ Away(k)' = Away(k)
  <2>1. SUFFICES ASSUME NEW k \in 1 .. N - 1 PROVE k \in 1 .. N /\ Away(k)' = Away(k)
    OBVIOUS
  <2>2. k \in 1 .. N /\ \A j \in 1 .. k - 1 : j \in 1 .. N - 1
    BY <1>3
  <2>3. \A j \in 1 .. k - 1 : nodesStack'[j] = nodesStack[j]
    BY <1>7, <2>2, Zenon
  <2> QED
    BY <2>2, <2>3 DEF Away
<1>9. \A x \in Node : Rep(x)' = Rep(x)
  BY <1>1, SameAliases
<1>10. \A x, away : Beside(x, away)' = Beside(x, away)
  BY <1>1, <1>9, SameBeside
<1>11. StackInv'
  <2>1. SUFFICES ASSUME NEW k \in 1 .. N - 1
        PROVE  /\ assigned'[nodesStack[k].uid] = NotYet
               /\ nodesStack[k].uid \notin Away(k)
    BY <1>1, <1>7, <1>8 DEF StackInv
  <2>2. nodesStack[k].uid # n
    BY <1>4 DEF Away
  <2>3. assigned[nodesStack[k].uid] = NotYet /\ nodesStack[k].uid \notin Away(k)
    BY <1>8 DEF SpillInv, StackInv, N
  <2>4. nodesStack[k].uid \in Node
    <3>1. nodesStack[k] \in [uid : Temps, spill : BOOLEAN]
      BY <1>3, <1>8, ElementOfSeq DEF N
    <3> QED
      BY <3>1, Constants
  <2> QED
    BY <1>2, <1>3, <2>2, <2>3, <2>4
<1>12. FewInv'
  BY <1>7, <1>8, <1>10 DEF SpillInv, FewInv, N
<1>13. PlaceInv' /\ ExactInv'
  BY <1>1, <1>9 DEF SpillInv, PlaceInv, ExactInv, graph
<1> QED
  BY <1>5, <1>6, <1>11, <1>12, <1>13 DEF SpillInv, n

LEMMA NextSpill == IInv /\ SpillInv /\ [Next]_vars => SpillInv'
<1> SUFFICES ASSUME IInv, SpillInv, [Next]_vars PROVE SpillInv'
  OBVIOUS
<1>1. CASE Simplify
  <2>1. PICK n \in SimplifyNodes : PushNode(n, FALSE)
    BY <1>1 DEF Simplify
  <2>2. n \in Work /\ LowDegree(n)
    BY DEF SimplifyNodes
  <2>3. phase = "simplify" /\ UNCHANGED <<given, phase, aliases, assigned>>
    BY <1>1 DEF Simplify
  <2>4. \A x \in Node : Rep(x)' = Rep(x)
    BY <2>3, SameAliases
  <2> QED
    BY <2>1, <2>2, <2>3, <2>4, PushSpills
<1>2. CASE PotentialSpill
  <2>1. PICK n \in HighDegNodes : PushNode(n, TRUE)
    BY <1>2 DEF PotentialSpill
  <2>2. n \in Work
    BY DEF HighDegNodes
  <2>3. phase = "simplify" /\ UNCHANGED <<given, phase, assigned>>
    BY <1>2 DEF PotentialSpill
  <2>4. \A x \in Node : Rep(x)' = Rep(x)
    BY <1>2, SpillKeepsAliases
  <2> QED
    BY <2>1, <2>2, <2>3, <2>4, PushSpills
<1>3. CASE CoalesceThrows \/ SelectOutOfRange \/ EndSelect
  <2>1. /\ phase' \notin {"simplify", "apply", "select"}
        /\ UNCHANGED <<given, nodesStack, aliases, assigned>>
    BY <1>3 DEF CoalesceThrows, SelectOutOfRange, EndSelect
  <2>2. ExactInv'
    BY <2>1 DEF ExactInv
  <2> QED
    BY <2>1, <2>2, SameStack
<1>4. CASE ApplySelectedRegisters
  <2>1. /\ phase' \notin {"simplify", "apply", "select"}
        /\ UNCHANGED <<given, nodesStack, aliases, assigned>>
    BY <1>4 DEF ApplySelectedRegisters
  <2>2. ExactInv'
    BY <2>1 DEF ExactInv
  <2> QED
    BY <2>1, <2>2, SameStack
<1>5. CASE UNCHANGED vars
  <2>1. UNCHANGED <<given, phase, nodes, interf, nodesStack, aliases, assigned>>
    BY <1>5 DEF vars, graph
  <2>2. \A x \in Node : Rep(x)' = Rep(x)
    BY <2>1, SameAliases
  <2>3. \A n, away : Beside(n, away)' = Beside(n, away)
    BY <2>1, <2>2, SameBeside
  <2>4. StackInv' /\ PlaceInv'
    BY <2>1, <2>2 DEF SpillInv, StackInv, PlaceInv, Away, OnStack
  <2>5. FewInv'
    BY <2>1, <2>3 DEF SpillInv, FewInv, Away
  <2>6. ExactInv'
    <3>1. \A x \in Node : Current(x)' = Current(x)
      BY <2>1, <2>2 DEF Current
    <3>2. ASSUME phase = "apply", NEW a \in interf
          PROVE  \E u, v \in Node :
                   <<u, v>> \in given.interf /\ a = <<Current(u)', Current(v)'>>
      <4>1. PICK u, v \in Node : <<u, v>> \in given.interf /\ a = <<Current(u), Current(v)>>
        BY <3>2 DEF SpillInv, ExactInv
      <4> QED
        BY <3>1, <4>1
    <3>3. ASSUME phase = "select", NEW a \in interf
          PROVE  \E u, v \in Node : <<u, v>> \in given.interf /\ a = <<Rep(u)', Rep(v)'>>
      <4>1. PICK u, v \in Node : <<u, v>> \in given.interf /\ a = <<Rep(u), Rep(v)>>
        BY <3>3 DEF SpillInv, ExactInv
      <4> QED
        BY <2>2, <4>1
    <3>4. phase' = phase /\ interf' = interf /\ given' = given
      BY <2>1
    <3>5. (phase = "apply" =>
             \A a \in interf : \E u, v \in Node :
               <<u, v>> \in given.interf /\ a = <<Current(u), Current(v)>>)'
      BY <3>2, <3>4
    <3>6. (phase = "select" =>
             \A a \in interf : \E u, v \in Node :
               <<u, v>> \in given.interf /\ a = <<Rep(u), Rep(v)>>)'
      BY <3>3, <3>4
    <3> QED
      BY <3>5, <3>6 DEF ExactInv
  <2> QED
    BY <2>4, <2>5, <2>6 DEF SpillInv
<1> QED
  BY <1>1, <1>2, <1>3, <1>4, <1>5, CoalesceSpills, EndSimplifySpills, ApplySpills,
     EndApplySpills, SelectSpills DEF Next

(* A node that left the graph with few neighbours always finds a register  *)
(* free when it is popped, whatever was coalesced between and after, and   *)
(* whichever of its neighbours were spilled: only a node pushed as a       *)
(* potential spill can be one (_simpleSelect).                             *)
THEOREM SpillsArePotential == Spec => OnlyPotentialSpillsSpill
<1> DEFINE A == phase = "select" /\ nodesStack' # nodesStack /\ ~Top.spill
                  => assigned'[Top.uid] # 0
<1>1. IInv /\ SpillInv /\ [Next]_vars => A
  <2> SUFFICES ASSUME IInv, SpillInv, [Next]_vars, phase = "select",
                      nodesStack' # nodesStack, ~Top.spill
      PROVE  assigned'[Top.uid] # 0
    OBVIOUS
  <2>1. Select
    BY DEF Next, Simplify, Coalesce, CoalesceThrows, PotentialSpill, EndSimplify,
           ApplyCoalescing, EndApply, SelectOutOfRange, EndSelect,
           ApplySelectedRegisters, vars
  <2> QED
    BY <2>1, SelectSpills
<1>2. Spec => []SpillInv
  BY InitSpill, NextSpill, Invariant, PTL DEF Spec
<1>3. Spec => [][A]_vars
  BY <1>1, <1>2, Invariant, PTL DEF Spec
<1> QED
  BY <1>3 DEF OnlyPotentialSpillsSpill, A
=============================================================================
