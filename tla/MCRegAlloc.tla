----------------------------- MODULE MCRegAlloc ------------------------------
(* Small interference graphs: all those in which each pair of nodes        *)
(* interferes, is joined by a move or is unrelated.                        *)
EXTENDS RegAlloc

Both(a) == {a, Flip(a)}
Pairs == {a \in Arcs : a[1] < a[2] /\ a[2] \in Temps}

(* What a pair of nodes may be: 0 unrelated, 1 interfering, 2 a move.      *)
GraphOf(kind, selfMoves) ==
  [interf |-> UNION {Both(a) : a \in {b \in Pairs : kind[b] = 1}},
   moves  |-> {a \in Pairs : kind[a] = 2} \cup {<<n, n>> : n \in selfMoves}]

AllGraphs == {GraphOf(kind, self) : kind \in [Pairs -> 0 .. 2],
                                    self \in {{}, {MaxRegs + 1}}}

(* Moves along a chain of the nodes, beside any interferences: with one    *)
(* register, couples are coalesced before, between and after two spills.   *)
ChainGraphs ==
  LET link == {a \in Pairs : a[2] = a[1] + 1}
  IN  {GraphOf([a \in Pairs |-> IF a \in S THEN 1 ELSE IF a \in M THEN 2 ELSE 0], {}) :
         S \in SUBSET Pairs, M \in {{}, link, {a \in link : a[1] # 1}}}
=============================================================================
