------------------------------ MODULE Colouring ------------------------------
(***************************************************************************)
(* What a register allocator promises: it extends a proper partial         *)
(* colouring of a graph until every node has a colour, or gives up.        *)
(***************************************************************************)
CONSTANTS
  Node, Colour      (* the colours are nodes, coloured by themselves       *)

VARIABLES
  arcs,             (* the graph                                           *)
  colour,           (* the colour of each node; 0 is none                  *)
  outcome           (* "open", "solved" or "failed"                        *)

cvars == <<arcs, colour, outcome>>

Uncoloured == {n \in Node : colour[n] = 0}

CInit ==
  /\ arcs \subseteq Node \X Node
  /\ colour = [n \in Node |-> IF n \in Colour THEN n ELSE 0]
  /\ outcome = "open"

(* Nodes that do not interfere get a colour none of their neighbours has.  *)
Give(together, c) ==
  /\ together # {}
  /\ \A n \in together, m \in Node :
       <<n, m>> \in arcs => m \notin together /\ colour[m] # c
  /\ colour' = [n \in Node |-> IF n \in together THEN c ELSE colour[n]]
  /\ outcome' = "open"

Succeed == Uncoloured = {} /\ outcome' = "solved" /\ UNCHANGED colour
GiveUp  == outcome' = "failed" /\ UNCHANGED colour

CNext ==
  /\ outcome = "open"
  /\ \/ \E together \in SUBSET Uncoloured, c \in Colour : Give(together, c)
     \/ Succeed
     \/ GiveUp
  /\ UNCHANGED arcs

CSpec == CInit /\ [][CNext]_cvars
=============================================================================
