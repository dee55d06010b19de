------------------------------ MODULE AliasMaps ------------------------------
(***************************************************************************)
(* The two maps of coalesced temporaries (src/src/vasm/algorithms/         *)
(* TempsMap.cpp): AliasMap leads from an alias to the node it was merged   *)
(* into, ReverseAliasMap from such a final node to all of its aliases.     *)
(* A uid that is no key is led to 0 by the first, as getFinal does, and to *)
(* the empty set by the second, which never keeps an empty entry.          *)
(***************************************************************************)
EXTENDS Integers

CONSTANT Node       (* the uids of the nodes; 0 is none                    *)

ASSUME NodeAssumption == Node \subseteq Nat \ {0}

Maps == [to : [Node -> Node \cup {0}], of : [Node -> SUBSET Node]]
NoAliases == [to |-> [n \in Node |-> 0], of |-> [n \in Node |-> {}]]

Final(m, n) == IF m.to[n] = 0 THEN n ELSE m.to[n]

(* ReverseAliasMap::add: the aliases of the new alias follow it.           *)
AddAlone(m, alias, final) ==                                      (* mutant *)
  [to |-> [m.to EXCEPT ![alias] = final],
   of |-> [m.of EXCEPT ![final] = @ \cup {alias}]]
Add(m, alias, final) ==
  LET moved == m.of[alias] \cup {alias}
  IN  [to |-> [n \in Node |-> IF n \in moved THEN final ELSE m.to[n]],
       of |-> [n \in Node |->
                 IF n = alias THEN {}
                 ELSE IF n = final THEN m.of[n] \cup moved ELSE m.of[n]]]

(* std::map::insert of the entries of other: a key that is there already   *)
(* keeps its value.                                                        *)
Insert(m, other) ==
  [to |-> [n \in Node |-> IF m.to[n] = 0 THEN other.to[n] ELSE m.to[n]],
   of |-> [n \in Node |-> IF m.of[n] = {} THEN other.of[n] ELSE m.of[n]]]
=============================================================================
