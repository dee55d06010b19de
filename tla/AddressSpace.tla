---------------------------- MODULE AddressSpace ----------------------------
(***************************************************************************)
(* What a guest may rely on: memory is a flat row of cells and a segment   *)
(* of it is open.  A request reads or writes consecutive cells of the open *)
(* segment or changes nothing; the segment is moved only inside memory.    *)
(***************************************************************************)
EXTENDS Integers

CONSTANTS Cells, Values   (* number of cells; what a cell holds            *)

VARIABLES
  cells,    (* contents                                                    *)
  open,     (* the cells of the open segment                               *)
  answer    (* contents read by the last request, <<>> if it read nothing  *)

avars == <<cells, open, answer>>

Segments == {lo .. hi - 1 : lo, hi \in 0 .. Cells}
Runs == {c .. c + n - 1 : c \in 0 .. Cells, n \in {1, 2, 4}}

AInit ==
  /\ cells \in [0 .. Cells - 1 -> Values]
  /\ open = 0 .. Cells - 1
  /\ answer = <<>>

Write == \E run \in Runs :
  /\ run \subseteq open
  /\ \A c \in DOMAIN cells \ run : cells'[c] = cells[c]
  /\ cells' \in [0 .. Cells - 1 -> Values]
  /\ answer' = <<>>
  /\ UNCHANGED open

Read == \E c \in open, n \in {1, 2, 4} :
  /\ c .. c + n - 1 \subseteq open
  /\ answer' = [k \in 1 .. n |-> cells[c + k - 1]]
  /\ UNCHANGED <<cells, open>>

Refuse ==
  /\ answer' = <<>>
  /\ UNCHANGED <<cells, open>>

Move ==
  /\ open' \in Segments
  /\ answer' = <<>>
  /\ UNCHANGED cells

ANext == Write \/ Read \/ Refuse \/ Move

ASpec == AInit /\ [][ANext]_avars
=============================================================================
