-------------------------------- MODULE MCMmu --------------------------------
(* Two blocks of two-valued bytes in an address space of twenty.           *)
EXTENDS Mmu

OneDatum == {[k \in Lane |-> IF k = 1 THEN 0 ELSE 1]}

AllAddrs   == Addr
FewLimits  == {0, 3, 5, AddrSpace - 1}
=============================================================================
