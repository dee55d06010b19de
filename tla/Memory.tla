------------------------------- MODULE Memory -------------------------------
(***************************************************************************)
(* The main memory of vARCH and the address arithmetic of its memory       *)
(* management unit: blocks of four byte lanes, reached through a window    *)
(* (base, limit).  Only constant-level operators live here, so that the    *)
(* MMU and the CPU, which both go through them, share one definition.      *)
(***************************************************************************)
EXTENDS Integers

CONSTANTS
  Blocks,     (* number of 4-byte blocks of the main memory                *)
  ByteMod,    (* values of a byte: 256 in the code, fewer in a check       *)
  AddrSpace   (* addresses are computed modulo this: 2^32 in the code      *)

ASSUME MemoryAssumption ==
  /\ Blocks \in Nat \ {0}
  /\ ByteMod \in Nat \ {0}
  /\ AddrSpace \in Nat
  /\ 8 * Blocks + 4 <= AddrSpace
  /\ AddrSpace % 4 = 0

MaxMem == 4 * Blocks
Byte   == 0 .. ByteMod - 1
Lane   == 0 .. 3
Cell   == 0 .. MaxMem - 1
Addr   == 0 .. AddrSpace - 1

(* A block, and any datum moved to or from memory, is a union of 4 bytes.  *)
DoubleWord == [Lane -> Byte]
MemoryImage == [0 .. Blocks - 1 -> DoubleWord]

(* ScaleOfArgument: the size of a datum is a power of two; 3 is BYTE8.     *)
Scale == 0 .. 3
Bytes(scale) ==
  IF scale = 0 THEN 1 ELSE IF scale = 1 THEN 2 ELSE IF scale = 2 THEN 4 ELSE 8

(* The sum both guards compare with the limit is an unsigned 32 bit one.   *)
EndForgotten(addr, scale) == addr                                 (* mutant *)
EndOf(addr, scale) == (addr + Bytes(scale)) % AddrSpace

StoreRefusedLate(limit, addr, scale) == EndOf(addr, scale) > limit  (* mutant *)
LoadRefusedAt(limit, addr, scale) == addr >= limit                (* mutant *)
StoreRefused(limit, addr, scale) == EndOf(addr, scale) >= limit
LoadRefused(limit, addr, scale)  == EndOf(addr, scale) > limit

(* Byte k of an access falls in this cell: the address is translated once, *)
(* and the lanes past the end of a block are those of the block after it.  *)
CellOf(base, addr, k) == ((addr + base) % AddrSpace) + k
CellsOf(base, addr, scale) ==
  {CellOf(base, addr, k) : k \in 0 .. Bytes(scale) - 1}

(* An accepted access that leaves the allocated blocks is undefined.       *)
Wild(base, addr, scale) == ~(CellsOf(base, addr, scale) \subseteq Cell)

Aligned(base, addr, scale) ==
  \/ scale = 0
  \/ scale = 1 /\ (addr + base) % 2 = 0
  \/ scale = 2 /\ (addr + base) % 4 = 0

(* The four lanes of a load: those past its size are zero.                 *)
ReadUncleared(mem, base, addr, scale) ==                          (* mutant *)
  [k \in Lane |->
     IF k < Bytes(scale)
       THEN mem[CellOf(base, addr, k) \div 4][CellOf(base, addr, k) % 4]
       ELSE ByteMod]
ReadLanes(mem, base, addr, scale) ==
  [k \in Lane |->
     IF k < Bytes(scale)
       THEN mem[CellOf(base, addr, k) \div 4][CellOf(base, addr, k) % 4]
       ELSE 0]

(* The memory after the first lanes of data were stored.                   *)
WriteAligned(mem, base, addr, scale, data) ==                     (* mutant *)
  [b \in DOMAIN mem |->
     [l \in Lane |-> IF 4 * b + l \in CellsOf(base, addr, scale)
                       THEN data[l] ELSE mem[b][l]]]
WriteLanes(mem, base, addr, scale, data) ==
  LET first == CellOf(base, addr, 0)
      cells == CellsOf(base, addr, scale)
  IN  [b \in DOMAIN mem |->
         [l \in Lane |->
            IF 4 * b + l \in cells
              THEN data[(4 * b + l) - first]
              ELSE mem[b][l]]]
=============================================================================
