--------------------------------- MODULE Mmu ---------------------------------
(***************************************************************************)
(* The memory management unit (src/src/Mmu.cpp): every access of the CPU   *)
(* is checked against the limit, translated by the base and carried out on *)
(* 4-byte blocks, aligned or not.  The guest chooses the requests.         *)
(***************************************************************************)
EXTENDS Memory

CONSTANTS
  Addrs,      (* the addresses the guest uses                              *)
  Limits,     (* the values it passes for a new base or a new limit        *)
  Data,       (* the data it stores                                        *)
  AccessTime  (* cost of an aligned access                                 *)

ASSUME MmuAssumption ==
  /\ Addrs \subseteq Addr
  /\ Limits \subseteq Addr
  /\ Data \subseteq DoubleWord
  /\ AccessTime \in Nat

VARIABLES
  mem,    (* the blocks                                                    *)
  base,   (* start of the window                                           *)
  limit,  (* size of the window                                            *)
  reply   (* outcome of the last request                                   *)

vars == <<mem, base, limit, reply>>

Kinds == {"none", "stored", "loaded", "refused", "unsupported", "wild", "moved"}
Reply == [kind : Kinds, addr : Addr, scale : Scale, lanes : DoubleWord,
          cost : Nat]

NoLanes == [k \in Lane |-> 0]
Answer(kind, addr, scale, lanes, cost) ==
  [kind |-> kind, addr |-> addr, scale |-> scale, lanes |-> lanes,
   cost |-> cost]
Nothing(kind) == Answer(kind, 0, 0, NoLanes, 0)
Cost(addr, scale) ==
  IF Aligned(base, addr, scale) THEN AccessTime ELSE 2 * AccessTime

TypeOK ==
  /\ mem \in MemoryImage
  /\ base \in Addr
  /\ limit \in Addr
  /\ reply \in Reply

Init ==
  /\ mem = [b \in 0 .. Blocks - 1 |-> NoLanes]
  /\ base = 0
  /\ limit = MaxMem
  /\ reply = Nothing("none")

-----------------------------------------------------------------------------
(* A request the MMU throws on: nothing but the exception happens.  The    *)
(* size is looked at after the limit.                                      *)
Throw(scale, refused) ==
  /\ refused \/ scale = 3
  /\ reply' = Nothing(IF refused THEN "refused" ELSE "unsupported")
  /\ UNCHANGED <<mem, base, limit>>

(* storeToMem, when the guard lets it through.                             *)
StoreToMem(data, addr, scale) ==
  /\ ~StoreRefused(limit, addr, scale)
  /\ scale # 3
  /\ ~Wild(base, addr, scale)
  /\ mem' = WriteLanes(mem, base, addr, scale, data)
  /\ reply' = Answer("stored", addr, scale, data, Cost(addr, scale))
  /\ UNCHANGED <<base, limit>>

StoreThrows(addr, scale) == Throw(scale, StoreRefused(limit, addr, scale))

(* loadFromMem                                                             *)
LoadFromMem(addr, scale) ==
  /\ ~LoadRefused(limit, addr, scale)
  /\ scale # 3
  /\ ~Wild(base, addr, scale)
  /\ reply' = Answer("loaded", addr, scale, ReadLanes(mem, base, addr, scale),
                     Cost(addr, scale))
  /\ UNCHANGED <<mem, base, limit>>

LoadThrows(addr, scale) == Throw(scale, LoadRefused(limit, addr, scale))

(* An accepted request for blocks that do not exist: undefined behaviour.  *)
(* It may hit anything outside the model; what it reads is arbitrary.      *)
WildAccess(addr, scale) ==
  /\ ~LoadRefused(limit, addr, scale)
  /\ scale # 3
  /\ Wild(base, addr, scale)
  /\ \E lanes \in Data : reply' = Answer("wild", addr, scale, lanes, 0)
  /\ UNCHANGED <<mem, base, limit>>

(* resetLimits                                                             *)
LimitsEachWrong(newBase, newLimit) ==                             (* mutant *)
  newBase > MaxMem \/ newLimit > MaxMem
LimitsWrong(newBase, newLimit) ==
  \/ newBase > MaxMem
  \/ newLimit > MaxMem
  \/ (newBase + newLimit) % AddrSpace > MaxMem

ResetLimits(newBase, newLimit) ==
  /\ ~LimitsWrong(newBase, newLimit)
  /\ base' = newBase
  /\ limit' = newLimit
  /\ reply' = Nothing("moved")
  /\ UNCHANGED mem

ResetLimitsThrows(newBase, newLimit) ==
  /\ LimitsWrong(newBase, newLimit)
  /\ reply' = Nothing("refused")
  /\ UNCHANGED <<mem, base, limit>>

Next ==
  \/ \E addr \in Addrs, scale \in Scale :
       \/ \E data \in Data : StoreToMem(data, addr, scale)
       \/ StoreThrows(addr, scale)
       \/ LoadFromMem(addr, scale)
       \/ LoadThrows(addr, scale)
       \/ WildAccess(addr, scale)
  \/ \E newBase, newLimit \in Limits :
       \/ ResetLimits(newBase, newLimit)
       \/ ResetLimitsThrows(newBase, newLimit)

Spec == Init /\ [][Next]_vars

-----------------------------------------------------------------------------
Window == base .. base + limit - 1

(* A request whose end does not run past the address space.                *)
NoWrap(addr, scale) == addr + Bytes(scale) < AddrSpace

(* The window lies inside the memory, whatever sequence of resetLimits,    *)
(* accepted or refused, led here (Mmu::resetLimits).                       *)
WindowInMemory == base + limit <= MaxMem

(* A granted request that does not wrap touches cells of the window only,  *)
(* so no guest reaches the memory below its base or past its limit, and an *)
(* undefined access needs an address at the very end of the address space. *)
(* Relates the guards of storeToMem and loadFromMem to the translation.    *)
Containment ==
  reply.kind \in {"stored", "loaded", "wild"} /\ NoWrap(reply.addr, reply.scale)
    => CellsOf(base, reply.addr, reply.scale) \subseteq Window

(* Memory changes only under a store, only in the cells it names, and the  *)
(* last cell of a window is never written: the guard of storeToMem is >=   *)
(* where that of loadFromMem is >.                                         *)
OnlyNamedCellsChange ==
  [][\A b \in DOMAIN mem, l \in Lane :
       mem'[b][l] # mem[b][l] =>
         /\ reply'.kind = "stored"
         /\ 4 * b + l \in CellsOf(base, reply'.addr, reply'.scale)
         /\ NoWrap(reply'.addr, reply'.scale)
              => 4 * b + l # base + limit - 1]_vars

(* What was just stored is what a load of the same place returns, however  *)
(* the datum is split between two blocks, and the load is never refused.   *)
ReadBack ==
  reply.kind = "stored" =>
    /\ ~LoadRefused(limit, reply.addr, reply.scale)
    /\ ReadLanes(mem, base, reply.addr, reply.scale)
         = [k \in Lane |-> IF k < Bytes(reply.scale) THEN reply.lanes[k] ELSE 0]

(* What the guest sees: memory as a row of cells, and the answer of a load. *)
Answered ==
  IF reply.kind = "loaded"
    THEN [k \in 1 .. Bytes(reply.scale) |-> reply.lanes[k - 1]]
    ELSE <<>>
Flat == INSTANCE AddressSpace WITH
  Cells  <- MaxMem,
  Values <- Byte,
  cells  <- [c \in Cell |-> mem[c \div 4][c % 4]],
  open   <- Window,
  answer <- Answered

(* Every request that does not wrap is one of a flat segment of memory,    *)
(* whatever wrapping ones came before: Mmu implements AddressSpace up to   *)
(* them.                                                                   *)
ImplementsFlat ==
  /\ Flat!AInit
  /\ [][NoWrap(reply'.addr, reply'.scale) => [Flat!ANext]_(Flat!avars)]_vars
=============================================================================
