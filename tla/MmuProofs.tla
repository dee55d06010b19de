------------------------------ MODULE MmuProofs ------------------------------
(***************************************************************************)
(* Theorems about Mmu for every number of blocks, every byte and address   *)
(* width and every set of addresses, limits and data.                      *)
(***************************************************************************)
EXTENDS Mmu, TLAPS

LEMMA ModOfSmall ==
  ASSUME NEW m \in Nat, NEW x \in Nat, x < m
  PROVE  x % m = x
  OBVIOUS

LEMMA ModRange ==
  ASSUME NEW m \in Nat, m > 0, NEW x \in Nat
  PROVE  x % m \in 0 .. m - 1
  OBVIOUS

(* The sizes of the four scales.                                           *)
LEMMA BytesType ==
  ASSUME NEW scale \in Scale
  PROVE  Bytes(scale) \in {1, 2, 4, 8} /\ (scale # 3 => Bytes(scale) \in {1, 2, 4})
  BY DEF Scale, Bytes

LEMMA Constants ==
  /\ Blocks \in Nat /\ Blocks > 0
  /\ AddrSpace \in Nat /\ AddrSpace > 0
  /\ MaxMem \in Nat /\ MaxMem = 4 * Blocks /\ 2 * MaxMem < AddrSpace
  /\ Addr = 0 .. AddrSpace - 1
  /\ 0 \in Byte
  BY MemoryAssumption DEF MaxMem, Addr, Byte

-----------------------------------------------------------------------------
(* Lanes read from a memory image, and the image after a store, keep their *)
(* types as long as the access stays inside the blocks.                    *)
LEMMA ReadType ==
  ASSUME NEW m \in MemoryImage, NEW b \in Addr, NEW a \in Addr,
         NEW s \in Scale, ~Wild(b, a, s)
  PROVE  ReadLanes(m, b, a, s) \in DoubleWord
<1>1. ASSUME NEW k \in Lane, k < Bytes(s)
      PROVE  m[CellOf(b, a, k) \div 4][CellOf(b, a, k) % 4] \in Byte
  <2>1. k \in 0 .. Bytes(s) - 1
    BY <1>1, BytesType DEF Lane
  <2>2. CellOf(b, a, k) \in Cell
    BY <2>1 DEF Wild, CellsOf
  <2>3. /\ CellOf(b, a, k) \div 4 \in 0 .. Blocks - 1
        /\ CellOf(b, a, k) % 4 \in Lane
    BY <2>2, Constants DEF Cell, Lane
  <2> QED
    BY <2>3 DEF MemoryImage, DoubleWord
<1> QED
  BY <1>1, Constants DEF ReadLanes, DoubleWord

LEMMA WriteType ==
  ASSUME NEW m \in MemoryImage, NEW b \in Addr, NEW a \in Addr,
         NEW s \in Scale, s # 3, NEW data \in DoubleWord
  PROVE  WriteLanes(m, b, a, s, data) \in MemoryImage
<1> DEFINE first == CellOf(b, a, 0)
<1>1. first \in Nat
  BY Constants, ModRange DEF CellOf
<1>2. \A c \in CellsOf(b, a, s) : c - first \in Lane
  BY <1>1, BytesType, Constants DEF CellsOf, CellOf, Lane
<1>3. ASSUME NEW i \in 0 .. Blocks - 1, NEW l \in Lane
      PROVE  (IF 4 * i + l \in CellsOf(b, a, s)
                THEN data[(4 * i + l) - first] ELSE m[i][l]) \in Byte
  <2>1. m[i][l] \in Byte
    BY DEF DoubleWord, MemoryImage
  <2>2. CASE 4 * i + l \in CellsOf(b, a, s)
    <3>1. (4 * i + l) - first \in Lane
      BY <1>2, <2>2
    <3> QED
      BY <3>1, <2>2 DEF DoubleWord
  <2> QED
    BY <2>1, <2>2
<1>4. DOMAIN m = 0 .. Blocks - 1
  BY DEF MemoryImage
<1> QED
  BY <1>3, <1>4 DEF WriteLanes, MemoryImage, DoubleWord

(* An access that does not wrap and ends inside the window is translated   *)
(* without wrapping, to consecutive cells of the window.                   *)
LEMMA Translation ==
  ASSUME NEW b \in Addr, NEW lim \in Addr, b + lim <= MaxMem,
         NEW a \in Addr, NEW s \in Scale,
         NoWrap(a, s), EndOf(a, s) <= lim
  PROVE  /\ EndOf(a, s) = a + Bytes(s)
         /\ \A k \in Int : CellOf(b, a, k) = a + b + k
         /\ CellsOf(b, a, s) = (a + b) .. (a + b + Bytes(s) - 1)
         /\ CellsOf(b, a, s) \subseteq b .. b + lim - 1
         /\ ~Wild(b, a, s)
<1>1. /\ a \in Nat /\ b \in Nat /\ lim \in Nat /\ Bytes(s) \in Nat
      /\ Bytes(s) > 0
  BY BytesType, Constants
<1>2. EndOf(a, s) = a + Bytes(s)
  BY <1>1, Constants, ModOfSmall DEF EndOf, NoWrap
<1>3. (a + b) % AddrSpace = a + b
  <2>1. a + b \in Nat /\ a + b < AddrSpace
    BY <1>1, <1>2, Constants
  <2> QED
    BY <2>1, Constants, ModOfSmall
<1>4. \A k \in Int : CellOf(b, a, k) = a + b + k
  BY <1>3 DEF CellOf
<1>5. CellsOf(b, a, s) = (a + b) .. (a + b + Bytes(s) - 1)
  <2>1. ASSUME NEW c \in (a + b) .. (a + b + Bytes(s) - 1)
        PROVE  c \in CellsOf(b, a, s)
    <3>1. c - (a + b) \in 0 .. Bytes(s) - 1 /\ c = CellOf(b, a, c - (a + b))
      BY <1>1, <1>4, <2>1
    <3> QED
      BY <3>1 DEF CellsOf
  <2>2. ASSUME NEW c \in CellsOf(b, a, s)
        PROVE  c \in (a + b) .. (a + b + Bytes(s) - 1)
    BY <1>1, <1>4, <2>2 DEF CellsOf
  <2> QED
    BY <2>1, <2>2
<1>6. CellsOf(b, a, s) \subseteq b .. b + lim - 1
  BY <1>1, <1>2, <1>5
<1>7. ~Wild(b, a, s)
  BY <1>1, <1>6, Constants DEF Wild, Cell
<1> QED
  BY <1>2, <1>4, <1>5, <1>6, <1>7

(* The two guards, read as bounds on the end of the access.                *)
LEMMA Guards ==
  ASSUME NEW lim \in Addr, NEW a \in Addr, NEW s \in Scale
  PROVE  /\ EndOf(a, s) \in Nat
         /\ ~StoreRefused(lim, a, s) => EndOf(a, s) < lim
         /\ ~LoadRefused(lim, a, s) => EndOf(a, s) <= lim
<1>1. EndOf(a, s) \in Nat
  BY BytesType, Constants, ModRange DEF EndOf
<1> QED
  BY <1>1, Constants DEF StoreRefused, LoadRefused

-----------------------------------------------------------------------------
(* The limits resetLimits accepts keep the window inside memory.           *)
LEMMA LimitsAccepted ==
  ASSUME NEW nb \in Addr, NEW nl \in Addr, ~LimitsWrong(nb, nl)
  PROVE  nb + nl <= MaxMem
<1>1. nb + nl < AddrSpace
  BY Constants DEF LimitsWrong
<1> QED
  BY <1>1, Constants, ModOfSmall DEF LimitsWrong

IInv == TypeOK /\ WindowInMemory

LEMMA InitInv == Init => IInv
  BY Constants, MemoryAssumption, MmuAssumption
  DEF Init, IInv, TypeOK, WindowInMemory, MemoryImage, DoubleWord, Reply,
      Kinds, Nothing, Answer, NoLanes, Scale

LEMMA NothingType == \A kind \in Kinds : Nothing(kind) \in Reply
  BY Constants DEF Nothing, Answer, NoLanes, Reply, DoubleWord, Scale

LEMMA AnswerType ==
  ASSUME NEW kind \in Kinds, NEW a \in Addr, NEW s \in Scale,
         NEW lanes \in DoubleWord, NEW cost \in Nat
  PROVE  Answer(kind, a, s, lanes, cost) \in Reply
  BY DEF Answer, Reply

LEMMA CostType == \A a \in Addr, s \in Scale : Cost(a, s) \in Nat
  BY MmuAssumption DEF Cost

LEMMA NextInv == IInv /\ [Next]_vars => IInv'
<1> SUFFICES ASSUME IInv, [Next]_vars PROVE IInv'
  OBVIOUS
<1> USE DEF IInv
<1>1. ASSUME NEW addr \in Addrs, NEW scale \in Scale, NEW data \in Data,
             StoreToMem(data, addr, scale)
      PROVE  IInv'
  <2>1. addr \in Addr /\ data \in DoubleWord
    BY MmuAssumption
  <2>2. mem' \in MemoryImage
    BY <1>1, <2>1, WriteType DEF StoreToMem, TypeOK
  <2>3. reply' \in Reply
    BY <1>1, <2>1, AnswerType, CostType DEF StoreToMem, Kinds
  <2> QED
    BY <1>1, <2>2, <2>3 DEF StoreToMem, TypeOK, WindowInMemory
<1>2. ASSUME NEW addr \in Addrs, NEW scale \in Scale,
             StoreThrows(addr, scale) \/ LoadThrows(addr, scale)
      PROVE  IInv'
  BY <1>2, NothingType
  DEF StoreThrows, LoadThrows, Throw, TypeOK, WindowInMemory, Kinds
<1>3. ASSUME NEW addr \in Addrs, NEW scale \in Scale,
             LoadFromMem(addr, scale)
      PROVE  IInv'
  <2>1. addr \in Addr
    BY MmuAssumption
  <2>2. ReadLanes(mem, base, addr, scale) \in DoubleWord
    BY <1>3, <2>1, ReadType DEF LoadFromMem, TypeOK
  <2>3. reply' \in Reply
    BY <1>3, <2>1, <2>2, AnswerType, CostType DEF LoadFromMem, Kinds
  <2> QED
    BY <1>3, <2>3 DEF LoadFromMem, TypeOK, WindowInMemory
<1>4. ASSUME NEW addr \in Addrs, NEW scale \in Scale,
             WildAccess(addr, scale)
      PROVE  IInv'
  <2>1. reply' \in Reply
    BY <1>4, MmuAssumption, AnswerType DEF WildAccess, Kinds
  <2> QED
    BY <1>4, <2>1 DEF WildAccess, TypeOK, WindowInMemory
<1>5. ASSUME NEW newBase \in Limits, NEW newLimit \in Limits,
             ResetLimits(newBase, newLimit)
      PROVE  IInv'
  BY <1>5, MmuAssumption, LimitsAccepted, NothingType
  DEF ResetLimits, TypeOK, WindowInMemory, Kinds
<1>6. ASSUME NEW newBase \in Limits, NEW newLimit \in Limits,
             ResetLimitsThrows(newBase, newLimit)
      PROVE  IInv'
  BY <1>6, NothingType DEF ResetLimitsThrows, TypeOK, WindowInMemory, Kinds
<1>7. CASE UNCHANGED vars
  BY <1>7 DEF vars, TypeOK, WindowInMemory
<1> QED
  BY <1>1, <1>2, <1>3, <1>4, <1>5, <1>6, <1>7 DEF Next

(* Every reachable state of the MMU is well typed.                         *)
THEOREM TypeCorrect == Spec => []TypeOK
<1>1. IInv => TypeOK
  BY DEF IInv
<1> QED
  BY <1>1, InitInv, NextInv, PTL DEF Spec

(* No sequence of resetLimits moves the window out of the memory.          *)
THEOREM WindowStaysInMemory == Spec => []WindowInMemory
<1>1. IInv => WindowInMemory
  BY DEF IInv
<1> QED
  BY <1>1, InitInv, NextInv, PTL DEF Spec

-----------------------------------------------------------------------------
(* The cells an accepted, non-wrapping access names lie in the window.     *)
LEMMA GrantedInWindow ==
  ASSUME IInv, NEW addr \in Addr, NEW scale \in Scale, NoWrap(addr, scale),
         ~StoreRefused(limit, addr, scale) \/ ~LoadRefused(limit, addr, scale)
  PROVE  CellsOf(base, addr, scale) \subseteq Window
<1>1. base \in Addr /\ limit \in Addr /\ base + limit <= MaxMem
  BY DEF IInv, TypeOK, WindowInMemory
<1>2. EndOf(addr, scale) <= limit
  BY <1>1, Guards, Constants
<1> QED
  BY <1>1, <1>2, Translation DEF Window

LEMMA NextContainment == IInv /\ Containment /\ [Next]_vars => Containment'
<1> SUFFICES ASSUME IInv, Containment, [Next]_vars PROVE Containment'
  OBVIOUS
<1>1. ASSUME NEW addr \in Addrs, NEW scale \in Scale, NEW data \in Data,
             StoreToMem(data, addr, scale)
      PROVE  Containment'
  <2>1. addr \in Addr
    BY MmuAssumption
  <2>2. NoWrap(addr, scale) => CellsOf(base, addr, scale) \subseteq Window
    BY <1>1, <2>1, GrantedInWindow DEF StoreToMem
  <2> QED
    BY <1>1, <2>2 DEF StoreToMem, Containment, Answer, Window
<1>2. ASSUME NEW addr \in Addrs, NEW scale \in Scale,
             StoreThrows(addr, scale) \/ LoadThrows(addr, scale)
      PROVE  Containment'
  BY <1>2 DEF StoreThrows, LoadThrows, Throw, Nothing, Answer, Containment
<1>3. ASSUME NEW addr \in Addrs, NEW scale \in Scale,
             LoadFromMem(addr, scale) \/ WildAccess(addr, scale)
      PROVE  Containment'
  <2>1. addr \in Addr
    BY MmuAssumption
  <2>2. NoWrap(addr, scale) => CellsOf(base, addr, scale) \subseteq Window
    BY <1>3, <2>1, GrantedInWindow DEF LoadFromMem, WildAccess
  <2> QED
    BY <1>3, <2>2 DEF LoadFromMem, WildAccess, Containment, Answer, Window
<1>4. ASSUME NEW newBase \in Limits, NEW newLimit \in Limits,
             ResetLimits(newBase, newLimit) \/ ResetLimitsThrows(newBase, newLimit)
      PROVE  Containment'
  BY <1>4 DEF ResetLimits, ResetLimitsThrows, Nothing, Answer, Containment
<1>5. CASE UNCHANGED vars
  BY <1>5 DEF vars, Containment, Window
<1> QED
  BY <1>1, <1>2, <1>3, <1>4, <1>5 DEF Next

(* No granted request, short of one that wraps round the address space,    *)
(* touches a cell outside the window.                                      *)
THEOREM AccessesContained == Spec => []Containment
<1>1. Init => Containment
  BY DEF Init, Nothing, Answer, Containment
<1> QED
  BY <1>1, InitInv, NextInv, NextContainment, PTL DEF Spec

-----------------------------------------------------------------------------
(* What WriteLanes does to one cell.                                       *)
LEMMA WriteLane ==
  ASSUME NEW m \in MemoryImage, NEW b \in Addr, NEW a \in Addr,
         NEW s \in Scale, NEW data \in DoubleWord,
         NEW i \in 0 .. Blocks - 1, NEW l \in Lane
  PROVE  WriteLanes(m, b, a, s, data)[i][l] =
           IF 4 * i + l \in CellsOf(b, a, s)
             THEN data[(4 * i + l) - CellOf(b, a, 0)] ELSE m[i][l]
  BY DEF WriteLanes, MemoryImage

(* Memory changes only where a store says, and never in the last cell of   *)
(* the window.                                                             *)
THEOREM OnlyNamedCells == Spec => OnlyNamedCellsChange
<1> DEFINE A == \A b \in DOMAIN mem, l \in Lane :
                  mem'[b][l] # mem[b][l] =>
                    /\ reply'.kind = "stored"
                    /\ 4 * b + l \in CellsOf(base, reply'.addr, reply'.scale)
                    /\ NoWrap(reply'.addr, reply'.scale)
                         => 4 * b + l # base + limit - 1
<1>1. ASSUME IInv, Next PROVE A
  <2>1. ASSUME NEW addr \in Addrs, NEW scale \in Scale, NEW data \in Data,
               StoreToMem(data, addr, scale)
        PROVE  A
    <3> SUFFICES ASSUME NEW b \in DOMAIN mem, NEW l \in Lane,
                        mem'[b][l] # mem[b][l]
                 PROVE  /\ reply'.kind = "stored"
                        /\ 4 * b + l \in CellsOf(base, reply'.addr, reply'.scale)
                        /\ NoWrap(reply'.addr, reply'.scale)
                             => 4 * b + l # base + limit - 1
      OBVIOUS
    <3>1. /\ mem \in MemoryImage /\ base \in Addr /\ limit \in Addr
          /\ base + limit <= MaxMem
          /\ addr \in Addr /\ data \in DoubleWord
          /\ b \in 0 .. Blocks - 1
      BY <1>1, MmuAssumption DEF IInv, TypeOK, WindowInMemory, MemoryImage
    <3>2. 4 * b + l \in CellsOf(base, addr, scale)
      BY <2>1, <3>1, WriteLane DEF StoreToMem
    <3>3. reply'.kind = "stored" /\ reply'.addr = addr /\ reply'.scale = scale
      BY <2>1 DEF StoreToMem, Answer
    <3>4. ASSUME NoWrap(addr, scale) PROVE 4 * b + l # base + limit - 1
      <4>1. EndOf(addr, scale) \in Nat /\ EndOf(addr, scale) < limit
        BY <2>1, <3>1, Guards DEF StoreToMem
      <4>2. EndOf(addr, scale) <= limit
        BY <3>1, <4>1, Constants
      <4>3. /\ EndOf(addr, scale) = addr + Bytes(scale)
            /\ CellsOf(base, addr, scale)
                 = (addr + base) .. (addr + base + Bytes(scale) - 1)
        BY <3>1, <3>4, <4>2, Translation
      <4>4. 4 * b + l \in (addr + base) .. (addr + base + Bytes(scale) - 1)
        BY <3>2, <4>3
      <4>5. /\ addr \in Nat /\ base \in Nat /\ limit \in Nat
            /\ Bytes(scale) \in Nat /\ 4 * b + l \in Int
        BY <3>1, BytesType, Constants DEF Lane
      <4> QED
        BY <4>1, <4>3, <4>4, <4>5
    <3> QED
      BY <3>2, <3>3, <3>4
  <2>2. ASSUME NEW addr \in Addrs, NEW scale \in Scale,
               \/ StoreThrows(addr, scale) \/ LoadThrows(addr, scale)
               \/ LoadFromMem(addr, scale) \/ WildAccess(addr, scale)
        PROVE  A
    BY <2>2 DEF StoreThrows, LoadThrows, Throw, LoadFromMem, WildAccess
  <2>3. ASSUME NEW newBase \in Limits, NEW newLimit \in Limits,
               ResetLimits(newBase, newLimit) \/ ResetLimitsThrows(newBase, newLimit)
        PROVE  A
    BY <2>3 DEF ResetLimits, ResetLimitsThrows
  <2> QED
    BY <1>1, <2>1, <2>2, <2>3 DEF Next
<1>2. IInv /\ [Next]_vars => [A]_vars
  BY <1>1
<1> QED
  BY <1>2, InitInv, NextInv, PTL DEF Spec, OnlyNamedCellsChange

-----------------------------------------------------------------------------
(* A load of the place just stored to finds the datum.                     *)
LEMMA ReadAfterWrite ==
  ASSUME NEW m \in MemoryImage, NEW b \in Addr, NEW a \in Addr,
         NEW s \in Scale, NEW data \in DoubleWord,
         s # 3, ~Wild(b, a, s)
  PROVE  ReadLanes(WriteLanes(m, b, a, s, data), b, a, s)
           = [k \in Lane |-> IF k < Bytes(s) THEN data[k] ELSE 0]
<1> DEFINE w == WriteLanes(m, b, a, s, data)
<1>1. ASSUME NEW k \in Lane, k < Bytes(s)
      PROVE  w[CellOf(b, a, k) \div 4][CellOf(b, a, k) % 4] = data[k]
  <2> DEFINE c == CellOf(b, a, k)
             i == c \div 4
             l == c % 4
  <2>1. c \in CellsOf(b, a, s)
    BY <1>1, BytesType DEF CellsOf, Lane
  <2>2. c \in Cell
    BY <2>1 DEF Wild
  <2>3. i \in 0 .. Blocks - 1 /\ l \in Lane /\ 4 * i + l = c
    <3> HIDE DEF c
    <3> QED
      BY <2>2, Constants DEF Cell, Lane
  <2>4. c - CellOf(b, a, 0) = k
    BY <1>1, Constants, ModRange DEF CellOf, Lane
  <2> HIDE DEF c, i, l
  <2>5. w[i][l] = IF 4 * i + l \in CellsOf(b, a, s)
                    THEN data[(4 * i + l) - CellOf(b, a, 0)] ELSE m[i][l]
    BY <2>3, WriteLane
  <2>6. w[i][l] = data[k]
    BY <2>1, <2>3, <2>4, <2>5
  <2> QED
    BY <2>6 DEF i, l, c
<1> HIDE DEF w
<1>2. ReadLanes(w, b, a, s)
        = [k \in Lane |-> IF k < Bytes(s) THEN data[k] ELSE 0]
  BY <1>1 DEF ReadLanes
<1> QED
  BY <1>2 DEF w

(* Every accepted store can be read back at once.                          *)
THEOREM StoreReadsBack == Spec => []ReadBack
<1>1. Init => ReadBack
  BY DEF Init, Nothing, Answer, ReadBack
<1>2. ASSUME IInv, ReadBack, [Next]_vars PROVE ReadBack'
  <2>1. ASSUME NEW addr \in Addrs, NEW scale \in Scale, NEW data \in Data,
               StoreToMem(data, addr, scale)
        PROVE  ReadBack'
    <3>1. /\ mem \in MemoryImage /\ base \in Addr /\ limit \in Addr
          /\ addr \in Addr /\ data \in DoubleWord
      BY <1>2, <2>1, MmuAssumption DEF IInv, TypeOK
    <3>2. ~LoadRefused(limit, addr, scale)
      BY <2>1, <3>1, Guards, Constants DEF StoreToMem, LoadRefused
    <3>3. ReadLanes(mem', base, addr, scale)
            = [k \in Lane |-> IF k < Bytes(scale) THEN data[k] ELSE 0]
      BY <2>1, <3>1, ReadAfterWrite DEF StoreToMem
    <3>4. /\ reply'.addr = addr /\ reply'.scale = scale /\ reply'.lanes = data
          /\ base' = base /\ limit' = limit
      BY <2>1 DEF StoreToMem, Answer
    <3> QED
      BY <3>2, <3>3, <3>4 DEF ReadBack
  <2>2. ASSUME NEW addr \in Addrs, NEW scale \in Scale,
               \/ StoreThrows(addr, scale) \/ LoadThrows(addr, scale)
               \/ LoadFromMem(addr, scale) \/ WildAccess(addr, scale)
        PROVE  ReadBack'
    BY <2>2 DEF StoreThrows, LoadThrows, Throw, LoadFromMem, WildAccess,
                Nothing, Answer, ReadBack
  <2>3. ASSUME NEW newBase \in Limits, NEW newLimit \in Limits,
               ResetLimits(newBase, newLimit) \/ ResetLimitsThrows(newBase, newLimit)
        PROVE  ReadBack'
    BY <2>3 DEF ResetLimits, ResetLimitsThrows, Nothing, Answer, ReadBack
  <2>4. CASE UNCHANGED vars
    BY <1>2, <2>4 DEF vars, ReadBack
  <2> QED
    BY <1>2, <2>1, <2>2, <2>3, <2>4 DEF Next
<1> QED
  BY <1>1, <1>2, InitInv, NextInv, PTL DEF Spec

-----------------------------------------------------------------------------
(* The flat view of a memory image.                                        *)
FlatView(m) == [c \in Cell |-> m[c \div 4][c % 4]]

LEMMA CellParts ==
  ASSUME NEW c \in Cell
  PROVE  c \div 4 \in 0 .. Blocks - 1 /\ c % 4 \in Lane /\ 4 * (c \div 4) + (c % 4) = c
  BY Constants DEF Cell, Lane

LEMMA FlatType ==
  ASSUME NEW m \in MemoryImage
  PROVE  FlatView(m) \in [0 .. MaxMem - 1 -> Byte]
<1>1. \A c \in Cell : m[c \div 4][c % 4] \in Byte
  BY CellParts DEF MemoryImage, DoubleWord
<1> QED
  BY <1>1 DEF FlatView, Cell

LEMMA FlatWrite ==
  ASSUME NEW m \in MemoryImage, NEW b \in Addr, NEW a \in Addr,
         NEW s \in Scale, NEW data \in DoubleWord,
         NEW c \in Cell, c \notin CellsOf(b, a, s)
  PROVE  FlatView(WriteLanes(m, b, a, s, data))[c] = FlatView(m)[c]
<1>1. /\ c \div 4 \in 0 .. Blocks - 1 /\ c % 4 \in Lane
      /\ 4 * (c \div 4) + (c % 4) = c
  BY CellParts
<1>2. WriteLanes(m, b, a, s, data)[c \div 4][c % 4] = m[c \div 4][c % 4]
  BY <1>1, WriteLane
<1> QED
  BY <1>2 DEF FlatView

(* A request that does not wrap cannot be told from one of a flat segment  *)
(* of memory, from any state a guest that wraps as well may lead to.       *)
THEOREM Refinement == Spec => ImplementsFlat
<1> DEFINE AVars == <<FlatView(mem), Window, Answered>>
<1>1. Init => Flat!AInit
  <2> SUFFICES ASSUME Init PROVE Flat!AInit
    OBVIOUS
  <2>1. FlatView(mem) \in [0 .. MaxMem - 1 -> Byte]
    BY FlatType, InitInv DEF IInv, TypeOK
  <2>2. Window = 0 .. MaxMem - 1
    BY Constants DEF Init, Window
  <2>3. Answered = <<>>
    BY DEF Init, Nothing, Answer, Answered
  <2> QED
    BY <2>1, <2>2, <2>3 DEF Flat!AInit, FlatView
<1>2. ASSUME IInv, IInv', [Next]_vars, NoWrap(reply'.addr, reply'.scale)
      PROVE  Flat!ANext \/ UNCHANGED AVars
  <2> USE DEF Flat!ANext
  <2>0. /\ mem \in MemoryImage /\ base \in Addr /\ limit \in Addr
        /\ mem' \in MemoryImage /\ base + limit <= MaxMem
    BY <1>2 DEF IInv, TypeOK, WindowInMemory
  <2>1. ASSUME NEW addr \in Addrs, NEW scale \in Scale, NEW data \in Data,
               StoreToMem(data, addr, scale)
        PROVE  Flat!Write
    <3>1. addr \in Addr /\ data \in DoubleWord /\ NoWrap(addr, scale)
      BY <1>2, <2>1, MmuAssumption DEF StoreToMem, Answer
    <3>2. EndOf(addr, scale) <= limit
      BY <2>0, <2>1, <3>1, Guards, Constants DEF StoreToMem
    <3>3. /\ CellsOf(base, addr, scale)
               = (addr + base) .. (addr + base + Bytes(scale) - 1)
          /\ CellsOf(base, addr, scale) \subseteq Window
      BY <2>0, <3>1, <3>2, Translation DEF Window
    <3>4. CellsOf(base, addr, scale) \in Flat!Runs
      <4>1. CellsOf(base, addr, scale) \subseteq Cell
        BY <2>0, <2>1 DEF StoreToMem, Wild
      <4>2. addr + base \in CellsOf(base, addr, scale)
        BY <2>0, <3>1, <3>3, BytesType, Constants
      <4>3. addr + base \in 0 .. MaxMem /\ Bytes(scale) \in {1, 2, 4}
        BY <2>1, <4>1, <4>2, BytesType, Constants DEF StoreToMem, Cell
      <4> QED
        BY <3>3, <4>3 DEF Flat!Runs
    <3>5. \A c \in Cell \ CellsOf(base, addr, scale) :
            FlatView(mem')[c] = FlatView(mem)[c]
      BY <2>0, <2>1, <3>1, FlatWrite DEF StoreToMem
    <3>6. FlatView(mem') \in [0 .. MaxMem - 1 -> Byte]
      BY <2>0, FlatType
    <3>7. Answered' = <<>> /\ Window' = Window
      BY <2>1 DEF StoreToMem, Answer, Answered, Window
    <3>8. DOMAIN FlatView(mem) = Cell
      BY DEF FlatView
    <3> QED
      BY <3>3, <3>4, <3>5, <3>6, <3>7, <3>8 DEF Flat!Write, FlatView
  <2>2. ASSUME NEW addr \in Addrs, NEW scale \in Scale,
               StoreThrows(addr, scale) \/ LoadThrows(addr, scale)
        PROVE  Flat!Refuse
    BY <2>2 DEF StoreThrows, LoadThrows, Throw, Nothing, Answer, Answered,
                Window, Flat!Refuse
  <2>3. ASSUME NEW addr \in Addrs, NEW scale \in Scale,
               LoadFromMem(addr, scale)
        PROVE  Flat!Read
    <3>1. addr \in Addr /\ NoWrap(addr, scale)
      BY <1>2, <2>3, MmuAssumption DEF LoadFromMem, Answer
    <3>2. EndOf(addr, scale) <= limit
      BY <2>0, <2>3, <3>1, Guards, Constants DEF LoadFromMem
    <3>3. /\ CellsOf(base, addr, scale)
               = (addr + base) .. (addr + base + Bytes(scale) - 1)
          /\ CellsOf(base, addr, scale) \subseteq Window
          /\ \A k \in Int : CellOf(base, addr, k) = addr + base + k
      BY <2>0, <3>1, <3>2, Translation DEF Window
    <3>4. Bytes(scale) \in {1, 2, 4}
      BY <2>3, BytesType DEF LoadFromMem
    <3>5. addr + base \in Window
      <4>1. addr \in Int /\ base \in Int /\ Bytes(scale) \in Int /\ 1 <= Bytes(scale)
        BY <2>0, <3>1, <3>4, Constants
      <4>2. addr + base \in (addr + base) .. (addr + base + Bytes(scale) - 1)
        BY <4>1
      <4> QED
        BY <3>3, <4>2
    <3>6. reply'.kind = "loaded" /\ reply'.scale = scale
          /\ reply'.lanes = ReadLanes(mem, base, addr, scale)
          /\ UNCHANGED <<mem, Window>>
      BY <2>3 DEF LoadFromMem, Answer, Window
    <3>7. ASSUME NEW k \in 1 .. Bytes(scale)
          PROVE  reply'.lanes[k - 1] = FlatView(mem)[addr + base + k - 1]
      <4>1. k - 1 \in Lane /\ k - 1 < Bytes(scale) /\ k - 1 \in 0 .. Bytes(scale) - 1
        BY <3>4 DEF Lane
      <4>2. CellOf(base, addr, k - 1) \in Cell
        BY <2>3, <4>1 DEF LoadFromMem, Wild, CellsOf
      <4>3. CellOf(base, addr, k - 1) = addr + base + k - 1
        BY <2>0, <3>1, <3>3, <4>1, Constants
      <4> QED
        BY <3>6, <4>1, <4>2, <4>3 DEF ReadLanes, FlatView
    <3>8. Answered' = [k \in 1 .. Bytes(scale) |-> FlatView(mem)[addr + base + k - 1]]
      BY <3>6, <3>7 DEF Answered
    <3> QED
      BY <3>3, <3>4, <3>5, <3>6, <3>8 DEF Flat!Read, FlatView
  <2>4. ASSUME NEW addr \in Addrs, NEW scale \in Scale,
               WildAccess(addr, scale)
        PROVE  FALSE
    <3>1. addr \in Addr /\ NoWrap(addr, scale)
      BY <1>2, <2>4, MmuAssumption DEF WildAccess, Answer
    <3>2. EndOf(addr, scale) <= limit
      BY <2>0, <2>4, <3>1, Guards, Constants DEF WildAccess
    <3> QED
      BY <2>0, <2>4, <3>1, <3>2, Translation DEF WildAccess
  <2>5. ASSUME NEW newBase \in Limits, NEW newLimit \in Limits,
               ResetLimits(newBase, newLimit)
        PROVE  Flat!Move
    <3>1. newBase \in Nat /\ newLimit \in Nat /\ newBase + newLimit <= MaxMem
      BY <2>5, MmuAssumption, LimitsAccepted, Constants DEF ResetLimits
    <3>2. Window' = newBase .. (newBase + newLimit) - 1
      BY <2>5, <3>1 DEF ResetLimits, Window
    <3>4. newBase \in 0 .. MaxMem /\ newBase + newLimit \in 0 .. MaxMem
      BY <3>1, Constants
    <3>5. Window' \in Flat!Segments
      BY <3>2, <3>4 DEF Flat!Segments
    <3> QED
      BY <2>5, <3>5 DEF ResetLimits, Nothing, Answer, Answered, Flat!Move
  <2>6. ASSUME NEW newBase \in Limits, NEW newLimit \in Limits,
               ResetLimitsThrows(newBase, newLimit)
        PROVE  Flat!Refuse
    BY <2>6 DEF ResetLimitsThrows, Nothing, Answer, Answered, Window,
                Flat!Refuse
  <2>7. CASE UNCHANGED vars
    BY <2>7 DEF vars, FlatView, Window, Answered
  <2> QED
    BY <1>2, <2>1, <2>2, <2>3, <2>4, <2>5, <2>6, <2>7 DEF Next
<1>3. IInv /\ IInv' /\ [Next]_vars
        => (NoWrap(reply'.addr, reply'.scale) => [Flat!ANext]_(Flat!avars))
  BY <1>2 DEF Flat!avars, FlatView
<1> QED
  BY <1>1, <1>3, InitInv, NextInv, PTL DEF Spec, ImplementsFlat
=============================================================================
