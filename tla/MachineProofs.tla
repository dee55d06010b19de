---------------------------- MODULE MachineProofs ----------------------------
(***************************************************************************)
(* Theorems about the machine: for every memory size, every width of a     *)
(* byte, every guest program and every set of components.  Each part of an *)
(* instruction is classed by what it may change: Ordinary keeps the status *)
(* register and what only the supervisor sets, Confined raises flags too,  *)
(* and Done is what a whole instruction leaves behind.                     *)
(***************************************************************************)
EXTENDS Machine, TLAPS

(* What the assumptions on the constants come to.                          *)
LEMMA Constants ==
  /\ AddrSpace \in Nat /\ AddrSpace > 64 /\ AddrSpace % 4096 = 0
  /\ ByteMod \in Nat /\ ByteMod > 0
  /\ Word = 0 .. AddrSpace - 1
  /\ MaxMem \in Word /\ 4 * Blocks = MaxMem /\ 2 * MaxMem < AddrSpace
  /\ Blocks \in Nat /\ Blocks > 0
  BY MemoryAssumption, CpuAssumption DEF Word, Addr, MaxMem

LEMMA ModOfSmall ==
  ASSUME NEW m \in Nat, NEW x \in Nat, x < m
  PROVE  x % m = x
  OBVIOUS

LEMMA WrapType == \A n \in Int : Wrap(n) \in Word
  BY Constants DEF Wrap

LEMMA WordsAreInts == \A w \in Word : w \in Int
  BY Constants

LEMMA Squares ==
  /\ ByteMod * ByteMod \in Nat /\ ByteMod * ByteMod > 0
  /\ ByteMod * (ByteMod * ByteMod) \in Nat /\ ByteMod * ByteMod * ByteMod > 0
  BY CpuAssumption

LEMMA WrapSmall == \A x \in Nat : x < AddrSpace => Wrap(x) = x
  BY Constants, ModOfSmall DEF Wrap

LEMMA LanesType == \A w \in Word : Lanes(w) \in DoubleWord
<1> SUFFICES ASSUME NEW w \in Word, NEW k \in Lane
             PROVE  (w \div Weight[k + 1]) % ByteMod \in Byte
  BY DEF Lanes, DoubleWord
<1>1. Weight[k + 1] \in Nat /\ Weight[k + 1] > 0
  BY CpuAssumption DEF Lane, Weight
<1>2. w \div Weight[k + 1] \in Nat
  BY <1>1, Constants
<1> QED
  BY <1>2, Constants DEF Byte

LEMMA Place ==
  ASSUME NEW B \in Nat, NEW n \in Nat, NEW x \in Nat, NEW l \in Nat, x < n, l < B
  PROVE  l + B * x \in Nat /\ l + B * x < B * n
<1>1. B * x \in Nat /\ B * n \in Nat
  OBVIOUS
<1>2. B * x + B <= B * n
  <2>1. n - (x + 1) \in Nat
    OBVIOUS
  <2>2. B * (n - (x + 1)) >= 0
    BY <2>1
  <2>3. B * n = B * (n - (x + 1)) + B * x + B
    OBVIOUS
  <2> QED
    BY <2>1, <2>2, <2>3
<1> QED
  BY <1>1, <1>2

LEMMA NumberType == \A d \in DoubleWord : Number(d) \in Word
<1> SUFFICES ASSUME NEW d \in DoubleWord PROVE Number(d) \in Word
  OBVIOUS
<1> DEFINE x2 == d[2] + ByteMod * d[3]
           x1 == d[1] + ByteMod * x2
<1>1. \A k \in Lane : d[k] \in Nat /\ d[k] < ByteMod
  BY Constants DEF DoubleWord, Byte
<1>2. 0 \in Lane /\ 1 \in Lane /\ 2 \in Lane /\ 3 \in Lane
  BY DEF Lane
<1>3. x2 \in Nat /\ x2 < ByteMod * ByteMod
  <2>1. d[2] \in Nat /\ d[2] < ByteMod /\ d[3] \in Nat /\ d[3] < ByteMod
    BY <1>1, <1>2
  <2>2. ByteMod \in Nat
    BY Constants
  <2> QED
    BY <2>1, <2>2, Place, Zenon
<1>4. x1 \in Nat /\ x1 < ByteMod * (ByteMod * ByteMod)
  <2> HIDE DEF x2
  <2>1. d[1] \in Nat /\ d[1] < ByteMod /\ ByteMod \in Nat /\ ByteMod * ByteMod \in Nat
    BY <1>1, <1>2, Constants, Squares
  <2> QED
    BY <2>1, <1>3, Place, Zenon
<1>5. /\ d[0] + ByteMod * x1 \in Nat
      /\ d[0] + ByteMod * x1 < ByteMod * (ByteMod * (ByteMod * ByteMod))
  <2> HIDE DEF x1
  <2>1. d[0] \in Nat /\ d[0] < ByteMod
    BY <1>1, <1>2
  <2> QED
    BY <2>1, <1>4, Constants, Squares, Place
<1>6. Number(d) = d[0] + ByteMod * x1
  BY DEF Number
<1>7. AddrSpace = ByteMod * (ByteMod * (ByteMod * ByteMod))
  BY CpuAssumption
<1> QED
  BY <1>5, <1>6, <1>7, Constants

LEMMA AndByteType ==
  ASSUME NEW p \in Byte, NEW q \in Byte
  PROVE  AndByte(p, q) \in Byte
  BY CpuAssumption DEF AndByte, HasFlag, Byte

LEMMA AndType == \A x \in Word, y \in Word : AndBits(x, y) \in Word
<1> SUFFICES ASSUME NEW x \in Word, NEW y \in Word
             PROVE  [k \in Lane |-> AndByte(Lanes(x)[k], Lanes(y)[k])] \in DoubleWord
  BY NumberType DEF AndBits
<1>1. \A k \in Lane : Lanes(x)[k] \in Byte /\ Lanes(y)[k] \in Byte
  BY LanesType DEF DoubleWord
<1> QED
  BY <1>1, AndByteType DEF DoubleWord

LEMMA SignedType == \A w \in Word : Signed(w) \in Int
  BY Constants DEF Signed

LEMMA BytesType == \A s \in Scale : Bytes(s) \in {1, 2, 4, 8}
  BY DEF Scale, Bytes

-----------------------------------------------------------------------------
(* Memory keeps its type, and what it is read for is a word.               *)
LEMMA LoadType ==
  ASSUME NEW c \in Record, NEW addr \in Word, NEW scale \in Scale
  PROVE  Load(c, addr, scale).val \in Word /\ Load(c, addr, scale).exc \in Outcome
<1>1. LoadFault(c, addr, scale) \in Outcome
  BY DEF LoadFault, Outcome
<1>2. ASSUME LoadFault(c, addr, scale) = "none"
      PROVE  ReadLanes(c.mem, c.base, addr, scale) \in DoubleWord
  <2>1. ~Wild(c.base, addr, scale)
    BY <1>2 DEF LoadFault
  <2>2. ASSUME NEW k \in Lane, k < Bytes(scale)
        PROVE  c.mem[CellOf(c.base, addr, k) \div 4][CellOf(c.base, addr, k) % 4] \in Byte
    <3>1. k \in 0 .. Bytes(scale) - 1
      BY <2>2, BytesType DEF Lane
    <3>2. CellOf(c.base, addr, k) \in Cell
      BY <2>1, <3>1 DEF Wild, CellsOf
    <3>3. /\ CellOf(c.base, addr, k) \div 4 \in 0 .. Blocks - 1
          /\ CellOf(c.base, addr, k) % 4 \in Lane
      BY <3>2, Constants DEF Cell, Lane
    <3>4. c.mem \in MemoryImage
      BY DEF Record
    <3> QED
      BY <3>3, <3>4 DEF MemoryImage, DoubleWord
  <2>3. 0 \in Byte
    BY Constants DEF Byte
  <2> QED
    BY <2>2, <2>3 DEF ReadLanes, DoubleWord
<1> QED
  BY <1>1, <1>2, NumberType, Constants DEF Load

LEMMA WriteType ==
  ASSUME NEW m \in MemoryImage, NEW b \in Addr, NEW a \in Word,
         NEW s \in Scale, s # 3, NEW data \in DoubleWord
  PROVE  WriteLanes(m, b, a, s, data) \in MemoryImage
<1> DEFINE first == CellOf(b, a, 0)
<1>1. (a + b) % AddrSpace \in Nat
  BY Constants DEF Word
<1>2. first \in Nat /\ \A k \in Nat : CellOf(b, a, k) = first + k
  BY <1>1 DEF CellOf
<1>3. \A c \in CellsOf(b, a, s) : c - first \in Lane
  <2> HIDE DEF first
  <2>1. Bytes(s) \in {1, 2, 4}
    BY DEF Scale, Bytes
  <2> QED
    BY <1>2, <2>1 DEF CellsOf, Lane
<1>4. ASSUME NEW i \in 0 .. Blocks - 1, NEW l \in Lane
      PROVE  (IF 4 * i + l \in CellsOf(b, a, s)
                THEN data[(4 * i + l) - first] ELSE m[i][l]) \in Byte
  <2>1. m[i][l] \in Byte
    BY DEF DoubleWord, MemoryImage
  <2>2. CASE 4 * i + l \in CellsOf(b, a, s)
    <3>1. (4 * i + l) - first \in Lane
      BY <1>3, <2>2
    <3> QED
      BY <3>1, <2>2 DEF DoubleWord
  <2> QED
    BY <2>1, <2>2
<1>5. DOMAIN m = 0 .. Blocks - 1
  BY DEF MemoryImage
<1> QED
  BY <1>4, <1>5 DEF WriteLanes, MemoryImage, DoubleWord

-----------------------------------------------------------------------------
(* What the parts of an instruction may do to the machine: newFlags, the   *)
(* result and the window stay, and a user's flags and supervisor stack     *)
(* pointer do.                                                             *)
SameWindow(c, d) == d.base = c.base /\ d.limit = c.limit
Ordinary(c, d) ==
  /\ d \in Record
  /\ d.new = c.new /\ d.res = c.res
  /\ SameWindow(c, d)
  /\ ~Svisor(c) => d.sr = c.sr /\ d.ssp = c.ssp

LEMMA Stays == \A c \in Record : Ordinary(c, c)
  BY DEF Ordinary, SameWindow

LEMMA Follows ==
  ASSUME NEW c, NEW d, NEW e, Ordinary(c, d), Ordinary(d, e)
  PROVE  Ordinary(c, e)
  BY DEF Ordinary, Svisor, SameWindow

LEMMA FailOrdinary ==
  ASSUME NEW c \in Record, NEW why \in Outcome
  PROVE  Ordinary(c, Fail(c, why))
  BY DEF Ordinary, Fail, Record, SameWindow

LEMMA StoreOrdinary ==
  ASSUME NEW c \in Record, NEW v \in Word, NEW addr \in Word, NEW scale \in Scale
  PROVE  Ordinary(c, Store(c, v, addr, scale))
<1>1. StoreFault(c, addr, scale) \in Outcome
  BY DEF StoreFault, Outcome
<1>2. CASE Failed(c) \/ StoreFault(c, addr, scale) # "none"
  BY <1>1, <1>2, FailOrdinary DEF Store
<1>3. CASE ~Failed(c) /\ StoreFault(c, addr, scale) = "none"
  <2>1. scale # 3 /\ c.base \in Addr /\ c.mem \in MemoryImage
    BY <1>3 DEF StoreFault, Record
  <2>2. WriteLanes(c.mem, c.base, addr, scale, Lanes(v)) \in MemoryImage
    BY <2>1, WriteType, LanesType
  <2> DEFINE m == WriteLanes(c.mem, c.base, addr, scale, Lanes(v))
  <2>3. Store(c, v, addr, scale) = [c EXCEPT !.mem = m]
    BY <1>3 DEF Store
  <2> HIDE DEF m
  <2> QED
    BY <2>2, <2>3 DEF Ordinary, Record, m, SameWindow
<1> QED
  BY <1>2, <1>3

LEMMA FetchOrdinary ==
  ASSUME NEW c \in Record, NEW scale \in Scale
  PROVE  /\ Ordinary(c, Fetch(c, scale))
         /\ Fetch(c, scale).r = c.r /\ Fetch(c, scale).ssp = c.ssp
<1>1. LoadFault(c, c.pc, scale) \in Outcome
  BY DEF LoadFault, Outcome
<1>2. CASE Failed(c) \/ LoadFault(c, c.pc, scale) # "none"
  BY <1>1, <1>2, FailOrdinary DEF Fetch, Fail, Record
<1>3. CASE ~Failed(c) /\ LoadFault(c, c.pc, scale) = "none"
  <2>1. Wrap(c.pc + Bytes(scale)) \in Word
    <3>1. c.pc \in Int /\ Bytes(scale) \in Int
      BY BytesType, WordsAreInts DEF Record
    <3>2. c.pc + Bytes(scale) \in Int
      BY <3>1
    <3> QED
      BY <3>2, WrapType
  <2> QED
    BY <1>3, <2>1 DEF Fetch, Ordinary, Record, SameWindow
<1> QED
  BY <1>2, <1>3

LEMMA SetRegOrdinary ==
  ASSUME NEW c \in Record, NEW n \in Nat, NEW v \in Word
  PROVE  Ordinary(c, SetReg(c, n, v))
<1>1. CASE Failed(c)
  BY <1>1, Stays DEF SetReg
<1>2. CASE ~Failed(c) /\ n \in DataReg
  <2>1. [c.r EXCEPT ![n] = v] \in [DataReg -> Word]
    BY DEF Record
  <2> QED
    BY <1>2, <2>1 DEF SetReg, Ordinary, Record, SameWindow
<1>3. CASE ~Failed(c) /\ n \notin DataReg
  BY <1>3 DEF SetReg, SetStackPointer, Fail, Outcome, Ordinary, Record, DataReg, SP, USP, FP, PC, SR, SameWindow
<1> QED
  BY <1>1, <1>2, <1>3

LEMMA RegType ==
  ASSUME NEW c \in Record
  PROVE  /\ StackPointer(c) \in Word
         /\ \A n \in 0 .. 12 : GetReg(c, n) \in Word
<1>1. StackPointer(c) \in Word
  BY DEF StackPointer, Record
<1>2. ASSUME NEW n \in 0 .. 12 PROVE GetReg(c, n) \in Word
  <2>1. CASE n \in DataReg
    <3>1. c.r[n] \in Word
      BY <2>1 DEF Record
    <3> QED
      BY <2>1, <3>1 DEF GetReg, DataReg, SP, USP, FP, SR, PC
  <2>2. CASE n \notin DataReg
    <3>1. n \in {SP, USP, FP, SR, PC}
      BY <2>2 DEF DataReg, SP, USP, FP, SR, PC
    <3>2. c.usp \in Word /\ c.fp \in Word /\ c.sr \in Word /\ c.pc \in Word
      BY DEF Record
    <3> QED
      BY <1>1, <3>1, <3>2 DEF GetReg, DataReg, SP, USP, FP, SR, PC
  <2> QED
    BY <2>1, <2>2
<1> QED
  BY <1>1, <1>2

LEMMA PointerOrdinary ==
  ASSUME NEW c \in Record, NEW v \in Word
  PROVE  Ordinary(c, SetStackPointer(c, v))
  BY DEF SetStackPointer, Ordinary, Record, SameWindow

LEMMA PushOrdinary ==
  ASSUME NEW c \in Record, NEW v \in Word
  PROVE  Ordinary(c, PushToStack(c, v))
<1> DEFINE below == Wrap(StackPointer(c) - 4)
           d     == SetStackPointer(c, below)
<1>1. below \in Word
  <2>1. StackPointer(c) \in Int
    BY RegType, Constants
  <2> QED
    BY <2>1, WrapType
<1>2. Ordinary(c, d)
  BY <1>1, PointerOrdinary
<1>3. Ordinary(d, Store(d, v, below, 2))
  <2>1. d \in Record /\ 2 \in Scale
    BY <1>2 DEF Ordinary, Scale, SameWindow
  <2> HIDE DEF d, below
  <2> QED
    BY <1>1, <2>1, StoreOrdinary
<1>4. CASE Failed(c)
  BY <1>4, Stays DEF PushToStack
<1>5. CASE ~Failed(c)
  <2>1. PushToStack(c, v) = Store(d, v, below, 2)
    BY <1>5 DEF PushToStack
  <2> HIDE DEF d, below
  <2> QED
    BY <1>2, <1>3, <2>1, Follows
<1> QED
  BY <1>4, <1>5

LEMMA TopType ==
  ASSUME NEW c \in Record
  PROVE  Top(c).val \in Word /\ Top(c).exc \in Outcome
  BY RegType, LoadType DEF Top, Scale

LEMMA DropOrdinary ==
  ASSUME NEW c \in Record
  PROVE  Ordinary(c, Drop(c))
<1>1. Wrap(StackPointer(c) + 4) \in Word
  <2>1. StackPointer(c) \in Int
    BY RegType, Constants
  <2> QED
    BY <2>1, WrapType
<1> QED
  BY <1>1, TopType, FailOrdinary, PointerOrdinary DEF Drop

LEMMA PopOrdinary ==
  ASSUME NEW c \in Record, NEW n \in Nat
  PROVE  Ordinary(c, PopTo(c, n))
<1>1. Ordinary(c, Drop(c)) /\ Drop(c) \in Record
  BY DropOrdinary DEF Ordinary, SameWindow
<1>2. Ordinary(Drop(c), PopTo(c, n))
  BY <1>1, TopType, SetRegOrdinary DEF PopTo
<1> QED
  BY <1>1, <1>2, Follows

LEMMA PushAllOrdinary ==
  ASSUME NEW c \in Record
  PROVE  Ordinary(c, PushAllRegs(c))
<1>1. ASSUME NEW d, Ordinary(c, d), NEW n \in 0 .. 7
      PROVE  Ordinary(c, PushReg(d, n))
  <2>1. d \in Record /\ d.r[n] \in Word
    BY <1>1 DEF Ordinary, Record, DataReg, SameWindow
  <2> QED
    BY <1>1, <2>1, PushOrdinary, Follows DEF PushReg
<1> QED
  BY <1>1, Stays DEF PushAllRegs

LEMMA PopAllOrdinary ==
  ASSUME NEW c \in Record
  PROVE  Ordinary(c, PopAllRegs(c))
<1>1. ASSUME NEW d, Ordinary(c, d), NEW n \in 0 .. 7
      PROVE  Ordinary(c, PopTo(d, n))
  BY <1>1, PopOrdinary, Follows DEF Ordinary, SameWindow
<1> QED
  BY <1>1, Stays DEF PopAllRegs

LEMMA JumpOrdinary ==
  ASSUME NEW c \in Record, NEW taken, NEW t \in Word
  PROVE  Ordinary(c, Jump(c, taken, t))
<1>1. Wrap(c.pc + t) \in Word
  <2>1. c.pc \in Int /\ t \in Int
    BY WordsAreInts DEF Record
  <2>2. c.pc + t \in Int
    BY <2>1
  <2> QED
    BY <2>2, WrapType
<1> QED
  BY <1>1 DEF Jump, Ordinary, Record, SameWindow

-----------------------------------------------------------------------------
(* Arguments: the registers an argument names, its address, its value, and *)
(* what storing it does.                                                   *)
LEMMA ArgRegs ==
  ASSUME NEW a \in Argument, KnownRegs(a), a.type \notin {"IMMED", "DIRECT"}
  PROVE  a.reg \in 0 .. 12 /\ (Indexed(a) => a.index \in 0 .. 12) /\ Stepped(a) \in 0 .. 12
  BY DEF KnownRegs, RegsOf, Indexed, Stepped, Argument, PC

LEMMA NamedType ==
  ASSUME NEW c \in Record, NEW a \in Argument, KnownRegs(a),
         a.type \notin {"IMMED", "DIRECT"}
  PROVE  /\ GetReg(c, a.reg) \in Int /\ GetReg(c, Stepped(a)) \in Int
         /\ Indexed(a) => GetReg(c, a.index) \in Int
<1>1. Word \subseteq Int
  BY Constants
<1>2. a.reg \in 0 .. 12 /\ (Indexed(a) => a.index \in 0 .. 12) /\ Stepped(a) \in 0 .. 12
  BY ArgRegs
<1> QED
  BY <1>1, <1>2, RegType

LEMMA UnitType ==
  ASSUME NEW a \in Argument
  PROVE  Pre(a) \in Int /\ Post(a) \in Int /\ Bytes(a.scale) \in Nat
<1>1. a.scale \in Scale
  BY DEF Argument
<1>2. Bytes(a.scale) \in Nat
  BY <1>1, BytesType
<1>3. Unit(a) \in Nat
  BY <1>2 DEF Unit
<1> QED
  BY <1>2, <1>3 DEF Pre, Post

LEMMA AddrType ==
  ASSUME NEW c \in Record, NEW a \in Argument, KnownRegs(a),
         a.type \notin {"IMMED", "REG"}
  PROVE  ArgAddr(c, a) \in Word
<1>1. a.displ \in Int /\ a.val \in Int /\ a.type \in ArgType
  BY Constants DEF Argument
<1>2. Pre(a) \in Int /\ Bytes(a.scale) \in Int
  BY UnitType
<1>3. CASE a.type = "DIRECT"
  BY <1>1, <1>3, WrapType DEF ArgAddr
<1>4. CASE a.type # "DIRECT"
  <2>1. GetReg(c, a.reg) \in Int
    BY <1>4, NamedType
  <2>2. CASE a.type \in {"REG_INDIR", "MEM_INDIR"}
    BY <1>2, <2>1, <2>2, WrapType DEF ArgAddr
  <2>3. CASE a.type = "DISPLACED"
    BY <1>1, <1>2, <2>1, <2>3, WrapType DEF ArgAddr
  <2>4. CASE Indexed(a)
    <3>1. GetReg(c, a.index) \in Int
      BY <1>4, <2>4, NamedType
    <3>2. (Pre(a) + GetReg(c, a.index)) * Bytes(a.scale) \in Int
      BY <1>2, <3>1
    <3> QED
      BY <1>1, <2>1, <2>4, <3>2, WrapType DEF ArgAddr, Indexed
  <2> QED
    BY <1>1, <1>4, <2>2, <2>3, <2>4 DEF ArgType, Indexed
<1> QED
  BY <1>3, <1>4

LEMMA LoadArgType ==
  ASSUME NEW c \in Record, NEW a \in Argument
  PROVE  LoadArg(c, a).val \in Word /\ LoadArg(c, a).exc \in Outcome
<1>1. a.type \in ArgType /\ a.scale \in Scale /\ a.val \in Word /\ 2 \in Scale
  BY DEF Argument, Scale
<1>2. CASE ~KnownRegs(a)
  BY <1>2, Constants DEF LoadArg, Outcome
<1>3. CASE KnownRegs(a) /\ a.type = "IMMED"
  BY <1>1, <1>3 DEF LoadArg, Outcome
<1>4. CASE KnownRegs(a) /\ a.type = "REG"
  <2>1. GetReg(c, a.reg) \in Int
    BY <1>4, NamedType
  <2>2. Wrap(GetReg(c, a.reg) + Pre(a)) \in Word
    BY <2>1, UnitType, WrapType
  <2>3. LoadArg(c, a) = [exc |-> "none", val |-> Wrap(GetReg(c, a.reg) + Pre(a))]
    BY <1>4 DEF LoadArg
  <2> QED
    BY <2>2, <2>3 DEF Outcome
<1>5. CASE KnownRegs(a) /\ a.type \notin {"IMMED", "REG"}
  <2>1. ArgAddr(c, a) \in Word
    BY <1>5, AddrType
  <2>2. CASE a.type = "MEM_INDIR"
    <3> DEFINE p == Load(c, ArgAddr(c, a), 2)
    <3>1. p.val \in Word /\ p.exc \in Outcome
      BY <1>1, <2>1, LoadType
    <3>2. LoadArg(c, a) = IF p.exc # "none" THEN p ELSE Load(c, p.val, a.scale)
      BY <1>5, <2>2 DEF LoadArg
    <3> HIDE DEF p
    <3> QED
      BY <1>1, <3>1, <3>2, LoadType
  <2>3. CASE a.type # "MEM_INDIR"
    <3>1. LoadArg(c, a) = Load(c, ArgAddr(c, a), a.scale)
      BY <1>1, <1>5, <2>3 DEF LoadArg, ArgType
    <3> QED
      BY <1>1, <2>1, <3>1, LoadType
  <2> QED
    BY <2>2, <2>3
<1> QED
  BY <1>2, <1>3, <1>4, <1>5

LEMMA StoreArgOrdinary ==
  ASSUME NEW c \in Record, NEW v \in Word, NEW a \in Argument
  PROVE  Ordinary(c, StoreArg(c, v, a))
<1>1. a.type \in ArgType /\ a.scale \in Scale /\ 2 \in Scale /\ "wrong" \in Outcome
  BY DEF Argument, Scale, Outcome
<1>2. CASE Failed(c) \/ a.type = "IMMED" \/ ~KnownRegs(a)
  BY <1>1, <1>2, FailOrdinary, Stays DEF StoreArg
<1>3. CASE ~(Failed(c) \/ ~KnownRegs(a)) /\ a.type = "REG"
  <2>1. Wrap(v + Post(a)) \in Word /\ a.reg \in Nat
    <3>1. v \in Int /\ Post(a) \in Int
      BY UnitType, Constants
    <3>2. a.reg \in 0 .. 12
      BY <1>3, ArgRegs
    <3> QED
      BY <3>1, <3>2, WrapType
  <2>2. StoreArg(c, v, a) = SetReg(c, a.reg, Wrap(v + Post(a)))
    BY <1>3 DEF StoreArg
  <2> QED
    BY <2>1, <2>2, SetRegOrdinary
<1>4. CASE ~(Failed(c) \/ ~KnownRegs(a)) /\ a.type \notin {"REG", "IMMED"}
  <2> DEFINE addr == StoreAddr(c, a)
             n == Stepped(a)
             w == Wrap(GetReg(c, n) + Pre(a) + Post(a))
             p == Load(c, addr, 2)
             to == IF a.type = "MEM_INDIR" THEN p.val ELSE addr
             d == Store(c, v, to, a.scale)
  <2>1. addr \in Word
    BY <1>4, AddrType DEF StoreAddr
  <2>2. p.val \in Word /\ p.exc \in Outcome
    <3> HIDE DEF addr
    <3> QED
      BY <1>1, <2>1, LoadType
  <2>3. to \in Word
    BY <2>1, <2>2
  <2>4. Ordinary(c, d)
    <3> HIDE DEF to
    <3> QED
      BY <1>1, <2>3, StoreOrdinary
  <2>5. CASE a.type = "DIRECT"
    <3>1. StoreArg(c, v, a) = d
      BY <1>4, <2>5 DEF StoreArg
    <3> QED
      BY <2>4, <3>1
  <2>6. CASE a.type = "MEM_INDIR" /\ p.exc # "none"
    <3>1. StoreArg(c, v, a) = Fail(c, p.exc)
      BY <1>4, <2>6 DEF StoreArg
    <3> QED
      BY <2>2, <3>1, FailOrdinary
  <2>7. CASE a.type # "DIRECT" /\ ~(a.type = "MEM_INDIR" /\ p.exc # "none")
    <3>1. n \in 0 .. 12 /\ GetReg(c, n) \in Int
      BY <1>4, <2>7, ArgRegs, NamedType
    <3>2. w \in Word
      <4> HIDE DEF n
      <4> QED
        BY <3>1, UnitType, WrapType
    <3>3. StoreArg(c, v, a) = SetReg(d, n, w)
      BY <1>4, <2>7 DEF StoreArg
    <3> HIDE DEF d, n, w
    <3>4. Ordinary(d, SetReg(d, n, w))
      BY <2>4, <3>1, <3>2, SetRegOrdinary DEF Ordinary, SameWindow
    <3> QED
      BY <2>4, <3>3, <3>4, Follows
  <2> QED
    BY <2>5, <2>6, <2>7
<1> QED
  BY <1>2, <1>3, <1>4

-----------------------------------------------------------------------------
(* What the operation itself may do: an overflow is added to the flags, so *)
(* a user is held where the overflow bit is clear.                         *)
Confined(c, d) ==
  /\ d \in Record /\ d.res = c.res
  /\ ~Svisor(c) /\ ~HasFlag(c.sr, OVERFLOW) =>
       ~Svisor(d) /\ d.ssp = c.ssp /\ SameWindow(c, d)

LEMMA OrdinaryConfined ==
  ASSUME NEW c, NEW d, Ordinary(c, d)
  PROVE  Confined(c, d) /\ d.new = c.new /\ SameWindow(c, d)
  BY DEF Ordinary, Confined, Svisor, SameWindow

LEMMA ConfinedFollows ==
  ASSUME NEW c, NEW d, NEW e, Confined(c, d), Ordinary(d, e)
  PROVE  Confined(c, e) /\ e.new = d.new /\ SameWindow(d, e)
  BY DEF Ordinary, Confined, Svisor, SameWindow

LEMMA RaiseConfined ==
  ASSUME NEW c \in Record, NEW overflow
  PROVE  /\ Confined(c, Raise(c, overflow)) /\ Raise(c, overflow).new = c.new
         /\ SameWindow(c, Raise(c, overflow))
<1>1. CASE Failed(c) \/ ~overflow
  BY <1>1, Stays, OrdinaryConfined DEF Raise
<1>2. CASE ~Failed(c) /\ overflow
  <2>1. c.sr \in Word
    BY DEF Record
  <2>2. Wrap(c.sr + OVERFLOW) \in Word
    <3>1. c.sr + OVERFLOW \in Int
      BY <2>1, WordsAreInts DEF OVERFLOW
    <3> QED
      BY <3>1, WrapType
  <2>3. ASSUME (c.sr \div 2) % 2 # 1
        PROVE  Wrap(c.sr + 2) \div 64 = c.sr \div 64
    <3>1. c.sr + 2 \in Nat /\ c.sr + 2 < AddrSpace
      BY <2>1, <2>3, Constants
    <3>0. c.sr \in Nat
      BY <2>1, Constants
    <3>2. Wrap(c.sr + 2) = c.sr + 2
      BY <3>1, WrapSmall
    <3>3. (c.sr + 2) \div 64 = c.sr \div 64
      BY <3>0, <2>3
    <3> QED
      BY <3>2, <3>3
  <2> DEFINE v == Wrap(c.sr + OVERFLOW)
  <2>4. Raise(c, overflow) = [c EXCEPT !.sr = v]
    BY <1>2 DEF Raise
  <2>5. ~HasFlag(c.sr, OVERFLOW) /\ ~HasFlag(c.sr, SVISOR) => ~HasFlag(v, SVISOR)
    BY <2>3 DEF HasFlag, OVERFLOW, SVISOR
  <2> HIDE DEF v
  <2> QED
    BY <2>2, <2>4, <2>5 DEF Confined, Record, Svisor, v, SameWindow
<1> QED
  BY <1>1, <1>2

LEMMA OneArgConfined ==
  ASSUME NEW c \in Record, NEW op, NEW t \in Word
  PROVE  /\ Confined(c, OneArgEffect(c, op, t)) /\ OneArgEffect(c, op, t).new = c.new
         /\ SameWindow(c, OneArgEffect(c, op, t))
<1>1. "wrong" \in Outcome /\ c.pc \in Word
  BY DEF Outcome, Record
<1>2. CASE op \in {"INCR", "DECR"}
  BY <1>2, RaiseConfined DEF OneArgEffect
<1>3. CASE op \notin {"INCR", "DECR"}
  <2> DEFINE d == PushToStack(c, c.pc)
  <2>1. Ordinary(c, d)
    BY <1>1, PushOrdinary
  <2>2. Ordinary(c, Jump(d, TRUE, t))
    <3> HIDE DEF d
    <3>1. Ordinary(d, Jump(d, TRUE, t))
      BY <2>1, JumpOrdinary DEF Ordinary, SameWindow
    <3> QED
      BY <2>1, <3>1, Follows
  <2>3. Ordinary(c, OneArgEffect(c, op, t))
    <3> HIDE DEF d
    <3>1. CASE op \in {"NOT", "COMP2", "LSH", "RSH"}
      BY <3>1, Stays DEF OneArgEffect
    <3>2. CASE op = "STACK"
      BY <3>2, PointerOrdinary DEF OneArgEffect
    <3>3. CASE op = "PUSH"
      BY <3>3, PushOrdinary DEF OneArgEffect
    <3>4. CASE op = "POP"
      BY <3>4, DropOrdinary DEF OneArgEffect
    <3>5. CASE op = "JSR"
      BY <3>5, <2>2 DEF OneArgEffect, d
    <3>6. CASE op = "JMP"
      BY <3>6, JumpOrdinary DEF OneArgEffect
    <3>7. CASE op = "IFNJ"
      BY <3>7, JumpOrdinary DEF OneArgEffect
    <3>8. CASE op \notin {"NOT", "COMP2", "LSH", "RSH", "STACK", "PUSH", "POP", "JSR", "JMP", "IFNJ"}
      <4>1. OneArgEffect(c, op, t) =
              IF op \in DOMAIN JumpsOn THEN Jump(c, HasFlag(c.sr, JumpsOn[op]), t)
              ELSE Fail(c, "wrong")
        BY <1>3, <3>8 DEF OneArgEffect
      <4> QED
        BY <1>1, <4>1, JumpOrdinary, FailOrdinary
    <3> QED
      BY <3>1, <3>2, <3>3, <3>4, <3>5, <3>6, <3>7, <3>8
  <2> QED
    BY <2>3, OrdinaryConfined
<1> QED
  BY <1>2, <1>3

LEMMA OneArgValueType ==
  ASSUME NEW c \in Record, NEW op, NEW t \in Word
  PROVE  OneArgValue(c, op, t) \in Word
<1>1. t \in Int /\ Signed(t) \div 2 \in Int /\ Top(c).val \in Word
  BY SignedType, TopType, Constants
<1>2. AddrSpace - 1 - t \in Word
  BY Constants
<1>3. /\ Wrap(t + 1) \in Word /\ Wrap(t - 1) \in Word /\ Wrap(-t) \in Word
      /\ Wrap(2 * t) \in Word /\ Wrap(Signed(t) \div 2) \in Word
  BY <1>1, WrapType
<1> QED
  BY <1>1, <1>2, <1>3 DEF OneArgValue

LEMMA TwoArgValueType ==
  ASSUME NEW c \in Record, NEW op, NEW t1 \in Word, NEW t2 \in Word
  PROVE  TwoArgValue(c, op, t1, t2) \in Word
<1> DEFINE x == Signed(t2)
           y == Signed(t1)
           q == IF Traps(x, y) THEN 0 ELSE Quotient(x, y)
<1>1. t1 \in Int /\ t2 \in Int /\ x \in Int /\ y \in Int /\ AndBits(t2, t1) \in Int
  BY SignedType, AndType, Constants
<1>2. q \in Int
  <2>1. CASE Traps(x, y)
    BY <2>1
  <2>2. CASE ~Traps(x, y)
    <3> HIDE DEF x, y
    <3>1. y # 0
      BY <2>2 DEF Traps
    <3>2. Quotient(x, y) \in Int
      BY <1>1, <3>1 DEF Quotient
    <3> QED
      BY <2>2, <3>2
  <2> QED
    BY <2>1, <2>2
<1>3. CASE op \in {"DIV", "QUOT"}
  <2>1. TwoArgValue(c, op, t1, t2) = Wrap(IF op = "DIV" THEN q ELSE x - q * y)
    BY <1>3 DEF TwoArgValue
  <2> HIDE DEF x, y, q
  <2>2. (IF op = "DIV" THEN q ELSE x - q * y) \in Int
    BY <1>1, <1>2
  <2> QED
    BY <2>1, <2>2, WrapType
<1>4. CASE op = "GET"
  <2>1. \A n \in Device : c.dev[n].resp \in Word
    BY DEF Record
  <2>2. TwoArgValue(c, op, t1, t2) = IF t1 \in Device THEN c.dev[t1].resp ELSE 0
    BY <1>4 DEF TwoArgValue
  <2> QED
    BY <2>1, <2>2, Constants
<1>5. CASE op = "MULT"
  <2>1. x * y \in Int
    <3> HIDE DEF x, y
    <3> QED
      BY <1>1
  <2> QED
    BY <1>5, <2>1, WrapType DEF TwoArgValue
<1>6. CASE op \notin {"DIV", "QUOT", "GET", "MULT"}
  <2> HIDE DEF x, y, q
  <2> QED
    BY <1>1, <1>6, WrapType, AndType DEF TwoArgValue
<1> QED
  BY <1>3, <1>4, <1>5, <1>6

LEMMA LimitsConfined ==
  ASSUME NEW c \in Record, NEW b \in Word, NEW l \in Word
  PROVE  Confined(c, ResetLimitsTo(c, b, l)) /\ ResetLimitsTo(c, b, l).new = c.new
<1>1. CASE ~Svisor(c)
  BY <1>1, Stays, OrdinaryConfined DEF ResetLimitsTo
<1>2. CASE Svisor(c)
  <2>1. SetLimits(c, b, l) \in {Fail(c, "mmu"), [c EXCEPT !.base = b, !.limit = l]}
    BY DEF SetLimits
  <2>2. Ordinary(c, Fail(c, "mmu"))
    BY FailOrdinary DEF Outcome
  <2>3. /\ Confined(c, [c EXCEPT !.base = b, !.limit = l])
        /\ [c EXCEPT !.base = b, !.limit = l].new = c.new
    BY <1>2 DEF Confined, Record, Word
  <2> QED
    BY <1>2, <2>1, <2>2, <2>3, OrdinaryConfined DEF ResetLimitsTo
<1> QED
  BY <1>1, <1>2

DeviceStates == [Device -> [resp : Word, ready : Readiness]]

LEMMA PutType ==
  ASSUME NEW devices \in DeviceStates, NEW n \in Device, NEW request, NEW arg
  PROVE  Put(devices, n, request, arg) \in DeviceStates
<1>1. \A r \in Word, y \in Readiness : Says(r, y) \in [resp : Word, ready : Readiness]
  BY DEF Says
<1>2. /\ 0 \in Word /\ 1 \in Word /\ 2 \in Word /\ COMP_CHAR \in Word
      /\ COMP_CONSOLE \in Word /\ "true" \in Readiness /\ "error" \in Readiness
  BY Constants DEF COMP_CHAR, COMP_CONSOLE, Readiness
<1>3. devices[n] \in [resp : Word, ready : Readiness] /\ devices[n].resp \in Word
  BY DEF DeviceStates
<1>4. ChipsetPut(devices[n], request, arg) \in [resp : Word, ready : Readiness]
  BY <1>1, <1>2, <1>3 DEF ChipsetPut
<1>5. TerminalPut(devices[n], request) \in [resp : Word, ready : Readiness]
  BY <1>1, <1>2, <1>3 DEF TerminalPut
<1> DEFINE d == IF n = 0 THEN ChipsetPut(devices[n], request, arg)
                ELSE TerminalPut(devices[n], request)
<1>6. Put(devices, n, request, arg) = [devices EXCEPT ![n] = d]
  BY DEF Put
<1>7. d \in [resp : Word, ready : Readiness]
  BY <1>4, <1>5
<1> HIDE DEF d
<1> QED
  BY <1>6, <1>7 DEF DeviceStates

LEMMA DevicesOrdinary ==
  ASSUME NEW c \in Record, NEW devices \in DeviceStates
  PROVE  Ordinary(c, [c EXCEPT !.dev = devices])
  BY DEF Ordinary, Record, DeviceStates, SameWindow

LEMMA PutOrdinary ==
  ASSUME NEW c \in Record, NEW signal, NEW arg
  PROVE  Ordinary(c, SinglePut(c, signal, arg))
<1> DEFINE n == signal % (ByteMod * ByteMod)
           request == (signal \div (ByteMod * ByteMod)) % ByteMod
           devices == Put(c.dev, n, request, arg)
<1>1. CASE n \notin Device
  <2>1. SinglePut(c, signal, arg) = Fail(c, "component")
    BY <1>1 DEF SinglePut
  <2> QED
    BY <2>1, FailOrdinary DEF Outcome
<1>2. CASE n \in Device
  <2>1. c.dev \in DeviceStates
    BY DEF Record, DeviceStates
  <2>2. devices \in DeviceStates
    <3> HIDE DEF n, request
    <3> QED
      BY <1>2, <2>1, PutType
  <2>3. SinglePut(c, signal, arg) =
          IF Failed(c) THEN [c EXCEPT !.dev = devices] ELSE [c EXCEPT !.dev = devices]
    BY <1>2 DEF SinglePut
  <2> HIDE DEF devices
  <2> QED
    BY <2>2, <2>3, DevicesOrdinary
<1> QED
  BY <1>1, <1>2

LEMMA GetOrdinary ==
  ASSUME NEW c \in Record, NEW n
  PROVE  Ordinary(c, SingleGet(c, n))
<1> DEFINE devices == Get(c.dev, n)
<1>1. devices \in DeviceStates
  BY DEF Record, DeviceStates, Get, Readiness
<1>2. SingleGet(c, n) \in {Fail(c, "component"), Fail(c, "wild"), [c EXCEPT !.dev = devices]}
  BY DEF SingleGet
<1> HIDE DEF devices
<1> QED
  BY <1>1, <1>2, FailOrdinary, DevicesOrdinary DEF Outcome

(* The flags of a step are those before it without the low four bits, and  *)
(* of these at most ZERO and NEGATIVE after it.                            *)
Marks(n) == {n, n + 4, n + 8, n + 12}

LEMMA SetNewMarks ==
  ASSUME NEW n \in Word, n % 16 = 0, NEW c \in Record, c.new \in {n, n + 4},
         NEW flag \in {0, 4, 8}
  PROVE  /\ Confined(c, SetNew(c, flag)) /\ SetNew(c, flag).new \in Marks(n)
         /\ SameWindow(c, SetNew(c, flag))
<1>1. n + 12 < AddrSpace
  BY Constants
<1>2. c.new + flag \in Nat /\ c.new + flag < AddrSpace /\ c.new + flag \in Marks(n)
  <2>1. n \in Nat /\ AddrSpace \in Nat
    BY Constants
  <2> QED
    BY <1>1, <2>1 DEF Marks
<1> DEFINE v == Wrap(c.new + flag)
<1>3. v = c.new + flag
  BY <1>2, WrapSmall
<1>4. v \in Word /\ v \in Marks(n)
  BY <1>2, <1>3, Constants
<1>5. SetNew(c, flag) = IF Failed(c) THEN c ELSE [c EXCEPT !.new = v]
  BY DEF SetNew
<1>6. c.new \in Marks(n)
  BY DEF Marks
<1> HIDE DEF v
<1> QED
  BY <1>4, <1>5, <1>6 DEF Confined, Record, Svisor, SameWindow

LEMMA ArithmType == \A w : ArithmFlags(w) \in {0, 4, 8}
  BY DEF ArithmFlags, NEGATIVE, ZERO

LEMMA ConfinedTransitive ==
  ASSUME NEW c, NEW d, NEW e, Ordinary(c, d), Confined(d, e)
  PROVE  Confined(c, e)
  BY DEF Ordinary, Confined, Svisor, SameWindow

(* After the effect, a changed argument is stored.                         *)
LEMMA StoredBack ==
  ASSUME NEW n \in Word, n % 16 = 0, NEW c \in Record, NEW d, Confined(c, d),
         d.new \in {n, n + 4}, NEW v \in Word, NEW a \in Argument
  PROVE  LET e == StoreArg(SetNew(d, ArithmFlags(v)), v, a)
         IN  Confined(c, e) /\ e.new \in Marks(n) /\ SameWindow(d, e)
<1> DEFINE f == SetNew(d, ArithmFlags(v))
           e == StoreArg(f, v, a)
<1>1. d \in Record
  BY DEF Confined, SameWindow
<1>2. Confined(d, f) /\ f.new \in Marks(n)
  BY <1>1, SetNewMarks, ArithmType
<1>3. Ordinary(f, e)
  <2> HIDE DEF f
  <2> QED
    BY <1>2, StoreArgOrdinary DEF Confined, SameWindow
<1>4. f.sr = d.sr /\ f.ssp = d.ssp /\ f.base = d.base /\ f.limit = d.limit
      /\ f \in Record /\ f.res = d.res
  BY <1>1, <1>2 DEF SetNew, Record, Confined, SameWindow
<1> HIDE DEF e, f
<1>5. Confined(c, f)
  BY <1>4 DEF Confined, Svisor, SameWindow
<1>6. Confined(c, e) /\ e.new = f.new /\ SameWindow(f, e)
  BY <1>3, <1>5, ConfinedFollows
<1>7. SameWindow(d, e)
  BY <1>4, <1>6 DEF SameWindow
<1> QED
  BY <1>2, <1>6, <1>7 DEF e, f

LEMMA TwoArgConfined ==
  ASSUME NEW n \in Word, n % 16 = 0, NEW c \in Record, c.new = n,
         NEW op, NEW t1 \in Word, NEW t2 \in Word
  PROVE  /\ Confined(c, TwoArgEffect(c, op, t1, t2))
         /\ TwoArgEffect(c, op, t1, t2).new \in {n, n + 4}
         /\ op # "MMU" => SameWindow(c, TwoArgEffect(c, op, t1, t2))
<1> DEFINE e == TwoArgEffect(c, op, t1, t2)
<1>1. CASE op \in {"ADD", "MULT", "SUB"}
  <2>1. \E o : e = Raise(c, o)
    BY <1>1 DEF TwoArgEffect
  <2> HIDE DEF e
  <2> QED
    BY <2>1, RaiseConfined DEF e
<1>2. CASE op \in Comparisons
  <2>1. e \in {c, SetNew(c, ZERO)}
    BY <1>2 DEF TwoArgEffect, Comparisons
  <2>2. /\ Confined(c, SetNew(c, ZERO)) /\ SetNew(c, ZERO).new \in {n, n + 4}
        /\ SameWindow(c, SetNew(c, ZERO))
    <3>1. n + 4 \in Nat /\ n + 4 < AddrSpace
      BY Constants
    <3>2. Wrap(n + 4) = n + 4
      BY <3>1, WrapSmall
    <3>3. SetNew(c, ZERO).new \in {n, n + 4}
      BY <3>2 DEF SetNew, ZERO, Record
    <3>4. Confined(c, SetNew(c, ZERO)) /\ SameWindow(c, SetNew(c, ZERO))
      BY SetNewMarks DEF ZERO
    <3> QED
      BY <3>3, <3>4
  <2>3. Confined(c, c) /\ SameWindow(c, c)
    BY Stays, OrdinaryConfined
  <2> HIDE DEF e
  <2> QED
    BY <2>1, <2>2, <2>3 DEF e
<1>3. CASE op = "MMU"
  <2>1. e = ResetLimitsTo(c, t1, t2)
    BY <1>3 DEF TwoArgEffect
  <2> HIDE DEF e
  <2> QED
    BY <1>3, <2>1, LimitsConfined DEF e
<1>4. CASE op \notin {"ADD", "MULT", "SUB", "MMU"} \cup Comparisons
  <2>1. e \in {c, Fail(c, "trap"), SinglePut(c, t2, t1), SingleGet(c, t1), Fail(c, "wrong")}
    BY <1>4 DEF TwoArgEffect
  <2>2. Ordinary(c, e)
    <3> HIDE DEF e
    <3> QED
      BY <2>1, Stays, FailOrdinary, PutOrdinary, GetOrdinary DEF Outcome
  <2> HIDE DEF e
  <2> QED
    BY <2>2, OrdinaryConfined DEF e
<1> QED
  BY <1>1, <1>2, <1>3, <1>4

-----------------------------------------------------------------------------
(* Whole instructions.  Which op may do what else: RETEX changes the mode, *)
(* MMU the window, HALT and REBOOT are left to the supervisor.             *)
Done(c, d, op) ==
  /\ d \in Record
  /\ d.res # "SLEEP" => Svisor(c) /\ d.res = op /\ d.exc = "none" /\ d.ssp = c.ssp
  /\ op # "MMU" => SameWindow(c, d)
  /\ op # "RETEX" =>
       /\ d.new \in Marks(c.new)
       /\ ~Svisor(c) /\ ~HasFlag(c.sr, OVERFLOW) =>
            ~Svisor(d) /\ d.ssp = c.ssp /\ SameWindow(c, d)

LEMMA ConfinedDone ==
  ASSUME NEW c, NEW d, NEW op, Confined(c, d), d.new \in Marks(c.new), c.res = "SLEEP",
         op # "MMU" => SameWindow(c, d)
  PROVE  Done(c, d, op)
  BY DEF Confined, Done, SameWindow

LEMMA OrdinaryDone ==
  ASSUME NEW c, NEW d, NEW op, Ordinary(c, d), c.res = "SLEEP"
  PROVE  Done(c, d, op)
<1>1. Confined(c, d) /\ d.new \in Marks(c.new) /\ SameWindow(c, d)
  BY OrdinaryConfined DEF Marks
<1> QED
  BY <1>1, ConfinedDone

(* What an instruction starts from once it has been fetched.               *)
Ready(c) == c \in Record /\ c.res = "SLEEP" /\ c.new % 16 = 0

LEMMA ReturnType ==
  ASSUME NEW c, Ready(c)
  PROVE  /\ ReturnFromException(c) \in Record /\ ReturnFromException(c).res = "SLEEP"
         /\ SameWindow(c, ReturnFromException(c))
<1> DEFINE v  == Wrap(c.sr + SVISOR)
           c1 == [c EXCEPT !.sr = v]
           c2 == PopTo(c1, PC)
           c3 == Drop(c2)
           w  == Top(c2).val
<1>1. v \in Word
  <2>1. c.sr \in Int /\ SVISOR \in Int
    BY Constants DEF Ready, Record, SVISOR
  <2> QED
    BY <2>1, WrapType
<1>2. c1 \in Record /\ c1.res = "SLEEP" /\ SameWindow(c, c1)
  <2> HIDE DEF v
  <2> QED
    BY <1>1 DEF Record, Ready, SameWindow
<1>3. c2 \in Record /\ c2.res = "SLEEP" /\ SameWindow(c, c2)
  <2> HIDE DEF c1
  <2> QED
    BY <1>2, PopOrdinary DEF PC, Ordinary, SameWindow
<1>4. c3 \in Record /\ c3.res = "SLEEP" /\ w \in Word /\ SameWindow(c, c3)
  <2> HIDE DEF c2
  <2> QED
    BY <1>3, DropOrdinary, TopType DEF Ordinary, SameWindow
<1>5. ReturnFromException(c) = IF Failed(c3) THEN c3 ELSE [c3 EXCEPT !.new = w]
  BY DEF ReturnFromException
<1> HIDE DEF c3, w
<1> QED
  BY <1>4, <1>5 DEF Record, SameWindow

LEMMA ZeroArgDone ==
  ASSUME NEW c, Ready(c), NEW op
  PROVE  Done(c, InstructsZeroArg(c, op), op)
<1> DEFINE d == InstructsZeroArg(c, op)
<1>1. c \in Record /\ c.res = "SLEEP"
  BY DEF Ready
<1>2. CASE ~Failed(c) /\ op \in {"REBOOT", "HALT"}
  <2>1. d = [c EXCEPT !.res = IF Svisor(c) THEN op ELSE "SLEEP"]
    BY <1>2 DEF InstructsZeroArg
  <2> DEFINE r == IF Svisor(c) THEN op ELSE "SLEEP"
  <2>2. r \in {"SLEEP", "HALT", "REBOOT"} /\ (r # "SLEEP" => Svisor(c) /\ r = op)
    BY <1>2
  <2> HIDE DEF r, d
  <2>3. d = [c EXCEPT !.res = r]
    BY <2>1 DEF r
  <2>4. d \in Record /\ d.res = r /\ d.new = c.new /\ d.sr = c.sr /\ d.ssp = c.ssp
        /\ d.base = c.base /\ d.limit = c.limit /\ d.exc = "none"
    BY <1>1, <1>2, <2>2, <2>3 DEF Record, Failed
  <2>5. Done(c, d, op)
    BY <2>2, <2>4 DEF Done, Marks, Svisor, SameWindow
  <2> QED
    BY <2>5 DEF d
<1>3. CASE ~Failed(c) /\ op = "RETEX"
  <2>1. d = ReturnFromException(c)
    BY <1>3 DEF InstructsZeroArg
  <2> HIDE DEF d
  <2>2. Done(c, d, op)
    BY <1>3, <2>1, ReturnType DEF Done, SameWindow
  <2> QED
    BY <2>2 DEF d
<1>4. CASE Failed(c) \/ op \notin {"REBOOT", "HALT", "RETEX"}
  <2>1. d \in {c, PushAllRegs(c), PopAllRegs(c), PopTo(c, PC), Fail(c, DumpFault(c)),
               Fail(c, "wrong")}
    BY <1>4 DEF InstructsZeroArg
  <2>2. DumpFault(c) \in Outcome
    BY DEF DumpFault, Outcome
  <2>3. Ordinary(c, d)
    <3> HIDE DEF d
    <3> QED
      BY <1>1, <2>1, <2>2, Stays, PushAllOrdinary, PopAllOrdinary, PopOrdinary, FailOrdinary
      DEF PC, Outcome
  <2> HIDE DEF d
  <2>4. Done(c, d, op)
    BY <1>1, <2>3, OrdinaryDone
  <2> QED
    BY <2>4 DEF d
<1> QED
  BY <1>2, <1>3, <1>4

LEMMA OneArgDone ==
  ASSUME NEW c, Ready(c), NEW op, NEW a \in Argument
  PROVE  Done(c, InstructsOneArg(c, op, a), op)
<1> DEFINE l == LoadArg(c, a)
           e == OneArgEffect(c, op, l.val)
           t == OneArgValue(c, op, l.val)
           s == StoreArg(SetNew(e, ArithmFlags(t)), t, a)
<1>1. c \in Record /\ c.res = "SLEEP" /\ c.new \in Word /\ c.new % 16 = 0
  BY DEF Ready, Record
<1>2. l.val \in Word /\ l.exc \in Outcome
  BY <1>1, LoadArgType
<1>3. InstructsOneArg(c, op, a) \in {Fail(c, l.exc), s, e}
  BY DEF InstructsOneArg
<1>4. Done(c, Fail(c, l.exc), op)
  <2> HIDE DEF l
  <2> QED
    BY <1>1, <1>2, FailOrdinary, OrdinaryDone
<1>5. Confined(c, e) /\ e.new = c.new /\ t \in Word /\ SameWindow(c, e)
  <2> HIDE DEF l
  <2> QED
    BY <1>1, <1>2, OneArgConfined, OneArgValueType
<1>6. Done(c, e, op)
  <2> HIDE DEF e
  <2> QED
    BY <1>1, <1>5, ConfinedDone DEF Marks
<1>7. Done(c, s, op)
  <2> HIDE DEF e, t
  <2>1. Confined(c, s) /\ s.new \in Marks(c.new) /\ SameWindow(e, s)
    BY <1>1, <1>5, StoredBack
  <2> HIDE DEF s
  <2> QED
    BY <1>1, <1>5, <2>1, ConfinedDone DEF SameWindow
<1> HIDE DEF e, s, l
<1> QED
  BY <1>3, <1>4, <1>6, <1>7

LEMMA TwoArgDone ==
  ASSUME NEW c, Ready(c), NEW op, NEW a1 \in Argument, NEW a2 \in Argument
  PROVE  Done(c, InstructsTwoArg(c, op, a1, a2), op)
<1> DEFINE l1 == LoadArg(c, a1)
           l2 == LoadArg(c, a2)
           e  == TwoArgEffect(c, op, l1.val, l2.val)
           t  == TwoArgValue(c, op, l1.val, l2.val)
           s  == StoreArg(SetNew(e, ArithmFlags(t)), t, a2)
           d  == IF op \in TwoArgWrites \/ IsAutoIncrDecrArg(a2) THEN s ELSE e
           z  == StoreArg(d, l1.val, a1)
<1>1. c \in Record /\ c.res = "SLEEP" /\ c.new \in Word /\ c.new % 16 = 0
  BY DEF Ready, Record
<1>2. l1.val \in Word /\ l1.exc \in Outcome /\ l2.val \in Word /\ l2.exc \in Outcome
  BY <1>1, LoadArgType
<1>3. InstructsTwoArg(c, op, a1, a2) \in {Fail(c, l1.exc), Fail(c, l2.exc), z, d}
  BY DEF InstructsTwoArg
<1>4. Done(c, Fail(c, l1.exc), op) /\ Done(c, Fail(c, l2.exc), op)
  <2> HIDE DEF l1, l2
  <2> QED
    BY <1>1, <1>2, FailOrdinary, OrdinaryDone
<1>5. /\ Confined(c, e) /\ e.new \in {c.new, c.new + 4} /\ t \in Word
      /\ op # "MMU" => SameWindow(c, e)
  <2> HIDE DEF l1, l2
  <2> QED
    BY <1>1, <1>2, TwoArgConfined, TwoArgValueType
<1>6. Confined(c, s) /\ s.new \in Marks(c.new) /\ SameWindow(e, s)
  <2> HIDE DEF e, t
  <2> QED
    BY <1>1, <1>5, StoredBack
<1>7. /\ Confined(c, d) /\ d.new \in Marks(c.new)
      /\ op # "MMU" => SameWindow(c, d)
  <2> HIDE DEF e, s
  <2> QED
    BY <1>5, <1>6 DEF Marks, SameWindow
<1>8. Confined(c, z) /\ z.new = d.new /\ SameWindow(d, z)
  <2> HIDE DEF d, l1
  <2>1. Ordinary(d, z)
    BY <1>2, <1>7, StoreArgOrdinary DEF Confined, SameWindow
  <2> HIDE DEF z
  <2> QED
    BY <1>7, <2>1, ConfinedFollows
<1> HIDE DEF d, z, l1, l2
<1>9. Done(c, d, op) /\ Done(c, z, op)
  BY <1>1, <1>7, <1>8, ConfinedDone DEF SameWindow
<1> QED
  BY <1>3, <1>4, <1>9

LEMMA ThreeArgDone ==
  ASSUME NEW c, Ready(c), NEW op, NEW a1 \in Argument, NEW a2 \in Argument,
         NEW a3 \in Argument
  PROVE  Done(c, InstructsThreeArg(c, op, a1, a2, a3), op)
<1> DEFINE l1 == LoadArg(c, a1)
           l2 == LoadArg(c, a2)
           l3 == LoadArg(c, a3)
           e  == ThreeArgEffect(c, op, l1.val, l2.val, l3.val)
           Back(d, v, a) == IF IsAutoIncrDecrArg(a) THEN StoreArg(d, v, a) ELSE d
           z  == Back(Back(Back(e, l1.val, a1), l2.val, a2), l3.val, a3)
<1>1. c \in Record /\ c.res = "SLEEP"
  BY DEF Ready
<1>2. /\ l1.val \in Word /\ l2.val \in Word /\ l3.val \in Word
      /\ l1.exc \in Outcome /\ l2.exc \in Outcome /\ l3.exc \in Outcome
  BY <1>1, LoadArgType
<1>3. InstructsThreeArg(c, op, a1, a2, a3)
        \in {Fail(c, l1.exc), Fail(c, l2.exc), Fail(c, l3.exc), z}
  BY DEF InstructsThreeArg
<1>4. Ordinary(c, e)
  <2>1. \E o : e \in {c, Jump(c, o, l1.val), Fail(c, "wrong")}
    BY DEF ThreeArgEffect
  <2> HIDE DEF l1, e
  <2> QED
    BY <1>1, <1>2, <2>1, Stays, JumpOrdinary, FailOrdinary DEF Outcome
<1>5. ASSUME NEW d, Ordinary(c, d), NEW v \in Word, NEW a \in Argument
      PROVE  Ordinary(c, Back(d, v, a))
  <2>1. Ordinary(d, StoreArg(d, v, a))
    BY <1>5, StoreArgOrdinary DEF Ordinary, SameWindow
  <2>2. Ordinary(c, StoreArg(d, v, a))
    BY <1>5, <2>1, Follows
  <2> QED
    BY <1>5, <2>2
<1>6. Ordinary(c, z)
  <2> HIDE DEF e, Back, l1, l2, l3
  <2> QED
    BY <1>2, <1>4, <1>5
<1> HIDE DEF z, l1, l2, l3
<1> QED
  BY <1>1, <1>2, <1>3, <1>6, FailOrdinary, OrdinaryDone

-----------------------------------------------------------------------------
(* One step of the processor.                                              *)
Start(c) == [c EXCEPT !.new = ResetFlags(c.sr), !.res = "SLEEP"]

LEMMA StartReady ==
  ASSUME NEW c \in Record
  PROVE  /\ Ready(Start(c))
         /\ Start(c).new = ResetFlags(c.sr) /\ Start(c).sr = c.sr
         /\ Start(c).ssp = c.ssp /\ Start(c).base = c.base
         /\ Start(c).limit = c.limit /\ Start(c).r = c.r
<1>1. c.sr \in Word
  BY DEF Record
<1>2. ResetFlags(c.sr) \in Word /\ ResetFlags(c.sr) % 16 = 0
  BY <1>1, Constants DEF ResetFlags
<1> DEFINE v == ResetFlags(c.sr)
<1>3. Start(c) = [c EXCEPT !.new = v, !.res = "SLEEP"]
  BY DEF Start
<1> HIDE DEF v
<1>4. v \in Word /\ v % 16 = 0
  BY <1>2 DEF v
<1>5. Start(c) \in Record
  BY <1>3, <1>4 DEF Record
<1>6. /\ Start(c).new = v /\ Start(c).res = "SLEEP"
      /\ Start(c).sr = c.sr /\ Start(c).ssp = c.ssp /\ Start(c).base = c.base
      /\ Start(c).limit = c.limit /\ Start(c).r = c.r
  BY <1>3 DEF Record
<1> QED
  BY <1>4, <1>5, <1>6 DEF Ready, v

LEMMA FetchReady ==
  ASSUME NEW c, Ready(c), NEW d, Ordinary(c, d), NEW scale \in Scale
  PROVE  /\ Ordinary(c, Fetch(d, scale)) /\ Ready(Fetch(d, scale))
         /\ Fetch(d, scale).r = d.r /\ Fetch(d, scale).ssp = d.ssp
<1>1. d \in Record /\ d.res = "SLEEP" /\ d.new % 16 = 0
  BY DEF Ready, Ordinary, SameWindow
<1>2. /\ Ordinary(d, Fetch(d, scale))
      /\ Fetch(d, scale).r = d.r /\ Fetch(d, scale).ssp = d.ssp
  BY <1>1, FetchOrdinary
<1>3. Ordinary(c, Fetch(d, scale))
  BY <1>2, Follows
<1> QED
  BY <1>1, <1>2, <1>3 DEF Ready, Ordinary, SameWindow

(* What an instruction does once fetched is what the step does.            *)
LEMMA DoneFromStart ==
  ASSUME NEW c, NEW d, NEW e, NEW op, Ordinary(c, d), d.ssp = c.ssp, Done(d, e, op)
  PROVE  Done(c, e, op)
<1>1. d.new = c.new /\ SameWindow(c, d)
  BY DEF Ordinary
<1>2. CASE Svisor(c)
  BY <1>1, <1>2 DEF Done, SameWindow
<1>3. CASE ~Svisor(c)
  <2>1. /\ d.sr = c.sr /\ d.ssp = c.ssp /\ d.base = c.base /\ d.limit = c.limit
        /\ ~Svisor(d)
    BY <1>3 DEF Ordinary, Svisor, SameWindow
  <2> QED
    BY <1>1, <1>3, <2>1 DEF Done, SameWindow
<1> QED
  BY <1>2, <1>3

LEMMA ExecuteDone ==
  ASSUME NEW c \in Record, NEW i \in Instruction
  PROVE  Done(Start(c), Execute(c, i), i.op)
<1> DEFINE n  == Len(i.args)
           d0 == Fetch(Start(c), 2)
           d1 == FetchArg(d0, i.args[1])
           d2 == FetchArg(d1, i.args[2])
           d3 == FetchArg(d2, i.args[3])
           Read(d) == Ordinary(Start(c), d) /\ d.ssp = Start(c).ssp
<1>1. i.args \in Seq(Argument) /\ n \in Nat
  BY DEF Instruction
<1>2. \A k \in 1 .. n : i.args[k] \in Argument
  BY <1>1
<1>3. \A a \in Argument : (IF a.type = "IMMED" THEN a.scale ELSE 2) \in Scale
  BY DEF Argument, Scale
<1>4. Ready(Start(c)) /\ Ordinary(Start(c), Start(c))
  BY StartReady, Stays DEF Ready
<1>5. ASSUME NEW d, Read(d), NEW a \in Argument
      PROVE  Read(FetchArg(d, a)) /\ Ready(FetchArg(d, a))
  BY <1>3, <1>4, <1>5, FetchReady DEF FetchArg
<1>6. Read(d0) /\ Ready(d0)
  BY <1>4, FetchReady DEF Scale
<1>7. CASE n = 0
  <2>1. Execute(c, i) = InstructsZeroArg(d0, i.op)
    BY <1>7 DEF Execute, Start
  <2> HIDE DEF d0
  <2> QED
    BY <1>6, <2>1, ZeroArgDone, DoneFromStart
<1>8. ASSUME n >= 1
      PROVE  i.args[1] \in Argument /\ Read(d1) /\ Ready(d1)
  <2>1. i.args[1] \in Argument
    BY <1>1, <1>2, <1>8
  <2> HIDE DEF d0, Read
  <2> QED
    BY <1>5, <1>6, <2>1
<1>9. ASSUME n >= 2
      PROVE  i.args[2] \in Argument /\ Read(d2) /\ Ready(d2)
  <2>1. i.args[2] \in Argument /\ n >= 1
    BY <1>1, <1>2, <1>9
  <2> HIDE DEF d1, Read
  <2> QED
    BY <1>5, <1>8, <2>1
<1>10. ASSUME n >= 3
       PROVE  i.args[3] \in Argument /\ Read(d3) /\ Ready(d3)
  <2>1. i.args[3] \in Argument /\ n >= 2
    BY <1>1, <1>2, <1>10
  <2> HIDE DEF d2, Read
  <2> QED
    BY <1>5, <1>9, <2>1
<1>11. CASE n = 1
  <2>1. Execute(c, i) = InstructsOneArg(d1, i.op, i.args[1])
    BY <1>11 DEF Execute, Start
  <2> HIDE DEF d1
  <2> QED
    BY <1>8, <1>11, <2>1, OneArgDone, DoneFromStart
<1>12. CASE n = 2
  <2>1. Execute(c, i) = InstructsTwoArg(d2, i.op, i.args[1], i.args[2])
    BY <1>12 DEF Execute, Start
  <2>2. n >= 1 /\ n >= 2
    BY <1>12
  <2> HIDE DEF d1, d2, n
  <2> QED
    BY <1>8, <1>9, <2>1, <2>2, TwoArgDone, DoneFromStart
<1>13. CASE n >= 3
  <2>1. Execute(c, i) = InstructsThreeArg(d3, i.op, i.args[1], i.args[2], i.args[3])
    BY <1>1, <1>13 DEF Execute, Start
  <2>2. n >= 1 /\ n >= 2
    BY <1>1, <1>13
  <2> HIDE DEF d1, d2, d3, n
  <2> QED
    BY <1>8, <1>9, <1>10, <1>13, <2>1, <2>2, ThreeArgDone, DoneFromStart
<1> HIDE DEF n
<1>14. n \in {0, 1, 2} \/ n >= 3
  BY <1>1
<1> QED
  BY <1>7, <1>11, <1>12, <1>13, <1>14

(* A user's REBOOT, with whatever arguments, fails or sleeps: the data     *)
(* registers stay.                                                         *)
LEMMA FailKeepsRegs ==
  ASSUME NEW c \in Record
  PROVE  /\ \A why : Fail(c, why).r = c.r
         /\ Failed(Fail(c, "wrong"))
  BY DEF Fail, Failed, Record

LEMMA FailedStays ==
  ASSUME NEW c, Failed(c), NEW v, NEW a, NEW flag
  PROVE  SetNew(c, flag) = c /\ StoreArg(c, v, a) = c
  BY DEF SetNew, StoreArg

LEMMA RebootKeepsRegs ==
  ASSUME NEW c \in Record, NEW a1, NEW a2, NEW a3
  PROVE  /\ ~Svisor(c) => InstructsZeroArg(c, "REBOOT").r = c.r
         /\ InstructsOneArg(c, "REBOOT", a1).r = c.r
         /\ InstructsTwoArg(c, "REBOOT", a1, a2).r = c.r
         /\ InstructsThreeArg(c, "REBOOT", a1, a2, a3).r = c.r
<1> DEFINE w == Fail(c, "wrong")
           l1 == LoadArg(c, a1)
           l2 == LoadArg(c, a2)
           l3 == LoadArg(c, a3)
<1>1. w.r = c.r /\ Failed(w)
  BY FailKeepsRegs
<1>2. InstructsZeroArg(c, "REBOOT").r = c.r
  BY DEF InstructsZeroArg, Record
<1>3. InstructsOneArg(c, "REBOOT", a1).r = c.r
  <2>1. \A t : OneArgEffect(c, "REBOOT", t) = w
    BY DEF OneArgEffect, JumpsOn
  <2> HIDE DEF w
  <2>2. InstructsOneArg(c, "REBOOT", a1) \in {Fail(c, l1.exc), w}
    BY <1>1, <2>1, FailedStays DEF InstructsOneArg
  <2> QED
    BY <1>1, <2>2, FailKeepsRegs
<1>4. InstructsTwoArg(c, "REBOOT", a1, a2).r = c.r
  <2>1. \A s, t : TwoArgEffect(c, "REBOOT", s, t) = w
    BY DEF TwoArgEffect, Comparisons
  <2> HIDE DEF w
  <2>2. InstructsTwoArg(c, "REBOOT", a1, a2) \in {Fail(c, l1.exc), Fail(c, l2.exc), w}
    BY <1>1, <2>1, FailedStays DEF InstructsTwoArg
  <2> QED
    BY <1>1, <2>2, FailKeepsRegs
<1>5. InstructsThreeArg(c, "REBOOT", a1, a2, a3).r = c.r
  <2>1. \A r, s, t : ThreeArgEffect(c, "REBOOT", r, s, t) = w
    BY DEF ThreeArgEffect, IfJumps
  <2> HIDE DEF w
  <2>2. InstructsThreeArg(c, "REBOOT", a1, a2, a3)
          \in {Fail(c, l1.exc), Fail(c, l2.exc), Fail(c, l3.exc), w}
    BY <1>1, <2>1, FailedStays DEF InstructsThreeArg
  <2> QED
    BY <1>1, <2>2, FailKeepsRegs
<1> QED
  BY <1>2, <1>3, <1>4, <1>5

LEMMA UserReboot ==
  ASSUME NEW c \in Record, NEW i \in Instruction, ~Svisor(c), i.op = "REBOOT"
  PROVE  Execute(c, i).r = c.r
<1> DEFINE n  == Len(i.args)
           d0 == Fetch(Start(c), 2)
           d1 == FetchArg(d0, i.args[1])
           d2 == FetchArg(d1, i.args[2])
           d3 == FetchArg(d2, i.args[3])
           Kept(d) == Ordinary(Start(c), d) /\ d \in Record /\ d.r = c.r
<1>1. i.args \in Seq(Argument) /\ n \in Nat
  BY DEF Instruction
<1>2. \A k \in 1 .. n : i.args[k] \in Argument
  BY <1>1
<1>3. \A a \in Argument : (IF a.type = "IMMED" THEN a.scale ELSE 2) \in Scale
  BY DEF Argument, Scale
<1>4. Ready(Start(c)) /\ Ordinary(Start(c), Start(c)) /\ Start(c).r = c.r
  BY StartReady, Stays DEF Ready
<1>5. ASSUME NEW d, Kept(d), NEW a \in Argument
      PROVE  Kept(FetchArg(d, a))
  BY <1>3, <1>4, <1>5, FetchReady DEF FetchArg, Ready
<1>6. Kept(d0)
  BY <1>4, FetchReady DEF Scale, Ready
<1>7. Kept(d0) /\ (n >= 1 => Kept(d1)) /\ (n >= 2 => Kept(d2)) /\ (n >= 3 => Kept(d3))
  <2>1. \A k \in {1, 2, 3} : n >= k => i.args[k] \in Argument
    <3> HIDE DEF n
    <3> QED
      BY <1>1, <1>2
  <2>2. n >= 2 => n >= 1
    BY <1>1
  <2>3. n >= 3 => n >= 2
    BY <1>1
  <2>4. n >= 1 => Kept(d1)
    <3> HIDE DEF d0, n, Kept
    <3> QED
      BY <1>5, <1>6, <2>1
  <2>5. n >= 2 => Kept(d2)
    <3> HIDE DEF d1, n, Kept
    <3> QED
      BY <1>5, <2>1, <2>2, <2>4
  <2>6. n >= 3 => Kept(d3)
    <3> HIDE DEF d2, n, Kept
    <3> QED
      BY <1>5, <2>1, <2>3, <2>5
  <2> QED
    BY <1>6, <2>4, <2>5, <2>6
<1>8. ~Svisor(d0)
  <2>1. Start(c).sr = c.sr
    BY StartReady
  <2> QED
    BY <1>6, <2>1 DEF Ordinary, Svisor, SameWindow
<1>9. Execute(c, i) =
        IF n = 0 THEN InstructsZeroArg(d0, "REBOOT")
        ELSE IF n = 1 THEN InstructsOneArg(d1, "REBOOT", i.args[1])
        ELSE IF n = 2 THEN InstructsTwoArg(d2, "REBOOT", i.args[1], i.args[2])
        ELSE InstructsThreeArg(d3, "REBOOT", i.args[1], i.args[2], i.args[3])
  BY DEF Execute, Start
<1> HIDE DEF d0, d1, d2, d3, n
<1>10. n = 0 \/ (n = 1 /\ n >= 1) \/ (n = 2 /\ n >= 2) \/ (n \notin {0, 1, 2} /\ n >= 3)
  BY <1>1
<1>11. CASE n = 0
  <2>1. d0 \in Record /\ d0.r = c.r /\ Execute(c, i) = InstructsZeroArg(d0, "REBOOT")
    BY <1>7, <1>9, <1>11
  <2> QED
    BY <1>8, <2>1, RebootKeepsRegs
<1>12. CASE n = 1 /\ n >= 1
  <2>1. d1 \in Record /\ d1.r = c.r
        /\ Execute(c, i) = InstructsOneArg(d1, "REBOOT", i.args[1])
    BY <1>7, <1>9, <1>12
  <2> QED
    BY <2>1, RebootKeepsRegs
<1>13. CASE n = 2 /\ n >= 2
  <2>1. d2 \in Record /\ d2.r = c.r
        /\ Execute(c, i) = InstructsTwoArg(d2, "REBOOT", i.args[1], i.args[2])
    BY <1>7, <1>9, <1>13
  <2> QED
    BY <2>1, RebootKeepsRegs
<1>14. CASE n \notin {0, 1, 2} /\ n >= 3
  <2>1. d3 \in Record /\ d3.r = c.r
        /\ Execute(c, i) = InstructsThreeArg(d3, "REBOOT", i.args[1], i.args[2], i.args[3])
    BY <1>7, <1>9, <1>14
  <2> QED
    BY <2>1, RebootKeepsRegs
<1> QED
  BY <1>10, <1>11, <1>12, <1>13, <1>14

-----------------------------------------------------------------------------
(* The machine.                                                            *)
LEMMA CpuInitType ==
  ASSUME NEW c \in Record
  PROVE  CpuInit(c) \in Record
<1> DEFINE top == Wrap(c.limit - 4)
           f   == Wrap(ResetFlags(c.sr) + SVISOR + INT_MAX_S_PR)
           r   == [n \in DataReg |-> 0]
<1>1. c.limit \in Int /\ c.sr \in Int /\ ResetFlags(c.sr) \in Int
  BY Constants DEF Record, Word, ResetFlags
<1>2. top \in Word /\ f \in Word
  BY <1>1, WrapType DEF SVISOR, INT_MAX_S_PR
<1>3. r \in [DataReg -> Word] /\ 0 \in Word
  BY Constants
<1>4. CpuInit(c) = [c EXCEPT !.pc = 0, !.sr = f, !.r = r, !.usp = top, !.ssp = top]
  BY DEF CpuInit
<1> HIDE DEF top, f, r
<1>5. [[c EXCEPT !.pc = 0, !.sr = f] EXCEPT !.r = r] \in Record
  BY <1>2, <1>3 DEF Record
<1>6. \A e \in Record : [[e EXCEPT !.usp = top] EXCEPT !.ssp = top] \in Record
  BY <1>2 DEF Record
<1> QED
  BY <1>4, <1>5, <1>6

LEMMA InitType == Init => TypeOK
<1> SUFFICES ASSUME Init PROVE TypeOK
  OBVIOUS
<1>1. guest \in DOMAIN Guests /\ Program.bios \in MemoryImage /\ Len(Program.steps) \in Nat
  BY MachineAssumption DEF Init, Program
<1>2. \A fp \in FirstFp : Blank(fp) \in Record
  <2>1. \A fp \in FirstFp : fp \in Word
    BY MachineAssumption
  <2>2. 0 \in Word /\ MaxMem \in Word /\ NewDevice \in [resp : Word, ready : Readiness]
    BY Constants DEF NewDevice, Readiness
  <2> QED
    BY <1>1, <2>1, <2>2 DEF Blank, Record, Outcome, Word
<1>3. cpu \in Record
  BY <1>2, CpuInitType DEF Init
<1> QED
  BY <1>1, <1>3 DEF Init, TypeOK, Phases, Outcome

LEMMA FetchedType ==
  ASSUME TypeOK, NEW i \in Fetched
  PROVE  i \in Instruction /\ clock + 1 \in 0 .. Len(Program.steps)
<1>1. /\ guest \in DOMAIN Guests /\ Len(Program.steps) \in Nat
      /\ \A n \in 1 .. Len(Program.steps) : Program.steps[n] \subseteq Instruction
  BY MachineAssumption DEF TypeOK, Program
<1>2. clock \in Nat /\ clock < Len(Program.steps) /\ i \in Program.steps[clock + 1]
  BY <1>1 DEF TypeOK, Fetched
<1> QED
  BY <1>1, <1>2

LEMMA SettleType ==
  ASSUME NEW d \in Record
  PROVE  /\ Settle(d) \in Record /\ Settle(d).sr = d.new /\ Settle(d).ssp = d.ssp
         /\ Settle(d).base = d.base /\ Settle(d).limit = d.limit /\ Settle(d).r = d.r
  BY DEF Settle, Record, Outcome

LEMMA MemoryReplaced ==
  ASSUME NEW d \in Record, NEW m \in MemoryImage
  PROVE  [d EXCEPT !.mem = m] \in Record
  BY DEF Record

LEMMA StepDone ==
  ASSUME TypeOK, NEW i \in Fetched
  PROVE  /\ Execute(cpu, i) \in Record
         /\ Done(Start(cpu), Execute(cpu, i), i.op)
<1>1. cpu \in Record /\ i \in Instruction
  BY FetchedType DEF TypeOK
<1> QED
  BY <1>1, ExecuteDone DEF Done, SameWindow

AnyStep(i, d) ==
  \/ Continue(i, d) \/ Halt(i, d) \/ Reboot(i, d) \/ RebootFails(i, d)
  \/ Throw(i, d) \/ Crash(i, d)

LEMMA NextType == TypeOK /\ [Next]_vars => TypeOK'
<1> SUFFICES ASSUME TypeOK, [Next]_vars PROVE TypeOK'
  OBVIOUS
<1>1. ASSUME NEW i \in Fetched, AnyStep(i, Execute(cpu, i))
      PROVE  TypeOK'
  <2> DEFINE d == Execute(cpu, i)
  <2>1. d \in Record
    BY StepDone
  <2>2. /\ Step(i, d) /\ d.exc \in Outcome
        /\ guest' = guest /\ clock' = clock + 1 /\ executed'.exc = d.exc
    BY <1>1, <2>1 DEF AnyStep, Continue, Halt, Reboot, RebootFails, Throw, Crash, Step, Record
  <2>3. /\ guest' \in DOMAIN Guests /\ clock' \in 0 .. Len(Program'.steps)
        /\ executed'.exc \in Outcome
    BY <2>2, FetchedType DEF TypeOK, Program
  <2>4. Settle(d) \in Record
    BY <2>1, SettleType
  <2>5. cpu' \in Record /\ phase' \in Phases
    <3> HIDE DEF d
    <3>1. CASE Continue(i, d)
      BY <2>4, <3>1 DEF Continue, Phases
    <3>2. CASE Halt(i, d)
      BY <2>4, <3>2 DEF Halt, Phases
    <3>3. CASE Reboot(i, d)
      <4>1. Program.bios \in MemoryImage
        BY MachineAssumption DEF TypeOK, Program
      <4>2. [Settle(d) EXCEPT !.mem = Program.bios] \in Record
        BY <2>4, <4>1, MemoryReplaced
      <4> QED
        BY <3>3, <4>2, CpuInitType DEF Reboot, Phases
    <3>4. CASE RebootFails(i, d)
      <4>1. [b \in 0 .. Blocks - 1 |-> [k \in Lane |-> 0]] \in MemoryImage
        BY Constants DEF MemoryImage, DoubleWord, Byte
      <4> QED
        BY <2>4, <3>4, <4>1, MemoryReplaced DEF RebootFails, Phases
    <3>5. CASE Throw(i, d) \/ Crash(i, d)
      BY <2>1, <3>5 DEF Throw, Crash, Phases
    <3> QED
      BY <1>1, <3>1, <3>2, <3>3, <3>4, <3>5 DEF AnyStep, d
  <2> QED
    BY <2>3, <2>5 DEF TypeOK
<1>2. CASE FinalDump
  BY <1>2 DEF FinalDump, TypeOK, Program, Phases
<1>3. CASE UNCHANGED vars
  BY <1>3 DEF vars, TypeOK, Program
<1> QED
  BY <1>1, <1>2, <1>3 DEF Next, AnyStep

(* Every state the processor, the MMU and the devices reach is well        *)
(* formed: no sum leaves the width of a register, no store the memory.     *)
THEOREM TypeCorrect == Spec => []TypeOK
  BY InitType, NextType, PTL DEF Spec

-----------------------------------------------------------------------------
(* The low four bits of the flags are what a step may change.              *)
LEMMA MarkedFlags ==
  ASSUME NEW f \in Word, NEW m \in Marks(ResetFlags(f))
  PROVE  /\ m \div 16 = f \div 16
         /\ m % 16 \in {0, ZERO, NEGATIVE, ZERO + NEGATIVE}
         /\ HasFlag(m, SVISOR) = HasFlag(f, SVISOR)
<1>1. f \in Nat
  BY Constants
<1>2. PICK q \in Nat, k \in 0 .. 15 : f = 16 * q + k /\ k = f % 16
  <2>1. f \div 16 \in Nat /\ f % 16 \in 0 .. 15 /\ f = 16 * (f \div 16) + (f % 16)
    BY <1>1
  <2> QED
    BY <2>1
<1>3. ResetFlags(f) = 16 * q
  BY <1>1, <1>2 DEF ResetFlags
<1>4. \E j \in {0, 4, 8, 12} : m = 16 * q + j
  BY <1>2, <1>3 DEF Marks
<1>5. m \div 16 = q /\ f \div 16 = q /\ m % 16 \in {0, 4, 8, 12}
  BY <1>2, <1>4
<1>6. m \div 64 = f \div 64
  BY <1>2, <1>4
<1> QED
  BY <1>5, <1>6 DEF ZERO, NEGATIVE, HasFlag, SVISOR

(* The six ways a step can end, for the two theorems about all of them.    *)
LEMMA StepEnds ==
  ASSUME TypeOK, NEW i \in Fetched, AnyStep(i, Execute(cpu, i))
  PROVE  LET d == Execute(cpu, i)
         IN  /\ cpu \in Record /\ cpu.sr \in Word /\ i \in Instruction
             /\ d \in Record /\ executed'.op = i.op /\ executed'.exc = d.exc
             /\ d.res # "SLEEP" =>
                  /\ Svisor(cpu) /\ d.res = i.op
                  /\ d.exc = "none" /\ d.ssp = cpu.ssp
             /\ i.op # "MMU" => d.base = cpu.base /\ d.limit = cpu.limit
             /\ i.op # "RETEX" =>
                  /\ d.new \in Marks(ResetFlags(cpu.sr))
                  /\ ~Svisor(cpu) /\ ~HasFlag(cpu.sr, OVERFLOW) =>
                       /\ ~Svisor(d) /\ d.ssp = cpu.ssp
                       /\ d.base = cpu.base /\ d.limit = cpu.limit
<1> DEFINE d == Execute(cpu, i)
<1>1. cpu \in Record /\ cpu.sr \in Word /\ i \in Instruction
  BY FetchedType DEF TypeOK, Record
<1>2. Done(Start(cpu), d, i.op)
  BY StepDone
<1>3. executed'.op = i.op /\ executed'.exc = d.exc
  BY DEF AnyStep, Continue, Halt, Reboot, RebootFails, Throw, Crash, Step
<1> HIDE DEF d
<1>4. Svisor(Start(cpu)) = Svisor(cpu)
  BY <1>1, StartReady DEF Svisor
<1>5. /\ d \in Record
      /\ d.res # "SLEEP" =>
           /\ Svisor(cpu) /\ d.res = i.op
           /\ d.exc = "none" /\ d.ssp = cpu.ssp
      /\ i.op # "MMU" => d.base = cpu.base /\ d.limit = cpu.limit
      /\ i.op # "RETEX" =>
           /\ d.new \in Marks(ResetFlags(cpu.sr))
           /\ ~Svisor(cpu) /\ ~HasFlag(cpu.sr, OVERFLOW) =>
                /\ ~Svisor(d) /\ d.ssp = cpu.ssp
                /\ d.base = cpu.base /\ d.limit = cpu.limit
  BY <1>1, <1>2, <1>4, StartReady DEF Done, SameWindow
<1> QED
  BY <1>1, <1>3, <1>5 DEF d

(* Whatever an instruction adds to the flags, stores into the state        *)
(* register or fails at: short of RETEX and REBOOT a step changes none of  *)
(* the flags above the arithmetic ones, and raises ZERO and NEGATIVE alone.*)
THEOREM ArithmeticFlagsOnly == Spec => FlagsOfAStep
<1> DEFINE A == Stepped1 /\ executed'.op \notin {"RETEX", "REBOOT"} =>
                  /\ cpu'.sr \div 16 = cpu.sr \div 16
                  /\ cpu'.sr % 16 \in {0, ZERO, NEGATIVE, ZERO + NEGATIVE}
<1>1. ASSUME TypeOK, Next PROVE A
  <2>1. ASSUME NEW i \in Fetched, AnyStep(i, Execute(cpu, i)), Stepped1,
               executed'.op \notin {"RETEX", "REBOOT"}
        PROVE  /\ cpu'.sr \div 16 = cpu.sr \div 16
               /\ cpu'.sr % 16 \in {0, ZERO, NEGATIVE, ZERO + NEGATIVE}
    <3> DEFINE d == Execute(cpu, i)
    <3>1. /\ cpu.sr \in Word /\ d \in Record /\ executed'.op = i.op
          /\ d.res # "SLEEP" => d.res = i.op
          /\ i.op # "RETEX" => d.new \in Marks(ResetFlags(cpu.sr))
      BY <1>1, <2>1, StepEnds
    <3>2. Continue(i, d) \/ Halt(i, d)
      <4>1. phase' \in {"running", "halted"}
        BY <2>1 DEF Stepped1
      <4>2. AnyStep(i, d)
        BY <2>1
      <4> HIDE DEF d
      <4> QED
        BY <2>1, <3>1, <4>1, <4>2 DEF AnyStep, Reboot, RebootFails, Throw, Crash
    <3> HIDE DEF d
    <3>3. cpu' = Settle(d)
      BY <3>2 DEF Continue, Halt
    <3>4. cpu'.sr = d.new
      BY <3>1, <3>3, SettleType
    <3> QED
      BY <2>1, <3>1, <3>4, MarkedFlags
  <2>2. CASE FinalDump
    <3>1. clock' = clock /\ clock \in Nat
      BY <1>1, <2>2, MachineAssumption DEF FinalDump, TypeOK, Program
    <3> QED
      BY <3>1 DEF Stepped1
  <2> QED
    BY <1>1, <2>1, <2>2 DEF Next, AnyStep
<1>2. TypeOK /\ [Next]_vars => [A]_vars
  BY <1>1
<1> QED
  BY <1>2, TypeCorrect, PTL DEF Spec, FlagsOfAStep

(* A user without the overflow bit, whatever it executes short of RETEX    *)
(* and however that ends, moves neither the window nor the supervisor      *)
(* stack pointer, stays a user and neither halts nor restarts the machine. *)
THEOREM UsersAreConfined == Spec => UserIsConfined
<1> DEFINE P == ~Svisor(cpu) /\ clock' = clock + 1 /\ executed'.op # "RETEX"
                  /\ ~HasFlag(cpu.sr, OVERFLOW)
           Q == /\ cpu'.base = cpu.base /\ cpu'.limit = cpu.limit
                /\ cpu'.ssp = cpu.ssp
                /\ ~Svisor(cpu')
                /\ phase' # "halted"
                /\ executed'.op = "REBOOT" => cpu'.r = cpu.r
<1>1. ASSUME TypeOK, Next PROVE P => Q
  <2>1. ASSUME NEW i \in Fetched, AnyStep(i, Execute(cpu, i)), P
        PROVE  Q
    <3> DEFINE d == Execute(cpu, i)
    <3>1. /\ cpu \in Record /\ cpu.sr \in Word /\ d \in Record
          /\ i \in Instruction /\ executed'.op = i.op
          /\ d.res = "SLEEP" /\ d.new \in Marks(ResetFlags(cpu.sr))
          /\ ~Svisor(d) /\ d.ssp = cpu.ssp
          /\ d.base = cpu.base /\ d.limit = cpu.limit
      BY <1>1, <2>1, StepEnds
    <3>2. i.op = "REBOOT" => d.r = cpu.r
      BY <2>1, <3>1, UserReboot
    <3>3. AnyStep(i, d)
      BY <2>1
    <3> HIDE DEF d
    <3>4. CASE Continue(i, d)
      <4>1. cpu' = Settle(d) /\ phase' = "running"
        BY <3>4 DEF Continue
      <4>2. HasFlag(d.new, SVISOR) = HasFlag(cpu.sr, SVISOR)
        BY <3>1, MarkedFlags
      <4>3. ~Svisor(cpu')
        BY <2>1, <3>1, <4>1, <4>2, SettleType DEF Svisor
      <4> QED
        BY <3>1, <3>2, <4>1, <4>3, SettleType
    <3>5. CASE Throw(i, d) \/ Crash(i, d)
      BY <3>1, <3>2, <3>5 DEF Throw, Crash
    <3> QED
      BY <3>1, <3>3, <3>4, <3>5 DEF AnyStep, Halt, Reboot, RebootFails
  <2>2. CASE FinalDump
    <3>1. clock' = clock /\ clock \in Nat
      BY <1>1, <2>2, MachineAssumption DEF FinalDump, TypeOK, Program
    <3> QED
      BY <3>1
  <2> QED
    BY <1>1, <2>1, <2>2 DEF Next, AnyStep
<1>2. TypeOK /\ [Next]_vars => [P => Q]_vars
  BY <1>1
<1> QED
  BY <1>2, TypeCorrect, PTL DEF Spec, UserIsConfined

-----------------------------------------------------------------------------
(* The last dump, outside of every handler, throws only when the window is *)
(* less than the memory or the walk goes past address 0.                   *)
THEOREM LastDumpEndsWell == Spec => LastDump
<1> DEFINE A == /\ phase \in {"halted", "stopped"}
                /\ phase' = "crashed"
                => \/ cpu.limit < MaxMem
                   \/ 0 \in {cpu.usp, cpu.ssp}
<1>1. ASSUME TypeOK, Next PROVE A
  <2>1. SUFFICES ASSUME phase \in {"halted", "stopped"}, phase' = "crashed",
                        ~(cpu.limit < MaxMem), 0 \notin {cpu.usp, cpu.ssp}
                 PROVE  FALSE
    OBVIOUS
  <2>2. FinalDump
    BY <1>1, <2>1
    DEF Next, Continue, Halt, Reboot, RebootFails, Throw, Crash, Step
  <2>3. /\ cpu.usp \in Word /\ cpu.ssp \in Word /\ cpu.limit \in Word
    BY <1>1 DEF TypeOK, Record, Word
  <2> DEFINE low == IF cpu.usp < cpu.ssp THEN cpu.usp ELSE cpu.ssp
  <2>4. low > 0
    BY <2>1, <2>3, Constants
  <2>5. ASSUME NEW a \in Dumped(low)
        PROVE  LoadFault(cpu, a, 2) # "mmu"
    <3>1. a \in Nat /\ a + 4 <= MaxMem
      BY <2>5, Constants DEF Dumped, Word
    <3>2. a + 4 \in Nat /\ a + 4 < AddrSpace
      BY <3>1, Constants
    <3>3. EndOf(a, 2) = a + 4
      BY <3>2, Constants, ModOfSmall DEF EndOf, Bytes
    <3>4. ~(EndOf(a, 2) > cpu.limit)
      BY <2>1, <2>3, <3>1, <3>3, Constants
    <3> QED
      BY <3>4 DEF LoadFault, LoadRefused
  <2>6. DumpFault(cpu) = "none"
    <3>1. "mmu" \notin {LoadFault(cpu, a, 2) : a \in Dumped(low)}
      BY <2>5
    <3> QED
      BY <2>4, <3>1 DEF DumpFault
  <2> QED
    BY <2>1, <2>2, <2>6 DEF FinalDump
<1>2. TypeOK /\ [Next]_vars => [A]_vars
  BY <1>1
<1> QED
  BY <1>2, TypeCorrect, PTL DEF Spec, LastDump

-----------------------------------------------------------------------------
(* The refinement of Privilege.  A user whose overflow bit is clear: with  *)
(* it, a sum of flags may carry into the supervisor bit in mid-step.       *)
UsersPlain == ~Svisor(cpu) => ~HasFlag(cpu.sr, OVERFLOW)

HaltedByHalt == phase = "halted" => executed.exc = "none" /\ executed.op = "HALT"

LEMMA HaltedNext == TypeOK /\ HaltedByHalt /\ [Next]_vars => HaltedByHalt'
<1> SUFFICES ASSUME TypeOK, HaltedByHalt, [Next]_vars PROVE HaltedByHalt'
  OBVIOUS
<1>1. ASSUME NEW i \in Fetched, AnyStep(i, Execute(cpu, i)) PROVE HaltedByHalt'
  <2> DEFINE d == Execute(cpu, i)
  <2>1. /\ executed'.op = i.op /\ executed'.exc = d.exc
        /\ d.res # "SLEEP" => d.res = i.op /\ d.exc = "none"
    BY <1>1, StepEnds
  <2>2. AnyStep(i, d)
    BY <1>1
  <2> HIDE DEF d
  <2> QED
    BY <2>1, <2>2
    DEF AnyStep, Continue, Halt, Reboot, RebootFails, Throw, Crash, HaltedByHalt
<1>2. CASE FinalDump
  BY <1>2 DEF FinalDump, HaltedByHalt
<1>3. CASE UNCHANGED vars
  BY <1>3 DEF vars, HaltedByHalt
<1> QED
  BY <1>1, <1>2, <1>3 DEF Next, AnyStep

LEMMA ModeIs ==
  /\ phase = "running" => Mode = IF Svisor(cpu) THEN "supervisor" ELSE "user"
  /\ phase = "halted" => Mode = "halted"
  /\ phase \notin {"running", "halted"} =>
       Mode = IF executed.exc = "none" /\ executed.op = "HALT" THEN "halted" ELSE "failed"
  BY DEF Mode

LEMMA PromiseInit == Init => Promise!PInit
<1> SUFFICES ASSUME Init PROVE Promise!PInit
  OBVIOUS
<1>1. TypeOK
  BY InitType
<1>2. <<cpu.base, cpu.limit>> \in Addr \X Addr /\ cpu.ssp \in Word
  BY <1>1 DEF TypeOK, Record
<1>3. Svisor(cpu)
  <2>1. \A fp : CpuInit(Blank(fp)).sr = Wrap(ResetFlags(0) + SVISOR + INT_MAX_S_PR)
    BY DEF CpuInit, Blank
  <2>2. ResetFlags(0) + SVISOR + INT_MAX_S_PR = 3904
    BY DEF ResetFlags, SVISOR, INT_MAX_S_PR
  <2>3. Wrap(3904) = 3904
    <3>1. AddrSpace >= 4096
      BY Constants
    <3>2. 3904 \in Nat /\ 3904 < AddrSpace
      BY <3>1, Constants
    <3> QED
      BY <3>2, WrapSmall
  <2>4. cpu.sr = 3904
    BY <2>1, <2>2, <2>3 DEF Init
  <2> QED
    BY <2>4 DEF Svisor, HasFlag, SVISOR
<1>4. Mode = "supervisor" /\ Event = "ordinary"
  BY <1>3, ModeIs DEF Init, Event
<1> QED
  BY <1>2, <1>4 DEF Promise!PInit

(* Every step of the processor is a step of Privilege.                     *)
LEMMA StepPromised ==
  ASSUME TypeOK, TypeOK', UsersPlain, NEW i \in Fetched, AnyStep(i, Execute(cpu, i))
  PROVE  Promise!PNext
<1> DEFINE d == Execute(cpu, i)
           w == <<cpu.base, cpu.limit>>
<1>1. AnyStep(i, d) /\ phase = "running"
  BY DEF AnyStep, Continue, Halt, Reboot, RebootFails, Throw, Crash, Step
<1>2. /\ cpu \in Record /\ cpu.sr \in Word /\ d \in Record
      /\ executed'.op = i.op /\ executed'.exc = d.exc
      /\ d.res # "SLEEP" =>
           /\ Svisor(cpu) /\ d.res = i.op
           /\ d.exc = "none" /\ d.ssp = cpu.ssp
      /\ i.op # "MMU" => d.base = cpu.base /\ d.limit = cpu.limit
      /\ i.op # "RETEX" => d.new \in Marks(ResetFlags(cpu.sr))
      /\ i.op # "RETEX" /\ ~Svisor(cpu) =>
           d.ssp = cpu.ssp /\ d.base = cpu.base /\ d.limit = cpu.limit
  BY StepEnds DEF UsersPlain
<1>3. w' \in Addr \X Addr /\ cpu'.ssp \in Word
  BY DEF TypeOK, Record
<1>4. Mode = IF Svisor(cpu) THEN "supervisor" ELSE "user"
  BY <1>1, ModeIs
<1>5. /\ i.op = "RETEX" => Event' = "return"
      /\ i.op # "RETEX" /\ i.op = "REBOOT" /\ cpu'.res = "REBOOT" => Event' = "restart"
      /\ i.op # "RETEX" /\ ~(i.op = "REBOOT" /\ cpu'.res = "REBOOT") => Event' = "ordinary"
  BY <1>2 DEF Event
<1>6. \A e \in Record : Settle(e).res = e.res
  BY DEF Settle, Record
<1> HIDE DEF d
<1>7. CASE Continue(i, d)
  <2>1. cpu' = Settle(d) /\ phase' = "running" /\ d.res = "SLEEP"
    BY <1>7 DEF Continue
  <2>2. /\ cpu'.ssp = d.ssp /\ cpu'.base = d.base /\ cpu'.limit = d.limit
        /\ cpu'.sr = d.new /\ cpu'.res = "SLEEP"
    BY <1>2, <1>6, <2>1, SettleType
  <2>3. Mode' = IF Svisor(cpu') THEN "supervisor" ELSE "user"
    BY <2>1 DEF Mode
  <2>4. CASE i.op = "RETEX"
    <3>1. w' = w
      BY <1>2, <2>2, <2>4
    <3>2. Promise!Return
      BY <1>3, <1>4, <1>5, <2>3, <2>4, <3>1 DEF Promise!Return, Promise!Modes
    <3> QED
      BY <3>2 DEF Promise!PNext
  <2>5. CASE i.op # "RETEX"
    <3>1. Event' = "ordinary"
      BY <1>5, <2>2, <2>5
    <3>2. Svisor(cpu') = Svisor(cpu)
      BY <1>2, <2>2, <2>5, MarkedFlags DEF Svisor
    <3>3. CASE Svisor(cpu)
      <4>1. Promise!SupervisorStep
        BY <1>3, <1>4, <2>3, <3>1, <3>2, <3>3 DEF Promise!SupervisorStep
      <4> QED
        BY <4>1 DEF Promise!PNext
    <3>4. CASE ~Svisor(cpu)
      <4>1. Promise!UserStep
        BY <1>2, <1>4, <2>2, <2>3, <2>5, <3>1, <3>2, <3>4 DEF Promise!UserStep
      <4> QED
        BY <4>1 DEF Promise!PNext
    <3> QED
      BY <3>3, <3>4
  <2> QED
    BY <2>4, <2>5
<1>8. CASE Halt(i, d)
  <2>1. cpu' = Settle(d) /\ phase' = "halted" /\ d.res = "HALT"
    BY <1>8 DEF Halt
  <2>2. i.op = "HALT" /\ Svisor(cpu) /\ d.ssp = cpu.ssp /\ w' = w /\ cpu'.ssp = cpu.ssp
    BY <1>2, <2>1, SettleType
  <2>3. Mode' = "halted" /\ Event' = "ordinary"
    BY <1>5, <2>1, <2>2 DEF Mode
  <2>4. Promise!HaltNow
    BY <1>4, <2>2, <2>3 DEF Promise!HaltNow
  <2> QED
    BY <2>4 DEF Promise!PNext
<1>9. CASE Reboot(i, d)
  <2>1. cpu' = CpuInit([Settle(d) EXCEPT !.mem = Program.bios]) /\ phase' = "running"
        /\ d.res = "REBOOT"
    BY <1>9 DEF Reboot
  <2>2. i.op = "REBOOT" /\ Svisor(cpu)
    BY <1>2, <2>1
  <2>3. w' = w /\ cpu'.res = "REBOOT"
    <3>1. /\ cpu'.base = Settle(d).base /\ cpu'.limit = Settle(d).limit
          /\ cpu'.res = Settle(d).res
      BY <1>2, <2>1, SettleType DEF CpuInit, Record
    <3> QED
      BY <1>2, <1>6, <2>1, <2>2, <3>1, SettleType
  <2>4. Mode' = IF Svisor(cpu') THEN "supervisor" ELSE "user"
    BY <2>1 DEF Mode
  <2>5. Promise!Restart
    BY <1>3, <1>4, <1>5, <2>2, <2>3, <2>4 DEF Promise!Restart, Promise!Modes
  <2> QED
    BY <2>5 DEF Promise!PNext
<1>10. CASE RebootFails(i, d) \/ Throw(i, d) \/ Crash(i, d)
  <2>1. phase' \in {"stopped", "crashed"}
    BY <1>10 DEF RebootFails, Throw, Crash
  <2>2. ~(executed'.exc = "none" /\ executed'.op = "HALT")
    BY <1>2, <1>10 DEF RebootFails, Throw, Crash
  <2>3. Mode' = "failed"
    BY <2>1, <2>2 DEF Mode
  <2>4. ~Svisor(cpu) => w' = w
    <3> SUFFICES ASSUME ~Svisor(cpu) PROVE w' = w
      OBVIOUS
    <3>1. d.base = cpu.base /\ d.limit = cpu.limit
      BY <1>2
    <3>2. cpu' = d
      BY <1>2, <1>10 DEF RebootFails, Throw, Crash
    <3> QED
      BY <3>1, <3>2
  <2>5. Event' \in {"ordinary", "return", "restart"}
    BY <1>5
  <2>6. Promise!Error
    BY <1>3, <1>4, <2>3, <2>4, <2>5 DEF Promise!Error, Promise!Modes
  <2> QED
    BY <2>6 DEF Promise!PNext
<1> QED
  BY <1>1, <1>7, <1>8, <1>9, <1>10 DEF AnyStep

LEMMA NextPromised ==
  TypeOK /\ TypeOK' /\ HaltedByHalt /\ UsersPlain /\ [Next]_vars
    => [Promise!PNext]_(Promise!pvars)
<1> SUFFICES ASSUME TypeOK, TypeOK', HaltedByHalt, UsersPlain, [Next]_vars
             PROVE  Promise!PNext \/ UNCHANGED Promise!pvars
  OBVIOUS
<1>1. ASSUME NEW i \in Fetched, AnyStep(i, Execute(cpu, i)) PROVE Promise!PNext
  BY <1>1, StepPromised
<1>2. CASE FinalDump
  <2>1. /\ phase \in {"halted", "stopped"} /\ phase' \in {"finished", "crashed"}
        /\ cpu' = cpu /\ executed' = executed
    BY <1>2 DEF FinalDump
  <2>2. Mode' = Mode
    BY <2>1 DEF Mode, HaltedByHalt
  <2>3. Event' = Event
    BY <2>1 DEF Event
  <2> QED
    BY <2>1, <2>2, <2>3 DEF Promise!pvars
<1>3. CASE UNCHANGED vars
  BY <1>3 DEF vars, Promise!pvars, Mode, Event, Svisor
<1> QED
  BY <1>1, <1>2, <1>3 DEF Next, AnyStep

(* As long as no user has the overflow bit, which RETEX alone can leave    *)
(* set, the machine keeps the promise of the two modes, whatever it runs.  *)
THEOREM PromiseKept == Spec /\ []UsersPlain => KeepsPromise
<1>1. Init => HaltedByHalt
  BY DEF Init, HaltedByHalt
<1> QED
  BY <1>1, InitType, NextType, HaltedNext, PromiseInit, NextPromised, PTL
  DEF Spec, KeepsPromise, Promise!PSpec
=============================================================================
