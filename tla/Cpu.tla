--------------------------------- MODULE Cpu ---------------------------------
(***************************************************************************)
(* The processor (src/src/Cpu.cpp) as operators on a machine record c:     *)
(* registers, the memory behind the MMU, the devices behind the chipset,   *)
(* and what the step under way has come to.  An operator that can throw    *)
(* leaves alone a record that has already failed, so a composition of them *)
(* stops where the C++ unwinds and keeps what was done before.             *)
(***************************************************************************)
EXTENDS Memory, Devices, Sequences, FiniteSetsExt

CONSTANT
  KeepsOverflowTest  (* signed overflow is undefined: whether the build's  *)
                     (* tests for it see the wrapped value or never fire   *)

ASSUME CpuAssumption ==
  /\ ByteMod \in {8, 16, 32, 64, 128, 256}
  /\ AddrSpace = ByteMod * ByteMod * ByteMod * ByteMod
  /\ AddrSpace % 4096 = 0      (* the twelve bits of the state register    *)
  /\ KeepsOverflowTest \in BOOLEAN

(* A register holds a word, read as an address or as a signed number.      *)
Word == Addr
Wrap(n) == n % AddrSpace
Signed(w) == IF 2 * w < AddrSpace THEN w ELSE w - AddrSpace
Number(lanes) ==
  lanes[0] + ByteMod * (lanes[1] + ByteMod * (lanes[2] + ByteMod * lanes[3]))
Weight == <<1, ByteMod, ByteMod * ByteMod, ByteMod * ByteMod * ByteMod>>
Lanes(w) == [k \in Lane |-> (w \div Weight[k + 1]) % ByteMod]

(* CpuDefinitions.h                                                        *)
CARRY    == 1
OVERFLOW == 2
ZERO     == 4
NEGATIVE == 8
SVISOR   == 64
INT_MAX_S_PR == 15 * 256

HasFlag(f, flag) == (f \div flag) % 2 = 1
(* resetFlags clears carry, overflow, zero and negative: the low four bits *)
ResetLowFlags(f) == f - (f % 4)                                   (* mutant *)
ResetFlags(f) == f - (f % 16)

(* std_istructions.h: the data registers and the special ones.             *)
DataReg == 0 .. 7
SP  == 8
USP == 9
FP  == 10
SR  == 11
PC  == 12

(* How a step can fail: an exception coreStep catches, one of the MMU or   *)
(* of the chipset that it lets through, a trapped division, or an access   *)
(* to memory that does not exist, after which nothing is known.            *)
Outcome == {"none", "wrong", "mmu", "component", "trap", "wild"}
Failed(c) == c.exc # "none"
Fail(c, why) == IF Failed(c) THEN c ELSE [c EXCEPT !.exc = why]

-----------------------------------------------------------------------------
(* Memory accesses of the processor.                                       *)
LoadFault(c, addr, scale) ==
  IF LoadRefused(c.limit, addr, scale) \/ scale = 3 THEN "mmu"
  ELSE IF Wild(c.base, addr, scale) THEN "wild" ELSE "none"
(* toMemorySpace refuses eight bytes before the MMU is asked.              *)
StoreFault(c, addr, scale) ==
  IF scale = 3 THEN "wrong"
  ELSE IF StoreRefused(c.limit, addr, scale) THEN "mmu"
  ELSE IF Wild(c.base, addr, scale) THEN "wild" ELSE "none"

(* fromMemorySpace: narrow data is extended with zeros.                    *)
Load(c, addr, scale) ==
  LET fault == LoadFault(c, addr, scale)
  IN  [exc |-> fault,
       val |-> IF fault = "none"
                 THEN Number(ReadLanes(c.mem, c.base, addr, scale)) ELSE 0]

Store(c, v, addr, scale) ==
  LET fault == StoreFault(c, addr, scale)
  IN  IF Failed(c) \/ fault # "none" THEN Fail(c, fault)
      ELSE [c EXCEPT !.mem = WriteLanes(@, c.base, addr, scale, Lanes(v))]

(* Fetching one word of the instruction, or one of its arguments.          *)
Fetch(c, scale) ==
  LET fault == LoadFault(c, c.pc, scale)
  IN  IF Failed(c) \/ fault # "none" THEN Fail(c, fault)
      ELSE [c EXCEPT !.pc = Wrap(@ + Bytes(scale))]

-----------------------------------------------------------------------------
(* Registers.                                                              *)
Svisor(c) == HasFlag(c.sr, SVISOR)
StackPointer(c) == IF Svisor(c) THEN c.ssp ELSE c.usp
SetSupPointer(c, v) == [c EXCEPT !.ssp = v]                       (* mutant *)
SetStackPointer(c, v) ==
  IF Svisor(c) THEN [c EXCEPT !.ssp = v] ELSE [c EXCEPT !.usp = v]

GetReg(c, n) ==
  CASE n \in DataReg -> c.r[n]
    [] n = SP  -> StackPointer(c)
    [] n = USP -> c.usp
    [] n = FP  -> c.fp
    [] n = SR  -> c.sr
    [] n = PC  -> c.pc

SetReg(c, n, v) ==
  IF Failed(c) THEN c
  ELSE IF n \in DataReg THEN [c EXCEPT !.r[n] = v]
  ELSE IF n = SP  THEN SetStackPointer(c, v)
  ELSE IF n = USP THEN [c EXCEPT !.usp = v]
  ELSE IF n = FP  THEN [c EXCEPT !.fp = v]
  ELSE IF n = PC  THEN [c EXCEPT !.pc = v]
  ELSE IF n = SR /\ Svisor(c) THEN [c EXCEPT !.sr = v]
  ELSE Fail(c, "wrong")                (* SR of a user, no such register   *)

(* The stack pointer moves before a push stores and after a pop loads.     *)
PushBelow(c, v) ==                                                (* mutant *)
  LET sp == StackPointer(c) - 4
  IN  IF Failed(c) THEN c ELSE Store(SetStackPointer(c, sp), v, Wrap(sp), 2)
PushToStack(c, v) ==
  LET sp == Wrap(StackPointer(c) - 4)
  IN  IF Failed(c) THEN c ELSE Store(SetStackPointer(c, sp), v, sp, 2)

Top(c) == Load(c, StackPointer(c), 2)
Drop(c) ==
  IF Failed(c) \/ Top(c).exc # "none" THEN Fail(c, Top(c).exc)
  ELSE SetStackPointer(c, Wrap(StackPointer(c) + 4))

PopTo(c, n) == SetReg(Drop(c), n, Top(c).val)

PushReg(c, n) == PushToStack(c, c.r[n])
PushAllRegs(c) ==
  PushReg(PushReg(PushReg(PushReg(
    PushReg(PushReg(PushReg(PushReg(c, 0), 1), 2), 3), 4), 5), 6), 7)
PopAllUpwards(c) ==                                               (* mutant *)
  PopTo(PopTo(PopTo(PopTo(PopTo(PopTo(PopTo(PopTo(c, 0), 1), 2), 3), 4), 5), 6), 7)
PopAllRegs(c) ==
  PopTo(PopTo(PopTo(PopTo(PopTo(PopTo(PopTo(PopTo(c, 7), 6), 5), 4), 3), 2), 1), 0)

-----------------------------------------------------------------------------
(* Arguments.  The modifier of an indexed argument is that of its index,   *)
(* of any other that of its register.                                      *)
ArgType == {"IMMED", "REG", "DIRECT", "REG_INDIR", "MEM_INDIR", "DISPLACED",
            "INDEXED", "INDX_DISP"}
Modifier == {"NO_ACTION", "PRE_INCR", "PRE_DECR", "POST_INCR", "POST_DECR"}

Argument ==
  [type : ArgType, scale : Scale, reg : Nat, mod : Modifier, index : Nat,
   displ : Int, val : Word]
(* The word of an instruction has two bits for their number.               *)
Instruction == {i \in [op : STRING, args : Seq(Argument)] : Len(i.args) <= 3}

Indexed(a) == a.type \in {"INDEXED", "INDX_DISP"}
RegsOf(a) ==
  IF a.type \in {"IMMED", "DIRECT"} THEN {}
  ELSE IF Indexed(a) THEN {a.reg, a.index} ELSE {a.reg}
Stepped(a) == IF Indexed(a) THEN a.index ELSE a.reg

UnitOne(a) == 1                                                   (* mutant *)
Unit(a) == IF Indexed(a) \/ a.type = "REG" THEN 1 ELSE Bytes(a.scale)
Pre(a) ==
  IF a.mod = "PRE_INCR" THEN Unit(a)
  ELSE IF a.mod = "PRE_DECR" THEN -Unit(a) ELSE 0
Post(a) ==
  IF a.mod = "POST_INCR" THEN Unit(a)
  ELSE IF a.mod = "POST_DECR" THEN -Unit(a) ELSE 0
IsAutoIncrDecrArg(a) == RegsOf(a) # {} /\ a.mod # "NO_ACTION"

(* The address an argument names before memory is looked at.               *)
ArgAddr(c, a) ==
  Wrap(CASE a.type = "DIRECT" -> a.val
         [] a.type \in {"REG_INDIR", "MEM_INDIR"} -> GetReg(c, a.reg) + Pre(a)
         [] a.type = "DISPLACED" -> GetReg(c, a.reg) + Pre(a) + a.displ
         [] a.type = "INDEXED" ->
              GetReg(c, a.reg) + (Pre(a) + GetReg(c, a.index)) * Bytes(a.scale)
         [] a.type = "INDX_DISP" ->
              GetReg(c, a.reg) + (Pre(a) + GetReg(c, a.index)) * Bytes(a.scale)
                + a.displ)

(* storeArg computes it anew, from what the instruction left in registers. *)
StoreAddrStepped(c, a) == Wrap(ArgAddr(c, a) + Post(a))           (* mutant *)
StoreAddrBare(c, a) == Wrap(ArgAddr(c, a) - a.displ)              (* mutant *)
StoreAddr(c, a) == ArgAddr(c, a)

KnownRegs(a) == \A n \in RegsOf(a) : n <= PC

LoadArg(c, a) ==
  IF ~KnownRegs(a) THEN [exc |-> "wrong", val |-> 0]
  ELSE CASE a.type = "IMMED" -> [exc |-> "none", val |-> a.val]
         [] a.type = "REG" ->
              [exc |-> "none", val |-> Wrap(GetReg(c, a.reg) + Pre(a))]
         [] a.type = "MEM_INDIR" ->
              LET pointer == Load(c, ArgAddr(c, a), 2)
              IN  IF pointer.exc # "none" THEN pointer
                  ELSE Load(c, pointer.val, a.scale)
         [] OTHER -> Load(c, ArgAddr(c, a), a.scale)

(* The register of a memory argument is written back whatever its modifier *)
StoreArg(c, v, a) ==
  LET addr == StoreAddr(c, a)
      writeBack(d) ==
        SetReg(d, Stepped(a), Wrap(GetReg(c, Stepped(a)) + Pre(a) + Post(a)))
      pointer == Load(c, addr, 2)
  IN  IF Failed(c) THEN c
      ELSE IF a.type = "IMMED" \/ ~KnownRegs(a) THEN Fail(c, "wrong")
      ELSE IF a.type = "REG" THEN SetReg(c, a.reg, Wrap(v + Post(a)))
      ELSE IF a.type = "DIRECT" THEN Store(c, v, addr, a.scale)
      ELSE IF a.type # "MEM_INDIR" THEN writeBack(Store(c, v, addr, a.scale))
      ELSE IF pointer.exc # "none" THEN Fail(c, pointer.exc)
      ELSE writeBack(Store(c, v, pointer.val, a.scale))

-----------------------------------------------------------------------------
(* Instructions.  c.new is newFlags, which coreStep makes the flags when   *)
(* the step ends; c.sr is flags while it runs.                             *)
SetNew(c, flag) == IF Failed(c) THEN c ELSE [c EXCEPT !.new = Wrap(@ + flag)]
ArithmFlags(w) == IF Signed(w) < 0 THEN NEGATIVE ELSE IF w = 0 THEN ZERO ELSE 0

(* flags += F_OVERFLOW, where the result moved against the operation.      *)
Overflows(old, result) ==
  old > IF KeepsOverflowTest THEN Signed(Wrap(result)) ELSE result
Underflows(old, result) ==
  old < IF KeepsOverflowTest THEN Signed(Wrap(result)) ELSE result
Raise(c, overflow) ==
  IF ~Failed(c) /\ overflow THEN [c EXCEPT !.sr = Wrap(@ + OVERFLOW)] ELSE c

Jump(c, taken, t) ==
  IF ~Failed(c) /\ taken THEN [c EXCEPT !.pc = Wrap(@ + t)] ELSE c

(* Bitwise operations on words, byte by byte.                              *)
AndByte(p, q) ==
  LET Both(b) == IF HasFlag(p, b) /\ HasFlag(q, b) THEN b ELSE 0
  IN  Both(1) + Both(2) + Both(4) + Both(8) + Both(16) + Both(32) + Both(64) + Both(128)
AndBits(x, y) == Number([k \in Lane |-> AndByte(Lanes(x)[k], Lanes(y)[k])])

(* Division of C: towards zero.                                            *)
Quotient(x, y) ==
  LET Abs(n) == IF n < 0 THEN -n ELSE n
      q == Abs(x) \div Abs(y)
  IN  IF (x < 0) = (y < 0) THEN q ELSE -q
(* Division by zero, and of the least number by -1, stop the process.      *)
Traps(x, y) == y = 0 \/ (y = -1 /\ 2 * x = -AddrSpace)

(* The one- and two-argument instructions that store their last argument.  *)
OneArgWrites == {"NOT", "INCR", "DECR", "COMP2", "LSH", "RSH", "POP"}
TwoArgWrites == {"MOV", "ADD", "MULT", "SUB", "DIV", "QUOT", "AND", "OR", "XOR", "GET"}

(* dumpRegistersAndMemory walks from the top of the memory to the lower    *)
(* stack pointer through the MMU; past 0 it goes on from the top of the    *)
(* address space, where the limit is wrapped once and then refuses.        *)
DumpedFromEnd(low) == {a \in 0 .. MaxMem : a % 4 = 0 /\ a >= low}  (* mutant *)
Dumped(low) == {a \in 0 .. MaxMem - 4 : a % 4 = 0 /\ a >= low}

DumpFault(c) ==
  LET low == IF c.usp < c.ssp THEN c.usp ELSE c.ssp
      faults == {LoadFault(c, a, 2) : a \in Dumped(low)}
  IN  IF "mmu" \in faults THEN "mmu"
      ELSE IF low > 0 THEN "none"
      ELSE IF LoadFault(c, Wrap(-4), 2) = "wild" THEN "wild" ELSE "mmu"

(* RETEX adds the supervisor bit: a user pops from the supervisor stack, a *)
(* supervisor, whose bit the sum carries away, from the user stack.        *)
ReturnFromException(c) ==
  LET c1 == [c EXCEPT !.sr = Wrap(@ + SVISOR)]
      c2 == PopTo(c1, PC)
      c3 == Drop(c2)
  IN  IF Failed(c3) THEN c3 ELSE [c3 EXCEPT !.new = Top(c2).val]

InstructsZeroArg(c, op) ==
  IF Failed(c) \/ op = "SLEEP" THEN c
  ELSE IF op \in {"REBOOT", "HALT"}
    THEN [c EXCEPT !.res = IF Svisor(c) THEN op ELSE "SLEEP"]
  ELSE IF op = "PUSHA" THEN PushAllRegs(c)
  ELSE IF op = "POPA"  THEN PopAllRegs(c)
  ELSE IF op = "RET"   THEN PopTo(c, PC)
  ELSE IF op = "RETEX" THEN ReturnFromException(c)
  ELSE IF op = "DUMP"  THEN Fail(c, DumpFault(c))
  ELSE Fail(c, "wrong")

(* What the switch leaves in temp.                                         *)
OneArgValue(c, op, t) ==
  CASE op = "NOT"   -> AddrSpace - 1 - t
    [] op = "INCR"  -> Wrap(t + 1)
    [] op = "DECR"  -> Wrap(t - 1)
    [] op = "COMP2" -> Wrap(-t)
    [] op = "LSH"   -> Wrap(2 * t)
    [] op = "RSH"   -> Wrap(Signed(t) \div 2)
    [] op = "POP"   -> Top(c).val
    [] OTHER -> t

(* The conditional jumps look at the flags of the step before.             *)
JumpsOn == [IFJ |-> ZERO, TZJ |-> ZERO, TCJ |-> CARRY, TOJ |-> OVERFLOW,
            TNJ |-> NEGATIVE, TSJ |-> SVISOR]

OneArgEffect(c, op, t) ==
  IF op \in {"NOT", "COMP2", "LSH", "RSH"} THEN c
  ELSE IF op = "INCR" THEN Raise(c, Overflows(Signed(t), Signed(t) + 1))
  ELSE IF op = "DECR" THEN Raise(c, Underflows(Signed(t), Signed(t) - 1))
  ELSE IF op = "STACK" THEN SetStackPointer(c, t)
  ELSE IF op = "PUSH" THEN PushToStack(c, t)
  ELSE IF op = "POP"  THEN Drop(c)
  ELSE IF op = "JSR"  THEN Jump(PushToStack(c, c.pc), TRUE, t)
  ELSE IF op = "JMP"  THEN Jump(c, TRUE, t)
  ELSE IF op = "IFNJ" THEN Jump(c, ~HasFlag(c.sr, ZERO), t)
  ELSE IF op \in DOMAIN JumpsOn THEN Jump(c, HasFlag(c.sr, JumpsOn[op]), t)
  ELSE Fail(c, "wrong")

InstructsOneArg(c, op, a) ==
  LET loaded == LoadArg(c, a)
      c1 == OneArgEffect(c, op, loaded.val)
      t  == OneArgValue(c, op, loaded.val)
  IN  IF Failed(c) \/ loaded.exc # "none" THEN Fail(c, loaded.exc)
      ELSE IF op \in OneArgWrites \/ IsAutoIncrDecrArg(a)
        THEN StoreArg(SetNew(c1, ArithmFlags(t)), t, a)
        ELSE c1

TwoArgValue(c, op, t1, t2) ==
  CASE op = "MOV"  -> t1
    [] op = "ADD"  -> Wrap(t2 + t1)
    [] op = "MULT" -> Wrap(Signed(t2) * Signed(t1))
    [] op = "SUB"  -> Wrap(t2 - t1)
    [] op \in {"DIV", "QUOT"} ->
         LET q == IF Traps(Signed(t2), Signed(t1)) THEN 0
                  ELSE Quotient(Signed(t2), Signed(t1))
         IN  Wrap(IF op = "DIV" THEN q ELSE Signed(t2) - q * Signed(t1))
    [] op = "AND"  -> AndBits(t2, t1)
    [] op = "OR"   -> Wrap(t2 + t1 - AndBits(t2, t1))
    [] op = "XOR"  -> Wrap(t2 + t1 - 2 * AndBits(t2, t1))
    [] op = "GET"  -> IF t1 \in Device THEN c.dev[t1].resp ELSE 0
    [] OTHER -> t2

(* MMU moves the window for a supervisor and does nothing for a user.      *)
SetLimits(c, newBase, newLimit) ==
  IF \/ newBase > MaxMem \/ newLimit > MaxMem
     \/ Wrap(newBase + newLimit) > MaxMem
    THEN Fail(c, "mmu")
  ELSE [c EXCEPT !.base = newBase, !.limit = newLimit]
ResetLimitsByAll(c, newBase, newLimit) == SetLimits(c, newBase, newLimit)  (* mutant *)
ResetLimitsTo(c, newBase, newLimit) ==
  IF Svisor(c) THEN SetLimits(c, newBase, newLimit) ELSE c

(* singlePutToComponent: the device in the low half, the request in the    *)
(* low byte of the high half of the signal.                                *)
SinglePut(c, signal, arg) ==
  LET half == ByteMod * ByteMod
      n == signal % half
  IN  IF n \notin Device THEN Fail(c, "component")
      ELSE [c EXCEPT !.dev = Put(@, n, (signal \div half) % ByteMod, arg)]

(* singleGetFromComponent lets the number of devices itself through, and   *)
(* then reads past the end of the vector.                                  *)
SingleGet(c, n) ==
  IF n > Cardinality(Device) THEN Fail(c, "component")
  ELSE IF n = Cardinality(Device) THEN Fail(c, "wild")
  ELSE [c EXCEPT !.dev = Get(@, n)]

Compare(op, x, y) ==
  CASE op = "EQ" -> x = y
    [] op = "LO" -> x < y
    [] op = "MO" -> x > y
    [] op = "LE" -> x <= y
    [] op = "ME" -> x >= y
    [] op = "NEQ" -> x # y
Comparisons == {"EQ", "LO", "MO", "LE", "ME", "NEQ"}

TwoArgEffect(c, op, t1, t2) ==
  LET x == Signed(t1)
      y == Signed(t2)
  IN  IF op \in {"MOV", "AND", "OR", "XOR"} THEN c
      ELSE IF op = "ADD"  THEN Raise(c, Overflows(y, y + x))
      ELSE IF op = "MULT" THEN Raise(c, Overflows(y, y * x))
      ELSE IF op = "SUB"  THEN Raise(c, Underflows(y, y - x))
      ELSE IF op \in {"DIV", "QUOT"}
        THEN (IF Traps(y, x) THEN Fail(c, "trap") ELSE c)
      ELSE IF op = "MMU"  THEN ResetLimitsTo(c, t1, t2)
      ELSE IF op = "PUT"  THEN SinglePut(c, t2, t1)
      ELSE IF op = "GET"  THEN SingleGet(c, t1)
      ELSE IF op \in Comparisons
        THEN (IF Compare(op, x, y) THEN SetNew(c, ZERO) ELSE c)
      ELSE Fail(c, "wrong")

(* The second argument is stored first; then the first one, if it steps.   *)
InstructsTwoArg(c, op, a1, a2) ==
  LET l1 == LoadArg(c, a1)
      l2 == LoadArg(c, a2)
      c1 == TwoArgEffect(c, op, l1.val, l2.val)
      t2 == TwoArgValue(c, op, l1.val, l2.val)
      c2 == IF op \in TwoArgWrites \/ IsAutoIncrDecrArg(a2)
              THEN StoreArg(SetNew(c1, ArithmFlags(t2)), t2, a2) ELSE c1
  IN  IF Failed(c) \/ l1.exc # "none" THEN Fail(c, l1.exc)
      ELSE IF l2.exc # "none" THEN Fail(c, l2.exc)
      ELSE IF IsAutoIncrDecrArg(a1) THEN StoreArg(c2, l1.val, a1) ELSE c2

IfJumpsSwapped == [IFEQJ |-> "EQ", IFNEQJ |-> "NEQ", IFLOJ |-> "MO",
                   IFMOJ |-> "LO", IFLEJ |-> "LE", IFMEJ |-> "ME"]   (* mutant *)
IfJumps == [IFEQJ |-> "EQ", IFNEQJ |-> "NEQ", IFLOJ |-> "LO", IFMOJ |-> "MO",
            IFLEJ |-> "LE", IFMEJ |-> "ME"]

ThreeArgEffect(c, op, t1, t2, t3) ==
  IF op \in {"BPUT", "BGET"} THEN c
  ELSE IF op \in DOMAIN IfJumps
    THEN Jump(c, Compare(IfJumps[op], Signed(t2), Signed(t3)), t1)
  ELSE Fail(c, "wrong")

InstructsThreeArg(c, op, a1, a2, a3) ==
  LET l1 == LoadArg(c, a1)
      l2 == LoadArg(c, a2)
      l3 == LoadArg(c, a3)
      StepBack(d, v, a) == IF IsAutoIncrDecrArg(a) THEN StoreArg(d, v, a) ELSE d
      c1 == ThreeArgEffect(c, op, l1.val, l2.val, l3.val)
  IN  IF Failed(c) \/ l1.exc # "none" THEN Fail(c, l1.exc)
      ELSE IF l2.exc # "none" THEN Fail(c, l2.exc)
      ELSE IF l3.exc # "none" THEN Fail(c, l3.exc)
      ELSE StepBack(StepBack(StepBack(c1, l1.val, a1), l2.val, a2), l3.val, a3)

-----------------------------------------------------------------------------
(* coreStep up to the catch: fetch the instruction and its arguments, then *)
(* execute it by its number of arguments.                                  *)
FetchArg(c, a) == Fetch(c, IF a.type = "IMMED" THEN a.scale ELSE 2)

Execute(c, i) ==
  LET n  == Len(i.args)
      A(k) == i.args[k]
      d0 == Fetch([c EXCEPT !.new = ResetFlags(c.sr), !.res = "SLEEP"], 2)
      d1 == FetchArg(d0, A(1))
      d2 == FetchArg(d1, A(2))
  IN  IF n = 0 THEN InstructsZeroArg(d0, i.op)
      ELSE IF n = 1 THEN InstructsOneArg(d1, i.op, A(1))
      ELSE IF n = 2 THEN InstructsTwoArg(d2, i.op, A(1), A(2))
      ELSE InstructsThreeArg(FetchArg(d2, A(3)), i.op, A(1), A(2), A(3))

(* The catch and what follows: the flags of a finished step are newFlags,  *)
(* also when the instruction or an argument was wrong.                     *)
Completes(d) == d.exc \in {"none", "wrong"}
Settle(d) == [d EXCEPT !.exc = "none", !.sr = d.new]

(* init: the stack pointers start at the limit the MMU has now, and the    *)
(* flags are added to, not assigned.                                       *)
CpuInit(c) ==
  LET top == Wrap(c.limit - 4)
  IN  [c EXCEPT !.pc = 0, !.sr = Wrap(ResetFlags(@) + SVISOR + INT_MAX_S_PR),
                !.r = [n \in DataReg |-> 0], !.usp = top, !.ssp = top]
=============================================================================
