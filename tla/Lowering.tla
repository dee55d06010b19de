------------------------------- MODULE Lowering -------------------------------
(***************************************************************************)
(* A function of the assembler as Compiled takes it: the statements Frame  *)
(* has completed, each with what AssemFlowGraph takes it to do and what    *)
(* the processor does for it.                                              *)
(***************************************************************************)
EXTENDS Compiled, Frame, AssemFlowGraph

ASSUME LoweringAssumption ==
  /\ Registers = {Shift(n, FALSE) : n \in 0 .. NUM_REGS - 1}
  /\ CalleeSaved = {Shift(n, FALSE) : n \in CalleeSaves}

(* What the processor does to the stack and the frame pointer (Cpu.cpp).   *)
EffectOf(s) ==
  IF ~IsInstruction(s) THEN [kind |-> "none"]
  ELSE IF s.kind = "return" THEN [kind |-> "return"]
  ELSE IF s.op = "HALT" THEN [kind |-> "halt"]
  ELSE IF s.op = "PUSH"
    THEN [kind |-> IF s.args[1] = Reg(FRAME_POINTER) THEN "pushFP" ELSE "push"]
  ELSE IF s.op = "POP"
    THEN [kind |-> IF s.args[1] = Reg(FRAME_POINTER) THEN "popFP" ELSE "pop"]
  ELSE IF IsMov(s) /\ s.args[2] = Reg(FRAME_POINTER) THEN [kind |-> "setFP"]
  ELSE IF s.op = "ADD" /\ s.args[2] = Reg(STACK_POINTER)
    THEN [kind |-> "release", words |-> s.args[1].num \div 4]
  ELSE [kind |-> "none"]

(* What is to be in a register when the statement runs.                    *)
CarriesOf(s) ==
  IF s.kind = "return" /\ Len(s.args) = 1
    THEN {<<ShiftArgUID(s.args[1]), Shift(REG_DATA_0, FALSE)>>}
  ELSE IF s.kind = "call"
    THEN {<<ShiftArgUID(s.args[k + 1]), ShiftArgUID(s.params[k].source)>> : k \in DOMAIN s.params}
  ELSE {}

OfAllocated(pairs) == {p \in pairs : Ordinary({p[1], p[2]}) = {p[1], p[2]}}

GraphOf(stmts, isMain) ==
  [size |-> Len(stmts), main |-> isMain, throws |-> ArcsThrow(stmts),
   succs    |-> <<>> \o [n \in DOMAIN stmts |-> SuccsOf(stmts, n)],
   uses     |-> <<>> \o [n \in DOMAIN stmts |-> UsesOf(stmts[n])],
   defs     |-> <<>> \o [n \in DOMAIN stmts |-> DefsOf(stmts[n])],
   isMove   |-> <<>> \o [n \in DOMAIN stmts |-> IsMoveOf(stmts[n])],
   reads    |-> <<>> \o [n \in DOMAIN stmts |-> ReadsOf(stmts[n])],
   writes   |-> <<>> \o [n \in DOMAIN stmts |-> WritesOf(stmts[n])],
   copies   |-> <<>> \o [n \in DOMAIN stmts |-> IsCopy(stmts[n])],
   compared |-> <<>> \o [n \in DOMAIN stmts |-> OfAllocated(Compared(stmts[n]))],
   idle     |-> <<>> \o [n \in DOMAIN stmts |-> UselessArithmetic(stmts[n])],
   effect   |-> <<>> \o [n \in DOMAIN stmts |-> EffectOf(stmts[n])],
   carries  |-> <<>> \o [n \in DOMAIN stmts |-> OfAllocated(CarriesOf(stmts[n]))]]

Build(f, omitFP) == GraphOf(Framed(f, omitFP), f.main)

-----------------------------------------------------------------------------
(* The functions whose statements the assembler takes for what they are.   *)
InRegister(a) == a.type = "REG" /\ ~Steps(a)
InDataRegister(a) == InRegister(a) /\ ~a.temp /\ a.num \in 0 .. NUM_REGS - 1

(* A move of what is in memory is none, and what is removed steps nothing. *)
MovUnderstood(s) ==
  /\ DOMAIN s.args = {1, 2}
  /\ MovIsMove(s) => s.args[1].type = "REG" /\ ~Steps(s.args[2])
  /\ Compared(s) # {} => ~Steps(s.args[1]) /\ ~Steps(s.args[2])

(* Nothing else steps, and POP and BGET are no defines (_argIsDefined).    *)
OtherUnderstood(s) ==
  /\ Target(s) \subseteq DOMAIN s.args
  /\ \A k \in ArgsNaming(s) : Steps(s.args[k]) => ShiftedIsSpecialReg(ShiftArgUID(s.args[k]))
  /\ s.op \in {"POP", "BGET"} =>
       \A k \in Target(s) :
         s.args[k].type = "REG" => ShiftedIsSpecialReg(ShiftArgUID(s.args[k]))

(* The index of an argument is no use (_moveInstr, _findUsesDefines).      *)
InstructionUnderstood(s) ==
  /\ \A k \in ArgsNaming(s) :
       /\ s.args[k].type = "REG" \/ IsMemory(s.args[k])
       /\ IsIndexed(s.args[k]) => ShiftedIsSpecialReg(IndexUID(s.args[k]))
  /\ IF s.op = "MOV" THEN MovUnderstood(s) ELSE OtherUnderstood(s)

(* What is passed and returned is moved to its register (Frame).           *)
Understood(s) ==
  /\ s.kind \in {"label", "instruction", "call", "return"}
  /\ s.kind = "instruction" => InstructionUnderstood(s)
  /\ s.kind \in {"call", "return"} =>
       /\ s.op = IF s.kind = "call" THEN "JSR" ELSE "RET"
       /\ s.args \in Seq(Range(s.args))
       /\ \A k \in ArgsNaming(s) : InRegister(s.args[k])
       /\ \A k \in DOMAIN s.args \ ArgsNaming(s) : s.kind = "call" /\ k = 1
  /\ s.kind = "call" =>
       /\ s.params \in Seq(Range(s.params)) /\ Len(s.args) = 1 + Len(s.params)
       /\ \A p \in Range(s.params) : InDataRegister(p.source)

FunctionUnderstood(f) ==
  /\ f.stmts \in Seq(Range(f.stmts))
  /\ f.params \in Seq(Range(f.params))
  /\ f.locals \in Seq(Range(f.locals))
  /\ \A d \in Range(f.locals) : d.bytes \in Nat
  /\ \A p \in Range(f.params) : InRegister(p.source) /\ InRegister(p.destination)
  /\ \A s \in Range(f.stmts) : Understood(s)

(* Those whose arguments all arrive: none is in the register of another.   *)
PassedApart(f) ==
  \A s \in Range(f.stmts) : s.kind = "call" =>
    \A j, k \in DOMAIN s.params :
      j # k => ShiftArgUID(s.params[j].source) \notin
                 {ShiftArgUID(s.params[k].source), ShiftArgUID(s.args[k + 1])}

(* Those that leave stack and frame pointer to Frame, and whose locals take *)
(* of the stack what is pushed for them.                                   *)
LeavesFrame(s) ==
  /\ IsInstruction(s) => /\ s.args \in Seq(Range(s.args))
                         /\ \A k \in ArgsNaming(s) : s.args[k].num \in Nat
  /\ s.kind = "instruction" =>
       /\ s.op \notin {"PUSH", "POP"}
       /\ Stores(s) \cap {Shift(STACK_POINTER, FALSE), Shift(FRAME_POINTER, FALSE)} = {}

FrameLeft(f) ==
  /\ \A d \in Range(f.locals) : d.text \/ d.bytes \in 1 .. 4
  /\ \A p \in Range(f.params) : p.destination.temp /\ p.destination.num \in Nat
  /\ \A s \in Range(f.stmts) : LeavesFrame(s)
=============================================================================
