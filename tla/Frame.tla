------------------------------- MODULE Frame -------------------------------
(***************************************************************************)
(* Frame (src/src/vasm/backend/Frame.cpp): the code that is added to a     *)
(* function for the calling convention, before registers are allocated.    *)
(*                                                                         *)
(* A function is a record: main, its statements stmts, its params (source  *)
(* and destination of each) and the data of its locals on the stack, with  *)
(* the bytes of each and whether it is a text.                             *)
(***************************************************************************)
EXTENDS Statements, FiniteSets

Returns(f) == {k \in DOMAIN f.stmts : f.stmts[k].kind = "return"}

(* Frame::init: the uids the function names, the least one after them.     *)
NamedUIDs(f) ==
  {ShiftArgUID(f.params[k].destination) : k \in DOMAIN f.params} \cup
  UNION {{ShiftArgUID(f.stmts[k].args[j]) : j \in ArgsNaming(f.stmts[k])} :
           k \in {i \in DOMAIN f.stmts : IsInstruction(f.stmts[i])}}

MinNewTemp(f) ==
  CHOOSE t \in {FIRST_TEMPORARY} \cup {u + 1 : u \in NamedUIDs(f)} :
    t >= FIRST_TEMPORARY /\ \A u \in NamedUIDs(f) : u < t

-----------------------------------------------------------------------------
(* mindFunctionParameters                                                  *)
Arriving(f) ==
  [k \in DOMAIN f.params |-> Mov(f.params[k].source, f.params[k].destination)]

(* mindCalleeSaveRegs: none is saved by a function that never returns.     *)
SaveTemp(f, n) == Temp(MinNewTemp(f) + (n - STD_CALLEE_SAVE) - FIRST_TEMPORARY - 1)
SavedRegs(f) ==
  IF Returns(f) = {} THEN <<>>
  ELSE [k \in 1 .. NUM_REGS - STD_CALLEE_SAVE |-> STD_CALLEE_SAVE + k - 1]
Saves(f) ==
  LET regs == Reverse(SavedRegs(f))
  IN  [k \in DOMAIN regs |-> Mov(Reg(regs[k]), SaveTemp(f, regs[k]))]
Restores(f) ==
  LET regs == SavedRegs(f)
  IN  [k \in DOMAIN regs |-> Mov(SaveTemp(f, regs[k]), Reg(regs[k]))]

(* mindReturnStmts, mindParamsFCalls                                       *)
Returned(s) ==
  IF Len(s.args) = 1 THEN <<Mov(s.args[1], Reg(REG_DATA_0))>> ELSE <<>>
Passed(s) ==
  [k \in 1 .. Len(s.args) - 1 |-> Mov(s.args[k + 1], s.params[k].source)]

-----------------------------------------------------------------------------
(* allocateLocalVariables pushes one word for each number and the words of *)
(* each text; getStackedDataSize counts bytes, aligned after each local.   *)
Align4(n) == ((n + 3) \div 4) * 4
WordsOf(d) == IF d.text THEN Align4(d.bytes) \div 4 ELSE 1
Locals(f) ==
  FlattenSeq(Reverse([k \in DOMAIN f.locals |->
    [w \in 1 .. WordsOf(f.locals[k]) |-> Instr("PUSH", <<Const(0)>>)]]))
SizeUnaligned(f) ==                                               (* mutant *)
  LET size[k \in 0 .. Len(f.locals)] ==
        IF k = 0 THEN 0 ELSE size[k - 1] + f.locals[k].bytes
  IN  size[Len(f.locals)]
StackedDataSize(f) ==
  LET size[k \in 0 .. Len(f.locals)] ==
        IF k = 0 THEN 0 ELSE Align4(size[k - 1] + f.locals[k].bytes)
  IN  size[Len(f.locals)]
Deallocation(f) == <<Instr("ADD", <<Const(StackedDataSize(f)), Reg(STACK_POINTER)>>)>>

(* updateFramePointer, unless the frame pointer is omitted.                *)
PushFP(f) == IF f.main THEN <<>> ELSE <<Instr("PUSH", <<Reg(FRAME_POINTER)>>)>>
PopFP(f)  == IF f.main THEN <<>> ELSE <<Instr("POP", <<Reg(FRAME_POINTER)>>)>>
SetFP     == <<Mov(Reg(STACK_POINTER), Reg(FRAME_POINTER))>>

-----------------------------------------------------------------------------
(* What the passes put in front of the function, and of each statement, in *)
(* the order in which they run: each inserts right before a return, but at *)
(* the very front of the function.                                         *)
Prologue(f, omitFP) ==
  (IF omitFP THEN <<>> ELSE PushFP(f) \o SetFP)
    \o Locals(f) \o Saves(f) \o Arriving(f)

Epilogue(f, omitFP, s) ==
  Restores(f) \o Returned(s) \o Deallocation(f)
    \o (IF omitFP THEN <<>> ELSE PopFP(f))

Before(f, omitFP, s) ==
  IF s.kind = "return" THEN Epilogue(f, omitFP, s)
  ELSE IF s.kind = "call" THEN Passed(s) ELSE <<>>

Framed(f, omitFP) ==
  Prologue(f, omitFP) \o
    FlattenSeq([k \in DOMAIN f.stmts |->
                  Append(Before(f, omitFP, f.stmts[k]), f.stmts[k])])
=============================================================================
