----------------------------- MODULE Statements -----------------------------
(***************************************************************************)
(* The low-level IR the back end edits (src/src/vasm/IR): statements and   *)
(* their arguments, and what the processor does with the registers that an *)
(* instruction names, which is what every pass has to preserve.            *)
(***************************************************************************)
EXTENDS Integers, Sequences, SequencesExt

CONSTANTS
  NUM_REGS,         (* data registers: 8 in the code                       *)
  STD_CALLEE_SAVE   (* the first one that the callee saves: 5 in the code  *)

ASSUME StatementsAssumption ==
  /\ NUM_REGS \in Nat
  /\ STD_CALLEE_SAVE \in 1 .. NUM_REGS

(* Registers, std_istructions.h.                                           *)
REG_DATA_0      == 0
STACK_POINTER   == NUM_REGS
FRAME_POINTER   == NUM_REGS + 2
FIRST_TEMPORARY == NUM_REGS + 5

-----------------------------------------------------------------------------
(* Arguments.  num is the union that holds a register, a temporary's uid   *)
(* or a constant.                                                          *)
Reg(n) == [type |-> "REG", temp |-> FALSE, num |-> n, mod |-> "NO_ACTION",
           index |-> 0, indexTemp |-> FALSE]
Temp(n)  == [Reg(n) EXCEPT !.temp = TRUE]
Const(k) == [Reg(k) EXCEPT !.type = "IMMED"]
Label(l) == [type |-> "LABEL", label |-> l]

(* A memory argument through a register, and one that steps it.            *)
Through(a, type) == [a EXCEPT !.type = type]
Stepping(a)      == [a EXCEPT !.mod = "POST_INCR"]

IsLabel(a)     == a.type = "LABEL"
IsTemporary(a) == ~IsLabel(a) /\ a.temp
IsReg(a)       == a.type \notin {"LABEL", "IMMED", "DIRECT"}
Names(a)       == IsTemporary(a) \/ IsReg(a)
IsIndexed(a)   == a.type \in {"INDEXED", "INDX_DISP"}
Steps(a)       == Names(a) /\ a.mod # "NO_ACTION"

(* Frame::shiftArgUID: registers come first, then the special ones.        *)
Shift(n, temp) == (IF temp THEN FIRST_TEMPORARY ELSE 0) + 1 + n
ShiftArgUID(a) == Shift(a.num, a.temp)
IndexUID(a)    == Shift(a.index, a.indexTemp)
ShiftedIsSpecialReg(uid) == uid > STACK_POINTER /\ uid <= FIRST_TEMPORARY

-----------------------------------------------------------------------------
(* Statements.                                                             *)
Instr(op, args) == [kind |-> "instruction", op |-> op, args |-> args]
Mov(from, to)   == Instr("MOV", <<from, to>>)
Place(l)        == [kind |-> "label", label |-> l]
Return(args)    == [kind |-> "return", op |-> "RET", args |-> args]
(* params are those of the function called, as importParameters copies     *)
(* them: where it expects its arguments, and where it moves them.          *)
Call(f, args, params) ==
  [kind |-> "call", op |-> "JSR", args |-> <<Label(f)>> \o args, params |-> params]

IsInstruction(s) == s.kind # "label"
ArgsNaming(s) == {k \in DOMAIN s.args : Names(s.args[k])}

CalleeSaves == STD_CALLEE_SAVE .. NUM_REGS - 1
CallerSaves == 0 .. STD_CALLEE_SAVE - 1

-----------------------------------------------------------------------------
(* What an instruction does to registers and temporaries, by uid: Cpu.cpp, *)
(* and the calling convention for a call.                                  *)
Ordinary(uids) == {u \in uids : ~ShiftedIsSpecialReg(u)}
Unary  == {"NOT", "INCR", "DECR", "COMP2", "LSH", "RSH", "POP"}
Binary == {"MOV", "ADD", "MULT", "SUB", "DIV", "QUOT", "AND", "OR", "XOR", "GET"}
Overwrites == {"MOV", "POP", "GET"}

(* The argument an instruction stores into, if any.                        *)
Target(s) == IF s.op \in Binary THEN {2}
             ELSE IF s.op \in Unary THEN {1}
             ELSE IF s.op = "BGET" THEN {3} ELSE {}

AddressUIDs(a) == {ShiftArgUID(a)} \cup (IF IsIndexed(a) THEN {IndexUID(a)} ELSE {})
Stepped(a) == IF IsIndexed(a) THEN IndexUID(a) ELSE ShiftArgUID(a)

ReadsOf(s) ==
  Ordinary(
    CASE s.kind = "label" -> {}
      [] s.kind = "return" -> {Shift(n, FALSE) : n \in CalleeSaves}
      [] s.kind = "call" -> {ShiftArgUID(s.params[k].source) : k \in DOMAIN s.params}
      [] OTHER -> UNION {AddressUIDs(s.args[k]) : k \in
                    {j \in ArgsNaming(s) : ~(/\ s.op \in Overwrites
                                             /\ j \in Target(s)
                                             /\ s.args[j].type = "REG")}})

Stores(s) ==
  CASE s.kind \in {"label", "return"} -> {}
    [] s.kind = "call" -> {Shift(n, FALSE) : n \in CallerSaves}
    [] OTHER -> {ShiftArgUID(s.args[k]) : k \in
                   {j \in Target(s) : s.args[j].type = "REG"}}
                \cup {Stepped(s.args[k]) : k \in
                        {j \in ArgsNaming(s) : Steps(s.args[j])}}

WritesOf(s) == Ordinary(Stores(s))

(* The value of one is that of the other afterwards.                       *)
IsCopy(s) == /\ IsInstruction(s) /\ s.op = "MOV"
             /\ \A k \in 1 .. 2 : /\ s.args[k].type = "REG"
                                  /\ ~Steps(s.args[k])
                                  /\ ~ShiftedIsSpecialReg(ShiftArgUID(s.args[k]))
=============================================================================
