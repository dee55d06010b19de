----------------------------- MODULE MCCompiled ------------------------------
(* Small functions, through Frame and AssemFlowGraph.                      *)
EXTENDS Lowering

T(n) == Temp(n)
P(n) == [source |-> Reg(n - 1), destination |-> Temp(n)]
In(n) == P(n).source
Number(bytes)  == [bytes |-> bytes, text |-> FALSE]
Text(bytes) == [bytes |-> bytes, text |-> TRUE]
Fn(params, locals, stmts) ==
  [main |-> FALSE, params |-> params, locals |-> locals, stmts |-> stmts]

(* loop: README's print. Counts what a pointer steps over.                 *)
Loop == Fn(<<P(1)>>, <<>>,
  <<Mov(Const(0), T(2)), Place("test"),
    Instr("EQ", <<Through(T(1), "REG_INDIR"), Label("end")>>), Instr("IFJ", <<Label("exit")>>),
    Instr("MOV", <<Stepping(Through(T(1), "REG_INDIR")), T(3)>>),
    Instr("ADD", <<T(3), T(2)>>), Instr("JMP", <<Label("test")>>),
    Place("exit"), Return(<<T(2)>>)>>)

(* Moves on the way to a call, two arguments, a result.  No value of its    *)
(* own lives across the call: the saved registers fill those that survive. *)
Caller == Fn(<<P(1), P(2)>>, <<Number(4), Number(1)>>,
  <<Mov(T(2), T(3)), Call("g", <<T(3), T(1)>>, <<P(1), P(2)>>),
    Mov(Reg(REG_DATA_0), T(2)), Instr("INCR", <<T(2)>>), Return(<<T(2)>>)>>)

(* Two ways to one place, each of which gives the temporary a value.       *)
Diamond == Fn(<<P(1)>>, <<Text(6), Number(4)>>,
  <<Instr("LO", <<T(1), Const(3)>>), Instr("IFJ", <<Label("other")>>),
    Mov(T(1), T(2)), Instr("INCR", <<T(1)>>), Instr("JMP", <<Label("both")>>),
    Place("other"), Mov(Const(1), T(2)), Place("both"),
    Instr("SUB", <<T(2), T(1)>>), Return(<<T(2)>>)>>)

(* A temporary and its copy, in one instruction that changes the copy.     *)
Doubled == Fn(<<P(1)>>, <<>>,
  <<Mov(T(1), T(2)), Instr("ADD", <<T(1), T(2)>>), Instr("SUB", <<T(1), T(2)>>),
    Return(<<T(2)>>)>>)

(* A temporary one of the ways leaves without a value.                     *)
Forgetful == Fn(<<P(1)>>, <<>>,
  <<Instr("LO", <<T(1), Const(3)>>), Instr("IFJ", <<Label("both")>>),
    Mov(T(1), T(2)), Place("both"), Return(<<T(2)>>)>>)

(* Two returns, and a swap of moves between them.                          *)
TwoReturns == Fn(<<P(1), P(2)>>, <<>>,
  <<Instr("IFEQJ", <<Label("first"), T(1), T(2)>>),
    Mov(T(1), T(3)), Mov(T(2), T(1)), Mov(T(3), T(2)),
    Instr("MOV", <<T(2), Through(T(1), "DISPLACED")>>), Return(<<T(2)>>),
    Place("first"), Return(<<T(1)>>)>>)

(* Nothing returns, so no register is saved and a value lives across calls. *)
(* Memory is moved onto itself where the two temporaries share a register. *)
Main == [Fn(<<>>, <<Number(4)>>,
  <<Mov(Const(4), T(1)), Mov(T(1), T(2)), Mov(T(2), T(3)),
    Mov(Through(T(1), "REG_INDIR"), Through(T(2), "REG_INDIR")),
    Call("g", <<T(3)>>, <<P(1)>>), Instr("MULT", <<Const(1), T(2)>>),
    Call("g", <<T(2)>>, <<P(1)>>), Instr("HALT", <<>>)>>) EXCEPT !.main = TRUE]

(* A jump out of the function, and a move of the stack pointer.            *)
Astray == Fn(<<P(1)>>, <<>>, <<Instr("JMP", <<Label("elsewhere")>>), Return(<<T(1)>>)>>)
Pointed == Fn(<<>>, <<>>, <<Mov(Reg(STACK_POINTER), T(1)), Return(<<T(1)>>)>>)

(* A move of the stack pointer behind which nothing lives.                 *)
Unread == [Fn(<<>>, <<>>, <<Mov(Reg(STACK_POINTER), T(1)), Instr("HALT", <<>>)>>)
             EXCEPT !.main = TRUE]

(* No temporary of its own.                                                *)
Bare == Fn(<<>>, <<>>, <<Mov(Const(1), Reg(0)), Return(<<>>)>>)

(* A pointer that is used again after a load through it.                   *)
Loads == Fn(<<P(1)>>, <<>>,
  <<Mov(Through(T(1), "REG_INDIR"), T(2)),
    Instr("ADD", <<T(2), Through(T(1), "REG_INDIR")>>), Return(<<T(2)>>)>>)

(* A local of eight bytes.                                                 *)
Wide == Fn(<<P(1)>>, <<Number(8)>>, <<Return(<<T(1)>>)>>)

-----------------------------------------------------------------------------
MCRegisters == 1 .. NUM_REGS
MCCalleeSaved == {Shift(n, FALSE) : n \in CalleeSaves}
MCTemps == FIRST_TEMPORARY + 2 .. FIRST_TEMPORARY + 5

Sources ==
  [loop |-> Loop, diamond |-> Diamond, two |-> TwoReturns, forgetful |-> Forgetful,
   caller |-> Caller, callerOmitsFP |-> Caller, main |-> Main, astray |-> Astray,
   pointed |-> Pointed, bare |-> Bare, unread |-> Unread,
   doubled |-> Doubled]
Most == [k \in DOMAIN Sources |-> Build(Sources[k], k \in {"two", "callerOmitsFP"})]

(* The functions the theorems are about: these are, Loads and Wide are not. *)
ASSUME \A k \in DOMAIN Sources : LET f == Sources[k] IN
         FunctionUnderstood(f) /\ PassedApart(f) /\ FrameLeft(f)
ASSUME ~FunctionUnderstood(Loads) /\ ~FrameLeft(Wide)

OnlyLoads == [loads |-> Build(Loads, FALSE)]
OnlyWide  == [wide |-> Build(Wide, FALSE)]
=============================================================================
