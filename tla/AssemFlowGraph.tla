--------------------------- MODULE AssemFlowGraph ---------------------------
(***************************************************************************)
(* AssemFlowGraph (src/src/vasm/backend/AssemFlowGraph.cpp): the flow      *)
(* graph of a function's statements, and the uses, defines and moves the   *)
(* code takes each of them to have; and what the Optimizer removes once    *)
(* registers are in place of the temporaries.                              *)
(***************************************************************************)
EXTENDS Statements, FiniteSets

(* _addNodesToGraph                                                        *)
NodesFor(stmts) == DOMAIN stmts

-----------------------------------------------------------------------------
(* _createArcs                                                             *)
ConditionalJumps == {"IFJ", "IFNJ", "TCJ", "TZJ", "TOJ", "TNJ", "TSJ", "IFEQJ",
                     "IFNEQJ", "IFLOJ", "IFMOJ", "IFLEJ", "IFMEJ"}
Jumps(s) == s.kind = "instruction" /\ s.op \in ConditionalJumps \cup {"JMP"}

Jumped(stmts, n) ==
  {p \in NodesFor(stmts) : /\ IsLabel(stmts[n].args[1])
                           /\ stmts[p].kind = "label"
                           /\ stmts[p].label = stmts[n].args[1].label}
FallsThrough(s) == s.kind # "return" /\ (Jumps(s) => s.op # "JMP")

SuccsOf(stmts, n) ==
  (IF FallsThrough(stmts[n]) THEN {n + 1} \cap NodesFor(stmts) ELSE {})
    \cup (IF Jumps(stmts[n]) THEN Jumped(stmts, n) ELSE {})

(* Only labels of the function itself can be jumped to.                    *)
ArcsThrow(stmts) ==
  \E n \in NodesFor(stmts) : Jumps(stmts[n]) /\ Jumped(stmts, n) = {}

-----------------------------------------------------------------------------
(* _moveInstr.  An argument 0 through a register is a use, an argument 1   *)
(* that is no memory a define; stepping defines too, and makes no move.    *)
IsMemory(a) == a.type \in {"REG_INDIR", "MEM_INDIR", "DISPLACED"} \/ IsIndexed(a)

MovUses(s) == {ShiftArgUID(s.args[k]) : k \in
                 {j \in ArgsNaming(s) : j = 1 \/ IsMemory(s.args[j])}}

StepDefs(s, k) ==
  IF ~Steps(s.args[k]) THEN {}
  ELSE IF IsIndexed(s.args[k]) THEN {IndexUID(s.args[k])} ELSE {ShiftArgUID(s.args[k])}

MovDefs(s) ==
  (UNION {StepDefs(s, k) : k \in {j \in ArgsNaming(s) : j = 1 \/ IsMemory(s.args[j])}})
    \cup {ShiftArgUID(s.args[k]) : k \in
            {j \in ArgsNaming(s) \cap {2} : ~IsMemory(s.args[j])}}

MovIsMove(s) ==
  /\ IsReg(s.args[1]) /\ IsReg(s.args[2])
  /\ IsTemporary(s.args[1]) \/ IsTemporary(s.args[2])
  /\ ~Steps(s.args[1])
  /\ ~IsMemory(s.args[2])

(* _argIsDefined.  The test for stepping looks at a bit no modifier has.   *)
ArgIsDefined(op, k) ==
  \/ op \in {"NOT", "INCR", "DECR", "COMP2", "LSH", "RSH"}
  \/ op \in {"ADD", "MULT", "SUB", "DIV", "QUOT", "AND", "OR", "XOR", "GET"} /\ k = 2

-----------------------------------------------------------------------------
(* _findUsesDefines.  The special registers stay out of both.              *)
IsMov(s) == s.kind = "instruction" /\ s.op = "MOV"
IsMoveOf(s) == IsMov(s) /\ MovIsMove(s)

UsesOf(s) ==
  Ordinary(
    CASE s.kind = "label" -> {}
      [] s.kind = "call" -> {Shift(s.params[k].source.num, FALSE) : k \in DOMAIN s.params}
      [] s.kind = "return" -> {Shift(n, FALSE) : n \in CalleeSaves}
      [] OTHER -> IF IsMov(s) THEN MovUses(s)
                  ELSE {ShiftArgUID(s.args[k]) : k \in ArgsNaming(s)})

CallDefinesResult(s) == {Shift(REG_DATA_0, FALSE)}                (* mutant *)
CallDefines(s) == {Shift(n, FALSE) : n \in CallerSaves}

DefsOf(s) ==
  Ordinary(
    CASE s.kind \in {"label", "return"} -> {}
      [] s.kind = "call" -> CallDefines(s)
      [] OTHER -> IF IsMov(s) THEN MovDefs(s)
                  ELSE {ShiftArgUID(s.args[k]) : k \in
                          {j \in ArgsNaming(s) : s.args[j].type = "REG"
                                                   /\ ArgIsDefined(s.op, j)}})

-----------------------------------------------------------------------------
(* Optimizer::removeUselessMoves: a MOV goes when its arguments are of one *)
(* type and name, once applySelectedRegisters is through, one register;    *)
(* displacements, indexes and modifiers are not looked at.                 *)
Compared(s) ==
  IF IsMov(s) /\ ArgsNaming(s) = {1, 2} /\ s.args[1].type = s.args[2].type
    THEN {<<ShiftArgUID(s.args[1]), ShiftArgUID(s.args[2])>>} ELSE {}

(* removeUselessArithmetics                                                *)
UselessArithmetic(s) ==
  /\ s.kind = "instruction"
  /\ \/ s.op \in {"ADD", "SUB"} /\ s.args[1] = Const(0)
     \/ s.op \in {"MULT", "DIV"} /\ s.args[1] = Const(1)
=============================================================================
