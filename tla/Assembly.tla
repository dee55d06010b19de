------------------------------ MODULE Assembly ------------------------------
(***************************************************************************)
(* The program the assembler works on (asm_program, asm_function, the      *)
(* statements of IR_LowLevel_Statements.h), how big its parts are, how it  *)
(* comes from the syntax tree (ASTL_Tree::emitAsm) and what AsmChecker     *)
(* refuses.                                                                *)
(*                                                                         *)
(* A name is a sequence of identifiers: <<x>> is written x in the source,  *)
(* <<f, x>> is "f::x".  <<>> is no name at all.                            *)
(*                                                                         *)
(* argument   [type, scale, label, temp, val, base, rel]                   *)
(* statement  [op, id, label, args, offset]; op is an instruction,         *)
(*            "label", or "function" for the label of the function itself  *)
(* data       [label, const, shared, cells, offset], a label or a datum;   *)
(*            a cell [id, size] is an item of data of the source           *)
(* function   [name, params, stmts, locals, offset, loaded]                *)
(*                                                                         *)
(* The id of a statement or of a cell stands for its bytes.                *)
(***************************************************************************)
EXTENDS Integers, Sequences, FiniteSets, SequencesExt

\* The sum of a sequence of numbers.
SumOf(q) == LET s[i \in 0..Len(q)] == IF i = 0 THEN 0 ELSE s[i - 1] + q[i]
            IN  s[Len(q)]

\* The elements of a sequence that pass a test, in their order.
Selected(q, Test(_)) ==
  FlattenSeq([i \in DOMAIN q |-> IF Test(q[i]) THEN <<q[i]>> ELSE <<>>])

Aligned(n) == IF n % 4 = 0 THEN n ELSE n + 4 - (n % 4)

-----------------------------------------------------------------------------
(* The shapes of what the grammar makes of a source.                       *)

IsListOf(q, Test(_)) == q \in Seq(Range(q)) /\ \A i \in DOMAIN q : Test(q[i])

IsArgument(a) ==
  /\ DOMAIN a = {"type", "scale", "label", "temp", "val", "base", "rel"}
  /\ a.scale \in {1, 2, 4, 8}

IsStatement(s) ==
  /\ DOMAIN s = {"op", "id", "label", "args", "offset"}
  /\ s.offset \in Nat
  /\ IsListOf(s.args, IsArgument)

IsCell(c) == DOMAIN c = {"id", "size"} /\ c.size \in Nat

IsDatum(d) ==
  /\ DOMAIN d = {"label", "const", "shared", "cells", "offset"}
  /\ d.const \in BOOLEAN /\ d.shared \in BOOLEAN
  /\ d.offset \in Int
  /\ IsListOf(d.cells, IsCell)

\* In a source nothing has a place yet.
IsDeclared(d) == IsDatum(d) /\ d.offset = 0

\* A definition of a source: a function, a prototype or global variables.
IsItem(item) ==
  \/ /\ item.is = "function"
     /\ IsListOf(item.stmts, IsStatement)
     /\ IsListOf(item.locals, IsDeclared)
  \/ item.is = "prototype"
  \/ item.is = "globals" /\ IsListOf(item.vars, IsDeclared)

-----------------------------------------------------------------------------
(* Sizes.                                                                  *)

\* The jumps on a comparison of their own, and all that have the bit of a jump.
FusedJumps == {"IFEQJ", "IFNEQJ", "IFLOJ", "IFMOJ", "IFLEJ", "IFMEJ"}
Jumps == FusedJumps \cup {"JSR", "JMP", "IFJ", "IFNJ", "TCJ", "TZJ", "TOJ", "TNJ", "TSJ"}

IsLabel(s) == s.op \in {"label", "function"}
IsInstruction(s) == ~IsLabel(s)

ArgSize(a) == IF a.type = "IMMED" THEN a.scale ELSE 4

\* The arguments the emitted code has: a call is emitted with its label alone
\* and a return with none, whatever they were given.
Encoded(s) == IF s.op = "RET" \/ IsLabel(s) THEN <<>>
              ELSE IF s.op = "JSR" THEN <<s.args[1]>>
              ELSE s.args

StmtSize(s) == IF IsLabel(s) THEN 0
               ELSE 4 + SumOf([k \in DOMAIN Encoded(s) |-> ArgSize(Encoded(s)[k])])

InstrSize(f) == SumOf([i \in DOMAIN f.stmts |-> StmtSize(f.stmts[i])])

FunctionSize(f) == Aligned(InstrSize(f))

DataSize(d) == SumOf([i \in DOMAIN d.cells |-> d.cells[i].size])

TotalSize(data) == SumOf([i \in DOMAIN data |-> DataSize(data[i])])

\* What the locals take of the stack: each of them ends on a word.
StackedDataSize(f) ==
  LET s[i \in 0..Len(f.locals)] ==
        IF i = 0 THEN 0 ELSE Aligned(s[i - 1] + DataSize(f.locals[i]))
  IN  s[Len(f.locals)]

-----------------------------------------------------------------------------
(* From the tree to the program.                                           *)

\* A datum is qualified as the last label before it.
Inherited(vars) ==
  [i \in DOMAIN vars |->
     LET labels == {j \in 1..i : vars[j].label # <<>>}
         of     == vars[CHOOSE j \in labels : \A k \in labels : k <= j]
     IN  IF labels = {} THEN [vars[i] EXCEPT !.const = FALSE, !.shared = FALSE]
         ELSE [vars[i] EXCEPT !.const = of.const, !.shared = of.shared]]

OnStack(d) == ~d.const /\ ~d.shared
InSection(d) == ~OnStack(d)

\* A local that is shared or constant is kept with the globals, as "f::x".
Renamed(f, d) == IF OnStack(d) \/ d.label = <<>> THEN d
                 ELSE [d EXCEPT !.label = f \o @]

FunctionVariables(f, vars) ==
  LET all == Inherited(vars) IN [i \in DOMAIN all |-> Renamed(f, all[i])]

\* addArg tells an argument its distance from the start of the statement.
WithArgs(s) ==
  [s EXCEPT !.args =
     [k \in DOMAIN s.args |->
        [s.args[k] EXCEPT !.rel =
           StmtSize([s EXCEPT !.args = SubSeq(@, 1, k)]) - ArgSize(s.args[k])]]]

Definition(def) ==
  [name |-> def.name, params |-> def.params, offset |-> 0, loaded |-> FALSE,
   stmts |-> [i \in DOMAIN def.stmts |-> WithArgs(def.stmts[i])],
   locals |-> Selected(FunctionVariables(def.name, def.locals), OnStack)]

\* A prototype is a function without statements.
Prototype(proto) ==
  [name |-> proto.name, params |-> proto.params, offset |-> 0, loaded |-> FALSE,
   stmts |-> <<>>, locals |-> <<>>]

IsDefinition(item) == item.is = "function"
IsPrototype(item)  == item.is = "prototype"
IsGlobals(item)    == item.is = "globals"

\* What a tree adds to the functions, definitions before prototypes.
EmittedFunctions(tree) ==
  LET defs   == Selected(tree, IsDefinition)
      protos == Selected(tree, IsPrototype)
  IN  [i \in DOMAIN defs |-> Definition(defs[i])]
        \o [i \in DOMAIN protos |-> Prototype(protos[i])]

\* What a tree adds to the data: the variables of its functions that are not
\* on the stack, then its globals, where what is not constant is shared.
LocalVariables(tree) ==
  LET defs == Selected(tree, IsDefinition)
  IN  Selected(FlattenSeq([i \in DOMAIN defs |->
                             FunctionVariables(defs[i].name, defs[i].locals)]),
               InSection)

GlobalVariables(tree) ==
  LET globals == Selected(tree, IsGlobals)
  IN  FlattenSeq([i \in DOMAIN globals |-> Inherited(globals[i].vars)])

IsConstant(d) == d.const
IsShared(d)   == ~d.const

EmittedConstants(tree) ==
  Selected(LocalVariables(tree) \o GlobalVariables(tree), IsConstant)
EmittedShared(tree) ==
  Selected(LocalVariables(tree) \o GlobalVariables(tree), IsShared)

\* The labels of a function: of its statements, and of its locals.
CodeLabels(f) ==
  {i \in DOMAIN f.stmts : f.stmts[i].op = "label" /\ ~f.loaded}
StackLabels(f) == {i \in DOMAIN f.locals : f.locals[i].label # <<>>}

\* finalize refuses a label it has seen.
LabelledTwice(f) ==
  LET names == [i \in CodeLabels(f) |-> f.stmts[i].label]
      locals == [i \in StackLabels(f) |-> f.locals[i].label]
  IN  \/ \E i, j \in CodeLabels(f) : i # j /\ names[i] = names[j]
      \/ \E i, j \in StackLabels(f) : i # j /\ locals[i] = locals[j]
      \/ \E i \in CodeLabels(f), j \in StackLabels(f) : names[i] = locals[j]

-----------------------------------------------------------------------------
(* AsmChecker.                                                             *)

\* How many arguments the word of an instruction says it has.
NumArgs(op) ==
  IF op \in {"SLEEP", "PUSHA", "POPA", "RET", "RETEX", "REBOOT", "HALT", "DUMP"} THEN 0
  ELSE IF op \in FusedJumps \cup {"BPUT", "BGET"} THEN 3
  ELSE IF op \in Jumps \cup {"NOT", "INCR", "DECR", "COMP2", "LSH", "RSH",
                            "STACK", "PUSH", "POP"} THEN 1
  ELSE 2

Unary  == {"NOT", "INCR", "DECR", "COMP2", "LSH", "RSH"}
Binary == {"ADD", "MULT", "SUB", "DIV", "QUOT", "AND", "OR", "XOR", "GET"}

ArgsLegal(s) ==
  IF s.op = "JSR" THEN Len(s.args) >= 1 /\ s.args[1].label # <<>>
  ELSE IF s.op = "RET" THEN Len(s.args) <= 1
  ELSE /\ Len(s.args) = NumArgs(s.op)
       /\ s.op \in Unary => s.args[1].type # "IMMED"
       /\ s.op \in Binary => s.args[2].type # "IMMED"

\* The first function of that name, if it is known, takes as many parameters.
ParametersLegal(s, functions) ==
  LET named == {i \in DOMAIN functions : functions[i].name = s.args[1].label}
      first == CHOOSE i \in named : \A j \in named : i <= j
  IN  named # {} => functions[first].params = Len(s.args) - 1

InstructionsLegal(functions, usingTemps) ==
  \A i \in DOMAIN functions : \A j \in DOMAIN functions[i].stmts :
    LET s == functions[i].stmts[j]
    IN  ~IsLabel(s) =>
          /\ ArgsLegal(s)
          /\ s.op = "JSR" /\ usingTemps => ParametersLegal(s, functions)

\* Without the allocator nothing but a call or a return may name a temporary.
NoTemporaries(functions) ==
  \A i \in DOMAIN functions : \A j \in DOMAIN functions[i].stmts :
    LET s == functions[i].stmts[j]
    IN  ~IsLabel(s) /\ s.op \notin {"JSR", "RET"} =>
          \A k \in DOMAIN s.args : ~s.args[k].temp
=============================================================================
