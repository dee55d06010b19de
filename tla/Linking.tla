------------------------------- MODULE Linking ------------------------------
(***************************************************************************)
(* What the Linker works out: the offsets of the statements of a function, *)
(* the table of symbols (TableOfSymbols) and the value of every argument   *)
(* that names a label.                                                     *)
(*                                                                         *)
(* A table of symbols maps a name to its label statement,                  *)
(* [offset, size, global, func, const]; the label statement is one object  *)
(* with the one in the list of statements or data it stands in.            *)
(***************************************************************************)
EXTENDS Assembly

\* A statement, a datum and a function at a place.
StmtAt(s, at) == [op |-> s.op, id |-> s.id, label |-> s.label, args |-> s.args,
                  offset |-> at]

DataAt(d, at) == [label |-> d.label, const |-> d.const, shared |-> d.shared,
                  cells |-> d.cells, offset |-> at]

StmtsPlaced(f) ==
  [i \in DOMAIN f.stmts |->
     StmtAt(f.stmts[i], SumOf([j \in 1..(i - 1) |-> StmtSize(f.stmts[j])]))]

\* A local gets its offset when it is counted already.
LocalsPlacedAfter(f) ==                                               (* mutant *)
  [i \in DOMAIN f.locals |->
     DataAt(f.locals[i],
            StackedDataSize(f) - 4 - SumOf([j \in 1..i |-> DataSize(f.locals[j])]))]

\* From the frame pointer down, by their size alone.
LocalsPlaced(f) ==
  [i \in DOMAIN f.locals |->
     DataAt(f.locals[i],
            StackedDataSize(f) - 4 - SumOf([j \in 1..(i - 1) |-> DataSize(f.locals[j])]))]

Placed(f, at) == [name |-> f.name, params |-> f.params, stmts |-> StmtsPlaced(f),
                  locals |-> LocalsPlaced(f), offset |-> at, loaded |-> f.loaded]

-----------------------------------------------------------------------------
(* The table of symbols.                                                   *)

\* The label exposeGlobalLabels puts in front of the statements.
FunctionLabel(f) == [op |-> "function", id |-> <<>>, label |-> f.name,
                     args |-> <<>>, offset |-> f.offset]

Exposed(f) == [f EXCEPT !.stmts = <<FunctionLabel(f)>> \o @]

FunctionSymbol(f) == [offset |-> f.offset, size |-> FunctionSize(f),
                      global |-> TRUE, func |-> TRUE, const |-> FALSE]

DataSymbol(d) == [offset |-> d.offset, size |-> 0, global |-> Len(d.label) = 1,
                  func |-> FALSE, const |-> d.const]

Labels(data) == {i \in DOMAIN data : data[i].label # <<>>}

\* addLabel refuses a name that is in the table.
NamedTwice(functions, shared, constants) ==
  LET places == ({"text"} \X DOMAIN functions) \cup ({"data"} \X Labels(shared))
                  \cup ({"rodata"} \X Labels(constants))
      name(p) == IF p[1] = "text" THEN functions[p[2]].name
                 ELSE IF p[1] = "data" THEN shared[p[2]].label
                 ELSE constants[p[2]].label
  IN  \E p, q \in places : p # q /\ name(p) = name(q)

\* Two tables in one; a name of both has its entry in the first.
Joined(t, u) ==
  [n \in (DOMAIN t) \cup (DOMAIN u) |-> IF n \in DOMAIN t THEN t[n] ELSE u[n]]

\* The table of a program whose names are distinct.
TextSymbols(functions) ==
  [n \in {functions[i].name : i \in DOMAIN functions} |->
     FunctionSymbol(functions[CHOOSE i \in DOMAIN functions : functions[i].name = n])]

DataSymbols(data) ==
  [n \in {data[i].label : i \in Labels(data)} |->
     DataSymbol(data[CHOOSE i \in Labels(data) : data[i].label = n])]

SymbolsOf(functions, shared, constants) ==
  Joined(TextSymbols(functions), Joined(DataSymbols(shared), DataSymbols(constants)))

\* The offset of a label statement, seen through the table.
WithOffset(table, name, at) ==
  IF name \in DOMAIN table THEN [table EXCEPT ![name].offset = at] ELSE table

-----------------------------------------------------------------------------
(* Values.                                                                 *)

IsJump(s, a) == s.op \in Jumps /\ a.type = "IMMED"

\* The distance from the end of a statement that is at `here' to `there'.
Distance(there, s, here) == there - StmtSize(s) - here

CodeLabelled(f, name)  == {i \in CodeLabels(f) : f.stmts[i].label = name}
StackLabelled(f, name) == {i \in StackLabels(f) : f.locals[i].label = name}
IsLocal(f, name) == CodeLabelled(f, name) \cup StackLabelled(f, name) # {}

\* Above the frame pointer.
LocallyBoundAbove(f, s, a, omitFP) ==                                 (* mutant *)
  IF CodeLabelled(f, a.label) # {}
  THEN LET there == f.stmts[CHOOSE i \in CodeLabelled(f, a.label) : TRUE].offset
       IN  [a EXCEPT !.val = IF IsJump(s, a) THEN Distance(there, s, s.offset)
                             ELSE there]
  ELSE LET there == f.locals[CHOOSE i \in StackLabelled(f, a.label) : TRUE].offset
       IN  [a EXCEPT !.type = "DISPLACED", !.base = "FP", !.val = there]

\* A label of the function itself.  The locals are found from the frame
\* pointer, or from the stack pointer when there is none.
LocallyBound(f, s, a, omitFP) ==
  IF CodeLabelled(f, a.label) # {}
  THEN LET there == f.stmts[CHOOSE i \in CodeLabelled(f, a.label) : TRUE].offset
       IN  [a EXCEPT !.val = IF IsJump(s, a) THEN Distance(there, s, s.offset)
                             ELSE there]
  ELSE LET there == f.locals[CHOOSE i \in StackLabelled(f, a.label) : TRUE].offset
       IN  [a EXCEPT !.type = "DISPLACED",
                     !.base = IF omitFP THEN "SP" ELSE "FP",
                     !.val = IF omitFP THEN StackedDataSize(f) - there ELSE -there]

Static(f, name) == f.name \o name

\* Any label: of the function, then static in it, then global.
Bound(f, s, a, table, omitFP) ==
  IF IsLocal(f, a.label) THEN LocallyBound(f, s, a, omitFP)
  ELSE IF Static(f, a.label) \in DOMAIN table
  THEN LET there == table[Static(f, a.label)].offset
       IN  [a EXCEPT !.val = IF IsJump(s, a) THEN Distance(there, s, s.offset)
                             ELSE there]
  ELSE LET there == table[a.label].offset
       IN  [a EXCEPT !.val = IF IsJump(s, a)
                             THEN Distance(there, s, s.offset) - f.offset
                             ELSE there]

IsBound(f, a, table) ==
  IsLocal(f, a.label) \/ Static(f, a.label) \in DOMAIN table \/ a.label \in DOMAIN table

Refers(a) == a.label # <<>>

\* The references of a function with New(s, a) in place of each argument a of a
\* statement s that names a label.
Rebound(f, New(_, _), Which(_)) ==
  [f EXCEPT !.stmts =
     [i \in DOMAIN f.stmts |->
        [f.stmts[i] EXCEPT !.args =
           [k \in DOMAIN f.stmts[i].args |->
              IF Refers(f.stmts[i].args[k]) /\ Which(f.stmts[i].args[k])
              THEN New(f.stmts[i], f.stmts[i].args[k])
              ELSE f.stmts[i].args[k]]]]]

\* assignValuesToLocalLabels and assignValuesToLabels, for one function.
WithLocalValues(f, omitFP) ==
  LET New(s, a) == LocallyBound(f, s, a, omitFP)
      Which(a)  == IsLocal(f, a.label)
  IN  Rebound(f, New, Which)

WithValues(f, table, omitFP) ==
  LET New(s, a) == Bound(f, s, a, table, omitFP)
      Which(a)  == TRUE
  IN  Rebound(f, New, Which)

AllBound(functions, table) ==
  \A i \in DOMAIN functions : \A j \in DOMAIN functions[i].stmts :
    LET s == functions[i].stmts[j]
    IN  \A k \in DOMAIN s.args :
          Refers(s.args[k]) => IsBound(functions[i], s.args[k], table)

-----------------------------------------------------------------------------
(* moveMainToTop: the first function of that name, before all the others.  *)
MainToTop(functions) ==
  LET mains == {i \in DOMAIN functions : functions[i].name = <<"main">>}
      first == CHOOSE i \in mains : \A j \in mains : i <= j
  IN  IF mains = {} THEN functions
      ELSE <<functions[first]>> \o SubSeq(functions, 1, first - 1)
             \o SubSeq(functions, first + 1, Len(functions))

\* What is emitted at a place: what it is, where it ends, its arguments.
Emission(at, id, size, args) == [at |-> at, id |-> id, next |-> at + size, args |-> args]

\* emitCode of the statements of a function, from a place on.
EmittedCode(f, at) ==
  LET code == Selected(f.stmts, IsInstruction)
  IN  [i \in DOMAIN code |->
         Emission(at + SumOf([j \in 1..(i - 1) |-> StmtSize(code[j])]),
                  code[i].id, StmtSize(code[i]), Encoded(code[i]))]

EmittedCells(d, at) ==
  [i \in DOMAIN d.cells |->
     Emission(at + SumOf([j \in 1..(i - 1) |-> d.cells[j].size]),
              d.cells[i].id, d.cells[i].size, <<>>)]
=============================================================================
