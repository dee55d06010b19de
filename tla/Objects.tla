------------------------------- MODULE Objects ------------------------------
(***************************************************************************)
(* Object files: ObjWriter::writeObj, ObjLoader::readObj and               *)
(* Disassembler::disassembleBytecode.                                      *)
(*                                                                         *)
(* An object has the table of symbols, the code (what is emitted at which  *)
(* offset of .text), its relocations <<offset, name>> and the two sections *)
(* of data.  The bytes of an instruction tell its arguments but not that   *)
(* they named a label: only a relocation does.                             *)
(***************************************************************************)
EXTENDS Linking

\* A reference is looked up among the globals first, then as "f::x"; one that is
\* neither leaves no trace.
Relocated(f, table, a) ==
  IF a.label \in DOMAIN table THEN a.label ELSE Static(f, a.label)

Relocatable(f, table, s) ==
  {k \in DOMAIN s.args : /\ Refers(s.args[k])
                         /\ Relocated(f, table, s.args[k]) \in DOMAIN table}

\* Counted from the start of the function.
RelocationsInside(f, table) ==                                        (* mutant *)
  UNION {{<<s.args[k].rel + s.offset, Relocated(f, table, s.args[k])>> :
            k \in Relocatable(f, table, s)} : s \in Range(f.stmts)}

RelocationsOf(f, table) ==
  UNION {{<<s.args[k].rel + s.offset + f.offset, Relocated(f, table, s.args[k])>> :
            k \in Relocatable(f, table, s)} : s \in Range(f.stmts)}

\* What the functions before one take of .text.
TextBefore(functions, i) == SumOf([j \in 1..(i - 1) |-> FunctionSize(functions[j])])

DataBefore(data, i) == SumOf([j \in 1..(i - 1) |-> DataSize(data[j])])

Section(data) ==
  FlattenSeq([i \in DOMAIN data |-> EmittedCells(data[i], DataBefore(data, i))])

\* The statements of the function and their places in .text.
CodeOf(functions, i) ==
  LET code == Selected(functions[i].stmts, IsInstruction)
  IN  [j \in DOMAIN code |->
         [at |-> TextBefore(functions, i)
                   + SumOf([k \in 1..(j - 1) |-> StmtSize(code[k])]),
          stmt |-> code[j]]]

WrittenObj(functions, shared, constants, table) ==
  [symbols |-> table,
   text    |-> FlattenSeq([i \in DOMAIN functions |-> CodeOf(functions, i)]),
   size    |-> TextBefore(functions, Len(functions) + 1),
   rel     |-> UNION {RelocationsOf(functions[i], table) : i \in DOMAIN functions},
   data    |-> Section(shared),
   rodata  |-> Section(constants)]

-----------------------------------------------------------------------------

IsFunc(o, n)   == o.symbols[n].func
IsRodata(o, n) == ~o.symbols[n].func /\ o.symbols[n].const
IsData(o, n)   == ~o.symbols[n].func /\ ~o.symbols[n].const

Funcs(o)      == {n \in DOMAIN o.symbols : IsFunc(o, n)}
RodataOf(o)   == {n \in DOMAIN o.symbols : IsRodata(o, n)}
DataNames(o)  == {n \in DOMAIN o.symbols : IsData(o, n)}

\* SymbolsTempLookup and OffsetTempLookup refuse an offset they have.
OffsetsDistinct(o, names) ==
  \A m, n \in names : o.symbols[m].offset = o.symbols[n].offset => m = n

RelocationsDistinct(o) == \A r, q \in o.rel : r[1] = q[1] => r = q

SectionEnd(cells) == IF cells = <<>> THEN 0 ELSE cells[Len(cells)].next

\* The names in a set whose label lies inside a section, by offset.
Sorted(o, names, end) ==
  LET inside == {n \in names : o.symbols[n].offset < end}
  IN  CHOOSE q \in [1..Cardinality(inside) -> inside] :
        \A i, j \in DOMAIN q : i < j => o.symbols[q[i]].offset < o.symbols[q[j]].offset

\* The bytes from one offset to another, read as one string.
Chunk(cells, from, to) ==
  LET inside == Selected(cells, LAMBDA c : from <= c.at /\ c.at < to)
  IN  [label |-> <<>>, const |-> FALSE, shared |-> FALSE, offset |-> 0,
       cells |-> [i \in DOMAIN inside |->
                    [id |-> inside[i].id, size |-> inside[i].next - inside[i].at]]]

LabelRead(o, n) == [label |-> n, const |-> FALSE, shared |-> FALSE,
                    offset |-> o.symbols[n].offset, cells |-> <<>>]

\* What follows the last label is not read.
ReadToLabel(o, names, cells) ==                                       (* mutant *)
  LET end    == SectionEnd(cells)
      sorted == Sorted(o, names, end)
      at(i)  == o.symbols[sorted[i]].offset
  IN  FlattenSeq([i \in 1..(Len(sorted) - 1) |->
        <<LabelRead(o, sorted[i]), Chunk(cells, at(i), at(i + 1))>>])

\* A section: each label, then what is up to the next.  A label at the very end
\* is not seen.
ReadSection(o, names, cells) ==
  LET end    == SectionEnd(cells)
      sorted == Sorted(o, names, end)
      at(i)  == IF i > Len(sorted) THEN end ELSE o.symbols[sorted[i]].offset
  IN  (IF at(1) > 0 THEN <<Chunk(cells, 0, at(1))>> ELSE <<>>)
        \o FlattenSeq([i \in DOMAIN sorted |->
             <<LabelRead(o, sorted[i]), Chunk(cells, at(i), at(i + 1))>>])

\* The argument at an offset of .text, decoded; a relocation there makes it a
\* reference again.  Where it lies in its statement is not kept.
ReadArg(o, a, at) ==
  LET here == {r \in o.rel : r[1] = at}
  IN  [a EXCEPT !.rel = 0,
                !.label = IF here = {} THEN <<>> ELSE (CHOOSE r \in here : TRUE)[2]]

ReadStmt(o, c) ==
  LET args == Encoded(c.stmt)
      at(k) == c.at + 4 + SumOf([j \in 1..(k - 1) |-> ArgSize(args[j])])
  IN  [c.stmt EXCEPT !.offset = 0,
                     !.args = [k \in DOMAIN args |-> ReadArg(o, args[k], at(k))]]

\* The bytes after the last statement are read as one more, whose word is made
\* of them and of whatever follows.
Garbage == [op |-> "padding", id |-> <<>>, label |-> <<>>, args |-> <<>>, offset |-> 0]

ReadFunction(o, n) ==
  LET from  == o.symbols[n].offset
      to    == from + o.symbols[n].size
      code  == Selected(o.text, LAMBDA c : from <= c.at /\ c.at < to)
      stmts == [i \in DOMAIN code |-> ReadStmt(o, code[i])]
      end   == IF code = <<>> THEN from
               ELSE code[Len(code)].at + StmtSize(code[Len(code)].stmt)
      f     == [name |-> n, params |-> 0, offset |-> 0, loaded |-> TRUE,
                locals |-> <<>>, stmts |-> stmts]
  IN  Exposed(IF end < to THEN [f EXCEPT !.stmts = Append(@, Garbage)] ELSE f)

ReadFunctions(o) ==
  LET sorted == Sorted(o, Funcs(o), o.size)
  IN  [i \in DOMAIN sorted |-> ReadFunction(o, sorted[i])]

HasPadding(o) == \E f \in Range(ReadFunctions(o)) : Garbage \in Range(f.stmts)

\* Every function begins where the one before it ends.
Tiled(o) ==
  LET sorted == Sorted(o, Funcs(o), o.size)
      from(i) == o.symbols[sorted[i]].offset
  IN  /\ o.size > 0 => sorted # <<>> /\ from(1) = 0
      /\ \A i \in DOMAIN sorted :
           from(i) + o.symbols[sorted[i]].size
             = (IF i = Len(sorted) THEN o.size ELSE from(i + 1))

\* An immediate of eight bytes has no reader.
WideImmediate(o) ==
  \E c \in Range(o.text) : \E k \in DOMAIN Encoded(c.stmt) :
    ArgSize(Encoded(c.stmt)[k]) = 8

\* readObj ends without an exception (but for the padding, see HasPadding).
Readable(o) ==
  /\ \A names \in {Funcs(o), RodataOf(o), DataNames(o)} : OffsetsDistinct(o, names)
  /\ RelocationsDistinct(o)
  /\ Tiled(o)
  /\ ~WideImmediate(o)

\* is_constant of a label is not read back.
ReadSymbols(o) == [n \in DOMAIN o.symbols |-> [o.symbols[n] EXCEPT !.const = FALSE]]
=============================================================================
