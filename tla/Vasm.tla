-------------------------------- MODULE Vasm --------------------------------
(***************************************************************************)
(* The assembler from the command line to its output: main of vAsm.cpp,    *)
(* Backend::sourceAST and Backend::emit, with the reader of Includes, the  *)
(* Linker and the ObjHandler.  A plan is a sequence of invocations, as a   *)
(* build makes them; what stays between two of them are the object files.  *)
(*                                                                         *)
(* rebuildOffsets takes one step per function, variable or constant, the   *)
(* other passes one step each, and reading one step per line.              *)
(***************************************************************************)
EXTENDS Includes, Objects

CONSTANTS
  Builds,      \* what may be built: [disk, plan], what the source files hold and a
               \*   sequence of invocations [sources, objects, output,
               \*   onlyCompile, usingTemps, omitFP]
  Prologues    \* the statements that allocation may put before those of a function

\* An invocation names its sources; every name that is opened is one of Names, and
\* what a name opens is a file of lines.
ASSUME VasmAssumption ==
  /\ IsFiniteSet(Names)
  /\ \A build \in Builds :
       /\ build.plan \in Seq(Range(build.plan)) /\ build.plan # <<>>
       /\ \A invocation \in Range(build.plan) : invocation.sources \in Seq(Names)
       /\ \A n \in Names :
            LET lines == build.disk[File[n]]
            IN  File[n] # NoFile =>
                  /\ lines \in Seq(Range(lines))
                  /\ \A line \in Range(lines) : line.is = "include" => line.name \in Names

\* A file holds what the grammar accepts, an invocation names objects, and what
\* allocation adds are instructions that name no label.
ASSUME SourcesAssumption ==
  /\ \A build \in Builds :
       /\ \A n \in Names :
            File[n] # NoFile =>
              \A line \in Range(build.disk[File[n]]) : line.is = "include" \/ IsItem(line)
       /\ \A invocation \in Range(build.plan) :
            invocation.objects \in Seq(Range(invocation.objects))
  /\ \A prologue \in Prologues :
       /\ IsListOf(prologue, IsStatement)
       /\ \A s \in Range(prologue) :
            /\ IsInstruction(s) /\ s.op # "JSR"
            /\ \A a \in Range(s.args) : ~Refers(a)

VARIABLES
  plan, step,                              \* the invocations, and the current one
  phase,                                   \* what is done next
  source,                                  \* how many sources were opened
  functions, shared, constants, symbols,   \* asm_program
  isObj, placed, tempOffset,               \* rebuildOffsets
  loads,                                   \* how many objects were loaded
  objects,                                 \* the object files written so far
  image,                                   \* what was assembled
  outcome,                                 \* how the last invocation ended
  read                                     \* history: every definition read

programVars == <<functions, shared, constants, symbols>>
placeVars   == <<isObj, placed, tempOffset>>
planVars    == <<disk, plan, step>>
outVars     == <<objects, image, outcome, read>>
vars == <<planVars, readerVars, phase, source, programVars, placeVars, loads, outVars>>

Args == plan[step]

NonePlaced == [functions |-> 0, shared |-> 0, constants |-> 0]

Init ==
  /\ \E build \in Builds : disk = build.disk /\ plan = build.plan
  /\ step = 1
  /\ phase = "source"
  /\ source = 0
  /\ buffers = <<>> /\ nodes = <<>> /\ loc = Nowhere /\ tree = <<>>
  /\ functions = <<>> /\ shared = <<>> /\ constants = <<>> /\ symbols = <<>>
  /\ isObj = TRUE /\ placed = NonePlaced /\ tempOffset = 0
  /\ loads = 0
  /\ objects = <<>>
  /\ image = <<>>
  /\ outcome = "none"
  /\ read = <<>>

\* An exception, exit(1) or EXIT_FAILURE: the invocation writes nothing, and the
\* plan goes no further.
Fail(why) ==
  /\ outcome' = why
  /\ phase' = "failed"
  /\ UNCHANGED <<planVars, readerVars, source, programVars, placeVars, loads,
                 objects, image, read>>


-----------------------------------------------------------------------------
(* main: the sources, one after the other.                                 *)

OpenSource ==
  /\ phase = "source"
  /\ source < Len(Args.sources)
  /\ OpenFirstFile(Args.sources[source + 1])
  /\ source' = source + 1
  /\ phase' = "reading"
  /\ UNCHANGED <<planVars, programVars, placeVars, loads, outVars>>

SourceMissing ==
  /\ phase = "source"
  /\ source < Len(Args.sources)
  /\ File[Args.sources[source + 1]] = NoFile
  /\ Fail("missing")

ReadLine ==
  /\ phase = "reading"
  /\ ReadDefinition
  /\ read' = Append(read, NextLine)
  /\ UNCHANGED <<planVars, phase, source, programVars, placeVars, loads,
                 objects, image, outcome>>

Include ==
  /\ phase = "reading"
  /\ OpenIncludeFile
  /\ UNCHANGED <<planVars, phase, source, programVars, placeVars, loads, outVars>>

IncludeFails ==
  /\ phase = "reading"
  /\ \/ MissingInclude /\ Fail("missing")
     \/ CircularInclude /\ Fail("circular")

EndInclude ==
  /\ phase = "reading"
  /\ CloseIncludeFile
  /\ UNCHANGED <<planVars, phase, source, programVars, placeVars, loads, outVars>>

\* The end of a source, and sourceAST: the tree is added to the program, unless
\* a function has two labels of one name.
Definitions == [i \in DOMAIN tree |-> tree[i].def]

EndSource ==
  /\ phase = "reading"
  /\ CloseFirstFile
  /\ \A i \in DOMAIN EmittedFunctions(Definitions) :
       ~LabelledTwice(EmittedFunctions(Definitions)[i])
  /\ functions' = functions \o EmittedFunctions(Definitions)
  /\ shared' = shared \o EmittedShared(Definitions)
  /\ constants' = constants \o EmittedConstants(Definitions)
  /\ phase' = "source"
  /\ UNCHANGED <<planVars, source, symbols, placeVars, loads, outVars>>

EndSourceFails ==
  /\ phase = "reading"
  /\ Len(buffers) = 1
  /\ ~Unread
  /\ \E i \in DOMAIN EmittedFunctions(Definitions) :
       LabelledTwice(EmittedFunctions(Definitions)[i])
  /\ Fail("labels")

-----------------------------------------------------------------------------
(* emit: the checks and the allocation of registers.                       *)

Check ==
  /\ phase = "source"
  /\ source = Len(Args.sources)
  /\ IF InstructionsLegal(functions, Args.usingTemps)
     THEN /\ phase' = "temps"
          /\ UNCHANGED <<planVars, readerVars, source, programVars, placeVars,
                         loads, outVars>>
     ELSE Fail("instructions")

\* A function after doRegisterAllocation: no temporaries, and what the Frame
\* has put in front (the passes themselves are those of module Compiled).
WithoutTemps(s) ==
  [s EXCEPT !.args = [k \in DOMAIN s.args |-> [s.args[k] EXCEPT !.temp = FALSE]]]

Allocated(f, prologue) ==
  [f EXCEPT !.stmts = prologue \o [i \in DOMAIN f.stmts |-> WithoutTemps(f.stmts[i])]]

Rebuild(obj) ==
  /\ isObj' = obj
  /\ placed' = NonePlaced
  /\ tempOffset' = 0

Allocate ==
  /\ phase = "temps"
  /\ Args.usingTemps
  /\ \E prologue \in Prologues :
       functions' = [i \in DOMAIN functions |-> Allocated(functions[i], prologue)]
  /\ phase' = "place"
  /\ Rebuild(TRUE)
  /\ UNCHANGED <<planVars, readerVars, source, shared, constants, symbols, loads,
                 outVars>>

AllocationFails ==
  /\ phase = "temps"
  /\ Args.usingTemps
  /\ Fail("allocation")

EnsureTempsUsage ==
  /\ phase = "temps"
  /\ ~Args.usingTemps
  /\ IF NoTemporaries(functions)
     THEN /\ phase' = "place"
          /\ Rebuild(TRUE)
          /\ UNCHANGED <<planVars, readerVars, source, programVars, loads, outVars>>
     ELSE Fail("temporaries")

-----------------------------------------------------------------------------
(* rebuildOffsets: functions, shared variables, constants; each section of *)
(* an object starts at 0.                                                  *)

PlaceFunction ==
  LET i == placed.functions + 1
  IN  /\ phase = "place"
      /\ i \in DOMAIN functions
      /\ functions' = [functions EXCEPT ![i] = Placed(@, tempOffset)]
      /\ symbols' = WithOffset(symbols, functions[i].name, 0)
      /\ tempOffset' = tempOffset + FunctionSize(functions[i])
      /\ placed' = [placed EXCEPT !.functions = i]
      /\ UNCHANGED <<planVars, readerVars, phase, source, shared, constants, isObj,
                     loads, outVars>>

\* The sections of an object go on where the one before ended.
SectionGoesOn(first) == tempOffset                                    (* mutant *)

\* Where a section starts: behind the one before it, or at 0 in an object.
SectionStart(first) == IF isObj /\ first THEN 0 ELSE tempOffset

PlaceShared ==
  LET i  == placed.shared + 1
      at == SectionStart(i = 1)
  IN  /\ phase = "place"
      /\ placed.functions + 1 \notin DOMAIN functions
      /\ i \in DOMAIN shared
      /\ shared' = [shared EXCEPT ![i] = DataAt(@, at)]
      /\ symbols' = WithOffset(symbols, shared[i].label, at)
      /\ tempOffset' = at + DataSize(shared[i])
      /\ placed' = [placed EXCEPT !.shared = i]
      /\ UNCHANGED <<planVars, readerVars, phase, source, functions, constants, isObj,
                     loads, outVars>>

PlaceConstant ==
  LET i  == placed.constants + 1
      at == SectionStart(i = 1)
  IN  /\ phase = "place"
      /\ placed.functions + 1 \notin DOMAIN functions
      /\ placed.shared + 1 \notin DOMAIN shared
      /\ i \in DOMAIN constants
      /\ constants' = [constants EXCEPT ![i] = DataAt(@, at)]
      /\ symbols' = WithOffset(symbols, constants[i].label, at)
      /\ tempOffset' = at + DataSize(constants[i])
      /\ placed' = [placed EXCEPT !.constants = i]
      /\ UNCHANGED <<planVars, readerVars, phase, source, functions, shared, isObj,
                     loads, outVars>>

AllPlaced ==
  /\ placed.functions + 1 \notin DOMAIN functions
  /\ placed.shared + 1 \notin DOMAIN shared
  /\ placed.constants + 1 \notin DOMAIN constants

EndPlacing ==
  /\ phase = "place"
  /\ AllPlaced
  /\ phase' = IF isObj THEN "expose" ELSE "update"
  /\ UNCHANGED <<planVars, readerVars, source, programVars, placeVars, loads, outVars>>

-----------------------------------------------------------------------------
(* prelink: the global names, and the references inside of a function.     *)

ExposeGlobalLabels ==
  /\ phase = "expose"
  /\ IF NamedTwice(functions, shared, constants) THEN Fail("duplicate")
     ELSE /\ symbols' = SymbolsOf(functions, shared, constants)
          /\ functions' = [i \in DOMAIN functions |-> Exposed(functions[i])]
          /\ phase' = "local"
          /\ UNCHANGED <<planVars, readerVars, source, shared, constants, placeVars,
                         loads, outVars>>

AssignValuesToLocalLabels ==
  /\ phase = "local"
  /\ functions' = [i \in DOMAIN functions |-> WithLocalValues(functions[i], Args.omitFP)]
  /\ phase' = "load"
  /\ UNCHANGED <<planVars, readerVars, source, shared, constants, symbols, placeVars,
                 loads, outVars>>

(* loadObj: what is read goes in front of what is there.                   *)

Loading == objects[Args.objects[loads + 1]]

LoadObj ==
  /\ phase = "load"
  /\ loads < Len(Args.objects)
  /\ Args.objects[loads + 1] \in DOMAIN objects
  /\ Readable(Loading)
  /\ DOMAIN Loading.symbols \cap DOMAIN symbols = {}
  /\ functions' = ReadFunctions(Loading) \o functions
  /\ shared' = ReadSection(Loading, DataNames(Loading), Loading.data) \o shared
  /\ constants' = ReadSection(Loading, RodataOf(Loading), Loading.rodata) \o constants
  /\ symbols' = Joined(ReadSymbols(Loading), symbols)
  /\ loads' = loads + 1
  /\ UNCHANGED <<planVars, readerVars, phase, source, placeVars, outVars>>

LoadFails ==
  /\ phase = "load"
  /\ loads < Len(Args.objects)
  /\ Args.objects[loads + 1] \in DOMAIN objects
  /\ \/ ~Readable(Loading) /\ Fail("unreadable")
     \/ Readable(Loading) /\ HasPadding(Loading) /\ Fail("unreadable")
     \/ /\ Readable(Loading)
        /\ DOMAIN Loading.symbols \cap DOMAIN symbols # {}
        /\ Fail("duplicate")

\* The next invocation, a process of its own; or the plan is done.
Succeed ==
  /\ outcome' = "ok"
  /\ step' = IF step < Len(plan) THEN step + 1 ELSE step
  /\ phase' = IF step < Len(plan) THEN "source" ELSE "done"
  /\ source' = 0
  /\ loads' = 0
  /\ buffers' = <<>> /\ nodes' = <<>> /\ loc' = Nowhere /\ tree' = <<>>
  /\ functions' = <<>> /\ shared' = <<>> /\ constants' = <<>> /\ symbols' = <<>>
  /\ isObj' = TRUE /\ placed' = NonePlaced /\ tempOffset' = 0
  /\ UNCHANGED <<disk, plan, read>>

SaveObj ==
  /\ phase = "load"
  /\ loads = Len(Args.objects)
  /\ Args.onlyCompile
  /\ objects' = Joined([o \in {Args.output} |->
                            WrittenObj(functions, shared, constants, symbols)],
                         objects)
  /\ Succeed
  /\ UNCHANGED image

-----------------------------------------------------------------------------
(* link and assemble.                                                      *)

NoPrototypes == \A i \in DOMAIN functions : functions[i].stmts # <<>>

Link ==
  /\ phase = "load"
  /\ loads = Len(Args.objects)
  /\ ~Args.onlyCompile
  /\ IF NoPrototypes
     THEN /\ functions' = MainToTop(functions)
          /\ Rebuild(FALSE)
          /\ phase' = "place"
          /\ UNCHANGED <<planVars, readerVars, source, shared, constants, symbols,
                         loads, outVars>>
     ELSE Fail("prototypes")

UpdateFunctionLabels ==
  /\ phase = "update"
  /\ symbols' =
       [n \in DOMAIN symbols |->
          IF \E i \in DOMAIN functions : functions[i].name = n
          THEN [symbols[n] EXCEPT !.offset =
                  functions[CHOOSE i \in DOMAIN functions : functions[i].name = n].offset]
          ELSE symbols[n]]
  /\ phase' = "values"
  /\ UNCHANGED <<planVars, readerVars, source, functions, shared, constants, placeVars,
                 loads, outVars>>

AssignValuesToLabels ==
  /\ phase = "values"
  /\ IF AllBound(functions, symbols)
     THEN /\ functions' =
               [i \in DOMAIN functions |-> WithValues(functions[i], symbols, Args.omitFP)]
          /\ phase' = "assemble"
          /\ UNCHANGED <<planVars, readerVars, source, shared, constants, symbols,
                         placeVars, loads, outVars>>
     ELSE Fail("unbound")

\* One byte after the other: the functions with their padding, the shared
\* variables, the constants.
Assembled ==
  LET text == TextBefore(functions, Len(functions) + 1)
      data == text + TotalSize(shared)
  IN  FlattenSeq([i \in DOMAIN functions |->
                    EmittedCode(functions[i], TextBefore(functions, i))])
      \o FlattenSeq([i \in DOMAIN shared |->
                       EmittedCells(shared[i], text + DataBefore(shared, i))])
      \o FlattenSeq([i \in DOMAIN constants |->
                       EmittedCells(constants[i], data + DataBefore(constants, i))])

Assemble ==
  /\ phase = "assemble"
  /\ image' = Assembled
  /\ Succeed
  /\ UNCHANGED objects

-----------------------------------------------------------------------------
\* Nothing is left to do: any other state without a next step is a deadlock.
Finished ==
  /\ phase \in {"done", "failed"}
  /\ UNCHANGED vars

Next ==
  \/ OpenSource \/ SourceMissing \/ ReadLine \/ Include \/ IncludeFails
  \/ EndInclude \/ EndSource \/ EndSourceFails
  \/ Check \/ Allocate \/ AllocationFails \/ EnsureTempsUsage
  \/ PlaceFunction \/ PlaceShared \/ PlaceConstant \/ EndPlacing
  \/ ExposeGlobalLabels \/ AssignValuesToLocalLabels
  \/ LoadObj \/ LoadFails \/ SaveObj
  \/ Link \/ UpdateFunctionLabels \/ AssignValuesToLabels \/ Assemble
  \/ Finished

Spec == Init /\ [][Next]_vars

\* One process, one thread: the lexer goes on as long as it has something to read.
Reading  == ReadLine \/ Include \/ IncludeFails \/ EndInclude
FairSpec == Spec /\ WF_vars(Reading)
-----------------------------------------------------------------------------
(* Properties.                                                             *)

Outcomes == {"none", "ok", "missing", "circular", "labels", "instructions",
             "allocation", "temporaries", "duplicate", "unreadable", "prototypes",
             "unbound"}

Phases == {"source", "reading", "temps", "place", "expose", "local", "load",
           "update", "values", "assemble", "done", "failed"}

\* What the variables hold: a chain of known names, counters within what they
\* count, a table and an image of natural places.
TypeOK ==
  /\ phase \in Phases /\ outcome \in Outcomes
  /\ step \in DOMAIN plan /\ source \in 0..Len(Args.sources)
  /\ loads \in 0..Len(Args.objects)
  /\ \A i \in DOMAIN buffers : buffers[i].name \in Names /\ buffers[i].at \in Nat
  /\ loc.line \in Nat
  /\ placed.functions \in 0..Len(functions)
  /\ placed.shared \in 0..Len(shared)
  /\ placed.constants \in 0..Len(constants)
  /\ tempOffset \in Nat
  /\ \A f \in Range(functions) : \A d \in Range(f.locals) : d.offset \in Nat
  /\ \A n \in DOMAIN symbols : symbols[n].offset \in Nat
  /\ \A i \in DOMAIN image : image[i].at \in Nat /\ image[i].next \in Nat

\* The lexer keeps its open files on a stack and the tree its own branch of
\* nodes; they name the same files in the same order, and no file is in the
\* branch twice by the same name.
ChainSound ==
  /\ buffers # <<>> => /\ Len(buffers) = Len(nodes)
                       /\ \A i \in DOMAIN nodes : nodes[i].name = buffers[i].name
  /\ \A i, j \in DOMAIN nodes : nodes[i].name = nodes[j].name => i = j

FilesIncluded(f) ==
  IF f = NoFile THEN {}
  ELSE {File[disk[f][i].name] : i \in {j \in DOMAIN disk[f] : disk[f][j].is = "include"}}

\* The files of a set and those they include, at any depth.
Closure(S) ==
  LET n == Cardinality({File[m] : m \in Names})
      r[k \in 0..n] == IF k = 0 THEN S ELSE S \cup UNION {FilesIncluded(f) : f \in r[k - 1]}
  IN  r[n]

IncludesItself(f) == f \in Closure(FilesIncluded(f))

SourcesOf(i) == {File[n] : n \in Range(plan[i].sources)}

\* A circular inclusion is reported only where a file includes itself, through
\* any other files and under any of its names; and nothing is compiled from such
\* a file.
CircularFound ==
  /\ outcome = "circular" => \E f \in Closure(SourcesOf(step)) : IncludesItself(f)
  /\ \A i \in DOMAIN plan :
       i < step \/ phase = "done" =>
         \A f \in Closure(SourcesOf(i)) : ~IncludesItself(f)

\* Every definition is kept with the file and the line it stands at, whatever was
\* included before it.
LocationsTrue ==
  \A i \in DOMAIN tree :
    LET lines == disk[File[tree[i].loc.name]]
        n     == tree[i].loc.line
    IN  0 < n /\ n - 1 < Len(lines) /\ tree[i].def = lines[n]

\* Where rebuildOffsets has to put the next of a sequence of things placed one
\* behind the other.
FollowsFunction(i, start) ==
  functions[i].offset =
    IF i = 1 THEN start ELSE functions[i - 1].offset + FunctionSize(functions[i - 1])
Follows(data, i, start) ==
  data[i].offset = IF i = 1 THEN start ELSE data[i - 1].offset + DataSize(data[i - 1])

EndOfFunctions ==
  IF placed.functions = 0 THEN 0
  ELSE functions[placed.functions].offset + FunctionSize(functions[placed.functions])
EndOfShared(start) ==
  IF placed.shared = 0 THEN start
  ELSE shared[placed.shared].offset + DataSize(shared[placed.shared])

StartOfShared    == IF isObj THEN 0 ELSE EndOfFunctions
StartOfConstants == IF isObj THEN 0 ELSE EndOfShared(StartOfShared)

\* After rebuildOffsets every function, variable and constant begins where what is
\* emitted before it ends: no two overlap and there is no gap, in an object each
\* section for itself and in a program over all three.
LaidOut ==
  phase \in {"expose", "update"} =>
    /\ AllPlaced
    /\ \A i \in 1..placed.functions : FollowsFunction(i, 0)
    /\ \A i \in 1..placed.shared : Follows(shared, i, StartOfShared)
    /\ \A i \in 1..placed.constants : Follows(constants, i, StartOfConstants)

\* The instructions of a function and the items of a list of data, by id.
Instructions(def) ==
  LET code == Selected(def.stmts, IsInstruction)
  IN  [i \in DOMAIN code |-> code[i].id]
CellsOf(data) ==
  FlattenSeq([i \in DOMAIN data |-> [j \in DOMAIN data[i].cells |-> data[i].cells[j].id]])

IdsOf(item) ==
  IF item.is = "function"
  THEN Instructions(item)
         \o CellsOf(Selected(Inherited(item.locals), InSection))
  ELSE IF item.is = "globals" THEN CellsOf(item.vars)
  ELSE <<>>

IsNamed(d) == d.label # <<>>

LabelsOf(data) ==
  LET labels == Selected(data, IsNamed)
  IN  [i \in DOMAIN labels |-> labels[i].label]

NamesOf(item) ==
  IF item.is = "globals" THEN LabelsOf(item.vars)
  ELSE IF item.is = "prototype" THEN <<item.name>>
  ELSE <<item.name>>
         \o LabelsOf(Selected(FunctionVariables(item.name, item.locals), InSection))

ReadIds   == FlattenSeq([i \in DOMAIN read |-> IdsOf(read[i])])
ReadNames == FlattenSeq([i \in DOMAIN read |-> NamesOf(read[i])])

\* Statements that no source has: what allocation adds, what padding is read as.
Allocations == UNION {{s.id : s \in Range(p)} : p \in Prologues}
Added == {<<>>} \cup Allocations

\* What a source can hold: none of these, and a main that has an instruction.
FreshIds(item) == \A id \in Range(IdsOf(item)) : id \notin Added
Fresh(item) ==
  /\ FreshIds(item)
  /\ item.is = "function" /\ item.name = <<"main">> => Instructions(item) # <<>>

\* An image has every instruction and every item of data that was read, from
\* sources now or into objects before, as often as it was read and nothing else;
\* no name was read twice, and main comes first.
ImageIsWhole ==
  image # <<>> =>
    LET ids == ReadIds
        names == ReadNames
    IN
    /\ Cardinality(Range(names)) = Len(names)
    /\ \A id \in Range(ids) \cup ({e.id : e \in Range(image)} \ Added) :
         Cardinality({i \in DOMAIN image : image[i].id = id})
           = Cardinality({i \in DOMAIN ids : ids[i] = id})
    /\ \A item \in Range(read) :
         item.is = "function" /\ item.name = <<"main">> =>
           LET first == CHOOSE i \in DOMAIN image :
                          image[i].id \notin Added
                            /\ \A j \in DOMAIN image :
                                 image[j].id \in Added \/ image[i].at <= image[j].at
           IN  image[first].id = Instructions(item)[1]

\* What a name in a function means, by the rules of the language: the statement
\* behind a label of the function, its local variable, the variable it shares with
\* its other calls, a function, or a global variable.
After(stmts, i) ==
  stmts[CHOOSE j \in DOMAIN stmts :
          j > i /\ ~IsLabel(stmts[j]) /\ \A k \in (i + 1)..(j - 1) : IsLabel(stmts[k])].id

Labelled(seq, name) == {i \in DOMAIN seq : seq[i].label = name}

FirstCell(data, name) ==
  LET i == CHOOSE j \in Labelled(data, name) : TRUE IN data[i + 1].cells[1].id

Locals(def) == Inherited(def.locals)

OnItsStack(def, name) ==
  /\ \A i \in DOMAIN def.stmts : def.stmts[i].op = "label" => def.stmts[i].label # name
  /\ \E i \in Labelled(Locals(def), name) : OnStack(Locals(def)[i])

FunctionsRead == {x \in Range(read) : x.is = "function"}

\* Where in the image something was put; a function begins with what allocation
\* has put in front of it.
IndicesOf(id) == {i \in DOMAIN image : image[i].id = id}
EntryOf(i) ==
  CHOOSE j \in 1..i :
    /\ \A k \in j..(i - 1) : image[k].id \in Allocations
    /\ j = 1 \/ image[j - 1].id \notin Allocations

AddressesOf(def, name) ==
  LET code == {i \in Labelled(def.stmts, name) : def.stmts[i].op = "label"}
      functionsNamed == {x \in FunctionsRead : x.name = name}
      globalsNamed == {x \in Range(read) : x.is = "globals" /\ Labelled(x.vars, name) # {}}
  IN  IF code # {}
      THEN {image[i].at : i \in IndicesOf(After(def.stmts, CHOOSE i \in code : TRUE))}
      ELSE IF Labelled(def.locals, name) # {}
      THEN {image[i].at : i \in IndicesOf(FirstCell(def.locals, name))}
      ELSE IF functionsNamed # {}
      THEN {image[EntryOf(i)].at :
              i \in IndicesOf(Instructions(CHOOSE x \in functionsNamed : TRUE)[1])}
      ELSE {image[i].at :
              i \in IndicesOf(FirstCell((CHOOSE x \in globalsNamed : TRUE).vars, name))}

EmissionOf(id) == image[CHOOSE i \in IndicesOf(id) : TRUE]

\* Where the processor goes, or what it accesses: jumps count from the end of
\* their statement.
Reached(s, e, k) == IF IsJump(s, s.args[k]) THEN e.next + e.args[k].val
                    ELSE e.args[k].val

\* In the image every name of every statement leads to where the thing it means
\* has been put, whether the statement and the thing were assembled together or
\* one or both came through an object file.
ReferencesFind ==
  image # <<>> =>
    \A def \in FunctionsRead : \A s \in Range(def.stmts) :
      ~IsLabel(s) =>
        \A k \in DOMAIN Encoded(s) :
          Refers(s.args[k]) /\ ~OnItsStack(def, s.args[k].label) =>
            AddressesOf(def, s.args[k].label) = {Reached(s, EmissionOf(s.id), k)}

StackOf(def) == Selected(Locals(def), OnStack)

\* A local is what its label stands in front of.
Extent(data, name) ==
  LET i == CHOOSE j \in Labelled(data, name) : TRUE
  IN  SumOf([j \in DOMAIN data |->
               IF j > i /\ \A k \in (i + 1)..j : data[k].label = <<>>
               THEN DataSize(data[j]) ELSE 0])

\* The uses of the locals on the stack of a function: name and emitted argument.
StackUses(def) ==
  UNION {{<<s.args[k].label, EmissionOf(s.id).args[k]>> :
            k \in {n \in DOMAIN Encoded(s) :
                     Refers(s.args[n]) /\ OnItsStack(def, s.args[n].label)}} :
         s \in {t \in Range(def.stmts) : ~IsLabel(t)}}

\* The locals of a function whose locals are whole words: each use of one names
\* the same place, different ones are apart, and together they take no more than
\* what is allocated, with a frame pointer or without.
LocalsApart ==
  image # <<>> =>
    \A def \in FunctionsRead :
      (\A i \in DOMAIN StackOf(def) : DataSize(StackOf(def)[i]) % 4 = 0) =>
        \A u, v \in StackUses(def) :
          LET from(w) == w[2].val
              to(w)   == from(w) + Extent(StackOf(def), w[1])
          IN  /\ u[2].type = "DISPLACED" /\ u[2].base = v[2].base
              /\ to(u) - from(v) <= StackedDataSize(Definition(def))
              /\ IF u[1] = v[1] THEN from(u) = from(v)
                 ELSE to(u) <= from(v) \/ to(v) <= from(u)

\* A source is read to its end, or the assembler gives up, whatever includes what.
ReadToTheEnd ==
  phase = "reading" ~> phase # "reading" \/ (Len(buffers) = 1 /\ ~Unread)
=============================================================================
