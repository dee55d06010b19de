# vARCH in TLA+

TLA+ models of the vARCH virtual machine and of its assembler, from the reading
of its sources to the program it writes, the TLC runs that check them on small
instances, and theorems about them that TLAPS proves for every value of the
constants.  Paths are relative to the repository; `PROJECT.json` maps every
definition to the lines it stands for.

## 1. The system

vARCH is a byte-code virtual machine (`vArch`) and the tools that make programs
for it, of which the assembler `vasm` is the only finished one.  Everything is
sequential: there are no threads, nothing is sent and nothing is kept between
two invocations but object files.  What is hard is of another kind: a 32-bit machine whose
guest is arbitrary, whose arithmetic wraps and whose steps may fail half way;
and an assembler whose optimising passes walk mutable graphs, each relying on
invariants the passes before it left.

| Component | State | Operations | Correct when |
|---|---|---|---|
| `Mmu` (`src/Mmu.cpp`) | memory blocks of 4 bytes, base and limit of the window | load, store, resetLimits, dump | reads back what was written, never leaves window or memory |
| `Cpu` (`src/Cpu.cpp`) | data registers, frame pointer, two stack pointers, state register, program counter; `newFlags` and `resFlags` of a step | coreStep: fetch, instructions of 0 to 3 arguments, push, pop, init, dump | both modes keep their promise, arguments are stepped once, stacks are last-in first-out, flags stay where they belong |
| `Chipset` (`src/Chipset.cpp`) | clock, the components | startClock, initMem, put and get to a component | a failing step ends the machine, never the process |
| `CharTerminal`, `Component` | the last response and its readiness | put, get | - |
| Register allocator (`backend/RegAllocator.cpp`, `algorithms/TempsMap.*`) | working graph, stack of simplified nodes, two alias maps, assigned registers | simplify, coalesce, potential spill, select, apply | temporaries live together get different registers; terminates |
| Interference graph, `Graph` | nodes, arcs, move arcs, live sets | populateGraph, coalesce, fixCoalesce, removeNode | exactly the pairs that are live together |
| Flow graph (`algorithms/FlowGraph.h`, `backend/AssemFlowGraph.cpp`) | nodes with uses and defines, arcs, live map | _createArcs, _findUsesDefines, populateLiveMap | live sets are the ones the paths of the program say |
| `Frame` | the function it edits | calling convention, callee saves, local variables | the frame pointer and the callee-save registers are the caller's again at every return |
| `Linker`, `asm_program`, `TableOfSymbols` | functions, variables, constants and their offsets, symbol table | prelink, link, assignValuesToLabels, assemble | everything has a place of its own, and every name leads to what it means |
| `ObjHandler`, `Disassembler` | object files, which outlive the process | readObj, writeObj | a program is the same whether its parts were assembled together or not |
| `Optimizer`, `AsmChecker` | - | removal of useless statements; legality of arguments | meaning is kept |
| Lexer, `IncludesTree` | stack of open files, tree of includes, current location | openFirstFile, openIncludeFile, closeIncludeFile | a circular inclusion is found, locations are true, reading ends |
| `ASTL_Tree` | the definitions read | emitAsm | - |
| Parsers, vIR, command line, Python prototypes | - | text to tree, tree to text | - |

How they interact.  `main` (`vArch.cpp`) makes a `Chipset`, which owns the
`Mmu`, the `Cpu` and the components; the `Cpu` calls the `Mmu` for every access
and the `Chipset` for PUT and GET, all by direct calls; failures travel as C++
exceptions, some of which `coreStep` catches.  In the assembler, `vAsm.cpp`
has the lexer read each source, with what it includes, into an AST and emits the
IR (`asm_program`) from it.  `Backend::emit` then has the `AsmChecker`, the
`Frame`, the flow graph, the interference graph, the `RegAllocator` and the
`Optimizer` edit that one IR in turn, function by function.  The `Linker` works
out offsets and symbols (`prelink`), objects are read into the same IR in front
of what is there, and either the `ObjHandler` writes an object or the `Linker`
links (offsets once more, then the values of all references) and `asm_program`
assembles.  Statements and labels are shared by pointer: the table of symbols
sees an offset the moment it changes.

## 2. Modules

Virtual machine:

* `Memory` - blocks and lanes (bytes) of the memory, the pure translation of a
  load or a store to one or two blocks (`Mmu::loadFromMem`, `storeToMem`), the
  guards of both, addresses that wrap.  `ByteMod` (values of a byte), `AddrSpace`
  and `MaxMem` are constants.
* `AddressSpace` - what an MMU promises: a flat array of bytes behind a window.
* `Mmu` - the MMU as a component of its own: one action per request of any
  guest (granted, refused, or one whose address wraps and whose outcome is
  whatever memory that is not its own holds).  Implements `AddressSpace`.
* `Devices` - the components: what PUT, GET and their blocking forms do to the
  response of a terminal.
* `Cpu` - one instruction: arguments and their addressing modes (address, load,
  store, stepping), push and pop, the instructions of each arity, flags.  The
  machine state is a record; an instruction is a function from record to record,
  as `coreStep` is sequential, and an exception is the field `exc`, after which
  the record keeps what was already changed.
* `Privilege` - what supervisor and user are promised.
* `Machine` - the state machine: `Chipset::startClock` and `main` around
  `Cpu`: `Continue`, `Halt`, `Reboot`, `RebootFails`, `Throw`, `Crash`,
  `FinalDump`.  Implements `Privilege`.

Assembler:

* `AliasMaps` - `ReverseAliasMap` (`TempsMap.*`): aliases, finals, `Add`,
  `Insert`.
* `RegAlloc` - the allocator over a graph: one action per iteration of each loop
  of `simpleAllocateRegs` / `coalesceAllocateRegs`, `_applyCoalescingToGraph`,
  `_simpleSelect` and `applySelectedRegisters`; the operations of the graph
  (`removeNode`, `coalesce`, `fixCoalesce`) are part of the actions that call
  them.
* `Colouring` - what it promises: a proper partial colouring that only grows.
* `Statements` - the statements and arguments of the IR, and what the processor
  reads and writes for each of them, by uid.
* `Frame` - what the passes of `Frame` add to a function: saves and restores,
  parameters, results, locals, frame pointer (`Framed`).
* `AssemFlowGraph` - which uses, defines, successors and moves the code takes a
  statement to have, and which statements the `Optimizer` removes.
* `FlowGraph` - the analysis as a state machine, over any flow graph:
  `makeVisitList` (`Descend`, `Ascend`), `populateLiveMap` (`Sweep`,
  `SweepAgain`), `checkTempsUsedUndefined`, both loops of
  `InterferenceGraph::populateGraph` (`Interfere`, `Move`).
* `Lowering` - a source as `Compiled` takes it: the statements that `Frame` has
  completed, and for each what `AssemFlowGraph` takes it to do beside what the
  processor does (`GraphOf`, `Build`, `EffectOf`, `CarriesOf`); and, as conditions on
  the source alone, which functions the theorems are about (`FunctionUnderstood`,
  `PassedApart`, `FrameLeft`).
* `Compiled` - `doRegisterAllocation` for one function and then its run: the
  analysis, any proper colouring of the graph (what `Colouring` promises), and
  two runs side by side, one on the temporaries as they were written, one on
  registers, without what the optimizer removed.

* `Includes` - the lexer's stack of open files, and beside it the branch of the
  `IncludesTree` from the head to the current node: `OpenFirstFile`,
  `OpenIncludeFile`, `CloseIncludeFile`, `CloseFirstFile`, `ReadDefinition`, and
  the two ways an inclusion fails.
* `Assembly` - the IR as the front and the linker see it: the shapes of what the
  grammar makes of a source (`IsItem`), sizes of statements, functions and data, what
  `emitAsm` makes of a tree, what `AsmChecker` refuses.
* `Linking` - the pure part of the `Linker`: places within a function, the table
  of symbols, the value of a reference, the order of the functions, what is
  emitted where.
* `Objects` - `writeObj` and `readObj` (with the `Disassembler` and its lookups):
  what an object keeps of a program and what is read back.
* `Vasm` - the assembler as a state machine over a plan, a sequence of
  invocations as a build makes them: reading a line at a time, `Check`,
  `Allocate`, `rebuildOffsets` a function, variable or constant at a time
  (`PlaceFunction`, `PlaceShared`, `PlaceConstant`), `ExposeGlobalLabels`,
  `AssignValuesToLocalLabels`, `LoadObj`, then `SaveObj` or `Link`,
  `UpdateFunctionLabels`, `AssignValuesToLabels`, `Assemble`.  Every exception
  ends the invocation (`Fail`), and with it the plan.

The two state machines of the assembler meet at `Allocate`: `Compiled` follows
one function through allocation and its run, `Vasm` a whole program around it,
where allocation does what `Compiled` shows of it (no temporaries are left,
statements may have been put in front) or fails.

What a statement reads and writes (`ReadsOf`, `WritesOf`) is translated from the
`Cpu`; what the assembler believes of it (`UsesOf`, `DefsOf`) from
`AssemFlowGraph.cpp`.  That the second covers the first is checked and proved, not
assumed.

`MC...` modules give the constants values for TLC; `...Proofs` hold the
theorems; `Induction` holds what the proofs need to know of recursion, of joined
sequences and of finite sets of numbers.  Definitions marked `(* mutant *)` are deliberately wrong variants of
the one that follows them; nothing uses them.  They are there to show that each
property fails when the code has the defect they stand for (`mutants` of
`PROJECT.json` pairs them).

Abstractions.  A byte has `ByteMod` values and registers are four bytes; the
runs of the machine take 16 (nibbles), so that a register of 16 bits still holds
the twelve flags and its wrapping is in reach.  Decoding of instruction words is
left out: the guest is any program, so the word at the program counter may be
any instruction of the set the run names (self-modifying code included).  What
lies outside of memory (`AbsurdAddress`, past the vector) is a nondeterministic
choice.  In `RegAlloc` the special registers are left out, as
`AssemFlowGraph::_addToSet` keeps them out of every set; order between nodes by
address is a nondeterministic choice, order by uid is kept.  In `Compiled`
memory is left out: what a load yields is any value, the same in both runs.  Of
the stack it keeps which word is whose (`"caller's"`, `"return"`, `"datum"`), as
many as were pushed.  A statement writes any value, the same on both sides, and
where two of its results share a register either may come last.

In `Vasm` a line of a source is an inclusion or a whole definition; an
instruction and a datum are an id, which stands for their bytes, with the sizes
and references they have.  A name is a sequence of identifiers, so that `f::x`
and `x` are different names and nothing is parsed.  `image` is what was
assembled: each id with the place it was put, the place it ends and its
arguments, so that an address can be followed.  An object keeps of an argument
what its bytes keep: not the label, which only a relocation tells.

## 3. Runs

| Run | Question | Bounds, and why they are enough |
|---|---|---|
| `Mmu` | flat memory, read-back, window | 2 blocks of two-valued bytes and every address of a space of 20: every way a datum can straddle two blocks, touch the limit or wrap |
| `Machine` | modes, stacks, arguments | four guests. `modes`: five steps of thirteen instructions (into user mode and back with a fault in between takes four). `stack`: four steps, stacks at both ends of memory and of the address space. `mov`: registers are loaded, then MOV between any two arguments of all eight modes and five modifiers. `ops`: every other instruction on a third of those |
| `MachineReboot`, `MachineOdd`, `MachineShared` | one disagreement each, see 6 | the shortest guest that shows it |
| `RegAllocAll` | proper colouring, no unforeseen exception | every graph and every set of moves on three temporaries and two registers |
| `RegAllocSpills` | aliases, termination, spilling, refinement | four temporaries and one register, the least with couples before, between and after several potential spills |
| `RegAllocCriteria` | see 6 | - |
| `Compiled` | live sets, interferences, meaning kept, calling convention | twelve functions: a loop (README's `print`), a diamond, two returns with a swap, calls with moved arguments, `main`, with and without frame pointer, one for each way to fail; four registers of which one is saved, two values: the least with which every function that should compile does |
| `CompiledLoads`, `CompiledWide` | see 6 | one function each |
| `Vasm` | includes, layout, references, object files | every way two files of up to two lines include each other and themselves, one of them under two names (`a`, `./a`), or a file that is missing; one source or two; programs of two files with two functions and one, shared, constant and local variables, and up to three references of each kind, assembled in either order, together, through one object or through two, with and without frame pointer and statements put in front; twelve programs that something is wrong with, so that every way to fail is taken |

Two files are enough for `Vasm`: a circle of includes needs two, or one and two
names; a reference leads into its own file or into another; and an object is
read in front of a program that has, or has not, an object read before it.

`CHECK_DEADLOCK FALSE` is set for the machine (it halts) and the allocator (it
ends), as for a function that was run; the MMU always answers.  `Vasm` is checked
for deadlock: `Finished` is the one way to stop, when the plan is done or has
failed.

Fairness.  `RegAlloc` has `WF_vars(Next)` (`FairSpec`): the loop is sequential,
in one thread, and takes its next iteration as long as there is one.  `Vasm` has
`WF_vars(Reading)` for the same reason, where `Reading` is the lexer's loop;
`ReadToTheEnd` then says that no inclusion keeps it from the end of the source.
Nothing else is assumed fair; the machine has no liveness to state, its guest may loop.

## 4. Proofs

`MmuProofs`, for every memory size, byte size and guest:

* `TypeCorrect`, `WindowStaysInMemory`: the inductive invariant is the two
  together; `resetLimits` checks a sum that may wrap, and the proof is that it
  still cannot leave memory.
* `AccessesContained`, `OnlyNamedCells`, `StoreReadsBack`: from lemmas about
  `Memory` that turn a masked and shifted access to one or two blocks into the
  list of lanes it names (division and remainder by four).
* `Refinement`: the initial state and each request that does not wrap map to
  `AddressSpace`, from any state that requests that do wrap may have led to.

`RegAllocProofs`, for every number of temporaries and registers and every graph:

* `AllocationIsProper` (`ProperColouring`): a function that is given registers
  has different ones for interfering nodes.  No formula of the property's own
  size is inductive.  `IInv` is the conjunction of `TypeOK`; `AliasInv` (both
  alias maps flat and inverse of one another: finals are nobody's alias);
  `GraphInv` (the working graph is irreflexive, symmetric, between its own
  nodes, and moves never join interfering nodes); `RepInv` (while
  coalescing, the arcs of the given graph, mapped through the aliases, are arcs
  of the working graph or lead to a node already on the stack); `ColourInv` (in the
  select phase, interfering nodes that both have a register have different ones).
* `MovesAreFree`, `AliasesStayFlat`, `TypeCorrect` are conjuncts of it or follow.

* `Refinement` (`ImplementsColouring`): the colour a node shows is that of the
  node it stands for (`ColoursAre`).  Selection gives a whole class of coalesced
  nodes a colour at once (`SelectGives`), coalescing adds a node without a colour
  to a class (`CoalesceGives`), the end of the function succeeds or gives up, and
  every other step shows nothing (`Stutters`).
* `ThrowsForSelfMovesOnly` (`ThrowsForSelfMoves`): inductive is `KeptInv`: no
  temporary is lost on the way.  It is in the graph, an alias, or on the stack
  until it has a register, the copy that the aliases are applied to has every
  node that is no alias, and a move of a temporary to itself comes from the
  graph that was given.
* `SpillsArePotential` (`OnlyPotentialSpillsSpill`): a node that was removed with
  fewer neighbours than registers is never spilled.  When it is removed this is
  plain; what is inductive is that it stays so until it is popped: coalescing
  its neighbours leaves it with no more of them, its neighbours in the copy that
  the aliases are applied to are exactly those of the given graph, mapped through
  the aliases, and whoever has a register when it is popped was above it on the stack.

`CompiledProofs`, for every function, every number of registers and temporaries
and every set of values:

* `Agreement` (`Agree`): whatever proper colouring is chosen, what a statement
  reads is the same before and after.  The hypothesis `AllCovered` says that the
  uses and defines of the statements cover what the processor does with them.
  `IInv` is the conjunction of `TypeOK`; `VisitInv` (what the depth first visit
  has left leads only to what it has entered, so when it ends the visited nodes
  are closed under successors); `LiveInv` (in a sweep that has modified nothing,
  the nodes swept so far satisfy the equations of liveness, hence all do when the
  sweeps end); `GraphInv` (the nodes that were passed have left their arcs);
  `RunInv` (the two runs agree on all that is live before the next statement).
  `Agree` alone is not inductive: what the next statement reads may have been
  written long before.  `AtStatement` gathers what one statement may rely on,
  `ExecuteAgrees` goes through the five things that may happen to it.
* `LivenessExact` (`LiveIsOnPaths`): the live sets are exact, not only large
  enough.  That they are large enough is the equations of `LiveInv`; that they hold
  nothing else is `PathInv`: a uid in a set has, from that node, a path to a use
  that no define interrupts, and a sweep only carries it one arc back.  The
  reference definition, `LivePoints`, counts its iterations out in a recursive
  function; `Induction` shows that such a function exists and that after as many
  steps as there are nodes it is a fixed point.
* `UsesAndDefinesAreCovered` (`UsesAndDefinesCover`): the hypothesis of
  `Agreement`, derived from the sources.  `FunctionUnderstood` lists what
  `AssemFlowGraph` misreads, and each of its clauses is the trace of a line: no
  load moved through a temporary, no index in an allocated register, no
  stepping outside of MOV (and none in a compared or moved pair), no POP or BGET
  into an allocated register, arguments of calls and returns in registers.  The
  proof goes through the forms of a statement, those of the source and those
  `Frame` adds.  `SourcesAgree` is `Agreement` with that hypothesis.
* `ArgumentsArrive` (`ValuesArrive`): `Frame` puts the moves of a call one after
  another and resolves no cycles, so the theorem needs `PassedApart`: no argument
  is passed in the register that another comes from or is passed in.
  `LaidOut` says where in the joined sequence each statement lies: a function is
  a prologue and one piece for each statement of the source; `Leads` says that
  within a piece control goes on to the next statement, and that a jump enters a
  piece at its start.  Inductive is `ArrivesInv`: before the i-th statement of the
  piece of a call, the first i - 1 arguments are in the registers they are to arrive in.
* `ConventionIsKept` (`ConventionKept`): at a return the caller has its stack, its
  frame pointer and its callee-save registers again, along any path, with the frame
  pointer or without, for any proper registers.  `FrameLeft` is the hypothesis: the
  statements of the source leave stack and frame pointer alone and the locals are
  of at most four bytes or texts (`CompiledWide` shows the others).  Inductive is
  `FrameInv`, which says for each statement of the prologue and of each piece how
  many words and which data are on the stack, whose the frame pointer is, and
  where each callee-save register of the caller is held: in itself, or in its save
  temporary, from the move that saves it to the move that restores it.  It says so of
  the run on temporaries, in which no other statement writes a save temporary:
  `MinNewTemp` lies above every uid that the function names (the largest of a
  finite set).  `RunInv` carries it to the run on registers, since a return reads
  the callee-save registers.
* `GraphIsFit` (`GraphFits`): the graph that `populateGraph` makes, of any function
  at all, is what `RegAlloc` assumes of the graph it is given; with
  `AllocationIsProper` and `Agreement` the three results meet at `Proper`.

That the conditions on the sources are met by real ones is checked: `MCCompiled`
assumes them of the twelve functions of the run `Compiled`, and assumes that
`Loads` and `Wide`, the functions of the two counterexamples, do not meet them.

`VasmProofs`, for every set of files and builds:

* `ChainIsSound` (`ChainSound`): the stack of open files and the branch of the
  tree name the same files, and no name is open twice, which is why reading must
  end.  Inductive is `ReaderInv`, which adds that a node has the directory of its
  name, that each one but the first was included from the line the file below it
  is at, and that the current location is the line of the file on top.
* `LocationsAreTrue` (`LocationsTrue`): a location is true while a file is read
  and must be true again when it is returned to; `TreeInv` says it of all
  that was read, and needs `ReaderInv` for the lines that wait below.
* `CirclesAreFound` (`CircularFound`): both ways.  An inclusion that is refused closes a
  circle, since the open files include one another; and a source that was read to
  its end has none.  For that, inductive is (`IncludeInv`) that what the lines read
  so far of each open file include leads to no file that leads to itself, and the
  closure of the includes is followed with `Induction`.  A file that is included
  twice, along two branches, is no circle: what counts is the branch.
* `LaidOutAlways` (`LaidOut`): nothing overlaps and nothing is lost between, for
  any program, objects and allocation.  `LaidOut` is about the end of
  `rebuildOffsets`; `Placing` is what holds on the way (what was placed is in order, `tempOffset` is
  the end of it, and placing something changes neither its size nor what was
  placed before), and `PlacingSteps` goes through the actions.
* `TypeCorrect` (`LocalsEndInData => TypeOK`): what the variables hold, for every
  source that the grammar accepts.  Inductive, on top of `IncludeInv` and
  `ReaderInv`, is `TypeInv`: the lines of the files and of the tree are
  definitions (`FilesWell`, `TreeWell`), the counters stay within what they count
  (`CountsWell`), functions and data are lists of functions and data, of natural sizes
  (`FunctionsWell`, `DataWell`), and so are the objects written and the image
  (`OutWell`).  Two notions carry it through the passes: one that edits functions
  leaves `Kin` (statements may have been put in front, and only places and values
  changed), and one that places data changes its offset alone.  The hypothesis is that
  the locals of a function end in something of a size, and the attempt to do without it
  found why: the grammar (`IR_Low_parser.ypp`, `data_stmt_list`) accepts a label with
  nothing behind it, whose offset is then -4 in a `size_t` (where the locals are whole
  words, so that alignment adds nothing).

`ImageProofs`, for every set of files, on top of `TypeInv`:

* `PlainImageIsWhole` (`PlainBuild => ImageIsWhole`): for builds of one invocation that
  loads no objects (`PlainBuild`) the image has what was read, as often as it was read,
  no name was read twice, and main comes first.  Inductive is `PlainInv`, a
  balance.  How often an id or a name occurs in what was read (`ItemsCount`) is what the tree
  still holds of it (`Pending`) and what the program has of it in functions, shared
  data and constants (`FunctionsCount`, `DataCount`).  Emission moves an item from one
  side to the other; placing, exposing, assigning values, allocation and moving main are shown, one
  lemma for each, to change no count.  That no name was read twice follows once the labels are
  exposed: the table of symbols refuses a second one (`Late`).  That main comes first
  needs that it is the first function once the linker moved it (`Linked`), that every
  function lies behind the one before it, and that padding and the statements of allocation
  are none of what was read.  `Assemble` then turns counts of the program into counts of the
  image (`Times`).  The proof found two conditions that the property needs (`Fresh`): a
  source holds no id of what is added later, and a main has an instruction, as otherwise
  the first instruction of the image is that of another function.  `MCVasm` assumes
  `Fresh` of every source of the run's builds, so the theorem is about builds there are.
* `PlainLocalsApart` (`PlainBuild /\ OwnIds => LocalsApart`): in such a build whose
  instructions have ids of their own, the references to the locals of a function keep
  them apart.  `OwnIds` is about the model: an id stands for an instruction, and
  `MCVasm` assumes it of the run's programs.  Inductive is `LocalsInv`, on top of
  `PlainInv`, in three parts.  `Traced`: every function read is in the tree, or one of
  the program is derived from it (`DerivedFrom`: statements that are not of a source in
  front, then its own with other places and values, and its locals with other places).
  `PutInv`: from the placing of a function on, its locals are where `LocalAt` counts
  them (`Put`), and after the last pass every argument that names a local on the stack
  has that place, from the stack or the frame pointer as the invocation says
  (`StackBound`).  And once there is an image, its uses are apart (`ApartIn`): the
  instruction that was read is found by its id (`OneEmission`, from the balance of
  `PlainInv`) and has the argument of the derived function (`UseFound`); where sizes
  are whole words, `LocalAt` and `Extent` are differences of the same partial sums, and a
  local ends no later than the next label stands (`ExtentEnds`, `PlacesApart`).

`MachineProofs`, for every memory, width of a byte, guest and set of components:

* `TypeCorrect` (`TypeOK`): the lemmas before it go through every operator of
  `Memory`, `Devices` and `Cpu`, so that no wrapped sum, scaled argument or stack
  word leaves the width it is kept in.  `TypeOK` is inductive as it is.
* `ArithmeticFlagsOnly` (`FlagsOfAStep`) and `UsersAreConfined`
  (`UserIsConfined`) rest on one classification of what a part of an instruction
  may change.  `Ordinary`: fetches, stores, stacks and arguments keep the new
  flags and the window, and a user's state register and supervisor stack pointer.
  `Confined`: the operation itself, which may also raise flags, keeps a user
  there only if the overflow bit was clear, since flags are added.  `Done`: what a
  whole instruction leaves, with the exceptions for RETEX, MMU, HALT and REBOOT.
  `Marks`: whatever is added to flags that `resetFlags` cleared stays below 16.
* `LastDumpEndsWell` (`LastDump`): the walk of the dump after the machine stopped.
* `PromiseKept` (`KeepsPromise`): the machine implements `Privilege` as long as
  `UsersPlain` holds: no user has the overflow bit, which RETEX alone can leave.
  The hypothesis is needed, as `MachineOdd` shows; the guests of `Machine`
  meet it.

`InstructionProofs`, on top of it, for the same; here values are compared, so each
follows one or two steps from fetch to store, mode by mode:

* `ArgumentsStepOnce` (`StepsOnce`): a register that steps, does so once and by the
  right size, whether the argument is loaded, stored or both.
* `FusedJumpsAgree` (`FusedJumpAgrees`): a comparison and IFJ against IFEQJ, IFNEQJ and so on.
* `PointedDataIsKept` (`PointedDataKeptApart`): what memory held is left as it was by an
  instruction that only reads there.  The proof found what the property has to
  leave out: a destination that moves what the source was reached through, which
  is not only the same register but SP under its other name, SR, which selects the
  stack, and the overflow flag of a user that reaches it.
* `WhatIsMovedIsRead` (`MovedIsRead`): `storeArg` and `loadArg` name the same place.
* `StackComesBack` (`StackRoundTrip`): JSR and RET, PUSH and POP, PUSHA and POPA, also
  where the stack pointer wraps.

Assumptions are the `ASSUME`s of `Memory`, `Cpu`, `Machine`, `Mmu`, `RegAlloc`, `FlowGraph`,
`Includes`, `Compiled`, `Lowering` and `Vasm`: sizes are positive, a byte has a power of two of values, from 8 to
256, memory fits the address space, guests are made of instructions, graphs are
irreflexive and symmetric with no move inside an interference, which is what
`populateGraph` builds, a move has at most one use and one define, every name
has a file or none, an instruction has at most three arguments, the registers
of `Compiled` are those `Frame` counts with, the lines of a source have the shapes the
grammar gives them, and what allocation puts in front of a function are instructions
that name no label.

## 5. Model-checked only

* `Terminates` of the allocator and `ReadToTheEnd` of the lexer: liveness under
  fairness is out of the prover's reach.
* `KeepsPromise` for guests that set a user's overflow bit, where it fails.
* Of `Vasm`: `ReferencesFind`, which the linker keeps for the kinds of references the
  run's builds have and not for all (section 6), so that a theorem needs those kinds
  spelled out first; `ImageIsWhole` and `LocalsApart` of builds of several
  invocations, where what was read is spread over object files; and `TypeOK` where a
  function's locals end in a label.
* Nothing is claimed of `Agree`, `ValuesArrive` and `ConventionKept` for functions that
  do not meet the conditions of section 4; `CompiledLoads` and `CompiledWide` show
  why two of the conditions are needed.

## 6. Where code and text disagree

1. `MachineReboot`: `Cpu::init` adds the supervisor flag to flags that have it
   at every reboot; the machine restarts in user mode.
2. `MachineOdd`: flags are raised by addition; with the bits that RETEX may
   leave set, an overflow in user mode carries into the supervisor bit for the
   rest of the step, and SP names the other stack.
3. `MachineShared`: a stepping source writes its datum back through a register
   the same instruction has just overwritten.
4. `RegAllocCriteria`: the loops of George's and Briggs' criterion end where they
   start, so every couple is coalesced; `_freezeNode` is never reached.
5. `CompiledLoads`: a load through a temporary counts as a move from it, so the
   two do not interfere, and the pointer is lost while it is still needed.
6. `CompiledWide`: a local of eight bytes is pushed as one word and released as
   two; the function returns through the wrong word.

Met on the way, in the models but without a run of their own: stepping arguments
outside of MOV and the argument of POP are not defines (`ArgIsDefined`); the
optimizer compares arguments by register alone (`Compared`); a function that
names no register and no temporary does not compile (`Bare`), nor one that
moves the stack pointer to a temporary (`Pointed`, `Unread`).

Met in the linker and the object files; the models have them, the builds of the
run stay clear of them, and no property claims the contrary:

* A local is placed at FP - (S - 4) and up, S being what the locals take, where
  `Frame` pushes them at FP - S and up: the last one lies on the saved frame
  pointer, and without a frame pointer each lies one word too high
  (`Linker.cpp:112`).  `LocalsApart` therefore says only that locals are apart, that
  every use names the same place and that they span no more than S; and it says so
  of whole words, since places are counted unaligned and sizes aligned.
* `exposeGlobalLabels` puts a label into every function, so `checkNoPrototypes`
  finds no function empty and a prototype nobody defines is never reported
  (`Linker.cpp:31`, the outcome `prototypes` of `Link` is not reached).
* A name an object does not define leaves no relocation (`ObjHandler.cpp:347`), and the
  linker never hears of it.
* A reference to a code label of its own function that is no jump gets the distance
  from the start of the function, not of the program (`Linker.cpp:301`).
* A relocation prefers a global over a static name of the function, where a link
  without objects prefers the static one.
* A jump to a static variable lacks the offset of the function (`Linker.cpp:268`).
* Padding is read back as an instruction (`Garbage`); a word of eight bytes has no reader
  (`WideImmediate`); a label at the end of its section is not read back (`Sorted`).
* Arguments of a call after the first have a place in the statement that the
  emitted code does not have (`WithArgs`, `Encoded`).

The guard on the component number is `>` for GET and `>=` for PUT; the model
has both, no run is spent on it.

What still holds in spite of each is a property of a passing run (`FlagsOfAStep` and `UserIsConfined`, `PointedDataKeptApart`,
`ProperColouring` and `OnlyPotentialSpillsSpill`, `Agree` and `ConventionKept`).

## 7. Plan

What is left, in this order:

1. Proofs: `ImageIsWhole` and `LocalsApart` through object files, which needs that what an
   object keeps and what is read back of it have the same counts; then `ReferencesFind`,
   which can rest on `LaidOutAlways`, `Traced` and on the names that are apart.
2. Defines of the preprocessor, and inclusions in the middle of a function.
3. Whole programs through allocation: `Compiled` for each function of `Vasm`.

## 8. Not modelled

Tokens and grammar (flex and bison generate the automata), the translation of
one argument of the tree to one of the IR, defines (they replace text by text),
an inclusion in the middle of a function (the model includes between
definitions), the vIR prototype, the command line and the printing of the
disassembler (text only), the Python drafts (nothing calls them).  Of object
files: the ELF library and files that this assembler did not write.  What padding
decodes to depends on the bytes behind it: it is one statement, `Garbage`, or a
failure.  Of the machine: the encoding of instruction words, the time a step
takes, what the terminal prints.
