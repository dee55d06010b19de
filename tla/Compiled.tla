------------------------------ MODULE Compiled ------------------------------
(***************************************************************************)
(* A function from its flow graph to its return: Backend's                 *)
(* doRegisterAllocation, with any allocation the RegAllocator may come to, *)
(* then the run of the function, before and after its temporaries were     *)
(* replaced, side by side.  The left run has a value for each register and *)
(* each temporary, the right one for registers only, and skips what the    *)
(* optimizer removed.  Both take the same branches, load the same data and *)
(* have the same calls return to them, as they do as long as whatever an   *)
(* instruction reads agrees: which is the property.                        *)
(*                                                                         *)
(* Beside its flow graph, a function has for each statement what it reads  *)
(* and writes, whether it copies; the pair of uids the optimizer compares; *)
(* whether it is removed as idle; its effect on stack and frame pointer;   *)
(* which uid is to arrive in which register.                               *)
(***************************************************************************)
EXTENDS FlowGraph

CONSTANTS
  CalleeSaved,  (* registers a function returns as they were               *)
  Value,        (* what a register may hold                                *)
  Garbage       (* what a temporary holds that was never written           *)

Held == Value \cup {Garbage}

ASSUME CompiledAssumption ==
  /\ CalleeSaved \subseteq Registers
  /\ Garbage \notin Value
  /\ \A k \in DOMAIN Table : LET f == Table[k] IN
       /\ f.reads \in [NodesOf(f) -> SUBSET Uid]
       /\ f.writes \in [NodesOf(f) -> SUBSET Uid]
       /\ f.copies \in [NodesOf(f) -> BOOLEAN]
       /\ f.compared \in [NodesOf(f) -> SUBSET Arcs]
       /\ f.idle \in [NodesOf(f) -> BOOLEAN]

VARIABLES
  colour,       (* the register of each uid                                *)
  pc,           (* the statement to be executed next                       *)
  left, right,  (* the two runs                                            *)
  entry,        (* the registers when the function was called              *)
  fp, stack     (* frame pointer and stack, the top last                   *)

run  == <<pc, left, right, entry, fp, stack>>
vars == <<fvars, colour, run>>

Outcomes == {"run", "returned", "ended"}

TypeOK ==
  /\ FlowTypeOK
  /\ phase \in Phases \cup Outcomes
  /\ colour \in [Uid -> Registers \cup {0}]
  /\ pc \in Nodes
  /\ left \in [Uid -> Held]
  /\ right \in [Registers -> Held]
  /\ entry \in [Registers -> Held]

Init ==
  /\ FlowInit
  /\ colour = [u \in Uid |-> 0]
  /\ pc = 1
  /\ entry = [r \in Registers |-> Garbage]
  /\ right = entry
  /\ left = [u \in Uid |-> Garbage]
  /\ fp = "caller's"
  /\ stack = <<"caller's", "return">>

Analyse ==
  /\ FlowNext
  /\ UNCHANGED <<colour, run>>

(* What the allocator promises (Colouring): interfering nodes differ.      *)
(* Then the function is called, with anything in the registers.            *)
Named == UNION {fn.uses[n] \cup fn.defs[n] : n \in Nodes}
Colours(c) == [u \in Uid |-> IF u \in Registers THEN u
                             ELSE IF u \in DOMAIN c THEN c[u] ELSE 0]
Proper(c) == \A a \in interf : c[a[1]] # c[a[2]]

Allocate ==
  /\ phase = "built"
  /\ phase' = "run"
  /\ \E c \in [Temps \cap Named -> Registers] : colour' = Colours(c)
  /\ Proper(colour')
  /\ entry' \in [Registers -> Value]
  /\ right' = entry'
  /\ left' = [u \in Uid |-> IF u \in Registers THEN entry'[u] ELSE Garbage]
  /\ UNCHANGED <<name, visit, at, modified, live, graph, pc, fp, stack>>

(* What the optimizer removes.                                             *)
Removed(n) == fn.idle[n] \/ \E p \in fn.compared[n] : colour[p[1]] = colour[p[2]]

-----------------------------------------------------------------------------
(* Stack and frame pointer.                                                *)
Pop(s, words) == IF Len(s) < words THEN <<>> ELSE SubSeq(s, 1, Len(s) - words)
TopOf(s) == IF s = <<>> THEN "nothing" ELSE s[Len(s)]

Effect(e) ==
  /\ fp' = CASE e.kind = "setFP" -> "own"
             [] e.kind = "popFP" -> TopOf(stack)
             [] OTHER -> fp
  /\ stack' = CASE e.kind = "pushFP" -> Append(stack, fp)
                [] e.kind = "push" -> Append(stack, "datum")
                [] e.kind \in {"pop", "popFP"} -> Pop(stack, 1)
                [] e.kind = "release" -> Pop(stack, e.words)
                [] OTHER -> stack

(* What a statement leaves in what it writes.  Of two that share a register *)
(* either may be written last.                                             *)
Written(n, vals) == [u \in Uid |-> IF u \in fn.writes[n] THEN vals[u] ELSE left[u]]
InRegisters(n, vals, last) ==
  [r \in Registers |-> IF r \in DOMAIN last THEN vals[last[r]] ELSE right[r]]
Used(n) == {colour[u] : u \in fn.writes[n]}

Compute(n) ==
  \E vals \in [fn.writes[n] -> Value] :
    /\ left' = Written(n, vals)
    /\ \E last \in [Used(n) -> fn.writes[n]] :
         /\ \A r \in Used(n) : colour[last[r]] = r
         /\ right' = InRegisters(n, vals, last)

Copy(n) ==
  \E x \in fn.reads[n], y \in fn.writes[n] :
    /\ left' = [left EXCEPT ![y] = left[x]]
    /\ right' = [right EXCEPT ![colour[y]] = right[colour[x]]]

(* One statement of both runs.  Where it is removed, the left one executes *)
(* it all the same.                                                        *)
Execute(n) ==
  IF fn.idle[n] THEN UNCHANGED <<left, right>>
  ELSE IF ~Removed(n) THEN (IF fn.copies[n] THEN Copy(n) ELSE Compute(n))
  ELSE IF fn.copies[n]
    THEN \E x \in fn.reads[n], y \in fn.writes[n] :
           left' = [left EXCEPT ![y] = left[x]] /\ UNCHANGED right
  ELSE /\ \E vals \in [fn.writes[n] -> Value] : left' = Written(n, vals)
       /\ UNCHANGED right

Step ==
  /\ phase = "run"
  /\ fn.effect[pc].kind # "halt"
  /\ Execute(pc)
  /\ Effect(fn.effect[pc])
  /\ pc' \in fn.succs[pc]
  /\ UNCHANGED <<fvars, colour, entry>>

Stop ==
  /\ phase = "run"
  /\ fn.succs[pc] = {} \/ fn.effect[pc].kind = "halt"
  /\ phase' = IF fn.effect[pc].kind = "return" THEN "returned" ELSE "ended"
  /\ UNCHANGED <<name, visit, at, modified, live, graph, colour, run>>

Next == Analyse \/ Allocate \/ Step \/ Stop
Spec == Init /\ [][Next]_vars

-----------------------------------------------------------------------------
(* What the code takes of a statement covers what the processor does: it  *)
(* uses what it reads, defines what it writes, is a move only where it     *)
(* copies, and is removed only where that, or nothing, is lost.            *)
Covered(f) ==
  \A n \in NodesOf(f) :
    /\ f.reads[n] \subseteq f.uses[n]
    /\ f.writes[n] \subseteq f.defs[n]
    /\ f.defs[n] \subseteq f.writes[n] \cup f.uses[n]
    /\ f.isMove[n] /\ f.uses[n] # {} /\ f.defs[n] # {} => f.copies[n]
    /\ f.idle[n] => f.defs[n] \subseteq f.uses[n]
    /\ f.copies[n] => /\ \A x, y \in f.reads[n] : x = y
                      /\ \A x, y \in f.writes[n] : x = y
    /\ f.compared[n] # {} =>
         \/ f.copies[n] /\ f.compared[n] \subseteq f.reads[n] \X f.writes[n]
         \/ f.writes[n] = {}

(* So it is for the statements of this function, the ones the back end     *)
(* added included (_findUsesDefines, _moveInstr, Optimizer).               *)
UsesAndDefinesCover == phase = "run" => Covered(fn)

(* What a statement reads is the same before and after temporaries were    *)
(* replaced by registers, on every path and for every allocation: neither  *)
(* liveness, nor interferences, nor the moves that were taken apart, nor   *)
(* the statements that were removed have lost a value that is still used.  *)
Agree ==
  phase = "run" => \A u \in fn.reads[pc] : left[u] = right[colour[u]]

(* The calling convention, through everything the back end adds: at a call *)
(* the arguments are in the registers the callee takes them from, and at a *)
(* return the result is in the first register (Frame::mindParamsFCalls,    *)
(* mindReturnStmts).                                                       *)
ValuesArrive ==
  phase = "run" => \A p \in fn.carries[pc] : right[p[2]] = left[p[1]]

(* A function returns to its caller, with the caller's frame pointer, its  *)
(* stack and the registers that the callee saves                           *)
(* (Frame::mindCalleeSaveRegs, deallocateLocalVariables,                   *)
(* updateFramePointer).                                                    *)
ConventionKept ==
  phase = "returned" =>
    /\ stack = <<"caller's", "return">>
    /\ fn.main \/ fp = "caller's"
    /\ \A r \in CalleeSaved : right[r] = entry[r]
=============================================================================
