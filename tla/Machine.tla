------------------------------- MODULE Machine -------------------------------
(***************************************************************************)
(* The virtual machine as main (src/src/vArch.cpp) and Chipset::startClock *)
(* drive it: the processor steps until HALT or an exception, REBOOT loads  *)
(* the BIOS again, and main prints a last dump.  The guest is any program: *)
(* the word at the program counter may be any instruction of the set the   *)
(* step draws from, so a store may have changed it.  The length of its     *)
(* steps bounds the run.                                                   *)
(***************************************************************************)
EXTENDS Cpu

CONSTANTS
  Guests,    (* the programs, by name: bios, the memory after initMem, and *)
             (* steps, a sequence of sets: what the n-th step may execute  *)
  FirstFp    (* framePointer is never initialised: what it may hold        *)

ASSUME MachineAssumption ==
  /\ FirstFp \subseteq Word
  /\ \A g \in DOMAIN Guests :
       /\ Guests[g].bios \in MemoryImage
       /\ Len(Guests[g].steps) \in Nat
       /\ \A n \in 1 .. Len(Guests[g].steps) : Guests[g].steps[n] \subseteq Instruction

VARIABLES
  guest,      (* the program                                               *)
  cpu,        (* the machine record of Cpu                                 *)
  phase,      (* where main is                                             *)
  clock,      (* steps done                                                *)
  executed    (* the instruction of the last step and how it ended         *)

Program == Guests[guest]
vars == <<guest, cpu, phase, clock, executed>>

Phases == {"running", "halted", "stopped", "crashed", "finished"}

Record ==
  [r : [DataReg -> Word], fp : Word, usp : Word, ssp : Word, sr : Word,
   pc : Word, mem : MemoryImage, base : Addr, limit : Addr,
   dev : [Device -> [resp : Word, ready : Readiness]],
   exc : Outcome, res : {"SLEEP", "HALT", "REBOOT"}, new : Word]

TypeOK ==
  /\ guest \in DOMAIN Guests
  /\ cpu \in Record
  /\ phase \in Phases
  /\ clock \in 0 .. Len(Program.steps)
  /\ executed.exc \in Outcome

Blank(fp) ==
  [r |-> [n \in DataReg |-> 0], fp |-> fp, usp |-> 0, ssp |-> 0, sr |-> 0,
   pc |-> 0, mem |-> Program.bios, base |-> 0, limit |-> MaxMem,
   dev |-> [n \in Device |-> NewDevice],
   exc |-> "none", res |-> "SLEEP", new |-> 0]

Init ==
  /\ guest \in DOMAIN Guests
  /\ \E fp \in FirstFp : cpu = CpuInit(Blank(fp))
  /\ phase = "running"
  /\ clock = 0
  /\ executed = [op |-> "none", args |-> <<>>, exc |-> "none"]

-----------------------------------------------------------------------------
(* What the processor may execute next.                                    *)
Fetched == IF clock < Len(Program.steps) THEN Program.steps[clock + 1] ELSE {}

(* One coreStep of instruction i, ending in d.                             *)
Step(i, d) ==
  /\ phase = "running"
  /\ clock' = clock + 1
  /\ executed' = [op |-> i.op, args |-> i.args, exc |-> d.exc]
  /\ UNCHANGED guest

(* The step completes, or coreStep catches its exception: go on.           *)
Continue(i, d) ==
  /\ Step(i, d)
  /\ Completes(d) /\ d.res = "SLEEP"
  /\ cpu' = Settle(d)
  /\ phase' = "running"

Halt(i, d) ==
  /\ Step(i, d)
  /\ Completes(d) /\ d.res = "HALT"
  /\ cpu' = Settle(d)
  /\ phase' = "halted"

(* initMem and init; the window of the MMU and the devices stay as they    *)
(* are.                                                                    *)
Reboot(i, d) ==
  /\ Step(i, d)
  /\ Completes(d) /\ d.res = "REBOOT"
  /\ cpu' = CpuInit([Settle(d) EXCEPT !.mem = Program.bios])
  /\ phase' = "running"

(* The BIOS file cannot be read any more: memory is clear, init not done.  *)
RebootFails(i, d) ==
  /\ Step(i, d)
  /\ Completes(d) /\ d.res = "REBOOT"
  /\ cpu' = [Settle(d) EXCEPT
               !.mem = [b \in 0 .. Blocks - 1 |-> [k \in Lane |-> 0]]]
  /\ phase' = "stopped"

(* An exception of the MMU or of the chipset leaves coreStep and           *)
(* startClock; main prints it.  The flags keep what the step made of them. *)
Throw(i, d) ==
  /\ Step(i, d)
  /\ d.exc \in {"mmu", "component"}
  /\ cpu' = d
  /\ phase' = "stopped"

(* The process is killed, or goes on with memory that is not its own.      *)
Crash(i, d) ==
  /\ Step(i, d)
  /\ d.exc \in {"trap", "wild"}
  /\ cpu' = d
  /\ phase' = "crashed"

(* The last dump of main, outside of its try.                              *)
FinalDump ==
  /\ phase \in {"halted", "stopped"}
  /\ phase' = IF DumpFault(cpu) = "none" THEN "finished" ELSE "crashed"
  /\ UNCHANGED <<guest, cpu, clock, executed>>

Next ==
  \/ \E i \in Fetched : LET d == Execute(cpu, i) IN
       \/ Continue(i, d)
       \/ Halt(i, d)
       \/ Reboot(i, d)
       \/ RebootFails(i, d)
       \/ Throw(i, d)
       \/ Crash(i, d)
  \/ FinalDump

Spec == Init /\ [][Next]_vars

-----------------------------------------------------------------------------
(* Shorthands of the properties: a step of the processor that ended well,  *)
(* and the arguments of the instruction it executed.                       *)
Stepped1 == clock' = clock + 1 /\ phase' \in {"running", "halted"}
Fine == Stepped1 /\ executed'.exc = "none"
Does(op) == Fine /\ executed'.op = op
Args == executed'.args
NoStepping == \A k \in DOMAIN Args : ~IsAutoIncrDecrArg(Args[k])
Plain(a) == RegsOf(a) \subseteq DataReg
ArgBytes(a) == IF a.type = "IMMED" THEN Bytes(a.scale) ELSE 4

(* No step but RETEX and REBOOT touches a flag above the arithmetic ones,  *)
(* whatever it adds to them, stores into SR or fails at: newFlags never    *)
(* carries out of its low four bits, and overflow and carry do not survive *)
(* the step that raised them (coreStep, SET_ARITM_FLAGS, setReg).          *)
FlagsOfAStep ==
  [][Stepped1 /\ executed'.op \notin {"RETEX", "REBOOT"} =>
       /\ cpu'.sr \div 16 = cpu.sr \div 16
       /\ cpu'.sr % 16 \in {0, ZERO, NEGATIVE, ZERO + NEGATIVE}]_vars

(* A user's step, however it ends, leaves the window, the supervisor stack *)
(* pointer and the mode alone and does not halt or reboot; RETEX, which    *)
(* users may execute, and a state register with the overflow bit popped    *)
(* into it are apart (instructsZeroArg, the MMU case, setStackPointer).    *)
UserIsConfined ==
  [][~Svisor(cpu) /\ clock' = clock + 1 /\ executed'.op # "RETEX"
       /\ ~HasFlag(cpu.sr, OVERFLOW) =>
       /\ cpu'.base = cpu.base /\ cpu'.limit = cpu.limit
       /\ cpu'.ssp = cpu.ssp
       /\ ~Svisor(cpu')
       /\ phase' # "halted"
       /\ executed'.op = "REBOOT" => cpu'.r = cpu.r]_vars

(* "USP for the priviledged executor that wants to access unprivileged     *)
(* stack pointer. (Issuing SP when privileged, an issuing SP when          *)
(* unprivileged gives two different stack pointers)": a user's step never  *)
(* moves the supervisor's pointer.                                         *)
UserKeepsToItsStack ==
  [][~Svisor(cpu) /\ clock' = clock + 1 /\ executed'.op # "RETEX"
       => cpu'.ssp = cpu.ssp]_vars

(* The machine implements the promise of the two modes.                    *)
Mode ==
  CASE phase = "running" -> IF Svisor(cpu) THEN "supervisor" ELSE "user"
    [] phase = "halted"  -> "halted"
    [] OTHER -> IF executed.exc = "none" /\ executed.op = "HALT" THEN "halted"
                ELSE "failed"
Event ==
  IF executed.op = "RETEX" THEN "return"
  ELSE IF executed.op = "REBOOT" /\ cpu.res = "REBOOT" THEN "restart"
  ELSE "ordinary"
Promise == INSTANCE Privilege WITH
  Windows  <- Addr \X Addr,
  Pointers <- Word,
  mode     <- Mode,
  window   <- <<cpu.base, cpu.limit>>,
  pointer  <- cpu.ssp,
  event    <- Event
KeepsPromise == Promise!PSpec

(* "start in supervisor mode" (Cpu::init): after every reset.              *)
StartsInSupervisor ==
  executed.op \in {"none", "REBOOT"} /\ cpu.pc = 0 /\ phase = "running"
    => Svisor(cpu)

(* What a call pushed is what a return pops: after JSR, RET comes back     *)
(* behind it; after PUSH the value is on top; after PUSHA, POPA restores   *)
(* every register.  The stack pointer is where it was, also when it wraps. *)
StackRoundTrip ==
  [][NoStepping =>
       /\ Does("JSR") =>
            LET d == PopTo(cpu', PC)
            IN  /\ ~Failed(d)
                /\ d.pc = Wrap(cpu.pc + 4 + ArgBytes(Args[1]))
                /\ StackPointer(d) = StackPointer(cpu)
       /\ Does("PUSH") /\ PC \notin RegsOf(Args[1]) =>
            /\ Top(cpu') = LoadArg(cpu, Args[1])
            /\ StackPointer(Drop(cpu')) = StackPointer(cpu)
       /\ Does("PUSHA") =>
            LET d == PopAllRegs([cpu' EXCEPT !.r = [n \in DataReg |-> 0]])
            IN  ~Failed(d) /\ d.r = cpu.r /\ StackPointer(d) = StackPointer(cpu)]_vars

StepOf(a) ==
  (IF Indexed(a) THEN 1 ELSE Bytes(a.scale))
    * (IF a.mod \in {"PRE_INCR", "POST_INCR"} THEN 1 ELSE -1)

(* An increment or decrement of a data register no other argument names    *)
(* happens exactly once, by the size of the datum (by one for an index),   *)
(* in every instruction (README, "pre(post) increments or decrements").    *)
StepsOnce ==
  [][Fine => \A k \in DOMAIN Args :
       LET a == Args[k]
       IN  /\ IsAutoIncrDecrArg(a) /\ a.type # "REG" /\ Stepped(a) \in DataReg
           /\ \A j \in DOMAIN Args \ {k} : Stepped(a) \notin RegsOf(Args[j])
           => cpu'.r[Stepped(a)] = Wrap(cpu.r[Stepped(a)] + StepOf(a))]_vars

(* "if prefixing with (Reg#) it will still modify the register content     *)
(* (and not of the pointed data)" (README): an instruction whose only      *)
(* argument in memory is a source leaves memory as it was.  It does when   *)
(* the destination is another register, and writing it moves neither the   *)
(* base nor, by a flag or the mode, what the base stands for.              *)
SourceInMemory ==
  /\ Fine /\ Len(Args) = 2
  /\ Args[1].type = "REG_INDIR" /\ Args[2].type = "REG"
  /\ executed'.op \in TwoArgWrites
PointedDataKept == [][SourceInMemory => cpu'.mem = cpu.mem]_vars
Moved(n) == IF n = SP THEN {SP, USP} ELSE {n}
PointedDataKeptApart ==
  [][SourceInMemory /\ Args[1].reg \notin {SP, SR} \cup Moved(Args[2].reg)
       => cpu'.mem = cpu.mem]_vars

(* What is left of a word stored in a datum of this scale, up to four bytes. *)
Narrow(w, scale) == IF Bytes(scale) >= 4 THEN w ELSE w % Weight[Bytes(scale) + 1]

(* What MOV wrote is what the same argument reads: loadArg and storeArg    *)
(* compute the same place in each of the addressing modes.                 *)
MovedIsRead ==
  [][Does("MOV") /\ NoStepping /\ Plain(Args[1]) /\ Plain(Args[2]) =>
       LET a == Args[2]
           moved == LoadArg(cpu, Args[1]).val
           scale == IF a.type = "REG" THEN 2 ELSE a.scale
           pointer(c) == Load(c, ArgAddr(c, a), 2)
       IN  a.type # "MEM_INDIR" \/ pointer(cpu') = pointer(cpu) =>
             LoadArg(cpu', a) = [exc |-> "none", val |-> Narrow(moved, scale)]]_vars

FusedWith == [EQ |-> "IFEQJ", NEQ |-> "IFNEQJ", LO |-> "IFLOJ", MO |-> "IFMOJ",
              LE |-> "IFLEJ", ME |-> "IFMEJ"]

(* A comparison followed by IFJ jumps where the fused instruction with the *)
(* same operands would.                                                    *)
FusedJumpAgrees ==
  [][Fine /\ executed'.op \in Comparisons /\ NoStepping
       /\ (\A k \in DOMAIN Args : Plain(Args[k])) =>
       LET x == LoadArg(cpu, Args[1]).val
           y == LoadArg(cpu, Args[2]).val
           fused == FusedWith[executed'.op]
       IN  OneArgEffect(cpu', "IFJ", 8).pc = ThreeArgEffect(cpu', fused, 8, x, y).pc]_vars

(* main's last dump, which no handler protects, ends well while the window *)
(* is the whole memory and no stack pointer is 0.                          *)
LastDump ==
  [][/\ phase \in {"halted", "stopped"}
     /\ phase' = "crashed"
     => \/ cpu.limit < MaxMem
        \/ 0 \in {cpu.usp, cpu.ssp}]_vars
=============================================================================
