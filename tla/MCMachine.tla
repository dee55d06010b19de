------------------------------ MODULE MCMachine ------------------------------
(* Guests for the machine: nibbles for bytes, so that a register is 16     *)
(* bits wide, holds the twelve flags, and wraps within reach.              *)
EXTENDS Machine

Arg(type, scale, reg, mod, index, displ, val) ==
  [type |-> type, scale |-> scale, reg |-> reg, mod |-> mod,
   index |-> index, displ |-> displ, val |-> val]
Imm(v)         == Arg("IMMED", 2, 0, "NO_ACTION", 0, 0, v)
Reg(n)         == Arg("REG", 2, n, "NO_ACTION", 0, 0, 0)
Mem(addr)      == Arg("DIRECT", 2, 0, "NO_ACTION", 0, 0, addr)
Ind(n, mod, s) == Arg("REG_INDIR", s, n, mod, 0, 0, 0)

I0(op)             == [op |-> op, args |-> <<>>]
I1(op, a)          == [op |-> op, args |-> <<a>>]
I2(op, a, b)       == [op |-> op, args |-> <<a, b>>]
I3(op, a, b, c)    == [op |-> op, args |-> <<a, b, c>>]

(* A memory image from the words it holds.                                 *)
Image(words) ==
  [b \in 0 .. Blocks - 1 |->
     IF b + 1 \in DOMAIN words THEN Lanes(words[b + 1]) ELSE Lanes(0)]

UserFlags  == 15 * 256
SuperFlags == UserFlags + SVISOR
OddFlags   == UserFlags + 62            (* every bit below the supervisor's *)
-----------------------------------------------------------------------------
(* Modes.  The BIOS holds what returns from exceptions pop: a program      *)
(* counter and a state register.                                           *)
ModeBios == Image(<<0, 4, UserFlags, 8, SuperFlags>>)
ModeSet ==
  {I0("RETEX"), I0("HALT"), I0("REBOOT"), I0("NONE"),
   I1("STACK", Imm(4)), I1("STACK", Imm(12)), I1("INCR", Reg(SR)), I1("PUSH", Imm(5)),
   I2("MOV", Imm(4), Reg(USP)), I2("MOV", Imm(SuperFlags), Reg(SR)),
   I2("MMU", Imm(4), Imm(60)), I2("ADD", Imm(AddrSpace - 1), Reg(SP)),
   I2("EQ", Imm(0), Ind(0, "POST_INCR", 2))}
ModeGuest == [n \in 1 .. 5 |-> ModeSet]

(* A state register whose bits below the supervisor's are all set.         *)
OddBios == Image(<<0, 4, OddFlags>>)
OddGuest ==
  <<{I2("MOV", Imm(4), Reg(USP))}, {I0("RETEX")},
    {I2("ADD", Imm(AddrSpace - 1), Reg(n)) : n \in {0, SP}}>>

RebootGuest == <<{I0("SLEEP"), I0("REBOOT")}>>

-----------------------------------------------------------------------------
(* Stacks: both ends of the memory and of the address space.               *)
StackBios == Image(<<4, 20, 8, 12, 1, 0, 2, 3, 65532, 16, 65535, 7>>)
StackSet ==
  {I1("STACK", Imm(n)) : n \in {0, 4, 36, 48}}
    \cup {I0(op) : op \in {"PUSHA", "POPA", "RET", "DUMP", "HALT"}}
    \cup {I1("PUSH", a) : a \in {Imm(9), Reg(SP), Reg(1), Ind(1, "POST_INCR", 2)}}
    \cup {I1("POP", a) : a \in {Reg(0), Imm(1), Mem(24)}}
    \cup {I1("JSR", Imm(n)) : n \in {4, 65516}}
StackGuest == [n \in 1 .. 4 |-> StackSet]

-----------------------------------------------------------------------------
(* Arguments.  The registers are loaded by POPA, from r7 down to r0: small *)
(* numbers, pointers to data, a pointer to a pointer, the last cell.       *)
ArgsBios ==
  Image(<<0, 65535, 0, 63, 62, 1, 48, 44, 3, 4369, 8738, 56, 40, 13107, 52, 60>>)
Mods == Modifier
MemArgs ==
  {Ind(n, "NO_ACTION", s) : n \in {1, 4}, s \in 0 .. 3}
    \cup {Ind(1, m, s) : m \in Mods, s \in {0, 2}}
    \cup {Arg("MEM_INDIR", s, 2, m, 0, 0, 0) : s \in {0, 2}, m \in {"NO_ACTION", "POST_INCR"}}
    \cup {Arg("DISPLACED", 2, 1, m, 0, d, 0) : m \in {"NO_ACTION", "PRE_DECR"}, d \in {-4, 6}}
    \cup {Arg("INDEXED", s, 1, m, 3, 0, 0) : s \in 1 .. 2, m \in {"NO_ACTION", "POST_DECR"}}
    \cup {Arg("INDX_DISP", 2, 1, m, 3, d, 0) : m \in {"NO_ACTION", "PRE_INCR"}, d \in {-12, 0}}
    \cup {Mem(40)}
PlainArgs ==
  {Imm(5), Imm(65533), Reg(0), Reg(1), Reg(6), Reg(SR), Reg(20)}
    \cup {Arg("REG", 2, n, m, 0, 0, 0) : n \in {0, 1}, m \in {"PRE_INCR", "POST_DECR"}}
SomeArgs ==
  PlainArgs \cup {Ind(1, m, 2) : m \in Mods}
            \cup {Arg("INDEXED", 0, 4, "POST_INCR", 3, 0, 0)}
OneOps   == OneArgWrites \cup DOMAIN JumpsOn \cup {"STACK", "PUSH", "JSR", "JMP", "IFNJ", "NONE"}
TwoOps   == TwoArgWrites \cup Comparisons \cup {"PUT", "NONE"}
ThreeOps == DOMAIN IfJumps \cup {"BPUT", "BGET"}

MovSet  == {I2("MOV", a, b) : a, b \in MemArgs \cup PlainArgs}
OpSet   == {I1(op, a) : op \in OneOps, a \in MemArgs \cup PlainArgs}
             \cup {I2(op, a, b) : op \in TwoOps \ {"MOV"}, a, b \in SomeArgs}
             \cup {I3(op, Imm(4), a, b) : op \in ThreeOps, a, b \in SomeArgs}
LoadRegs(set) ==
  <<{I1("STACK", Imm(n)) : n \in {4, 8}}, {I0("POPA")}, set>>

Guest(bios, steps) == [bios |-> bios, steps |-> steps]
AllGuests ==
  [modes |-> Guest(ModeBios, ModeGuest),
   stack |-> Guest(StackBios, StackGuest),
   mov   |-> Guest(ArgsBios, LoadRegs(MovSet)),
   ops   |-> Guest(ArgsBios, LoadRegs(OpSet))]
OddGuests    == [odd |-> Guest(OddBios, OddGuest)]
RebootGuests == [reboot |-> Guest(ModeBios, RebootGuest)]
SharedGuests ==
  [shared |-> Guest(ArgsBios, LoadRegs({I2("MOV", Ind(1, "POST_INCR", 2), Reg(1))}))]
=============================================================================
