-------------------------- MODULE InstructionProofs --------------------------
(***************************************************************************)
(* Theorems about what single instructions do to registers and memory: a   *)
(* step is followed from the machine before it, through the fetches, the   *)
(* loads, the operation and the stores, to the machine after it.           *)
(***************************************************************************)
EXTENDS MachineProofs, SequenceTheorems

LEMMA WrapNear ==
  ASSUME NEW x \in Int, -AddrSpace <= x, x < 2 * AddrSpace
  PROVE  Wrap(x) = IF x < 0 THEN x + AddrSpace
                   ELSE IF x < AddrSpace THEN x ELSE x - AddrSpace
<1>1. AddrSpace \in Nat /\ AddrSpace > 64
  BY Constants
<1> QED
  BY <1>1 DEF Wrap

(* The flags keep their supervisor bit when their low four are cleared.    *)
LEMMA ResetKeepsMode ==
  ASSUME NEW f \in Word
  PROVE  /\ ResetFlags(f) \in Word /\ ResetFlags(f) % 16 = 0
         /\ HasFlag(ResetFlags(f), SVISOR) = HasFlag(f, SVISOR)
<1>1. f \in Nat /\ f < AddrSpace
  BY Constants
<1>2. ResetFlags(f) \div 64 = f \div 64 /\ ResetFlags(f) % 16 = 0
      /\ ResetFlags(f) \in Nat /\ ResetFlags(f) <= f
  BY <1>1 DEF ResetFlags
<1> QED
  BY <1>1, <1>2, Constants DEF HasFlag, SVISOR

-----------------------------------------------------------------------------
(* From the step to the instruction.  Sees: the program counter apart, d   *)
(* is to an argument what c is.                                            *)
Sees(c, d) ==
  /\ d.r = c.r /\ d.fp = c.fp /\ d.usp = c.usp /\ d.ssp = c.ssp /\ d.sr = c.sr
  /\ d.mem = c.mem /\ d.base = c.base /\ d.limit = c.limit

(* What the fetches leave for the instruction to start from.               *)
Reads(c, d) ==
  /\ d \in Record /\ Sees(c, d) /\ d.exc = "none" /\ d.res = "SLEEP"
  /\ d.new = ResetFlags(c.sr)

LEMMA FetchReads ==
  ASSUME NEW c \in Record, NEW scale \in Scale, ~Failed(Fetch(c, scale))
  PROVE  /\ ~Failed(c) /\ Fetch(c, scale) \in Record /\ Sees(c, Fetch(c, scale))
         /\ Fetch(c, scale).new = c.new /\ Fetch(c, scale).res = c.res
         /\ Fetch(c, scale).pc = Wrap(c.pc + Bytes(scale))
<1> DEFINE v == Wrap(c.pc + Bytes(scale))
<1>1. ~Failed(c) /\ Fetch(c, scale) = [c EXCEPT !.pc = v]
  BY DEF Fetch, Fail, Failed, Record
<1>2. Fetch(c, scale) \in Record
  BY FetchOrdinary DEF Ordinary
<1> HIDE DEF v
<1>3. /\ Sees(c, [c EXCEPT !.pc = v]) /\ [c EXCEPT !.pc = v].new = c.new
      /\ [c EXCEPT !.pc = v].res = c.res /\ [c EXCEPT !.pc = v].pc = v
  BY DEF Sees, Record
<1> QED
  BY <1>1, <1>2, <1>3 DEF v

LEMMA StartReads ==
  ASSUME NEW c \in Record, ~Failed(Fetch(Start(c), 2))
  PROVE  Reads(c, Fetch(Start(c), 2)) /\ Fetch(Start(c), 2).pc = Wrap(c.pc + 4)
<1> DEFINE s == Start(c)
<1>1. s \in Record /\ s.new = ResetFlags(c.sr) /\ s.res = "SLEEP"
  BY StartReady DEF Ready
<1>2. Sees(c, s) /\ s.pc = c.pc
  BY DEF Start, Sees, Record
<1>3. 2 \in Scale /\ Bytes(2) = 4
  BY DEF Scale, Bytes
<1> HIDE DEF s
<1>4. ~Failed(Fetch(s, 2))
  BY DEF s
<1>5. /\ Fetch(s, 2) \in Record /\ Sees(s, Fetch(s, 2)) /\ ~Failed(Fetch(s, 2))
      /\ Fetch(s, 2).new = s.new /\ Fetch(s, 2).res = s.res
      /\ Fetch(s, 2).pc = Wrap(s.pc + 4)
  BY <1>1, <1>3, <1>4, FetchReads
<1> QED
  BY <1>1, <1>2, <1>5 DEF Reads, Sees, Failed, s

LEMMA NextReads ==
  ASSUME NEW c \in Record, NEW d \in Record, NEW a \in Argument,
         ~Failed(FetchArg(d, a)), ~Failed(d) => Reads(c, d)
  PROVE  /\ Reads(c, FetchArg(d, a)) /\ ~Failed(d)
         /\ FetchArg(d, a).pc = Wrap(d.pc + ArgBytes(a))
<1> DEFINE s == IF a.type = "IMMED" THEN a.scale ELSE 2
<1>1. s \in Scale /\ Bytes(s) = ArgBytes(a)
  BY DEF Argument, Scale, ArgBytes, Bytes
<1>2. FetchArg(d, a) = Fetch(d, s)
  BY DEF FetchArg
<1> HIDE DEF s
<1>3. /\ ~Failed(d) /\ Fetch(d, s) \in Record /\ Sees(d, Fetch(d, s))
      /\ Fetch(d, s).new = d.new /\ Fetch(d, s).res = d.res
      /\ Fetch(d, s).pc = Wrap(d.pc + Bytes(s))
  BY <1>1, <1>2, FetchReads
<1> QED
  BY <1>1, <1>2, <1>3 DEF Reads, Sees, Failed

FetchedOne(c, i)   == FetchArg(Fetch(Start(c), 2), i.args[1])
FetchedTwo(c, i)   == FetchArg(FetchedOne(c, i), i.args[2])
FetchedThree(c, i) == FetchArg(FetchedTwo(c, i), i.args[3])

(* A step that ends well executed the instruction on a machine that only   *)
(* the fetches had changed.                                                *)
LEMMA Instructs ==
  ASSUME NEW c \in Record, NEW i \in Instruction, Execute(c, i).exc = "none"
  PROVE  /\ Len(i.args) \in {0, 1, 2, 3}
         /\ Len(i.args) = 0 =>
              /\ Execute(c, i) = InstructsZeroArg(Fetch(Start(c), 2), i.op)
              /\ Reads(c, Fetch(Start(c), 2))
         /\ Len(i.args) = 1 =>
              /\ i.args[1] \in Argument
              /\ Execute(c, i) = InstructsOneArg(FetchedOne(c, i), i.op, i.args[1])
              /\ Reads(c, FetchedOne(c, i))
              /\ FetchedOne(c, i).pc = Wrap(Wrap(c.pc + 4) + ArgBytes(i.args[1]))
         /\ Len(i.args) = 2 =>
              /\ i.args[1] \in Argument /\ i.args[2] \in Argument
              /\ Execute(c, i) =
                   InstructsTwoArg(FetchedTwo(c, i), i.op, i.args[1], i.args[2])
              /\ Reads(c, FetchedTwo(c, i))
         /\ Len(i.args) = 3 =>
              /\ i.args[1] \in Argument /\ i.args[2] \in Argument /\ i.args[3] \in Argument
              /\ Execute(c, i) =
                   InstructsThreeArg(FetchedThree(c, i), i.op,
                                     i.args[1], i.args[2], i.args[3])
              /\ Reads(c, FetchedThree(c, i))
<1> DEFINE n == Len(i.args)
           d0 == Fetch(Start(c), 2)
           d1 == FetchedOne(c, i)
           d2 == FetchedTwo(c, i)
           d3 == FetchedThree(c, i)
<1>1. i.args \in Seq(Argument) /\ n \in {0, 1, 2, 3}
  <2>1. i.args \in Seq(Argument) /\ n <= 3
    BY DEF Instruction
  <2>2. n \in Nat
    BY <2>1, LenProperties
  <2> HIDE DEF n
  <2> QED
    BY <2>1, <2>2
<1>2. d0 \in Record /\ (~Failed(d0) => Reads(c, d0) /\ d0.pc = Wrap(c.pc + 4))
  BY StartReady, StartReads, FetchOrdinary DEF Ready, Ordinary, Scale
<1>3. \A d, a : Failed(d) => FetchArg(d, a) = d
  BY DEF FetchArg, Fetch, Fail
<1>4. ASSUME NEW d \in Record, NEW a \in Argument PROVE FetchArg(d, a) \in Record
  BY <1>4, FetchOrdinary DEF FetchArg, Argument, Ordinary, Scale
<1>5. CASE n = 0
  <2>1. Execute(c, i) = InstructsZeroArg(d0, i.op)
    BY <1>5 DEF Execute, Start
  <2>2. ~Failed(d0)
    BY <2>1 DEF InstructsZeroArg, Failed
  <2> HIDE DEF d0
  <2> QED
    BY <1>1, <1>2, <1>5, <2>1, <2>2 DEF d0
<1>6. CASE n = 1
  <2>1. i.args[1] \in Argument
    BY <1>1, <1>6
  <2>2. Execute(c, i) = InstructsOneArg(d1, i.op, i.args[1])
    BY <1>6 DEF Execute, Start, FetchedOne
  <2>3. ~Failed(d1)
    <3> HIDE DEF d1
    <3> QED
      BY <2>2 DEF InstructsOneArg, Failed, Fail
  <2>4. Reads(c, d1) /\ d1.pc = Wrap(d0.pc + ArgBytes(i.args[1])) /\ ~Failed(d0)
    <3>1. d1 = FetchArg(d0, i.args[1])
      BY DEF FetchedOne
    <3> HIDE DEF d0, d1
    <3> QED
      BY <1>2, <2>1, <2>3, <3>1, NextReads
  <2> QED
    BY <1>2, <1>6, <2>1, <2>2, <2>4
<1>7. CASE n = 2
  <2>1. i.args[1] \in Argument /\ i.args[2] \in Argument
    BY <1>1, <1>7
  <2>2. Execute(c, i) = InstructsTwoArg(d2, i.op, i.args[1], i.args[2])
    BY <1>7 DEF Execute, Start, FetchedOne, FetchedTwo
  <2>3. ~Failed(d2)
    <3> HIDE DEF d2
    <3> QED
      BY <2>2 DEF InstructsTwoArg, Failed, Fail
  <2>4. d1 = FetchArg(d0, i.args[1]) /\ d2 = FetchArg(d1, i.args[2])
    BY DEF FetchedOne, FetchedTwo
  <2> HIDE DEF d0, d1, d2
  <2>5. d1 \in Record /\ (~Failed(d1) => Reads(c, d1))
    BY <1>2, <1>4, <2>1, <2>4, NextReads
  <2>6. Reads(c, d2)
    BY <2>1, <2>3, <2>4, <2>5, NextReads
  <2> QED
    BY <1>7, <2>1, <2>2, <2>6 DEF d2
<1>8. CASE n = 3
  <2>1. i.args[1] \in Argument /\ i.args[2] \in Argument /\ i.args[3] \in Argument
    BY <1>1, <1>8
  <2>2. Execute(c, i) = InstructsThreeArg(d3, i.op, i.args[1], i.args[2], i.args[3])
    BY <1>8 DEF Execute, Start, FetchedOne, FetchedTwo, FetchedThree
  <2>3. ~Failed(d3)
    <3> HIDE DEF d3
    <3> QED
      BY <2>2 DEF InstructsThreeArg, Failed, Fail
  <2>4. /\ d1 = FetchArg(d0, i.args[1]) /\ d2 = FetchArg(d1, i.args[2])
        /\ d3 = FetchArg(d2, i.args[3])
    BY DEF FetchedOne, FetchedTwo, FetchedThree
  <2> HIDE DEF d0, d1, d2, d3
  <2>5. d1 \in Record /\ (~Failed(d1) => Reads(c, d1))
    BY <1>2, <1>4, <2>1, <2>4, NextReads
  <2>6. d2 \in Record /\ (~Failed(d2) => Reads(c, d2))
    BY <1>4, <2>1, <2>4, <2>5, NextReads
  <2>7. Reads(c, d3)
    BY <2>1, <2>3, <2>4, <2>6, NextReads
  <2> QED
    BY <1>8, <2>1, <2>2, <2>7 DEF d3
<1> QED
  BY <1>1, <1>5, <1>6, <1>7, <1>8

-----------------------------------------------------------------------------
(* What an instruction does after its arguments were loaded, when nothing  *)
(* of it fails: the operation, then each argument that is stored.          *)
LEMMA SetNewKeeps ==
  ASSUME NEW c \in Record, NEW flag \in {0, 4, 8}
  PROVE  /\ SetNew(c, flag) \in Record /\ SetNew(c, flag).exc = c.exc
         /\ Sees(c, SetNew(c, flag)) /\ SetNew(c, flag).pc = c.pc
<1> DEFINE v == Wrap(c.new + flag)
<1>1. v \in Word
  <2>1. c.new + flag \in Int
    BY WordsAreInts DEF Record
  <2> QED
    BY <2>1, WrapType
<1>2. SetNew(c, flag) = IF Failed(c) THEN c ELSE [c EXCEPT !.new = v]
  BY DEF SetNew
<1> HIDE DEF v
<1> QED
  BY <1>1, <1>2 DEF Record, Sees

LEMMA OneArgRuns ==
  ASSUME NEW c \in Record, NEW op, NEW a \in Argument,
         InstructsOneArg(c, op, a).exc = "none"
  PROVE  LET l == LoadArg(c, a)
             e == OneArgEffect(c, op, l.val)
             t == OneArgValue(c, op, l.val)
             f == SetNew(e, ArithmFlags(t))
         IN  /\ l.exc = "none" /\ ~Failed(e)
             /\ e \in Record /\ f \in Record /\ Sees(e, f) /\ f.pc = e.pc /\ t \in Word
             /\ IF op \in OneArgWrites \/ IsAutoIncrDecrArg(a)
                  THEN InstructsOneArg(c, op, a) = StoreArg(f, t, a)
                  ELSE InstructsOneArg(c, op, a) = e
<1> DEFINE l == LoadArg(c, a)
           e == OneArgEffect(c, op, l.val)
           t == OneArgValue(c, op, l.val)
           f == SetNew(e, ArithmFlags(t))
           i == InstructsOneArg(c, op, a)
<1>1. l.val \in Word
  BY LoadArgType
<1>2. e \in Record /\ t \in Word
  <2> HIDE DEF l
  <2> QED
    BY <1>1, OneArgConfined, OneArgValueType DEF Confined
<1>3. f \in Record /\ f.exc = e.exc /\ Sees(e, f) /\ f.pc = e.pc
  <2> HIDE DEF e, t
  <2> QED
    BY <1>2, SetNewKeeps, ArithmType
<1>4. i = IF Failed(c) \/ l.exc # "none" THEN Fail(c, l.exc)
          ELSE IF op \in OneArgWrites \/ IsAutoIncrDecrArg(a) THEN StoreArg(f, t, a) ELSE e
  BY DEF InstructsOneArg
<1>5. i.exc = "none"
  OBVIOUS
<1> HIDE DEF i, e, t, f, l
<1>6. ~Failed(c) /\ l.exc = "none"
  BY <1>4, <1>5 DEF Fail, Failed, Record
<1>7. Failed(f) => StoreArg(f, t, a) = f
  BY FailedStays
<1>8. ~Failed(e)
  BY <1>3, <1>4, <1>5, <1>6, <1>7 DEF Failed
<1> QED
  BY <1>2, <1>3, <1>4, <1>6, <1>8 DEF i, e, t, f, l

LEMMA TwoArgRuns ==
  ASSUME NEW c \in Record, c.new % 16 = 0, NEW op, NEW a1 \in Argument, NEW a2 \in Argument,
         InstructsTwoArg(c, op, a1, a2).exc = "none"
  PROVE  LET l1 == LoadArg(c, a1)
             l2 == LoadArg(c, a2)
             e  == TwoArgEffect(c, op, l1.val, l2.val)
             t  == TwoArgValue(c, op, l1.val, l2.val)
             f  == SetNew(e, ArithmFlags(t))
             g  == IF op \in TwoArgWrites \/ IsAutoIncrDecrArg(a2) THEN StoreArg(f, t, a2) ELSE e
         IN  /\ l1.exc = "none" /\ l2.exc = "none" /\ ~Failed(e)
             /\ l1.val \in Word /\ l2.val \in Word
             /\ e \in Record /\ f \in Record /\ Sees(e, f) /\ f.pc = e.pc /\ t \in Word
             /\ g \in Record /\ g.exc = "none"
             /\ InstructsTwoArg(c, op, a1, a2)
                  = IF IsAutoIncrDecrArg(a1) THEN StoreArg(g, l1.val, a1) ELSE g
<1> DEFINE l1 == LoadArg(c, a1)
           l2 == LoadArg(c, a2)
           e  == TwoArgEffect(c, op, l1.val, l2.val)
           t  == TwoArgValue(c, op, l1.val, l2.val)
           f  == SetNew(e, ArithmFlags(t))
           g  == IF op \in TwoArgWrites \/ IsAutoIncrDecrArg(a2) THEN StoreArg(f, t, a2) ELSE e
           i  == InstructsTwoArg(c, op, a1, a2)
<1>1. l1.val \in Word /\ l2.val \in Word
  BY LoadArgType
<1>2. e \in Record /\ t \in Word
  <2> HIDE DEF l1, l2
  <2>1. c.new \in Word
    BY DEF Record
  <2> QED
    BY <1>1, <2>1, TwoArgConfined, TwoArgValueType DEF Confined
<1>3. f \in Record /\ f.exc = e.exc /\ Sees(e, f) /\ f.pc = e.pc
  <2> HIDE DEF e, t
  <2> QED
    BY <1>2, SetNewKeeps, ArithmType
<1>4. i = IF Failed(c) \/ l1.exc # "none" THEN Fail(c, l1.exc)
          ELSE IF l2.exc # "none" THEN Fail(c, l2.exc)
          ELSE IF IsAutoIncrDecrArg(a1) THEN StoreArg(g, l1.val, a1) ELSE g
  BY DEF InstructsTwoArg
<1>5. i.exc = "none"
  OBVIOUS
<1>6. g \in Record
  <2> HIDE DEF f, e, t
  <2> QED
    BY <1>2, <1>3, StoreArgOrdinary DEF Ordinary
<1>7. g = IF op \in TwoArgWrites \/ IsAutoIncrDecrArg(a2) THEN StoreArg(f, t, a2) ELSE e
  OBVIOUS
<1> HIDE DEF i, e, t, f, g, l1, l2
<1>8. ~Failed(c) /\ l1.exc = "none" /\ l2.exc = "none"
  BY <1>4, <1>5 DEF Fail, Failed, Record
<1>9. Failed(g) => StoreArg(g, l1.val, a1) = g
  BY FailedStays
<1>10. ~Failed(g)
  BY <1>4, <1>5, <1>8, <1>9 DEF Failed
<1>11. Failed(f) => StoreArg(f, t, a2) = f
  BY FailedStays
<1>12. ~Failed(e)
  BY <1>3, <1>7, <1>10, <1>11 DEF Failed
<1>13. i = IF IsAutoIncrDecrArg(a1) THEN StoreArg(g, l1.val, a1) ELSE g
  BY <1>4, <1>8
<1>14. g.exc = "none"
  BY <1>10 DEF Failed
<1>15. /\ l1.exc = "none" /\ l2.exc = "none" /\ ~Failed(e)
       /\ l1.val \in Word /\ l2.val \in Word
       /\ e \in Record /\ f \in Record /\ Sees(e, f) /\ f.pc = e.pc /\ t \in Word
       /\ g \in Record /\ g.exc = "none"
       /\ i = IF IsAutoIncrDecrArg(a1) THEN StoreArg(g, l1.val, a1) ELSE g
  BY <1>1, <1>2, <1>3, <1>6, <1>8, <1>12, <1>13, <1>14
<1> QED
  BY <1>15 DEF i, e, t, f, g, l1, l2

(* An argument of three is stored only to step its register.               *)
StepBack(d, v, a) == IF IsAutoIncrDecrArg(a) THEN StoreArg(d, v, a) ELSE d

LEMMA StepBackEnds ==
  ASSUME NEW d \in Record, NEW v \in Word, NEW a \in Argument
  PROVE  /\ StepBack(d, v, a) \in Record
         /\ StepBack(d, v, a).exc = "none" => d.exc = "none"
<1>1. StepBack(d, v, a) \in Record
  BY StoreArgOrdinary DEF StepBack, Ordinary
<1>2. Failed(d) => StepBack(d, v, a) = d
  BY FailedStays DEF StepBack
<1> QED
  BY <1>1, <1>2 DEF Failed

LEMMA ThreeArgRuns ==
  ASSUME NEW c \in Record, NEW op, NEW a1 \in Argument, NEW a2 \in Argument,
         NEW a3 \in Argument, InstructsThreeArg(c, op, a1, a2, a3).exc = "none"
  PROVE  LET l1 == LoadArg(c, a1)
             l2 == LoadArg(c, a2)
             l3 == LoadArg(c, a3)
             e  == ThreeArgEffect(c, op, l1.val, l2.val, l3.val)
             d1 == StepBack(e, l1.val, a1)
             d2 == StepBack(d1, l2.val, a2)
         IN  /\ l1.exc = "none" /\ l2.exc = "none" /\ l3.exc = "none"
             /\ l1.val \in Word /\ l2.val \in Word /\ l3.val \in Word
             /\ e \in Record /\ e.exc = "none" /\ d1 \in Record /\ d1.exc = "none"
             /\ d2 \in Record /\ d2.exc = "none"
             /\ InstructsThreeArg(c, op, a1, a2, a3) = StepBack(d2, l3.val, a3)
<1> DEFINE l1 == LoadArg(c, a1)
           l2 == LoadArg(c, a2)
           l3 == LoadArg(c, a3)
           e  == ThreeArgEffect(c, op, l1.val, l2.val, l3.val)
           d1 == StepBack(e, l1.val, a1)
           d2 == StepBack(d1, l2.val, a2)
           d3 == StepBack(d2, l3.val, a3)
           i  == InstructsThreeArg(c, op, a1, a2, a3)
<1>1. l1.val \in Word /\ l2.val \in Word /\ l3.val \in Word
  BY LoadArgType
<1>2. e \in Record
  <2>1. \E o : e \in {c, Jump(c, o, l1.val), Fail(c, "wrong")}
    BY DEF ThreeArgEffect
  <2> HIDE DEF l1, e
  <2> QED
    BY <1>1, <2>1, Stays, JumpOrdinary, FailOrdinary DEF Outcome, Ordinary
<1>3. i = IF Failed(c) \/ l1.exc # "none" THEN Fail(c, l1.exc)
          ELSE IF l2.exc # "none" THEN Fail(c, l2.exc)
          ELSE IF l3.exc # "none" THEN Fail(c, l3.exc) ELSE d3
  BY DEF InstructsThreeArg, StepBack
<1>4. i.exc = "none"
  OBVIOUS
<1>5. d1 \in Record /\ d2 \in Record /\ d3 \in Record
      /\ (d3.exc = "none" => d2.exc = "none") /\ (d2.exc = "none" => d1.exc = "none")
      /\ (d1.exc = "none" => e.exc = "none")
  <2>1. d1 \in Record /\ (d1.exc = "none" => e.exc = "none")
    <3> HIDE DEF e, l1
    <3> QED
      BY <1>1, <1>2, StepBackEnds
  <2>2. d2 \in Record /\ (d2.exc = "none" => d1.exc = "none")
    <3> HIDE DEF d1, l2
    <3> QED
      BY <1>1, <2>1, StepBackEnds
  <2>3. d3 \in Record /\ (d3.exc = "none" => d2.exc = "none")
    <3> HIDE DEF d2, l3
    <3> QED
      BY <1>1, <2>2, StepBackEnds
  <2> QED
    BY <2>1, <2>2, <2>3
<1> HIDE DEF i, e, d1, d2, d3, l1, l2, l3
<1>6. ~Failed(c) /\ l1.exc = "none" /\ l2.exc = "none" /\ l3.exc = "none"
  BY <1>3, <1>4 DEF Fail, Failed, Record
<1>7. i = d3
  BY <1>3, <1>6
<1>8. /\ l1.exc = "none" /\ l2.exc = "none" /\ l3.exc = "none"
      /\ l1.val \in Word /\ l2.val \in Word /\ l3.val \in Word
      /\ e \in Record /\ e.exc = "none" /\ d1 \in Record /\ d1.exc = "none"
      /\ d2 \in Record /\ d2.exc = "none" /\ i = d3
  BY <1>1, <1>2, <1>4, <1>5, <1>6, <1>7
<1> QED
  BY <1>8 DEF i, e, d1, d2, d3, l1, l2, l3

-----------------------------------------------------------------------------
(* From the behaviour to the instruction: what a step that ended well      *)
(* executed, and the machine it left.                                      *)
Ended(i) ==
  /\ i \in Instruction
  /\ executed'.op = i.op /\ Args = i.args
  /\ Execute(cpu, i) \in Record /\ Execute(cpu, i).exc = "none"
  /\ i.args # <<>> \/ i.op # "REBOOT" => cpu' = Settle(Execute(cpu, i))

LEMMA RebootAlone ==
  ASSUME NEW c \in Record, NEW i \in Instruction, i.op = "REBOOT",
         Execute(c, i).exc = "none"
  PROVE  i.args = <<>>
<1>1. i.args \in Seq(Argument)
  BY DEF Instruction
<1>2. ASSUME NEW d \in Record, NEW a \in Argument, InstructsOneArg(d, "REBOOT", a).exc = "none"
      PROVE  FALSE
  <2>1. \A t : OneArgEffect(d, "REBOOT", t) = Fail(d, "wrong")
    BY DEF OneArgEffect, JumpsOn
  <2>2. Failed(Fail(d, "wrong"))
    BY FailKeepsRegs
  <2> QED
    BY <1>2, <2>1, <2>2, OneArgRuns
<1>3. ASSUME NEW d \in Record, d.new % 16 = 0, NEW a \in Argument, NEW b \in Argument,
             InstructsTwoArg(d, "REBOOT", a, b).exc = "none"
      PROVE  FALSE
  <2>1. \A s, t : TwoArgEffect(d, "REBOOT", s, t) = Fail(d, "wrong")
    BY DEF TwoArgEffect, Comparisons
  <2>2. Failed(Fail(d, "wrong"))
    BY FailKeepsRegs
  <2> QED
    BY <1>3, <2>1, <2>2, TwoArgRuns
<1>4. ASSUME NEW d \in Record, NEW a1 \in Argument, NEW a2 \in Argument,
             NEW a3 \in Argument, InstructsThreeArg(d, "REBOOT", a1, a2, a3).exc = "none"
      PROVE  FALSE
  <2>1. \A r, s, t : ThreeArgEffect(d, "REBOOT", r, s, t) = Fail(d, "wrong")
    BY DEF ThreeArgEffect, IfJumps
  <2>2. Failed(Fail(d, "wrong"))
    BY FailKeepsRegs
  <2> QED
    BY <1>4, <2>1, <2>2, ThreeArgRuns DEF Failed
<1>5. c.sr \in Word
  BY DEF Record
<1>6. Len(i.args) = 0
  BY <1>2, <1>3, <1>4, <1>5, Instructs, ResetKeepsMode DEF Reads
<1> QED
  BY <1>1, <1>6, EmptySeq

LEMMA FineEnds ==
  ASSUME TypeOK, Next, Fine
  PROVE  \E i : Ended(i)
<1>1. ~FinalDump
  <2>1. FinalDump => clock' = clock /\ clock \in Nat
    BY MachineAssumption DEF FinalDump, TypeOK, Program
  <2> QED
    BY <2>1 DEF Fine, Stepped1
<1>2. PICK i \in Fetched : AnyStep(i, Execute(cpu, i))
  BY <1>1 DEF Next, AnyStep
<1> DEFINE d == Execute(cpu, i)
<1>3. /\ cpu \in Record /\ i \in Instruction /\ d \in Record
      /\ executed'.op = i.op /\ d.exc = "none" /\ (d.res # "SLEEP" => d.res = i.op)
  BY <1>2, StepEnds DEF Fine
<1>4. Args = i.args
  BY <1>2 DEF AnyStep, Continue, Halt, Reboot, RebootFails, Throw, Crash, Step, Args
<1>5. Continue(i, d) \/ Halt(i, d) \/ Reboot(i, d)
  <2>1. phase' \in {"running", "halted"}
    BY DEF Fine, Stepped1
  <2>2. AnyStep(i, d)
    BY <1>2
  <2> HIDE DEF d
  <2> QED
    BY <2>1, <2>2 DEF AnyStep, RebootFails, Throw, Crash
<1>6. ASSUME i.args # <<>> \/ i.op # "REBOOT" PROVE cpu' = Settle(d)
  <2>1. i.op # "REBOOT"
    BY <1>3, <1>6, RebootAlone
  <2> HIDE DEF d
  <2>2. Continue(i, d) \/ Halt(i, d)
    BY <1>3, <1>5, <2>1 DEF Reboot
  <2> QED
    BY <2>2 DEF Continue, Halt
<1> QED
  BY <1>3, <1>4, <1>6 DEF Ended

-----------------------------------------------------------------------------
(* The data registers through an instruction.                              *)
LEMMA StoreRegs ==
  ASSUME NEW c \in Record, NEW v, NEW addr, NEW scale
  PROVE  Store(c, v, addr, scale).r = c.r
<1> DEFINE m == WriteLanes(c.mem, c.base, addr, scale, Lanes(v))
           x == StoreFault(c, addr, scale)
<1>1. Store(c, v, addr, scale) = IF Failed(c) \/ x # "none" THEN Fail(c, x)
                                 ELSE [c EXCEPT !.mem = m]
  BY DEF Store
<1> HIDE DEF m, x
<1> QED
  BY <1>1, FailKeepsRegs DEF Record

LEMMA PushRegs ==
  ASSUME NEW c \in Record, NEW v \in Word
  PROVE  PushToStack(c, v).r = c.r
<1> DEFINE p == Wrap(StackPointer(c) - 4)
           d == SetStackPointer(c, p)
<1>1. p \in Word
  <2>1. StackPointer(c) - 4 \in Int
    BY RegType, WordsAreInts
  <2> QED
    BY <2>1, WrapType
<1>2. d \in Record /\ d.r = c.r
  <2> HIDE DEF p
  <2> QED
    BY <1>1, PointerOrdinary DEF SetStackPointer, Ordinary, Record
<1>3. PushToStack(c, v) = IF Failed(c) THEN c ELSE Store(d, v, p, 2)
  BY DEF PushToStack
<1> HIDE DEF d, p
<1> QED
  BY <1>2, <1>3, StoreRegs

LEMMA JumpRegs ==
  ASSUME NEW c \in Record, NEW taken, NEW t
  PROVE  Jump(c, taken, t).r = c.r
<1> DEFINE v == Wrap(c.pc + t)
<1>1. Jump(c, taken, t) = IF ~Failed(c) /\ taken THEN [c EXCEPT !.pc = v] ELSE c
  BY DEF Jump
<1> HIDE DEF v
<1> QED
  BY <1>1 DEF Record

LEMMA RaiseRegs ==
  ASSUME NEW c \in Record, NEW overflow
  PROVE  Raise(c, overflow).r = c.r
<1> DEFINE v == Wrap(c.sr + OVERFLOW)
<1>1. Raise(c, overflow) = IF ~Failed(c) /\ overflow THEN [c EXCEPT !.sr = v] ELSE c
  BY DEF Raise
<1> HIDE DEF v
<1> QED
  BY <1>1 DEF Record

LEMMA PointerRegs ==
  ASSUME NEW c \in Record, NEW v
  PROVE  SetStackPointer(c, v).r = c.r
  BY DEF SetStackPointer, Record

LEMMA DropRegs ==
  ASSUME NEW c \in Record
  PROVE  Drop(c).r = c.r
<1> DEFINE v == Wrap(StackPointer(c) + 4)
<1>1. Drop(c) \in {Fail(c, Top(c).exc), SetStackPointer(c, v)}
  BY DEF Drop
<1> HIDE DEF v
<1> QED
  BY <1>1, FailKeepsRegs, PointerRegs

LEMMA EffectRegs ==
  ASSUME NEW c \in Record, NEW op
  PROVE  /\ \A t1 \in Word : OneArgEffect(c, op, t1).r = c.r
         /\ \A t1, t2 \in Word : TwoArgEffect(c, op, t1, t2).r = c.r
         /\ \A t1, t2, t3 \in Word : ThreeArgEffect(c, op, t1, t2, t3).r = c.r
<1>1. \A o, t : Jump(c, o, t).r = c.r /\ Raise(c, o).r = c.r /\ Fail(c, o).r = c.r
  BY JumpRegs, RaiseRegs, FailKeepsRegs
<1>2. ASSUME NEW t1 \in Word PROVE OneArgEffect(c, op, t1).r = c.r
  <2> DEFINE p == PushToStack(c, c.pc)
             e == OneArgEffect(c, op, t1)
  <2>1. p \in Record /\ p.r = c.r
    BY PushOrdinary, PushRegs DEF Record, Ordinary
  <2>2. \/ e \in {c, SetStackPointer(c, t1), PushToStack(c, t1), Drop(c), Jump(p, TRUE, t1)}
        \/ \E o : e \in {Raise(c, o), Jump(c, o, t1), Fail(c, o)}
    <3> HIDE DEF p
    <3>1. op = "JSR" => e = Jump(p, TRUE, t1)
      BY DEF OneArgEffect, p
    <3>2. op \in {"INCR", "DECR"} => \E o : e = Raise(c, o)
      BY DEF OneArgEffect
    <3>3. op \notin {"JSR", "INCR", "DECR"} =>
            \/ e \in {c, SetStackPointer(c, t1), PushToStack(c, t1), Drop(c)}
            \/ \E o : e \in {Jump(c, o, t1), Fail(c, o)}
      BY ZenonT(30) DEF OneArgEffect
    <3> HIDE DEF e
    <3> QED
      BY <3>1, <3>2, <3>3
  <2> HIDE DEF e, p
  <2>3. SetStackPointer(c, t1).r = c.r /\ PushToStack(c, t1).r = c.r /\ Drop(c).r = c.r
    BY PushRegs, PointerRegs, DropRegs
  <2>4. Jump(p, TRUE, t1).r = c.r
    BY <2>1, JumpRegs
  <2>6. e.r = c.r
    BY <1>1, <2>2, <2>3, <2>4
  <2> QED
    BY <2>6 DEF e
<1>3. ASSUME NEW t1 \in Word, NEW t2 \in Word PROVE TwoArgEffect(c, op, t1, t2).r = c.r
  <2> DEFINE e == TwoArgEffect(c, op, t1, t2)
  <2>1. \/ e \in {c, ResetLimitsTo(c, t1, t2), SinglePut(c, t2, t1), SingleGet(c, t1),
                  SetNew(c, ZERO)}
        \/ \E o : e \in {Raise(c, o), Fail(c, o)}
    BY ZenonT(30) DEF TwoArgEffect
  <2>2. ResetLimitsTo(c, t1, t2).r = c.r
    BY FailKeepsRegs DEF ResetLimitsTo, SetLimits, Record
  <2>3. SinglePut(c, t2, t1).r = c.r /\ SingleGet(c, t1).r = c.r
    <3>1. \A x : [c EXCEPT !.dev = x].r = c.r
      BY DEF Record
    <3> QED
      BY <3>1, FailKeepsRegs DEF SinglePut, SingleGet
  <2>4. SetNew(c, ZERO).r = c.r
    BY SetNewKeeps DEF ZERO, Sees
  <2> HIDE DEF e
  <2> QED
    BY <1>1, <2>1, <2>2, <2>3, <2>4 DEF e
<1>4. ASSUME NEW t1 \in Word, NEW t2 \in Word, NEW t3 \in Word
      PROVE  ThreeArgEffect(c, op, t1, t2, t3).r = c.r
  <2>1. \E o : ThreeArgEffect(c, op, t1, t2, t3) \in {c, Jump(c, o, t1), Fail(c, "wrong")}
    BY DEF ThreeArgEffect
  <2> QED
    BY <1>1, <2>1
<1> QED
  BY <1>2, <1>3, <1>4

(* What storing an argument, or leaving one that does not step, makes of   *)
(* the data registers: the others stay, and the one it steps goes on.      *)
Passes(c, d, a) ==
  /\ \A n \in DataReg \ RegsOf(a) : d.r[n] = c.r[n]
  /\ IsAutoIncrDecrArg(a) /\ a.type # "REG" /\ Stepped(a) \in DataReg =>
       d.r[Stepped(a)] = Wrap(c.r[Stepped(a)] + StepOf(a))

LEMMA SetRegRegs ==
  ASSUME NEW c \in Record, NEW n \in Nat, NEW v \in Word, ~Failed(SetReg(c, n, v))
  PROVE  /\ ~Failed(c)
         /\ \A k \in DataReg : k # n => SetReg(c, n, v).r[k] = c.r[k]
         /\ n \in DataReg => SetReg(c, n, v).r[n] = v
<1>1. ~Failed(c)
  BY DEF SetReg
<1>2. CASE n \in DataReg
  BY <1>1, <1>2 DEF SetReg, Record
<1>3. CASE n \notin DataReg
  <2>1. SetReg(c, n, v).r = c.r
    BY <1>1, <1>3 DEF SetReg, SetStackPointer, Fail, Record
  <2> QED
    BY <1>1, <1>3, <2>1
<1> QED
  BY <1>2, <1>3

LEMMA StepOfArg ==
  ASSUME NEW a \in Argument, IsAutoIncrDecrArg(a), a.type # "REG"
  PROVE  Pre(a) + Post(a) = StepOf(a)
<1>1. Bytes(a.scale) \in Int
  BY BytesType DEF Argument
<1>2. a.mod \in {"PRE_INCR", "PRE_DECR", "POST_INCR", "POST_DECR"}
  BY DEF Argument, Modifier, IsAutoIncrDecrArg
<1> QED
  BY <1>1, <1>2 DEF Pre, Post, StepOf, Unit

LEMMA StoreArgPasses ==
  ASSUME NEW c \in Record, NEW v \in Word, NEW a \in Argument, ~Failed(StoreArg(c, v, a))
  PROVE  Passes(c, StoreArg(c, v, a), a)
<1> DEFINE n == Stepped(a)
           w == Wrap(GetReg(c, n) + Pre(a) + Post(a))
           p == Load(c, StoreAddr(c, a), 2)
           to == IF a.type = "MEM_INDIR" THEN p.val ELSE StoreAddr(c, a)
           d == Store(c, v, to, a.scale)
           s == StoreArg(c, v, a)
<1>1. ~Failed(c) /\ a.type # "IMMED" /\ KnownRegs(a)
  BY FailKeepsRegs DEF StoreArg, Fail, Failed
<1>2. CASE a.type = "REG"
  <2>1. s = SetReg(c, a.reg, Wrap(v + Post(a)))
    BY <1>1, <1>2 DEF StoreArg
  <2>2. Wrap(v + Post(a)) \in Word /\ a.reg \in Nat
    <3>1. v + Post(a) \in Int
      BY UnitType, WordsAreInts
    <3> QED
      BY <3>1, WrapType DEF Argument
  <2>3. RegsOf(a) = {a.reg}
    BY <1>2 DEF RegsOf, Indexed
  <2> HIDE DEF s
  <2>4. ~Failed(s)
    BY DEF s
  <2>5. \A k \in DataReg : k # a.reg => s.r[k] = c.r[k]
    BY <2>1, <2>2, <2>4, SetRegRegs
  <2> QED
    BY <1>2, <2>3, <2>5 DEF Passes, s
<1>3. CASE a.type = "DIRECT"
  <2>1. s = d
    BY <1>1, <1>3 DEF StoreArg
  <2>2. s.r = c.r
    <3> HIDE DEF s, to
    <3> QED
      BY <2>1, StoreRegs
  <2>3. RegsOf(a) = {}
    BY <1>3 DEF RegsOf
  <2> HIDE DEF s
  <2> QED
    BY <2>2, <2>3 DEF Passes, IsAutoIncrDecrArg, s
<1>4. CASE a.type \notin {"REG", "DIRECT"}
  <2>1. ~(a.type = "MEM_INDIR" /\ p.exc # "none") /\ s = SetReg(d, n, w)
    <3>1. s = IF a.type = "MEM_INDIR" /\ p.exc # "none" THEN Fail(c, p.exc) ELSE SetReg(d, n, w)
      BY <1>1, <1>4 DEF StoreArg
    <3>2. p.exc # "none" => Failed(Fail(c, p.exc))
      BY DEF Fail, Failed, Record
    <3>3. ~Failed(s)
      OBVIOUS
    <3> HIDE DEF s, d, n, w, p
    <3> QED
      BY <3>1, <3>2, <3>3
  <2>2. d \in Record /\ d.r = c.r
    <3>1. StoreAddr(c, a) \in Word
      BY <1>1, <1>4, AddrType DEF StoreAddr
    <3>2. p.val \in Word
      <4> HIDE DEF StoreAddr
      <4> QED
        BY <3>1, LoadType DEF Scale
    <3>3. to \in Word
      BY <3>1, <3>2
    <3> HIDE DEF to
    <3> QED
      BY <3>3, StoreOrdinary, StoreRegs DEF Argument, Ordinary
  <2>3. n \in 0 .. 12 /\ n \in RegsOf(a) /\ GetReg(c, n) \in Int
    BY <1>1, <1>4, ArgRegs, NamedType DEF RegsOf, Stepped
  <2>4. w \in Word
    <3> HIDE DEF n
    <3> QED
      BY <2>3, UnitType, WrapType
  <2>5. ~Failed(s)
    OBVIOUS
  <2> HIDE DEF s, d
  <2>6. /\ \A k \in DataReg : k # n => s.r[k] = d.r[k]
        /\ n \in DataReg => s.r[n] = w
    <3>1. n \in Nat
      BY <2>3
    <3> HIDE DEF n, w
    <3> QED
      BY <2>1, <2>2, <2>4, <2>5, <3>1, SetRegRegs
  <2>7. ASSUME n \in DataReg, IsAutoIncrDecrArg(a)
        PROVE  w = Wrap(c.r[n] + StepOf(a))
    <3>1. GetReg(c, n) = c.r[n]
      BY <2>7 DEF GetReg, DataReg, SP, USP, FP, SR, PC
    <3>2. Pre(a) + Post(a) = StepOf(a) /\ Pre(a) \in Int /\ Post(a) \in Int
      BY <1>4, <2>7, StepOfArg, UnitType
    <3> HIDE DEF n
    <3>3. c.r[n] + Pre(a) + Post(a) = c.r[n] + StepOf(a)
      BY <2>3, <3>1, <3>2
    <3> QED
      BY <3>1, <3>3
  <2> QED
    BY <2>2, <2>3, <2>6, <2>7 DEF Passes, s
<1> QED
  BY <1>1, <1>2, <1>3, <1>4

LEMMA LeftPasses ==
  ASSUME NEW c, NEW a, ~IsAutoIncrDecrArg(a)
  PROVE  Passes(c, c, a)
  BY DEF Passes

(* The steps of one, two and three arguments come one after the other.     *)
LEMMA ChainPasses ==
  ASSUME NEW c, NEW d, NEW e, NEW a, NEW b, Passes(c, d, a), Passes(d, e, b)
  PROVE  /\ IsAutoIncrDecrArg(a) /\ a.type # "REG" /\ Stepped(a) \in DataReg \ RegsOf(b) =>
              e.r[Stepped(a)] = Wrap(c.r[Stepped(a)] + StepOf(a))
         /\ IsAutoIncrDecrArg(b) /\ b.type # "REG" /\ Stepped(b) \in DataReg \ RegsOf(a) =>
              e.r[Stepped(b)] = Wrap(c.r[Stepped(b)] + StepOf(b))
  BY Zenon DEF Passes

(* What the property says of the k-th argument of an instruction that      *)
(* takes c to d.                                                           *)
StepsArg(c, d, args, k) ==
  /\ IsAutoIncrDecrArg(args[k]) /\ args[k].type # "REG" /\ Stepped(args[k]) \in DataReg
  /\ \A j \in DOMAIN args \ {k} : Stepped(args[k]) \notin RegsOf(args[j])
  => d.r[Stepped(args[k])] = Wrap(c.r[Stepped(args[k])] + StepOf(args[k]))

LEMMA OneArgSteps ==
  ASSUME NEW c \in Record, NEW op, NEW a \in Argument, InstructsOneArg(c, op, a).exc = "none"
  PROVE  Passes(c, InstructsOneArg(c, op, a), a)
<1> DEFINE l == LoadArg(c, a)
           e == OneArgEffect(c, op, l.val)
           t == OneArgValue(c, op, l.val)
           f == SetNew(e, ArithmFlags(t))
           i == InstructsOneArg(c, op, a)
<1>1. /\ e \in Record /\ f \in Record /\ Sees(e, f) /\ t \in Word
      /\ IF op \in OneArgWrites \/ IsAutoIncrDecrArg(a) THEN i = StoreArg(f, t, a) ELSE i = e
  BY OneArgRuns
<1>2. i.exc = "none"
  OBVIOUS
<1>3. e.r = c.r
  BY LoadArgType, EffectRegs
<1> HIDE DEF e, t, f, i
<1>4. CASE op \in OneArgWrites \/ IsAutoIncrDecrArg(a)
  <2>1. Passes(f, i, a) /\ f.r = c.r
    BY <1>1, <1>2, <1>3, <1>4, StoreArgPasses DEF Sees, Failed
  <2> QED
    BY <2>1 DEF Passes, i
<1>5. CASE ~(op \in OneArgWrites \/ IsAutoIncrDecrArg(a))
  BY <1>1, <1>3, <1>5 DEF Passes, i
<1> QED
  BY <1>4, <1>5

LEMMA TwoArgSteps ==
  ASSUME NEW c \in Record, c.new % 16 = 0, NEW op, NEW a1 \in Argument, NEW a2 \in Argument,
         InstructsTwoArg(c, op, a1, a2).exc = "none"
  PROVE  \E d : Passes(c, d, a2) /\ Passes(d, InstructsTwoArg(c, op, a1, a2), a1)
<1> DEFINE l1 == LoadArg(c, a1)
           l2 == LoadArg(c, a2)
           e  == TwoArgEffect(c, op, l1.val, l2.val)
           t  == TwoArgValue(c, op, l1.val, l2.val)
           f  == SetNew(e, ArithmFlags(t))
           g  == IF op \in TwoArgWrites \/ IsAutoIncrDecrArg(a2) THEN StoreArg(f, t, a2) ELSE e
           i  == InstructsTwoArg(c, op, a1, a2)
<1>1. /\ l1.val \in Word /\ l2.val \in Word
      /\ e \in Record /\ f \in Record /\ Sees(e, f) /\ t \in Word
      /\ g \in Record /\ g.exc = "none"
      /\ i = IF IsAutoIncrDecrArg(a1) THEN StoreArg(g, l1.val, a1) ELSE g
  BY TwoArgRuns
<1>2. i.exc = "none"
  OBVIOUS
<1>3. e.r = c.r
  BY <1>1, EffectRegs
<1>4. g = IF op \in TwoArgWrites \/ IsAutoIncrDecrArg(a2) THEN StoreArg(f, t, a2) ELSE e
  OBVIOUS
<1> HIDE DEF e, t, f, g, i, l1, l2
<1>5. Passes(c, g, a2)
  <2>1. CASE op \in TwoArgWrites \/ IsAutoIncrDecrArg(a2)
    <3>1. Passes(f, g, a2) /\ f.r = c.r
      BY <1>1, <1>3, <1>4, <2>1, StoreArgPasses DEF Sees, Failed
    <3> QED
      BY <3>1 DEF Passes
  <2>2. CASE ~(op \in TwoArgWrites \/ IsAutoIncrDecrArg(a2))
    BY <1>3, <1>4, <2>2 DEF Passes
  <2> QED
    BY <2>1, <2>2
<1>6. Passes(g, i, a1)
  BY <1>1, <1>2, StoreArgPasses, LeftPasses DEF Failed
<1> QED
  BY <1>5, <1>6 DEF i

LEMMA ThreeArgSteps ==
  ASSUME NEW c \in Record, NEW op, NEW a1 \in Argument, NEW a2 \in Argument,
         NEW a3 \in Argument, InstructsThreeArg(c, op, a1, a2, a3).exc = "none"
  PROVE  \E d1, d2 : /\ Passes(c, d1, a1) /\ Passes(d1, d2, a2)
                     /\ Passes(d2, InstructsThreeArg(c, op, a1, a2, a3), a3)
<1> DEFINE l1 == LoadArg(c, a1)
           l2 == LoadArg(c, a2)
           l3 == LoadArg(c, a3)
           e  == ThreeArgEffect(c, op, l1.val, l2.val, l3.val)
           d1 == StepBack(e, l1.val, a1)
           d2 == StepBack(d1, l2.val, a2)
           i  == InstructsThreeArg(c, op, a1, a2, a3)
<1>1. /\ l1.val \in Word /\ l2.val \in Word /\ l3.val \in Word
      /\ e \in Record /\ d1 \in Record /\ d1.exc = "none"
      /\ d2 \in Record /\ d2.exc = "none"
      /\ i = StepBack(d2, l3.val, a3)
  BY ThreeArgRuns
<1>2. i.exc = "none"
  OBVIOUS
<1>3. e.r = c.r
  BY <1>1, EffectRegs
<1>4. d1 = StepBack(e, l1.val, a1) /\ d2 = StepBack(d1, l2.val, a2)
  OBVIOUS
<1> HIDE DEF e, d1, d2, i, l1, l2, l3
<1>5. ASSUME NEW x \in Record, NEW v \in Word, NEW a \in Argument, StepBack(x, v, a).exc = "none"
      PROVE  Passes(x, StepBack(x, v, a), a)
  BY <1>5, StoreArgPasses, LeftPasses DEF StepBack, Failed
<1>6. Passes(e, d1, a1) /\ Passes(d1, d2, a2) /\ Passes(d2, i, a3)
  BY <1>1, <1>2, <1>4, <1>5
<1>7. Passes(c, d1, a1)
  BY <1>3, <1>6 DEF Passes
<1> QED
  BY <1>6, <1>7 DEF i

(* Every addressing mode, in every instruction and at every place: an      *)
(* increment or decrement of a data register that no other argument names  *)
(* happens exactly once, by the size of the datum or by one for an index.  *)
THEOREM ArgumentsStepOnce == Spec => StepsOnce
<1> DEFINE S(k) == LET a == Args[k]
                   IN  /\ IsAutoIncrDecrArg(a) /\ a.type # "REG" /\ Stepped(a) \in DataReg
                       /\ \A j \in DOMAIN Args \ {k} : Stepped(a) \notin RegsOf(Args[j])
                       => cpu'.r[Stepped(a)] = Wrap(cpu.r[Stepped(a)] + StepOf(a))
           A == Fine => \A k \in DOMAIN Args : S(k)
<1>1. ASSUME TypeOK, Next, Fine PROVE \A k \in DOMAIN Args : S(k)
  <2>1. PICK i : Ended(i)
    BY <1>1, FineEnds
  <2> DEFINE d == Execute(cpu, i)
  <2>2. /\ cpu \in Record /\ i \in Instruction /\ d \in Record /\ d.exc = "none"
        /\ Args = i.args /\ i.args \in Seq(Argument)
    BY <1>1, <2>1 DEF Ended, TypeOK, Instruction
  <2>3. cpu.sr \in Word
    BY <2>2 DEF Record
  <2>4. ASSUME NEW k \in DOMAIN i.args PROVE StepsArg(cpu, d, i.args, k)
    <3>1. k \in 1 .. Len(i.args)
      BY <2>2
    <3>2. CASE Len(i.args) = 1
      <4>1. /\ k = 1 /\ i.args[1] \in Argument /\ Reads(cpu, FetchedOne(cpu, i))
            /\ d = InstructsOneArg(FetchedOne(cpu, i), i.op, i.args[1])
        BY <2>2, <3>1, <3>2, Instructs
      <4> HIDE DEF d
      <4>2. Passes(FetchedOne(cpu, i), d, i.args[1])
        BY <2>2, <4>1, OneArgSteps DEF Reads
      <4> QED
        BY <4>1, <4>2 DEF Passes, StepsArg, Reads, Sees
    <3>3. CASE Len(i.args) = 2
      <4> DEFINE x == FetchedTwo(cpu, i)
      <4>1. /\ k \in {1, 2} /\ i.args[1] \in Argument /\ i.args[2] \in Argument
            /\ Reads(cpu, x) /\ d = InstructsTwoArg(x, i.op, i.args[1], i.args[2])
            /\ 1 \in DOMAIN i.args /\ 2 \in DOMAIN i.args
        BY <2>2, <3>1, <3>3, Instructs
      <4> HIDE DEF d, x
      <4>2. PICK y : Passes(x, y, i.args[2]) /\ Passes(y, d, i.args[1])
        BY <2>2, <2>3, <4>1, TwoArgSteps, ResetKeepsMode DEF Reads
      <4> QED
        BY <4>1, <4>2, ChainPasses DEF StepsArg, Reads, Sees
    <3>4. CASE Len(i.args) = 3
      <4> DEFINE x == FetchedThree(cpu, i)
      <4>1. /\ k \in {1, 2, 3} /\ i.args[1] \in Argument /\ i.args[2] \in Argument
            /\ i.args[3] \in Argument
            /\ Reads(cpu, x)
            /\ d = InstructsThreeArg(x, i.op, i.args[1], i.args[2], i.args[3])
            /\ 1 \in DOMAIN i.args /\ 2 \in DOMAIN i.args /\ 3 \in DOMAIN i.args
        BY <2>2, <3>1, <3>4, Instructs
      <4> HIDE DEF d, x
      <4>2. PICK y, z : /\ Passes(x, y, i.args[1]) /\ Passes(y, z, i.args[2])
                        /\ Passes(z, d, i.args[3])
        BY <2>2, <4>1, ThreeArgSteps DEF Reads
      <4>3. x.r = cpu.r
        BY <4>1 DEF Reads, Sees
      <4>4. CASE k = 1
        BY <4>1, <4>2, <4>3, <4>4 DEF StepsArg, Passes
      <4>5. CASE k = 2
        BY <4>1, <4>2, <4>3, <4>5 DEF StepsArg, Passes
      <4>6. CASE k = 3
        BY <4>1, <4>2, <4>3, <4>6 DEF StepsArg, Passes
      <4> QED
        BY <4>1, <4>4, <4>5, <4>6
    <3>5. Len(i.args) \in {1, 2, 3}
      BY <2>2, <3>1, Instructs
    <3> QED
      BY <3>2, <3>3, <3>4, <3>5
  <2>5. ASSUME NEW k \in DOMAIN i.args PROVE cpu'.r = d.r
    <3>1. i.args # <<>>
      BY <2>5
    <3>2. cpu' = Settle(d)
      BY <2>1, <3>1 DEF Ended
    <3> HIDE DEF d
    <3> QED
      BY <2>2, <3>2, SettleType
  <2> HIDE DEF d
  <2> QED
    BY <2>2, <2>4, <2>5 DEF StepsArg
<1> HIDE DEF S
<1>2. TypeOK /\ [Next]_vars => [A]_vars
  BY <1>1
<1>3. Spec => [][A]_vars
  BY <1>2, TypeCorrect, PTL DEF Spec
<1> QED
  BY <1>3 DEF StepsOnce, S, A

-----------------------------------------------------------------------------
(* What an argument means to one machine it means to another that differs  *)
(* from it in the program counter alone, unless it names that.             *)
LEMMA LoadSees ==
  ASSUME NEW c, NEW d, Sees(c, d), NEW addr, NEW scale
  PROVE  Load(d, addr, scale) = Load(c, addr, scale)
  BY DEF Load, LoadFault, Sees

LEMMA RegSees ==
  ASSUME NEW c, NEW d, Sees(c, d), NEW n \in 0 .. 11
  PROVE  GetReg(d, n) = GetReg(c, n)
<1>1. StackPointer(d) = StackPointer(c)
  BY DEF Sees, StackPointer, Svisor
<1> QED
  BY <1>1 DEF GetReg, Sees, DataReg, SP, USP, FP, SR, PC

LEMMA AddrSees ==
  ASSUME NEW c, NEW d, Sees(c, d), NEW a \in Argument, KnownRegs(a), PC \notin RegsOf(a),
         a.type \notin {"IMMED", "REG"}
  PROVE  ArgAddr(d, a) = ArgAddr(c, a)
<1>1. \A n \in RegsOf(a) : GetReg(d, n) = GetReg(c, n)
  <2>1. \A n \in RegsOf(a) : n \in Nat /\ n <= 12 /\ n # 12
    BY DEF KnownRegs, RegsOf, Argument, PC
  <2> QED
    BY <2>1, RegSees
<1>2. CASE a.type = "DIRECT"
  BY <1>2 DEF ArgAddr
<1>3. CASE a.type # "DIRECT"
  <2>1. GetReg(d, a.reg) = GetReg(c, a.reg) /\ (Indexed(a) => GetReg(d, a.index) = GetReg(c, a.index))
    BY <1>1, <1>3 DEF RegsOf, Indexed
  <2>2. a.type \in {"REG_INDIR", "MEM_INDIR", "DISPLACED", "INDEXED", "INDX_DISP"}
    BY <1>3 DEF Argument, ArgType
  <2>3. CASE a.type \in {"REG_INDIR", "MEM_INDIR"}
    BY <2>1, <2>3 DEF ArgAddr
  <2>4. CASE a.type = "DISPLACED"
    BY <2>1, <2>4 DEF ArgAddr
  <2>5. CASE a.type = "INDEXED"
    BY <2>1, <2>5 DEF ArgAddr, Indexed
  <2>6. CASE a.type = "INDX_DISP"
    BY <2>1, <2>6 DEF ArgAddr, Indexed
  <2> QED
    BY <2>2, <2>3, <2>4, <2>5, <2>6
<1> QED
  BY <1>2, <1>3

LEMMA LoadArgSees ==
  ASSUME NEW c, NEW d, Sees(c, d), NEW a \in Argument, PC \notin RegsOf(a)
  PROVE  LoadArg(d, a) = LoadArg(c, a)
<1>1. CASE ~KnownRegs(a)
  BY <1>1 DEF LoadArg
<1>2. CASE KnownRegs(a) /\ a.type = "IMMED"
  BY <1>2 DEF LoadArg
<1>3. CASE KnownRegs(a) /\ a.type = "REG"
  <2>1. a.reg \in 0 .. 11
    BY <1>3 DEF KnownRegs, RegsOf, Indexed, Argument, PC
  <2>2. GetReg(d, a.reg) = GetReg(c, a.reg)
    BY <2>1, RegSees
  <2> QED
    BY <1>3, <2>2 DEF LoadArg
<1>4. CASE KnownRegs(a) /\ a.type \notin {"IMMED", "REG"}
  <2> DEFINE x == ArgAddr(c, a)
             y == ArgAddr(d, a)
             p == Load(c, x, 2)
             q == Load(d, y, 2)
  <2>1. y = x
    BY <1>4, AddrSees
  <2>2. a.type = "MEM_INDIR" =>
          /\ LoadArg(c, a) = IF p.exc # "none" THEN p ELSE Load(c, p.val, a.scale)
          /\ LoadArg(d, a) = IF q.exc # "none" THEN q ELSE Load(d, q.val, a.scale)
    BY <1>4 DEF LoadArg
  <2>3. a.type # "MEM_INDIR" =>
          LoadArg(c, a) = Load(c, x, a.scale) /\ LoadArg(d, a) = Load(d, y, a.scale)
    BY <1>4 DEF LoadArg
  <2>4. q = p
    <3> HIDE DEF x, y
    <3> QED
      BY <2>1, LoadSees
  <2> HIDE DEF x, y, p, q
  <2> QED
    BY <2>1, <2>2, <2>3, <2>4, LoadSees
<1> QED
  BY <1>1, <1>2, <1>3, <1>4

-----------------------------------------------------------------------------
(* Which numbers of arguments an operation takes.                          *)
LEMMA TakesTwo ==
  ASSUME NEW c \in Record, NEW i \in Instruction, Execute(c, i).exc = "none",
         i.op \in Comparisons \cup {"MOV"}
  PROVE  Len(i.args) = 2
<1> DEFINE op == i.op
<1>1. ASSUME NEW d \in Record, Failed(d) \/ InstructsZeroArg(d, op).exc = "none"
      PROVE  Failed(d)
  <2>1. InstructsZeroArg(d, op) = IF Failed(d) THEN d ELSE Fail(d, "wrong")
    BY DEF InstructsZeroArg, Comparisons
  <2>2. Failed(Fail(d, "wrong"))
    BY FailKeepsRegs
  <2> QED
    BY <1>1, <2>1, <2>2 DEF Failed
<1>2. ASSUME NEW d \in Record, NEW a \in Argument, InstructsOneArg(d, op, a).exc = "none"
      PROVE  FALSE
  <2>1. \A t : OneArgEffect(d, op, t) = Fail(d, "wrong")
    BY DEF OneArgEffect, JumpsOn, Comparisons
  <2>2. Failed(Fail(d, "wrong"))
    BY FailKeepsRegs
  <2> QED
    BY <1>2, <2>1, <2>2, OneArgRuns
<1>3. ASSUME NEW d \in Record, NEW a1 \in Argument, NEW a2 \in Argument,
             NEW a3 \in Argument, InstructsThreeArg(d, op, a1, a2, a3).exc = "none"
      PROVE  FALSE
  <2>1. \A r, s, t : ThreeArgEffect(d, op, r, s, t) = Fail(d, "wrong")
    BY DEF ThreeArgEffect, IfJumps, Comparisons
  <2>2. Failed(Fail(d, "wrong"))
    BY FailKeepsRegs
  <2> QED
    BY <1>3, <2>1, <2>2, ThreeArgRuns DEF Failed
<1> QED
  BY <1>1, <1>2, <1>3, Instructs DEF Reads, Failed

LEMMA CompareType ==
  ASSUME NEW op \in Comparisons, NEW x, NEW y
  PROVE  Compare(op, x, y) \in BOOLEAN
<1>1. CASE op = "EQ"
  BY <1>1 DEF Compare
<1>2. CASE op = "LO"
  BY <1>2 DEF Compare
<1>3. CASE op = "MO"
  BY <1>3 DEF Compare
<1>4. CASE op = "LE"
  BY <1>4 DEF Compare
<1>5. CASE op = "ME"
  BY <1>5 DEF Compare
<1>6. CASE op = "NEQ"
  BY <1>6 DEF Compare
<1> QED
  BY <1>1, <1>2, <1>3, <1>4, <1>5, <1>6 DEF Comparisons

LEMMA ComparisonMarks ==
  ASSUME NEW f \in Word
  PROVE  /\ ~HasFlag(ResetFlags(f), ZERO)
         /\ HasFlag(Wrap(ResetFlags(f) + ZERO), ZERO)
<1>1. ResetFlags(f) \in Nat /\ ResetFlags(f) % 16 = 0 /\ ResetFlags(f) < AddrSpace
  BY ResetKeepsMode, Constants
<1> DEFINE r == ResetFlags(f)
<1> HIDE DEF r
<1>2. r \in Nat /\ r % 16 = 0 /\ r < AddrSpace
  BY <1>1 DEF r
<1>3. r + 4 < AddrSpace
  BY <1>2, Constants
<1>4. Wrap(r + 4) = r + 4
  BY <1>2, <1>3, WrapSmall
<1>5. (r \div 4) % 2 = 0 /\ ((r + 4) \div 4) % 2 = 1
  BY <1>2
<1> QED
  BY <1>4, <1>5 DEF r, HasFlag, ZERO

(* A comparison followed by IFJ and the fused instruction: for every two   *)
(* operands, wherever they come from, both jump or neither does.           *)
THEOREM FusedJumpsAgree == Spec => FusedJumpAgrees
<1> DEFINE x == LoadArg(cpu, Args[1]).val
           y == LoadArg(cpu, Args[2]).val
           fused == FusedWith[executed'.op]
           Same == OneArgEffect(cpu', "IFJ", 8).pc = ThreeArgEffect(cpu', fused, 8, x, y).pc
           A == Fine /\ executed'.op \in Comparisons /\ NoStepping
                  /\ (\A k \in DOMAIN Args : Plain(Args[k])) => Same
<1>1. ASSUME TypeOK, Next, Fine, executed'.op \in Comparisons, NoStepping,
             \A k \in DOMAIN Args : Plain(Args[k])
      PROVE  Same
  <2>1. PICK i : Ended(i)
    BY <1>1, FineEnds
  <2> DEFINE d == Execute(cpu, i)
             f == FetchedTwo(cpu, i)
             o == Compare(i.op, Signed(x), Signed(y))
  <2>2. /\ cpu \in Record /\ i \in Instruction /\ d \in Record /\ d.exc = "none"
        /\ Args = i.args /\ i.args \in Seq(Argument) /\ executed'.op = i.op
        /\ i.op \in Comparisons /\ cpu.sr \in Word
    BY <1>1, <2>1 DEF Ended, TypeOK, Instruction, Record
  <2>3. Len(i.args) = 2 /\ i.args # <<>> /\ 1 \in DOMAIN Args /\ 2 \in DOMAIN Args
    BY <2>2, TakesTwo
  <2>4. /\ Args[1] \in Argument /\ Args[2] \in Argument /\ Reads(cpu, f)
        /\ d = InstructsTwoArg(f, i.op, Args[1], Args[2])
    BY <2>2, <2>3, Instructs
  <2>5. ~IsAutoIncrDecrArg(Args[1]) /\ ~IsAutoIncrDecrArg(Args[2])
        /\ PC \notin RegsOf(Args[1]) /\ PC \notin RegsOf(Args[2])
    BY <1>1, <2>3 DEF NoStepping, Plain, DataReg, PC
  <2>6. LoadArg(f, Args[1]).val = x /\ LoadArg(f, Args[2]).val = y
    <3> HIDE DEF f
    <3> QED
      BY <2>4, <2>5, LoadArgSees DEF Reads
  <2>7. d = TwoArgEffect(f, i.op, x, y)
    <3>1. i.op \notin TwoArgWrites
      BY <2>2 DEF Comparisons, TwoArgWrites
    <3>2. f \in Record /\ f.new % 16 = 0
      BY <2>2, <2>4, ResetKeepsMode DEF Reads
    <3> HIDE DEF f, x, y, d
    <3> QED
      BY <2>2, <2>4, <2>5, <2>6, <3>1, <3>2, TwoArgRuns
  <2>8. d = IF o THEN SetNew(f, ZERO) ELSE f
    <3> HIDE DEF f, x, y, d
    <3> QED
      BY <2>2, <2>7 DEF TwoArgEffect, Comparisons
  <2>9. HasFlag(d.new, ZERO) = o
    <3>1. f \in Record /\ f.exc = "none" /\ f.new = ResetFlags(cpu.sr)
      BY <2>4 DEF Reads
    <3>2. SetNew(f, ZERO).new = Wrap(ResetFlags(cpu.sr) + ZERO)
      <4> DEFINE v == Wrap(ResetFlags(cpu.sr) + ZERO)
      <4> HIDE DEF f
      <4>1. SetNew(f, ZERO) = [f EXCEPT !.new = v]
        BY <3>1 DEF SetNew, Failed
      <4> HIDE DEF v
      <4> QED
        BY <3>1, <4>1 DEF Record, v
    <3>3. /\ HasFlag(Wrap(ResetFlags(cpu.sr) + ZERO), ZERO) = TRUE
          /\ HasFlag(ResetFlags(cpu.sr), ZERO) = FALSE
      BY <2>2, ComparisonMarks DEF HasFlag
    <3>4. o \in BOOLEAN
      BY <2>2, CompareType
    <3> HIDE DEF o, f, d
    <3> QED
      BY <2>8, <3>1, <3>2, <3>3, <3>4
  <2>10. cpu' = Settle(d) /\ cpu'.sr = d.new
    BY <2>1, <2>2, <2>3, SettleType DEF Ended
  <2>11. OneArgEffect(cpu', "IFJ", 8) = Jump(cpu', HasFlag(d.new, ZERO), 8)
    BY <2>10 DEF OneArgEffect, JumpsOn
  <2>12. ThreeArgEffect(cpu', fused, 8, x, y) = Jump(cpu', o, 8)
    <3>1. fused \in DOMAIN IfJumps /\ fused \notin {"BPUT", "BGET"} /\ IfJumps[fused] = i.op
      BY <2>2 DEF IfJumps, FusedWith, Comparisons
    <3> HIDE DEF fused, x, y
    <3> QED
      BY <3>1 DEF ThreeArgEffect
  <2> QED
    BY <2>9, <2>11, <2>12
<1> HIDE DEF Same
<1>2. TypeOK /\ [Next]_vars => [A]_vars
  BY <1>1
<1>3. Spec => [][A]_vars
  BY <1>2, TypeCorrect, PTL DEF Spec
<1> QED
  BY <1>3 DEF FusedJumpAgrees, Same, A

-----------------------------------------------------------------------------
(* A word and its four bytes.                                              *)
LEMMA WordOfLanes ==
  ASSUME NEW w \in Word
  PROVE  /\ Number(Lanes(w)) = w
         /\ Number([Lanes(w) EXCEPT ![2] = 0, ![3] = 0]) = w % (ByteMod * ByteMod)
         /\ Number([Lanes(w) EXCEPT ![1] = 0, ![2] = 0, ![3] = 0]) = w % ByteMod
<1> DEFINE B == ByteMod
           q1 == w \div B
           q2 == w \div (B * B)
           q3 == w \div (B * B * B)
           l == Lanes(w)
<1>1. w \in Nat /\ w < B * B * B * B
  BY CpuAssumption DEF Word, Addr
<1>2. l[0] = w % B /\ l[1] = q1 % B /\ l[2] = q2 % B /\ l[3] = q3 % B
  <2>1. w \div 1 = w
    BY <1>1
  <2> QED
    BY <2>1 DEF Lanes, Lane, Weight
<1>3. l \in [Lane -> Int]
  <2>1. l \in DoubleWord
    BY LanesType
  <2> HIDE DEF l
  <2> QED
    BY <2>1, Constants DEF DoubleWord, Byte
<1>4. /\ w = (w % B) + B * ((q1 % B) + B * ((q2 % B) + B * (q3 % B)))
      /\ w % (B * B) = (w % B) + B * (q1 % B)
  <2>1. CASE ByteMod = 8
    BY <1>1, <2>1
  <2>2. CASE ByteMod = 16
    BY <1>1, <2>2
  <2>3. CASE ByteMod = 32
    BY <1>1, <2>3
  <2>4. CASE ByteMod = 64
    BY <1>1, <2>4
  <2>5. CASE ByteMod = 128
    BY <1>1, <2>5
  <2>6. CASE ByteMod = 256
    BY <1>1, <2>6
  <2> QED
    BY <2>1, <2>2, <2>3, <2>4, <2>5, <2>6, CpuAssumption
<1> HIDE DEF l, q1, q2, q3
<1>5. Number(l) = w
  BY <1>2, <1>4 DEF Number
<1>6. B \in Int /\ w % B \in Int /\ q1 % B \in Int
  BY <1>1, Constants DEF q1
<1>7. Number([l EXCEPT ![2] = 0, ![3] = 0]) = w % (B * B)
  BY <1>2, <1>3, <1>4, <1>6 DEF Number, Lane
<1>8. Number([l EXCEPT ![1] = 0, ![2] = 0, ![3] = 0]) = w % B
  BY <1>2, <1>3, <1>6 DEF Number, Lane
<1> QED
  BY <1>5, <1>7, <1>8 DEF l

LEMMA Digit ==
  ASSUME NEW r \in 0 .. ByteMod - 1, NEW x \in Nat
  PROVE  LET w == r + ByteMod * x
         IN  w \in Nat /\ w % ByteMod = r /\ w \div ByteMod = x
<1>1. CASE ByteMod = 8
  BY <1>1
<1>2. CASE ByteMod = 16
  BY <1>2
<1>3. CASE ByteMod = 32
  BY <1>3
<1>4. CASE ByteMod = 64
  BY <1>4
<1>5. CASE ByteMod = 128
  BY <1>5
<1>6. CASE ByteMod = 256
  BY <1>6
<1> QED
  BY <1>1, <1>2, <1>3, <1>4, <1>5, <1>6, CpuAssumption

LEMMA DivDiv ==
  ASSUME NEW w \in Nat
  PROVE  LET B == ByteMod
         IN  /\ w \div (B * B) = (w \div B) \div B
             /\ w \div (B * B * B) = ((w \div B) \div B) \div B
<1>1. CASE ByteMod = 8
  BY <1>1
<1>2. CASE ByteMod = 16
  BY <1>2
<1>3. CASE ByteMod = 32
  BY <1>3
<1>4. CASE ByteMod = 64
  BY <1>4
<1>5. CASE ByteMod = 128
  BY <1>5
<1>6. CASE ByteMod = 256
  BY <1>6
<1> QED
  BY <1>1, <1>2, <1>3, <1>4, <1>5, <1>6, CpuAssumption

LEMMA LanesOfNumber ==
  ASSUME NEW d \in DoubleWord
  PROVE  Lanes(Number(d)) = d
<1> DEFINE B == ByteMod
           x3 == d[3]
           x2 == d[2] + B * x3
           x1 == d[1] + B * x2
           w == d[0] + B * x1
<1>1. /\ d[0] \in 0 .. B - 1 /\ d[1] \in 0 .. B - 1
      /\ d[2] \in 0 .. B - 1 /\ d[3] \in 0 .. B - 1
  BY DEF DoubleWord, Byte, Lane
<1>2. Number(d) = w
  BY DEF Number
<1>3. /\ w % B = d[0] /\ (w \div B) % B = d[1]
      /\ (w \div (B * B)) % B = d[2] /\ (w \div (B * B * B)) % B = d[3]
  <2>1. x3 \in Nat /\ x3 % B = x3
    BY <1>1, Constants, ModOfSmall
  <2>2. x2 \in Nat /\ x2 % B = d[2] /\ x2 \div B = x3
    <3> HIDE DEF x3
    <3> QED
      BY <1>1, <2>1, Digit
  <2>3. x1 \in Nat /\ x1 % B = d[1] /\ x1 \div B = x2
    <3> HIDE DEF x2
    <3> QED
      BY <1>1, <2>2, Digit
  <2>4. w \in Nat /\ w % B = d[0] /\ w \div B = x1
    <3> HIDE DEF x1
    <3> QED
      BY <1>1, <2>3, Digit
  <2> HIDE DEF x1, x2, w
  <2>5. w \div (B * B) = x2 /\ w \div (B * B * B) = x3
    BY <2>2, <2>3, <2>4, DivDiv
  <2> QED
    BY <2>1, <2>2, <2>3, <2>4, <2>5
<1> HIDE DEF w
<1>4. w \in Nat
  BY <1>2, NumberType, Constants
<1>5. \A k \in Lane : Lanes(w)[k] = d[k]
  <2>1. Lanes(w)[0] = d[0] /\ Lanes(w)[1] = d[1] /\ Lanes(w)[2] = d[2] /\ Lanes(w)[3] = d[3]
    <3>1. w \div 1 = w
      BY <1>4
    <3> QED
      BY <1>3, <3>1 DEF Lanes, Lane, Weight
  <2> QED
    BY <2>1 DEF Lane
<1>6. Lanes(w) \in [Lane -> Int] /\ d \in [Lane -> Int] /\ DOMAIN Lanes(w) = Lane /\ DOMAIN d = Lane
  BY <1>1, <1>5 DEF Lanes, DoubleWord, Lane
<1> QED
  BY <1>2, <1>5, <1>6

-----------------------------------------------------------------------------
(* The bytes of an access: what a store wrote is what a load of the same   *)
(* place reads, and a load of another place reads what it did.             *)
LEMMA CellPlaces ==
  ASSUME NEW b \in Addr, NEW a \in Word, NEW s \in Scale, ~Wild(b, a, s),
         NEW k \in Lane, k < Bytes(s)
  PROVE  LET c == CellOf(b, a, k)
         IN  /\ c \in CellsOf(b, a, s) /\ c \in Nat /\ c - CellOf(b, a, 0) = k
             /\ c \div 4 \in 0 .. Blocks - 1 /\ c % 4 \in Lane
             /\ 4 * (c \div 4) + (c % 4) = c
<1> DEFINE c == CellOf(b, a, k)
<1>1. k \in 0 .. Bytes(s) - 1
  BY BytesType DEF Lane
<1>2. c \in CellsOf(b, a, s)
  BY <1>1 DEF CellsOf
<1>3. c \in 0 .. 4 * Blocks - 1
  BY <1>2, Constants DEF Wild, Cell
<1>4. (a + b) % AddrSpace \in Int
  BY Constants DEF Addr, Word
<1>5. c - CellOf(b, a, 0) = k
  BY <1>1, <1>4 DEF CellOf
<1> HIDE DEF c
<1>6. c \in Nat /\ c < 4 * Blocks
  BY <1>3, Constants
<1>7. c \div 4 \in 0 .. Blocks - 1 /\ c % 4 \in Lane /\ 4 * (c \div 4) + (c % 4) = c
  BY <1>6, Constants DEF Lane
<1> QED
  BY <1>2, <1>5, <1>6, <1>7 DEF c

LEMMA WrittenIsRead ==
  ASSUME NEW m \in MemoryImage, NEW b \in Addr, NEW a \in Word, NEW s \in Scale,
         ~Wild(b, a, s), NEW data
  PROVE  ReadLanes(WriteLanes(m, b, a, s, data), b, a, s)
           = [k \in Lane |-> IF k < Bytes(s) THEN data[k] ELSE 0]
<1> DEFINE n == WriteLanes(m, b, a, s, data)
<1>1. ASSUME NEW k \in Lane, k < Bytes(s)
      PROVE  n[CellOf(b, a, k) \div 4][CellOf(b, a, k) % 4] = data[k]
  <2> DEFINE c == CellOf(b, a, k)
  <2>1. /\ c \in CellsOf(b, a, s) /\ c - CellOf(b, a, 0) = k
        /\ c \div 4 \in 0 .. Blocks - 1 /\ c % 4 \in Lane
        /\ 4 * (c \div 4) + (c % 4) = c
    BY <1>1, CellPlaces
  <2>2. DOMAIN m = 0 .. Blocks - 1
    BY DEF MemoryImage
  <2> HIDE DEF c
  <2> QED
    BY <2>1, <2>2 DEF WriteLanes, c
<1> HIDE DEF n
<1> QED
  BY <1>1 DEF ReadLanes, n

LEMMA ReadIsWritten ==
  ASSUME NEW m \in MemoryImage, NEW b \in Addr, NEW a \in Word, NEW s \in Scale,
         s # 3, ~Wild(b, a, s)
  PROVE  WriteLanes(m, b, a, s, ReadLanes(m, b, a, s)) = m
<1> DEFINE data == ReadLanes(m, b, a, s)
           n == WriteLanes(m, b, a, s, data)
<1>1. ASSUME NEW i \in 0 .. Blocks - 1, NEW l \in Lane, 4 * i + l \in CellsOf(b, a, s)
      PROVE  data[(4 * i + l) - CellOf(b, a, 0)] = m[i][l]
  <2>1. PICK k \in 0 .. Bytes(s) - 1 : 4 * i + l = CellOf(b, a, k)
    BY <1>1 DEF CellsOf
  <2>2. k \in Lane /\ k < Bytes(s)
    BY DEF Scale, Bytes, Lane
  <2>3. /\ CellOf(b, a, k) - CellOf(b, a, 0) = k
        /\ 4 * (CellOf(b, a, k) \div 4) + (CellOf(b, a, k) % 4) = CellOf(b, a, k)
    BY <2>2, CellPlaces
  <2>4. CellOf(b, a, k) \div 4 = i /\ CellOf(b, a, k) % 4 = l
    <3>1. (4 * i + l) \div 4 = i /\ (4 * i + l) % 4 = l
      BY Constants DEF Lane
    <3> QED
      BY <2>1, <3>1
  <2>5. data[k] = m[i][l]
    BY <2>2, <2>4 DEF ReadLanes
  <2> HIDE DEF data
  <2> QED
    BY <2>1, <2>3, <2>5
<1>2. m \in [0 .. Blocks - 1 -> [Lane -> Byte]]
  BY DEF MemoryImage, DoubleWord
<1>3. n = [i \in 0 .. Blocks - 1 |-> [l \in Lane |-> m[i][l]]]
  <2> HIDE DEF data
  <2> QED
    BY <1>1, <1>2 DEF WriteLanes
<1>4. m = [i \in 0 .. Blocks - 1 |-> [l \in Lane |-> m[i][l]]]
  <2>1. \A i \in 0 .. Blocks - 1 : m[i] = [l \in Lane |-> m[i][l]]
    BY <1>2
  <2> QED
    BY <1>2, <2>1
<1> QED
  BY <1>3, <1>4

LEMMA ElsewhereIsRead ==
  ASSUME NEW m \in MemoryImage, NEW b \in Addr, NEW a \in Word, NEW s \in Scale, NEW data,
         NEW a2 \in Word, NEW s2 \in Scale, ~Wild(b, a2, s2),
         CellsOf(b, a, s) \cap CellsOf(b, a2, s2) = {}
  PROVE  ReadLanes(WriteLanes(m, b, a, s, data), b, a2, s2) = ReadLanes(m, b, a2, s2)
<1> DEFINE n == WriteLanes(m, b, a, s, data)
<1>1. ASSUME NEW k \in Lane, k < Bytes(s2)
      PROVE  n[CellOf(b, a2, k) \div 4][CellOf(b, a2, k) % 4]
               = m[CellOf(b, a2, k) \div 4][CellOf(b, a2, k) % 4]
  <2> DEFINE c == CellOf(b, a2, k)
  <2>1. /\ c \in CellsOf(b, a2, s2)
        /\ c \div 4 \in 0 .. Blocks - 1 /\ c % 4 \in Lane
        /\ 4 * (c \div 4) + (c % 4) = c
    BY <1>1, CellPlaces
  <2>2. DOMAIN m = 0 .. Blocks - 1 /\ c \notin CellsOf(b, a, s)
    BY <2>1 DEF MemoryImage
  <2> HIDE DEF c
  <2> QED
    BY <2>1, <2>2 DEF WriteLanes, c
<1> HIDE DEF n
<1> QED
  BY <1>1 DEF ReadLanes, n

-----------------------------------------------------------------------------
(* The same of the processor's accesses: a store that does not fail can be *)
(* loaded again, what is loaded and stored back changes nothing, and words *)
(* four or more bytes apart do not touch.                                  *)
Holds(c, addr, scale, v) == Load(c, addr, scale) = [exc |-> "none", val |-> v]

LEMMA StoreIs ==
  ASSUME NEW c \in Record, NEW v, NEW addr, NEW scale, ~Failed(Store(c, v, addr, scale))
  PROVE  /\ ~Failed(c) /\ StoreFault(c, addr, scale) = "none"
         /\ Store(c, v, addr, scale)
              = [c EXCEPT !.mem = WriteLanes(c.mem, c.base, addr, scale, Lanes(v))]
  BY DEF Store, Fail, Failed, Record

LEMMA EndType ==
  ASSUME NEW addr \in Word, NEW scale \in Scale
  PROVE  EndOf(addr, scale) \in Nat
<1>1. addr + Bytes(scale) \in Int
  BY BytesType, WordsAreInts
<1>2. Wrap(addr + Bytes(scale)) \in Word
  BY <1>1, WrapType
<1> QED
  BY <1>2, Constants DEF EndOf, Wrap

LEMMA StoreThenLoad ==
  ASSUME NEW c \in Record, NEW addr \in Word, NEW scale \in Scale,
         StoreFault(c, addr, scale) = "none"
  PROVE  LoadFault(c, addr, scale) = "none" /\ scale # 3 /\ ~Wild(c.base, addr, scale)
<1>1. scale # 3 /\ ~StoreRefused(c.limit, addr, scale) /\ ~Wild(c.base, addr, scale)
  BY DEF StoreFault
<1>2. c.limit \in Int /\ EndOf(addr, scale) \in Int
  BY EndType, Constants DEF Record, Addr
<1>3. ~LoadRefused(c.limit, addr, scale)
  BY <1>1, <1>2 DEF StoreRefused, LoadRefused
<1> QED
  BY <1>1, <1>3 DEF LoadFault

LEMMA NarrowIs ==
  ASSUME NEW v \in Word, NEW scale \in Scale, scale # 3
  PROVE  Number([k \in Lane |-> IF k < Bytes(scale) THEN Lanes(v)[k] ELSE 0])
           = Narrow(v, scale)
<1> DEFINE l == Lanes(v)
           n == [k \in Lane |-> IF k < Bytes(scale) THEN l[k] ELSE 0]
<1>1. l \in DoubleWord /\ DOMAIN l = Lane
  BY LanesType DEF Lanes
<1>2. 0 \in Lane /\ 1 \in Lane /\ 2 \in Lane /\ 3 \in Lane
  BY DEF Lane
<1>3. Number(l) = v
  BY WordOfLanes
<1>4. /\ Number([l EXCEPT ![2] = 0, ![3] = 0]) = v % (ByteMod * ByteMod)
      /\ Number([l EXCEPT ![1] = 0, ![2] = 0, ![3] = 0]) = v % ByteMod
  BY WordOfLanes
<1> HIDE DEF l
<1>5. CASE scale = 0
  <2>1. Bytes(scale) = 1 /\ Weight[2] = ByteMod
    BY <1>5 DEF Bytes, Weight
  <2> DEFINE e == [l EXCEPT ![1] = 0, ![2] = 0, ![3] = 0]
  <2>2. n = e
    <3>1. e[0] = l[0] /\ e[1] = 0 /\ e[2] = 0 /\ e[3] = 0
      BY <1>1, <1>2
    <3>2. e = [k \in Lane |-> e[k]]
      BY <1>1
    <3> HIDE DEF e
    <3> QED
      BY <2>1, <3>1, <3>2 DEF Lane
  <2> QED
    BY <1>4, <2>1, <2>2 DEF Narrow, l
<1>6. CASE scale = 1
  <2>1. Bytes(scale) = 2 /\ Weight[3] = ByteMod * ByteMod
    BY <1>6 DEF Bytes, Weight
  <2> DEFINE e == [l EXCEPT ![2] = 0, ![3] = 0]
  <2>2. n = e
    <3>1. e[0] = l[0] /\ e[1] = l[1] /\ e[2] = 0 /\ e[3] = 0
      BY <1>1, <1>2
    <3>2. e = [k \in Lane |-> e[k]]
      BY <1>1
    <3> HIDE DEF e
    <3> QED
      BY <2>1, <3>1, <3>2 DEF Lane
  <2> QED
    BY <1>4, <2>1, <2>2 DEF Narrow, l
<1>7. CASE scale = 2
  <2>1. Bytes(scale) = 4
    BY <1>7 DEF Bytes
  <2>2. n = l
    BY <1>1, <1>2, <2>1 DEF DoubleWord, Lane
  <2> QED
    BY <1>3, <2>1, <2>2 DEF Narrow, l
<1> QED
  BY <1>5, <1>6, <1>7 DEF Scale

LEMMA StoredIsLoaded ==
  ASSUME NEW c \in Record, NEW v \in Word, NEW addr \in Word, NEW scale \in Scale,
         ~Failed(Store(c, v, addr, scale))
  PROVE  Holds(Store(c, v, addr, scale), addr, scale, Narrow(v, scale))
<1> DEFINE m == WriteLanes(c.mem, c.base, addr, scale, Lanes(v))
           d == Store(c, v, addr, scale)
<1>1. StoreFault(c, addr, scale) = "none" /\ d = [c EXCEPT !.mem = m]
  BY StoreIs
<1>2. LoadFault(c, addr, scale) = "none" /\ scale # 3 /\ ~Wild(c.base, addr, scale)
  BY <1>1, StoreThenLoad
<1>3. c.mem \in MemoryImage /\ c.base \in Addr
  BY DEF Record
<1>4. ReadLanes(m, c.base, addr, scale)
        = [k \in Lane |-> IF k < Bytes(scale) THEN Lanes(v)[k] ELSE 0]
  BY <1>2, <1>3, WrittenIsRead
<1>5. Number(ReadLanes(m, c.base, addr, scale)) = Narrow(v, scale)
  BY <1>2, <1>4, NarrowIs
<1> HIDE DEF m, d
<1>6. d.mem = m /\ d.base = c.base /\ d.limit = c.limit
  BY <1>1 DEF Record
<1>7. LoadFault(d, addr, scale) = "none"
  BY <1>2, <1>6 DEF LoadFault
<1> QED
  BY <1>5, <1>6, <1>7 DEF Holds, Load, d

LEMMA LoadedIsStored ==
  ASSUME NEW c \in Record, NEW v, NEW addr \in Word, NEW scale \in Scale,
         v = Load(c, addr, scale).val, ~Failed(Store(c, v, addr, scale))
  PROVE  Store(c, v, addr, scale).mem = c.mem
<1> DEFINE r == ReadLanes(c.mem, c.base, addr, scale)
<1>1. /\ StoreFault(c, addr, scale) = "none"
      /\ Store(c, v, addr, scale)
           = [c EXCEPT !.mem = WriteLanes(c.mem, c.base, addr, scale, Lanes(v))]
  BY StoreIs
<1>2. LoadFault(c, addr, scale) = "none" /\ scale # 3 /\ ~Wild(c.base, addr, scale)
  BY <1>1, StoreThenLoad
<1>3. v = Number(r)
  BY <1>2 DEF Load
<1>4. c.mem \in MemoryImage /\ c.base \in Addr
  BY DEF Record
<1>5. r \in DoubleWord
  <2>1. ASSUME NEW k \in Lane
        PROVE  (IF k < Bytes(scale)
                  THEN c.mem[CellOf(c.base, addr, k) \div 4][CellOf(c.base, addr, k) % 4]
                  ELSE 0) \in Byte
    <3>1. CASE k < Bytes(scale)
      <4>1. /\ CellOf(c.base, addr, k) \div 4 \in 0 .. Blocks - 1
            /\ CellOf(c.base, addr, k) % 4 \in Lane
        BY <1>2, <1>4, <3>1, CellPlaces
      <4> QED
        BY <1>4, <3>1, <4>1 DEF MemoryImage, DoubleWord
    <3>2. CASE ~(k < Bytes(scale))
      BY <3>2, Constants DEF Byte
    <3> QED
      BY <3>1, <3>2
  <2> QED
    BY <2>1 DEF ReadLanes, DoubleWord
<1>6. WriteLanes(c.mem, c.base, addr, scale, Lanes(v)) = c.mem
  <2>1. Lanes(v) = r
    BY <1>3, <1>5, LanesOfNumber
  <2> QED
    BY <1>2, <1>4, <2>1, ReadIsWritten
<1> QED
  BY <1>1, <1>6 DEF Record

-----------------------------------------------------------------------------
(* Setting a register: memory, the window and the other registers stay.    *)
LEMMA SetRegKeeps ==
  ASSUME NEW c \in Record, NEW n \in Nat, NEW v
  PROVE  /\ SetReg(c, n, v).mem = c.mem
         /\ SetReg(c, n, v).base = c.base /\ SetReg(c, n, v).limit = c.limit
         /\ \A k \in (0 .. 12) \ ({SP, SR} \cup Moved(n)) :
              GetReg(SetReg(c, n, v), k) = GetReg(c, k)
<1> DEFINE d == SetReg(c, n, v)
<1>1. \/ d \in {c, [c EXCEPT !.exc = "wrong"]}
      \/ n \in DataReg /\ d = [c EXCEPT !.r[n] = v]
      \/ n = SP /\ d \in {[c EXCEPT !.usp = v], [c EXCEPT !.ssp = v]}
      \/ n = USP /\ d = [c EXCEPT !.usp = v]
      \/ n = FP /\ d = [c EXCEPT !.fp = v]
      \/ n = PC /\ d = [c EXCEPT !.pc = v]
      \/ n = SR /\ d = [c EXCEPT !.sr = v]
  BY Zenon DEF SetReg, SetStackPointer, Fail
<1> HIDE DEF d
<1>2. d.mem = c.mem /\ d.base = c.base /\ d.limit = c.limit
  BY <1>1 DEF Record
<1>3. ASSUME NEW k \in (0 .. 12) \ ({SP, SR} \cup Moved(n))
      PROVE  GetReg(d, k) = GetReg(c, k)
  <2>1. CASE k \in DataReg
    <3>1. d.r[k] = c.r[k]
      <4>1. k # n
        BY DEF Moved
      <4> QED
        BY <1>1, <2>1, <4>1 DEF Record
    <3> QED
      BY <2>1, <3>1 DEF GetReg, DataReg, SP, USP, FP, SR, PC
  <2>2. CASE k = USP
    <3>1. n # SP /\ n # USP
      BY <2>2 DEF Moved
    <3>2. d.usp = c.usp
      BY <1>1, <3>1 DEF Record
    <3> QED
      BY <2>2, <3>2 DEF GetReg, DataReg, SP, USP, FP, SR, PC
  <2>3. CASE k = FP
    <3>1. n # FP
      BY <2>3 DEF Moved, SP, FP
    <3>2. d.fp = c.fp
      BY <1>1, <3>1 DEF Record
    <3> QED
      BY <2>3, <3>2 DEF GetReg, DataReg, SP, USP, FP, SR, PC
  <2>4. CASE k = PC
    <3>1. n # PC
      BY <2>4 DEF Moved, SP, PC
    <3>2. d.pc = c.pc
      BY <1>1, <3>1 DEF Record
    <3> QED
      BY <2>4, <3>2 DEF GetReg, DataReg, SP, USP, FP, SR, PC
  <2> QED
    BY <2>1, <2>2, <2>3, <2>4 DEF DataReg, SP, USP, FP, SR, PC
<1> QED
  BY <1>2, <1>3 DEF d

(* An operation that stores its result leaves the rest to the store.       *)
LEMMA WriterKeeps ==
  ASSUME NEW c \in Record, NEW op \in TwoArgWrites, NEW t1, NEW t2
  PROVE  LET e == TwoArgEffect(c, op, t1, t2)
         IN  /\ e.mem = c.mem /\ e.base = c.base /\ e.limit = c.limit
             /\ e.r = c.r /\ e.usp = c.usp /\ e.fp = c.fp /\ e.pc = c.pc
<1> DEFINE e == TwoArgEffect(c, op, t1, t2)
           Same(d) == /\ d.mem = c.mem /\ d.base = c.base /\ d.limit = c.limit
                      /\ d.r = c.r /\ d.usp = c.usp /\ d.fp = c.fp /\ d.pc = c.pc
<1>1. op \notin Comparisons /\ op # "MMU" /\ op # "PUT"
  BY DEF TwoArgWrites, Comparisons
<1>2. e \in {c, SingleGet(c, t1)} \/ \E o : e \in {Raise(c, o), Fail(c, o)}
  BY <1>1, ZenonT(30) DEF TwoArgEffect
<1>3. \A x : Same([c EXCEPT !.sr = x]) /\ Same([c EXCEPT !.exc = x]) /\ Same([c EXCEPT !.dev = x])
  BY DEF Record
<1>4. Same(c)
  OBVIOUS
<1> HIDE DEF Same
<1>5. \A o : Same(Raise(c, o)) /\ Same(Fail(c, o)) /\ Same(SingleGet(c, t1))
  BY <1>3, <1>4 DEF Raise, Fail, SingleGet
<1> HIDE DEF e
<1>6. Same(e)
  BY <1>2, <1>4, <1>5
<1> QED
  BY <1>6 DEF Same, e

LEMMA SameRegs ==
  ASSUME NEW c, NEW d, d.r = c.r, d.usp = c.usp, d.fp = c.fp, d.pc = c.pc
  PROVE  \A k \in (0 .. 12) \ {SP, SR} : GetReg(d, k) = GetReg(c, k)
  BY DEF GetReg, DataReg, SP, USP, FP, SR, PC

(* A source in memory, stored back through a base that still stands where  *)
(* it did.                                                                 *)
LEMMA SourceKept ==
  ASSUME NEW c \in Record, c.new % 16 = 0, NEW op \in TwoArgWrites,
         NEW a1 \in Argument, NEW a2 \in Argument,
         a1.type = "REG_INDIR", a2.type = "REG", a1.reg \notin {SP, SR} \cup Moved(a2.reg),
         InstructsTwoArg(c, op, a1, a2).exc = "none"
  PROVE  InstructsTwoArg(c, op, a1, a2).mem = c.mem
<1> DEFINE l1 == LoadArg(c, a1)
           l2 == LoadArg(c, a2)
           e  == TwoArgEffect(c, op, l1.val, l2.val)
           t  == TwoArgValue(c, op, l1.val, l2.val)
           f  == SetNew(e, ArithmFlags(t))
           g  == IF op \in TwoArgWrites \/ IsAutoIncrDecrArg(a2) THEN StoreArg(f, t, a2) ELSE e
           i  == InstructsTwoArg(c, op, a1, a2)
<1>1. /\ l1.exc = "none" /\ l1.val \in Word
      /\ e \in Record /\ f \in Record /\ Sees(e, f) /\ f.pc = e.pc
      /\ g \in Record /\ g.exc = "none"
      /\ i = IF IsAutoIncrDecrArg(a1) THEN StoreArg(g, l1.val, a1) ELSE g
  BY TwoArgRuns
<1>2. g = StoreArg(f, t, a2) /\ i.exc = "none"
  OBVIOUS
<1>3. /\ e.mem = c.mem /\ e.base = c.base /\ e.limit = c.limit
      /\ e.r = c.r /\ e.usp = c.usp /\ e.fp = c.fp /\ e.pc = c.pc
  BY WriterKeeps
<1>4. KnownRegs(a1) /\ RegsOf(a1) = {a1.reg} /\ a1.reg \in 0 .. 12
  <2>1. KnownRegs(a1)
    BY <1>1 DEF LoadArg
  <2> QED
    BY <2>1, ArgRegs DEF RegsOf, Indexed
<1>5. l1 = Load(c, ArgAddr(c, a1), a1.scale)
  BY <1>4 DEF LoadArg
<1>6. ArgAddr(c, a1) \in Word /\ a1.scale \in Scale
  BY <1>4, AddrType DEF Argument
<1> DEFINE addr == ArgAddr(c, a1)
<1> HIDE DEF e, t, f, g, i, l1, l2
<1>7. /\ g.mem = c.mem /\ g.base = c.base /\ g.limit = c.limit
      /\ GetReg(g, a1.reg) = GetReg(c, a1.reg)
  <2> DEFINE w == Wrap(t + Post(a2))
  <2>1. g \in {f, Fail(f, "wrong"), SetReg(f, a2.reg, w)}
    BY <1>2 DEF StoreArg
  <2>2. g = f \/ g = SetReg(f, a2.reg, w)
    <3>1. Fail(f, "wrong").exc # "none"
      BY <1>1, FailKeepsRegs DEF Failed
    <3> HIDE DEF w
    <3> QED
      BY <1>1, <2>1, <3>1
  <2>3. /\ f.mem = c.mem /\ f.base = c.base /\ f.limit = c.limit
        /\ GetReg(f, a1.reg) = GetReg(c, a1.reg)
    <3>1. f.r = c.r /\ f.usp = c.usp /\ f.fp = c.fp /\ f.pc = c.pc
      BY <1>1, <1>3 DEF Sees
    <3>2. GetReg(f, a1.reg) = GetReg(c, a1.reg)
      BY <1>4, <3>1, SameRegs
    <3> QED
      BY <1>1, <1>3, <3>2 DEF Sees
  <2>4. a2.reg \in Nat
    BY DEF Argument
  <2> HIDE DEF w
  <2> QED
    BY <1>1, <1>4, <2>2, <2>3, <2>4, SetRegKeeps
<1>8. ASSUME IsAutoIncrDecrArg(a1) PROVE i.mem = c.mem
  <2> DEFINE s == Store(g, l1.val, addr, a1.scale)
             w == Wrap(GetReg(g, a1.reg) + Pre(a1) + Post(a1))
  <2>1. ArgAddr(g, a1) = addr
    BY <1>7 DEF ArgAddr
  <2>2. i = SetReg(s, a1.reg, w)
    <3>1. i = StoreArg(g, l1.val, a1) /\ ~Failed(g)
      BY <1>1, <1>8 DEF Failed
    <3>2. Stepped(a1) = a1.reg
      BY DEF Stepped, Indexed
    <3> QED
      BY <1>4, <2>1, <3>1, <3>2 DEF StoreArg, StoreAddr
  <2>3. s \in Record
    <3> HIDE DEF addr
    <3> QED
      BY <1>1, <1>6, StoreOrdinary DEF addr, Ordinary
  <2>4. ~Failed(s)
    <3> HIDE DEF s, w
    <3> QED
      BY <1>2, <2>2 DEF SetReg, Failed
  <2>5. l1.val = Load(g, addr, a1.scale).val
    <3> HIDE DEF addr
    <3> QED
      BY <1>5, <1>7 DEF addr, Load, LoadFault
  <2>6. s.mem = g.mem
    <3> HIDE DEF addr
    <3> QED
      BY <1>1, <1>6, <2>4, <2>5, LoadedIsStored DEF addr
  <2> HIDE DEF s, w
  <2> QED
    BY <1>4, <1>7, <2>2, <2>3, <2>6, SetRegKeeps
<1> QED
  BY <1>1, <1>7, <1>8 DEF i

(* An instruction whose only argument in memory is a source leaves memory  *)
(* as it was, also when the source steps and is written back, unless the   *)
(* destination moves what the source was reached through.                  *)
THEOREM PointedDataIsKept == Spec => PointedDataKeptApart
<1> DEFINE P == SourceInMemory /\ Args[1].reg \notin {SP, SR} \cup Moved(Args[2].reg)
           A == P => cpu'.mem = cpu.mem
<1>1. ASSUME TypeOK, Next, P PROVE cpu'.mem = cpu.mem
  <2>1. PICK i : Ended(i)
    BY <1>1, FineEnds DEF SourceInMemory
  <2> DEFINE d == Execute(cpu, i)
             f == FetchedTwo(cpu, i)
  <2>2. /\ cpu \in Record /\ i \in Instruction /\ d \in Record /\ d.exc = "none"
        /\ Args = i.args /\ executed'.op = i.op /\ cpu.sr \in Word
    BY <1>1, <2>1 DEF Ended, TypeOK, Record
  <2>3. Len(i.args) = 2 /\ i.args # <<>> /\ i.op \in TwoArgWrites
    BY <1>1, <2>2 DEF SourceInMemory
  <2>4. /\ Args[1] \in Argument /\ Args[2] \in Argument /\ Reads(cpu, f)
        /\ d = InstructsTwoArg(f, i.op, Args[1], Args[2])
    BY <2>2, <2>3, Instructs
  <2>5. f \in Record /\ f.new % 16 = 0 /\ f.mem = cpu.mem
    BY <2>2, <2>4, ResetKeepsMode DEF Reads, Sees
  <2>6. Args[1].type = "REG_INDIR" /\ Args[2].type = "REG"
        /\ Args[1].reg \notin {SP, SR} \cup Moved(Args[2].reg)
    BY <1>1 DEF SourceInMemory
  <2>7. cpu' = Settle(d)
    BY <2>1, <2>3 DEF Ended
  <2> HIDE DEF d, f
  <2>8. d.mem = f.mem
    BY <2>2, <2>3, <2>4, <2>5, <2>6, SourceKept
  <2> QED
    BY <2>2, <2>5, <2>7, <2>8 DEF Settle, Record
<1> HIDE DEF P
<1>2. TypeOK /\ [Next]_vars => [A]_vars
  BY <1>1
<1>3. Spec => [][A]_vars
  BY <1>2, TypeCorrect, PTL DEF Spec
<1> QED
  BY <1>3 DEF PointedDataKeptApart, P, A

-----------------------------------------------------------------------------
(* An argument on data registers means the same to machines that share     *)
(* these, the memory and the window.                                       *)
SeesData(c, d) ==
  d.r = c.r /\ d.mem = c.mem /\ d.base = c.base /\ d.limit = c.limit

LEMMA DataRegIs ==
  ASSUME NEW c, NEW n \in DataReg
  PROVE  GetReg(c, n) = c.r[n]
  BY DEF GetReg, DataReg, SP, USP, FP, SR, PC

LEMMA AddrOfData ==
  ASSUME NEW c, NEW d, d.r = c.r, NEW a \in Argument, Plain(a),
         a.type \notin {"IMMED", "REG"}
  PROVE  ArgAddr(d, a) = ArgAddr(c, a)
<1>1. CASE a.type = "DIRECT"
  BY <1>1 DEF ArgAddr
<1>2. CASE a.type # "DIRECT"
  <2>1. /\ a.reg \in DataReg /\ GetReg(d, a.reg) = GetReg(c, a.reg)
        /\ Indexed(a) => GetReg(d, a.index) = GetReg(c, a.index)
    BY <1>2, DataRegIs DEF Plain, RegsOf, Indexed
  <2>2. a.type \in {"REG_INDIR", "MEM_INDIR", "DISPLACED", "INDEXED", "INDX_DISP"}
    BY <1>2 DEF Argument, ArgType
  <2>3. CASE a.type \in {"REG_INDIR", "MEM_INDIR"}
    BY <2>1, <2>3 DEF ArgAddr
  <2>4. CASE a.type = "DISPLACED"
    BY <2>1, <2>4 DEF ArgAddr
  <2>5. CASE a.type = "INDEXED"
    BY <2>1, <2>5 DEF ArgAddr, Indexed
  <2>6. CASE a.type = "INDX_DISP"
    BY <2>1, <2>6 DEF ArgAddr, Indexed
  <2> QED
    BY <2>2, <2>3, <2>4, <2>5, <2>6
<1> QED
  BY <1>1, <1>2

LEMMA PlainIsKnown ==
  ASSUME NEW a \in Argument, Plain(a)
  PROVE  KnownRegs(a) /\ PC \notin RegsOf(a)
  BY DEF Plain, KnownRegs, DataReg, PC

LEMMA LoadOfData ==
  ASSUME NEW c, NEW d, SeesData(c, d), NEW addr, NEW scale
  PROVE  Load(d, addr, scale) = Load(c, addr, scale)
  BY DEF Load, LoadFault, SeesData

LEMMA LoadArgOfData ==
  ASSUME NEW c, NEW d, SeesData(c, d), NEW a \in Argument, Plain(a)
  PROVE  LoadArg(d, a) = LoadArg(c, a)
<1>1. KnownRegs(a)
  BY PlainIsKnown
<1>2. CASE a.type = "IMMED"
  BY <1>2 DEF LoadArg
<1>3. CASE a.type = "REG"
  <2>1. a.reg \in DataReg
    BY <1>3 DEF Plain, RegsOf, Indexed
  <2>2. GetReg(d, a.reg) = GetReg(c, a.reg)
    BY <2>1, DataRegIs DEF SeesData
  <2> QED
    BY <1>3, <2>2 DEF LoadArg
<1>4. CASE a.type \notin {"IMMED", "REG"}
  <2> DEFINE x == ArgAddr(c, a)
             y == ArgAddr(d, a)
             p == Load(c, x, 2)
             q == Load(d, y, 2)
  <2>1. y = x
    BY <1>4, AddrOfData DEF SeesData
  <2>2. a.type = "MEM_INDIR" =>
          /\ LoadArg(c, a) = IF p.exc # "none" THEN p ELSE Load(c, p.val, a.scale)
          /\ LoadArg(d, a) = IF q.exc # "none" THEN q ELSE Load(d, q.val, a.scale)
    BY <1>1, <1>4 DEF LoadArg
  <2>3. a.type # "MEM_INDIR" =>
          LoadArg(c, a) = Load(c, x, a.scale) /\ LoadArg(d, a) = Load(d, y, a.scale)
    BY <1>1, <1>4 DEF LoadArg
  <2>4. q = p
    <3> HIDE DEF x, y
    <3> QED
      BY <2>1, LoadOfData
  <2> HIDE DEF x, y, p, q
  <2> QED
    BY <2>1, <2>2, <2>3, <2>4, LoadOfData
<1> QED
  BY <1>2, <1>3, <1>4

(* What storing an argument leaves where loading it again looks.           *)
LEMMA StoredArgIsLoaded ==
  ASSUME NEW c \in Record, NEW v \in Word, NEW a \in Argument, Plain(a),
         ~IsAutoIncrDecrArg(a), ~Failed(StoreArg(c, v, a)),
         LET d == StoreArg(c, v, a)
         IN  a.type = "MEM_INDIR" => Load(d, ArgAddr(d, a), 2) = Load(c, ArgAddr(c, a), 2)
  PROVE  LoadArg(StoreArg(c, v, a), a)
           = [exc |-> "none", val |-> Narrow(v, IF a.type = "REG" THEN 2 ELSE a.scale)]
<1> DEFINE d == StoreArg(c, v, a)
<1>1. ~Failed(c) /\ a.type # "IMMED" /\ KnownRegs(a)
  BY FailKeepsRegs DEF StoreArg, Fail, Failed
<1>2. d \in Record
  BY StoreArgOrdinary DEF Ordinary
<1>3. ~Failed(d)
  OBVIOUS
<1>4. a.type # "DIRECT" => Pre(a) = 0 /\ Post(a) = 0
  BY <1>1 DEF IsAutoIncrDecrArg, RegsOf, Pre, Post
<1>5. CASE a.type = "REG"
  <2>1. a.reg \in DataReg /\ a.reg \in Nat
    BY <1>5 DEF Plain, RegsOf, Indexed, Argument
  <2>2. Wrap(v + 0) = v
    BY Constants, WrapSmall
  <2>3. d = SetReg(c, a.reg, v)
    BY <1>1, <1>4, <1>5, <2>2 DEF StoreArg
  <2> HIDE DEF d
  <2>4. d.r[a.reg] = v
    BY <1>3, <2>1, <2>3, SetRegRegs
  <2>5. LoadArg(d, a) = [exc |-> "none", val |-> v]
    <3>1. GetReg(d, a.reg) = v
      BY <2>1, <2>4, DataRegIs
    <3> QED
      BY <1>1, <1>4, <1>5, <2>2, <3>1 DEF LoadArg
  <2>6. Narrow(v, 2) = v
    BY DEF Narrow, Bytes
  <2> QED
    BY <1>5, <2>5, <2>6 DEF d
<1>6. CASE a.type # "REG"
  <2> DEFINE addr == ArgAddr(c, a)
             p    == Load(c, addr, 2)
             to   == IF a.type = "MEM_INDIR" THEN p.val ELSE addr
             s    == Store(c, v, to, a.scale)
             n    == Stepped(a)
             w    == Wrap(GetReg(c, n) + Pre(a) + Post(a))
  <2>1. addr \in Word /\ a.scale \in Scale /\ 2 \in Scale
    BY <1>1, <1>6, AddrType DEF Argument, Scale
  <2>2. p.val \in Word
    <3> HIDE DEF addr
    <3> QED
      BY <2>1, LoadType
  <2>3. to \in Word
    BY <2>1, <2>2
  <2>4. /\ a.type = "MEM_INDIR" => p.exc = "none"
        /\ d = IF a.type = "DIRECT" THEN s ELSE SetReg(s, n, w)
    <3>1. d = IF a.type = "MEM_INDIR" /\ p.exc # "none" THEN Fail(c, p.exc)
              ELSE IF a.type = "DIRECT" THEN s ELSE SetReg(s, n, w)
      BY <1>1, <1>6 DEF StoreArg, StoreAddr
    <3>2. p.exc # "none" => Failed(Fail(c, p.exc))
      BY DEF Fail, Failed, Record
    <3> HIDE DEF d, s, n, w, p
    <3> QED
      BY <1>3, <3>1, <3>2
  <2>5. s \in Record /\ s.r = c.r
    <3> HIDE DEF to
    <3>1. s \in Record
      BY <2>1, <2>3, StoreOrdinary DEF Ordinary
    <3>2. s.r = c.r
      BY StoreRegs
    <3> QED
      BY <3>1, <3>2
  <2>6. ~Failed(s)
    <3> HIDE DEF d, s, n, w
    <3> QED
      BY <1>3, <2>4 DEF SetReg
  <2>7. Holds(s, to, a.scale, Narrow(v, a.scale))
    <3> HIDE DEF to
    <3> QED
      BY <2>1, <2>3, <2>6, StoredIsLoaded
  <2>8. SeesData(s, d)
    <3>1. CASE a.type = "DIRECT"
      <4> HIDE DEF d, s
      <4> QED
        BY <2>4, <3>1 DEF SeesData
    <3>2. CASE a.type # "DIRECT"
      <4>1. n \in DataReg /\ n \in Nat
        <5>1. n \in RegsOf(a)
          BY <1>1, <1>6, <3>2 DEF RegsOf, Stepped
        <5> HIDE DEF n
        <5> QED
          BY <5>1 DEF Plain, DataReg
      <4>2. w = c.r[n] /\ w \in Word
        <5>1. c.r[n] \in Word /\ GetReg(c, n) = c.r[n]
          <6> HIDE DEF n
          <6> QED
            BY <4>1, DataRegIs DEF Record
        <5>2. Wrap(c.r[n] + 0 + 0) = c.r[n]
          <6> HIDE DEF n
          <6> QED
            BY <5>1, Constants, WrapSmall
        <5> QED
          BY <1>4, <3>2, <5>1, <5>2
      <4> HIDE DEF d, s, n, w
      <4>3. d.mem = s.mem /\ d.base = s.base /\ d.limit = s.limit
        BY <2>4, <2>5, <3>2, <4>1, SetRegKeeps
      <4>4. \A k \in DataReg : d.r[k] = s.r[k]
        BY <1>3, <2>4, <2>5, <3>2, <4>1, <4>2, SetRegRegs
      <4>5. d.r = s.r
        <5>1. d.r \in [DataReg -> Word] /\ s.r \in [DataReg -> Word]
          BY <1>2, <2>5 DEF Record, d
        <5> QED
          BY <4>4, <5>1
      <4> QED
        BY <4>3, <4>5 DEF SeesData
    <3> QED
      BY <3>1, <3>2
  <2>9. ArgAddr(d, a) = addr
    <3>1. d.r = c.r
      BY <2>5, <2>8 DEF SeesData
    <3> HIDE DEF d
    <3> QED
      BY <1>1, <1>6, <3>1, AddrOfData
  <2>10. LoadArg(d, a) = Load(d, to, a.scale)
    <3>1. CASE a.type = "MEM_INDIR"
      <4>1. Load(d, ArgAddr(d, a), 2) = p
        BY <3>1
      <4> HIDE DEF d, p
      <4> QED
        BY <1>1, <2>4, <3>1, <4>1 DEF LoadArg
    <3>2. CASE a.type # "MEM_INDIR"
      <4> HIDE DEF d
      <4>1. LoadArg(d, a) = Load(d, ArgAddr(d, a), a.scale)
        BY <1>1, <1>6, <3>2 DEF LoadArg
      <4> QED
        BY <2>9, <3>2, <4>1
    <3> QED
      BY <3>1, <3>2
  <2>11. Load(d, to, a.scale) = Load(s, to, a.scale)
    <3> HIDE DEF d, s, to
    <3> QED
      BY <2>8, LoadOfData
  <2> QED
    BY <1>6, <2>7, <2>10, <2>11 DEF Holds
<1> QED
  BY <1>5, <1>6

(* loadArg and storeArg compute the same place in each addressing mode:    *)
(* what MOV wrote is what the destination, read as a source, gives, cut to *)
(* its size.                                                               *)
THEOREM WhatIsMovedIsRead == Spec => MovedIsRead
<1> DEFINE a == Args[2]
           moved == LoadArg(cpu, Args[1]).val
           scale == IF a.type = "REG" THEN 2 ELSE a.scale
           pointer(c) == Load(c, ArgAddr(c, a), 2)
           P == Does("MOV") /\ NoStepping /\ Plain(Args[1]) /\ Plain(Args[2])
           Q == a.type # "MEM_INDIR" \/ pointer(cpu') = pointer(cpu) =>
                  LoadArg(cpu', a) = [exc |-> "none", val |-> Narrow(moved, scale)]
<1>1. ASSUME TypeOK, Next, P PROVE Q
  <2>1. PICK i : Ended(i)
    BY <1>1, FineEnds DEF Does
  <2> DEFINE d == Execute(cpu, i)
             f == FetchedTwo(cpu, i)
  <2>2. /\ cpu \in Record /\ i \in Instruction /\ d \in Record /\ d.exc = "none"
        /\ Args = i.args /\ i.op = "MOV" /\ cpu.sr \in Word
        /\ i.args \in Seq(Argument)
    BY <1>1, <2>1 DEF Ended, TypeOK, Record, Does, Instruction
  <2>3. Len(i.args) = 2 /\ i.args # <<>> /\ 1 \in DOMAIN Args /\ 2 \in DOMAIN Args
    BY <2>2, TakesTwo
  <2>4. /\ Args[1] \in Argument /\ a \in Argument /\ Reads(cpu, f)
        /\ d = InstructsTwoArg(f, "MOV", Args[1], a)
    BY <2>2, <2>3, Instructs
  <2>5. /\ f \in Record /\ f.new % 16 = 0 /\ SeesData(cpu, f) /\ Sees(cpu, f)
    BY <2>2, <2>4, ResetKeepsMode DEF Reads, Sees, SeesData
  <2>6. ~IsAutoIncrDecrArg(Args[1]) /\ ~IsAutoIncrDecrArg(a) /\ Plain(a) /\ Plain(Args[1])
    BY <1>1, <2>3 DEF NoStepping
  <2>7. cpu' = Settle(d)
    BY <2>1, <2>3 DEF Ended
  <2> DEFINE e == TwoArgEffect(f, "MOV", LoadArg(f, Args[1]).val, LoadArg(f, a).val)
             t == TwoArgValue(f, "MOV", LoadArg(f, Args[1]).val, LoadArg(f, a).val)
             h == SetNew(e, ArithmFlags(t))
  <2> HIDE DEF f
  <2>8. e = f /\ t = moved /\ moved \in Word
    <3>1. LoadArg(f, Args[1]) = LoadArg(cpu, Args[1])
      BY <2>4, <2>5, <2>6, LoadArgOfData
    <3> QED
      BY <2>2, <2>4, <3>1, LoadArgType DEF TwoArgEffect, TwoArgValue
  <2>9. h \in Record /\ Sees(e, h) /\ d = StoreArg(h, t, a)
    <3>1. "MOV" \in TwoArgWrites
      BY DEF TwoArgWrites
    <3> HIDE DEF d
    <3> QED
      BY <2>2, <2>4, <2>5, <2>6, <3>1, TwoArgRuns
  <2> HIDE DEF d, e, t, h, moved, a, scale
  <2>10. SeesData(cpu, h) /\ SeesData(d, cpu')
    BY <2>2, <2>5, <2>7, <2>8, <2>9 DEF Sees, SeesData, Settle, Record
  <2>11. ASSUME a.type # "MEM_INDIR" \/ pointer(cpu') = pointer(cpu)
         PROVE  LoadArg(cpu', a) = [exc |-> "none", val |-> Narrow(moved, scale)]
    <3>1. ASSUME a.type = "MEM_INDIR"
          PROVE  Load(d, ArgAddr(d, a), 2) = Load(h, ArgAddr(h, a), 2)
      <4>1. ArgAddr(cpu', a) = ArgAddr(d, a) /\ ArgAddr(h, a) = ArgAddr(cpu, a)
        BY <2>4, <2>6, <2>10, <3>1, AddrOfData DEF SeesData
      <4>2. /\ Load(cpu', ArgAddr(d, a), 2) = Load(d, ArgAddr(d, a), 2)
            /\ Load(h, ArgAddr(cpu, a), 2) = Load(cpu, ArgAddr(cpu, a), 2)
        BY <2>10, LoadOfData
      <4> QED
        BY <2>11, <3>1, <4>1, <4>2
    <3>2. LoadArg(d, a) = [exc |-> "none", val |-> Narrow(moved, scale)]
      BY <2>2, <2>4, <2>6, <2>8, <2>9, <3>1, StoredArgIsLoaded DEF scale, Failed
    <3>3. LoadArg(cpu', a) = LoadArg(d, a)
      BY <2>4, <2>6, <2>10, LoadArgOfData
    <3> QED
      BY <3>2, <3>3
  <2> QED
    BY <2>11 DEF a, moved, scale
<1> HIDE DEF P, Q
<1>2. TypeOK /\ [Next]_vars => [P => Q]_vars
  BY <1>1
<1>3. Spec => [][P => Q]_vars
  BY <1>2, TypeCorrect, PTL DEF Spec
<1> QED
  BY <1>3 DEF MovedIsRead, P, Q

-----------------------------------------------------------------------------
(* The stack.  Stacked: n words were pushed above the pointer s, which is  *)
(* where the machine would be back once they are popped.                   *)
Slot(s, j) == Wrap(s - 4 * j)
Stacked(c, s, n, values) ==
  /\ c \in Record /\ ~Failed(c)
  /\ StackPointer(c) = Slot(s, n)
  /\ \A j \in 1 .. n : Holds(c, Slot(s, j), 2, values[j])

(* Eight words on end, wherever in the address space, have their own slots.*)
LEMMA SlotType ==
  ASSUME NEW s \in Word, NEW j \in 0 .. 8
  PROVE  /\ Slot(s, j) = IF s >= 4 * j THEN s - 4 * j ELSE s - 4 * j + AddrSpace
         /\ Slot(s, j) \in Word
<1>1. s \in Nat /\ s < AddrSpace /\ AddrSpace \in Nat /\ AddrSpace > 64
  BY Constants
<1>2. s - 4 * j \in Int /\ -AddrSpace <= s - 4 * j /\ s - 4 * j < 2 * AddrSpace
  BY <1>1
<1>3. Slot(s, j) = IF s - 4 * j < 0 THEN s - 4 * j + AddrSpace
                   ELSE IF s - 4 * j < AddrSpace THEN s - 4 * j ELSE s - 4 * j - AddrSpace
  <2> DEFINE x == s - 4 * j
  <2> HIDE DEF x
  <2>1. Wrap(x) = IF x < 0 THEN x + AddrSpace
                  ELSE IF x < AddrSpace THEN x ELSE x - AddrSpace
    BY <1>2, WrapNear DEF x
  <2> QED
    BY <2>1 DEF x, Slot
<1> QED
  BY <1>1, <1>3, Constants

LEMMA SlotMoves ==
  ASSUME NEW s \in Word, NEW j \in 0 .. 7
  PROVE  /\ Wrap(Slot(s, j) - 4) = Slot(s, j + 1)
         /\ Wrap(Slot(s, j + 1) + 4) = Slot(s, j)
<1> DEFINE p == Slot(s, j)
           q == Slot(s, j + 1)
<1>1. s \in Nat /\ s < AddrSpace /\ AddrSpace \in Nat /\ AddrSpace > 64
  BY Constants
<1>2. p = IF s >= 4 * j THEN s - 4 * j ELSE s - 4 * j + AddrSpace
  <2>1. j \in 0 .. 8
    OBVIOUS
  <2> QED
    BY <2>1, SlotType
<1>3. q = IF s >= 4 * (j + 1) THEN s - 4 * (j + 1) ELSE s - 4 * (j + 1) + AddrSpace
  <2>1. j + 1 \in 0 .. 8
    OBVIOUS
  <2> QED
    BY <2>1, SlotType
<1> HIDE DEF p, q
<1>4. p \in Int /\ q \in Int /\ 0 <= p /\ p < AddrSpace /\ 0 <= q /\ q < AddrSpace
  BY <1>1, <1>2, <1>3
<1>5. Wrap(p - 4) = IF p - 4 < 0 THEN p - 4 + AddrSpace ELSE p - 4
  <2> DEFINE x == p - 4
  <2>1. x \in Int /\ -AddrSpace <= x /\ x < AddrSpace /\ x < 2 * AddrSpace
    BY <1>1, <1>4
  <2> HIDE DEF x
  <2>2. Wrap(x) = IF x < 0 THEN x + AddrSpace ELSE x
    BY <2>1, WrapNear
  <2> QED
    BY <2>2 DEF x
<1>6. Wrap(q + 4) = IF q + 4 < AddrSpace THEN q + 4 ELSE (q + 4) - AddrSpace
  <2> DEFINE x == q + 4
  <2>1. x \in Int /\ -AddrSpace <= x /\ 0 <= x /\ x < 2 * AddrSpace
    BY <1>1, <1>4
  <2> HIDE DEF x
  <2>2. Wrap(x) = IF x < AddrSpace THEN x ELSE x - AddrSpace
    BY <2>1, WrapNear
  <2> QED
    BY <2>2 DEF x
<1>7. Wrap(p - 4) = q /\ Wrap(q + 4) = p
  BY <1>1, <1>2, <1>3, <1>5, <1>6
<1> QED
  BY <1>7 DEF p, q

LEMMA SlotsApart ==
  ASSUME NEW s \in Word, NEW b \in Addr, NEW j \in 0 .. 8, NEW k \in 0 .. 8, j # k
  PROVE  CellsOf(b, Slot(s, j), 2) \cap CellsOf(b, Slot(s, k), 2) = {}
<1> DEFINE p == Slot(s, j)
           q == Slot(s, k)
           x == (p + b) % AddrSpace
           y == (q + b) % AddrSpace
<1>1. s \in Nat /\ s < AddrSpace /\ AddrSpace \in Nat /\ AddrSpace > 64 /\ b \in Nat /\ b < AddrSpace
  BY Constants DEF Addr
<1>2. p = IF s >= 4 * j THEN s - 4 * j ELSE s - 4 * j + AddrSpace
  BY SlotType
<1>3. q = IF s >= 4 * k THEN s - 4 * k ELSE s - 4 * k + AddrSpace
  BY SlotType
<1> HIDE DEF p, q
<1>4. p \in Nat /\ q \in Nat /\ p < AddrSpace /\ q < AddrSpace
  BY <1>1, <1>2, <1>3
<1>5. \A z \in Nat : z < AddrSpace =>
        (z + b) % AddrSpace = IF z + b < AddrSpace THEN z + b ELSE (z + b) - AddrSpace
  <2> TAKE z \in Nat
  <2> HAVE z < AddrSpace
  <2> DEFINE u == z + b
  <2>1. u \in Int /\ -AddrSpace <= u /\ 0 <= u /\ u < 2 * AddrSpace
    BY <1>1
  <2> HIDE DEF u
  <2>2. Wrap(u) = IF u < AddrSpace THEN u ELSE u - AddrSpace
    BY <2>1, WrapNear
  <2> QED
    BY <2>2 DEF u, Wrap
<1>6. /\ x = IF p + b < AddrSpace THEN p + b ELSE (p + b) - AddrSpace
      /\ y = IF q + b < AddrSpace THEN q + b ELSE (q + b) - AddrSpace
  BY <1>4, <1>5
<1> HIDE DEF x, y
<1>7. x \in Int /\ y \in Int /\ (x - y >= 4 \/ y - x >= 4)
  BY <1>1, <1>2, <1>3, <1>6
<1>8. Bytes(2) = 4
  BY DEF Bytes
<1>9. /\ CellsOf(b, p, 2) = {x + i : i \in 0 .. 3}
      /\ CellsOf(b, q, 2) = {y + i : i \in 0 .. 3}
  BY <1>8 DEF CellsOf, CellOf, x, y
<1> QED
  BY <1>7, <1>9 DEF p, q

(* A stack is the same to machines that share its pointer and the memory.  *)
SeesStack(c, d) ==
  /\ d.ssp = c.ssp /\ d.usp = c.usp /\ Svisor(d) = Svisor(c)
  /\ d.mem = c.mem /\ d.base = c.base /\ d.limit = c.limit

LEMMA StackSees ==
  ASSUME NEW c, NEW d \in Record, ~Failed(d), SeesStack(c, d),
         NEW s, NEW n, NEW values, Stacked(c, s, n, values)
  PROVE  Stacked(d, s, n, values)
<1>1. StackPointer(d) = StackPointer(c)
  BY DEF SeesStack, StackPointer
<1>2. ASSUME NEW addr PROVE Load(d, addr, 2) = Load(c, addr, 2)
  BY DEF SeesStack, Load, LoadFault
<1> QED
  BY <1>1, <1>2 DEF Stacked, Holds

LEMMA StackStarts ==
  ASSUME NEW c \in Record, ~Failed(c), NEW values
  PROVE  Stacked(c, StackPointer(c), 0, values)
<1>1. StackPointer(c) \in Word
  BY RegType
<1>2. Slot(StackPointer(c), 0) = StackPointer(c)
  <2>1. 0 \in 0 .. 8 /\ StackPointer(c) \in Nat
    BY <1>1, Constants
  <2> HIDE DEF Slot
  <2>2. Slot(StackPointer(c), 0) = IF StackPointer(c) >= 4 * 0 THEN StackPointer(c) - 4 * 0
                                   ELSE StackPointer(c) - 4 * 0 + AddrSpace
    BY <1>1, <2>1, SlotType
  <2> QED
    BY <2>1, <2>2
<1> QED
  BY <1>2 DEF Stacked

(* What a push leaves: the pointer one slot below, the word in that slot.  *)
LEMMA PushIs ==
  ASSUME NEW c \in Record, NEW v \in Word, ~Failed(PushToStack(c, v))
  PROVE  LET sp == Wrap(StackPointer(c) - 4)
             d  == PushToStack(c, v)
         IN  /\ ~Failed(c) /\ sp \in Word /\ d \in Record
             /\ StackPointer(d) = sp /\ Svisor(d) = Svisor(c)
             /\ d.base = c.base /\ d.limit = c.limit
             /\ d.mem = WriteLanes(c.mem, c.base, sp, 2, Lanes(v))
             /\ Holds(d, sp, 2, v)
<1> DEFINE sp == Wrap(StackPointer(c) - 4)
           e  == SetStackPointer(c, sp)
           d  == PushToStack(c, v)
<1>1. sp \in Word
  BY RegType, WordsAreInts, WrapType
<1>2. ~Failed(c)
  BY DEF PushToStack
<1>3. d = Store(e, v, sp, 2)
  BY <1>2 DEF PushToStack
<1> HIDE DEF sp, d
<1>4. /\ e \in Record /\ e.sr = c.sr /\ e.mem = c.mem /\ e.base = c.base
      /\ e.limit = c.limit
      /\ IF Svisor(c) THEN e.ssp = sp ELSE e.usp = sp
  BY <1>1 DEF SetStackPointer, Record
<1> HIDE DEF e
<1>5. d = [e EXCEPT !.mem = WriteLanes(e.mem, e.base, sp, 2, Lanes(v))]
  BY <1>3, <1>4, StoreIs DEF d
<1>6. Holds(d, sp, 2, v)
  <2>1. 2 \in Scale /\ Narrow(v, 2) = v
    BY DEF Scale, Narrow, Bytes
  <2>2. ~Failed(Store(e, v, sp, 2))
    BY <1>3 DEF d
  <2> QED
    BY <1>1, <1>3, <1>4, <2>1, <2>2, StoredIsLoaded
<1>7. d \in Record
  BY PushOrdinary DEF d, Ordinary
<1>8. Svisor(d) = Svisor(c) /\ StackPointer(d) = sp
  BY <1>4, <1>5 DEF Svisor, StackPointer, Record
<1> QED
  BY <1>1, <1>2, <1>4, <1>5, <1>6, <1>7, <1>8 DEF Record, sp, d

LEMMA PushStacks ==
  ASSUME NEW c, NEW s \in Word, NEW n \in 0 .. 7, NEW values, Stacked(c, s, n, values),
         NEW v \in Word, v = values[n + 1], ~Failed(PushToStack(c, v))
  PROVE  Stacked(PushToStack(c, v), s, n + 1, values)
<1> DEFINE sp == Wrap(StackPointer(c) - 4)
           d  == PushToStack(c, v)
<1>1. c \in Record
  BY DEF Stacked
<1>2. /\ ~Failed(c) /\ sp \in Word /\ d \in Record
      /\ StackPointer(d) = sp
      /\ d.base = c.base /\ d.limit = c.limit
      /\ d.mem = WriteLanes(c.mem, c.base, sp, 2, Lanes(v))
      /\ Holds(d, sp, 2, v)
  BY <1>1, PushIs
<1>3. sp = Slot(s, n + 1)
  BY SlotMoves DEF Stacked
<1> HIDE DEF sp, d
<1>4. ASSUME NEW j \in 1 .. n PROVE Holds(d, Slot(s, j), 2, values[j])
  <2>1. j \in 0 .. 8 /\ n + 1 \in 0 .. 8 /\ j # n + 1
    OBVIOUS
  <2>2. Holds(c, Slot(s, j), 2, values[j])
    BY DEF Stacked
  <2>3. LoadFault(c, Slot(s, j), 2) = "none"
    BY <2>2 DEF Holds, Load
  <2>4. ~Wild(c.base, Slot(s, j), 2)
    BY <2>3 DEF LoadFault
  <2>5. c.mem \in MemoryImage /\ c.base \in Addr
    BY <1>1 DEF Record
  <2>6. CellsOf(c.base, sp, 2) \cap CellsOf(c.base, Slot(s, j), 2) = {}
    BY <1>3, <2>1, <2>5, SlotsApart
  <2>7. ReadLanes(d.mem, c.base, Slot(s, j), 2) = ReadLanes(c.mem, c.base, Slot(s, j), 2)
    <3>1. Slot(s, j) \in Word /\ 2 \in Scale
      BY <2>1, SlotType DEF Scale
    <3> QED
      BY <1>2, <2>4, <2>5, <2>6, <3>1, ElsewhereIsRead
  <2> QED
    BY <1>2, <2>2, <2>7 DEF Holds, Load, LoadFault
<1>5. \A j \in 1 .. n + 1 : j \in 1 .. n \/ j = n + 1
  OBVIOUS
<1>6. ~Failed(d)
  BY DEF d
<1> QED
  BY <1>2, <1>3, <1>4, <1>5, <1>6 DEF Stacked, d

(* A pop gives the word of the last slot and leaves the others.            *)
LEMMA PopUnstacks ==
  ASSUME NEW c, NEW s \in Word, NEW n \in 0 .. 7, NEW values, Stacked(c, s, n + 1, values)
  PROVE  /\ Holds(c, StackPointer(c), 2, values[n + 1])
         /\ Stacked(Drop(c), s, n, values)
         /\ Drop(c).r = c.r
<1> DEFINE d == Drop(c)
<1>1. c \in Record /\ ~Failed(c) /\ n + 1 \in 1 .. n + 1
  BY DEF Stacked
<1>2. Holds(c, StackPointer(c), 2, values[n + 1])
  BY <1>1 DEF Stacked
<1>3. d = SetStackPointer(c, Slot(s, n))
  <2>1. Wrap(StackPointer(c) + 4) = Slot(s, n)
    BY SlotMoves DEF Stacked
  <2> QED
    BY <1>1, <1>2, <2>1 DEF Drop, Top, Holds
<1>4. Slot(s, n) \in Word
  <2>1. n \in 0 .. 8
    OBVIOUS
  <2> QED
    BY <2>1, SlotType
<1> HIDE DEF d
<1>5. /\ d \in Record /\ d.exc = c.exc /\ d.sr = c.sr /\ d.r = c.r /\ d.mem = c.mem
      /\ d.base = c.base /\ d.limit = c.limit
      /\ IF Svisor(c) THEN d.ssp = Slot(s, n) ELSE d.usp = Slot(s, n)
  BY <1>1, <1>3, <1>4 DEF SetStackPointer, Record
<1>6. StackPointer(d) = Slot(s, n)
  BY <1>5 DEF StackPointer, Svisor
<1>7. ASSUME NEW j \in 1 .. n PROVE Holds(d, Slot(s, j), 2, values[j])
  <2>1. j \in 1 .. n + 1
    OBVIOUS
  <2>2. Holds(c, Slot(s, j), 2, values[j])
    BY <2>1 DEF Stacked
  <2> QED
    BY <1>5, <2>2 DEF Holds, Load, LoadFault
<1>8. Stacked(d, s, n, values)
  BY <1>1, <1>5, <1>6, <1>7 DEF Stacked, Failed
<1> QED
  BY <1>2, <1>5, <1>8 DEF d

(* All registers, as PUSHA stacks them.                                    *)
Above(r) == [j \in 1 .. 8 |-> r[j - 1]]
Pushing(c, s, n, o) ==
  Stacked(c, s, n, Above(o.r)) /\ c.r = o.r /\ Svisor(c) = Svisor(o)
Popping(c, s, n, r) ==
  /\ Stacked(c, s, n, Above(r))
  /\ \A k \in DataReg : k >= n => c.r[k] = r[k]

LEMMA PushOfOne ==
  ASSUME NEW c, NEW s \in Word, NEW n \in DataReg, NEW o, Pushing(c, s, n, o),
         ~Failed(PushReg(c, n))
  PROVE  Pushing(PushReg(c, n), s, n + 1, o)
<1>1. c \in Record /\ c.r = o.r /\ Stacked(c, s, n, Above(o.r))
  BY DEF Pushing, Stacked
<1>2. c.r[n] \in Word
  BY <1>1 DEF Record
<1>3. n \in 0 .. 7 /\ c.r[n] = Above(o.r)[n + 1]
  BY <1>1 DEF Above, DataReg
<1>4. Stacked(PushReg(c, n), s, n + 1, Above(o.r))
  BY <1>1, <1>2, <1>3, PushStacks DEF PushReg
<1>5. PushReg(c, n).r = o.r
  BY <1>1, <1>2, PushRegs DEF PushReg
<1>6. Svisor(PushReg(c, n)) = Svisor(o)
  <2>1. Svisor(PushToStack(c, c.r[n])) = Svisor(c)
    BY <1>1, <1>2, PushIs DEF PushReg
  <2> QED
    BY <2>1 DEF Pushing, PushReg
<1> QED
  BY <1>4, <1>5, <1>6 DEF Pushing

LEMMA PushOfFailed ==
  ASSUME NEW c, NEW n, ~Failed(PushReg(c, n))
  PROVE  ~Failed(c)
<1>1. Failed(c) => PushToStack(c, c.r[n]) = c
  BY DEF PushToStack
<1> QED
  BY <1>1 DEF PushReg

LEMMA PushAllStacks ==
  ASSUME NEW c \in Record, ~Failed(PushAllRegs(c))
  PROVE  Pushing(PushAllRegs(c), StackPointer(c), 8, c) /\ ~Failed(c)
<1> DEFINE s == StackPointer(c)
           c1 == PushReg(c, 0)
           c2 == PushReg(c1, 1)
           c3 == PushReg(c2, 2)
           c4 == PushReg(c3, 3)
           c5 == PushReg(c4, 4)
           c6 == PushReg(c5, 5)
           c7 == PushReg(c6, 6)
           c8 == PushReg(c7, 7)
<1>1. PushAllRegs(c) = c8
  BY DEF PushAllRegs
<1> HIDE DEF c8
<1>2. ~Failed(c8)
  BY <1>1
<1>3. ~Failed(c7)
  BY <1>2, PushOfFailed DEF c8
<1> HIDE DEF c7
<1>4. ~Failed(c6)
  BY <1>3, PushOfFailed DEF c7
<1> HIDE DEF c6
<1>5. ~Failed(c5)
  BY <1>4, PushOfFailed DEF c6
<1> HIDE DEF c5
<1>6. ~Failed(c4)
  BY <1>5, PushOfFailed DEF c5
<1> HIDE DEF c4
<1>7. ~Failed(c3)
  BY <1>6, PushOfFailed DEF c4
<1> HIDE DEF c3
<1>8. ~Failed(c2)
  BY <1>7, PushOfFailed DEF c3
<1> HIDE DEF c2
<1>9. ~Failed(c1)
  BY <1>8, PushOfFailed DEF c2
<1> HIDE DEF c1
<1>10. ~Failed(c)
  BY <1>9, PushOfFailed DEF c1
<1>11. Pushing(c, s, 0, c) /\ s \in Word
  BY <1>10, StackStarts, RegType DEF Pushing
<1> HIDE DEF s
<1>12. Pushing(c1, s, 0 + 1, c)
  BY <1>9, <1>11, PushOfOne DEF c1, DataReg
<1>13. Pushing(c2, s, 1 + 1, c)
  BY <1>8, <1>11, <1>12, PushOfOne DEF c2, DataReg
<1>14. Pushing(c3, s, 2 + 1, c)
  BY <1>7, <1>11, <1>13, PushOfOne DEF c3, DataReg
<1>15. Pushing(c4, s, 3 + 1, c)
  BY <1>6, <1>11, <1>14, PushOfOne DEF c4, DataReg
<1>16. Pushing(c5, s, 4 + 1, c)
  BY <1>5, <1>11, <1>15, PushOfOne DEF c5, DataReg
<1>17. Pushing(c6, s, 5 + 1, c)
  BY <1>4, <1>11, <1>16, PushOfOne DEF c6, DataReg
<1>18. Pushing(c7, s, 6 + 1, c)
  BY <1>3, <1>11, <1>17, PushOfOne DEF c7, DataReg
<1>19. Pushing(c8, s, 7 + 1, c)
  BY <1>2, <1>11, <1>18, PushOfOne DEF c8, DataReg
<1> QED
  BY <1>1, <1>10, <1>19 DEF s

LEMMA PopOfOne ==
  ASSUME NEW c, NEW s \in Word, NEW n \in DataReg, NEW r, Popping(c, s, n + 1, r)
  PROVE  Popping(PopTo(c, n), s, n, r)
<1> DEFINE d == Drop(c)
           v == r[n]
<1>1. n \in 0 .. 7 /\ Above(r)[n + 1] = v
  BY DEF Above, DataReg
<1>2. /\ Top(c).val = v /\ Stacked(d, s, n, Above(r)) /\ d.r = c.r
  BY <1>1, PopUnstacks DEF Popping, Top, Holds
<1>3. c \in Record /\ d \in Record /\ ~Failed(d)
  BY <1>2 DEF Popping, Stacked
<1>4. v \in Word
  BY <1>2, <1>3, TopType
<1> HIDE DEF d, v
<1>5. PopTo(c, n) = [d EXCEPT !.r[n] = v]
  <2>1. SetReg(d, n, v) = [d EXCEPT !.r[n] = v]
    BY <1>3, Zenon DEF SetReg
  <2> QED
    BY <1>2, <2>1, Zenon DEF PopTo, d
<1> DEFINE e == PopTo(c, n)
<1>6. e \in Record /\ SeesStack(d, e) /\ ~Failed(e) /\ e.r = [c.r EXCEPT ![n] = v]
  <2>1. e.r = [d.r EXCEPT ![n] = v]
    BY <1>3, <1>5 DEF Record
  <2>2. e \in Record
    BY <1>3, PopOrdinary DEF Ordinary, DataReg
  <2>3. SeesStack(d, e) /\ ~Failed(e)
    BY <1>3, <1>5 DEF SeesStack, Svisor, Failed, Record
  <2> QED
    BY <1>2, <2>1, <2>2, <2>3
<1> HIDE DEF e
<1>7. Stacked(e, s, n, Above(r))
  BY <1>2, <1>6, StackSees
<1>8. ASSUME NEW k \in DataReg, k >= n PROVE e.r[k] = r[k]
  <2>1. c.r \in [DataReg -> Word]
    BY <1>3 DEF Record
  <2>2. CASE k = n
    BY <1>6, <2>1, <2>2 DEF v
  <2>3. CASE k # n
    <3>1. k >= n + 1
      BY <1>8, <2>3 DEF DataReg
    <3>2. c.r[k] = r[k]
      BY <3>1 DEF Popping
    <3> QED
      BY <1>6, <2>1, <2>3, <3>2
  <2> QED
    BY <2>2, <2>3
<1>9. Popping(e, s, n, r)
  BY <1>7, <1>8 DEF Popping
<1> QED
  BY <1>9 DEF e

LEMMA PopAllUnstacks ==
  ASSUME NEW c, NEW s \in Word, NEW r, Popping(c, s, 8, r)
  PROVE  Popping(PopAllRegs(c), s, 0, r)
<1> DEFINE c7 == PopTo(c, 7)
           c6 == PopTo(c7, 6)
           c5 == PopTo(c6, 5)
           c4 == PopTo(c5, 4)
           c3 == PopTo(c4, 3)
           c2 == PopTo(c3, 2)
           c1 == PopTo(c2, 1)
           c0 == PopTo(c1, 0)
<1>0. PopAllRegs(c) = c0
  BY DEF PopAllRegs
<1>1. Popping(c, s, 7 + 1, r)
  OBVIOUS
<1>2. Popping(c7, s, 6 + 1, r)
  BY <1>1, PopOfOne DEF DataReg
<1> HIDE DEF c7
<1>3. Popping(c6, s, 5 + 1, r)
  BY <1>2, PopOfOne DEF DataReg
<1> HIDE DEF c6
<1>4. Popping(c5, s, 4 + 1, r)
  BY <1>3, PopOfOne DEF DataReg
<1> HIDE DEF c5
<1>5. Popping(c4, s, 3 + 1, r)
  BY <1>4, PopOfOne DEF DataReg
<1> HIDE DEF c4
<1>6. Popping(c3, s, 2 + 1, r)
  BY <1>5, PopOfOne DEF DataReg
<1> HIDE DEF c3
<1>7. Popping(c2, s, 1 + 1, r)
  BY <1>6, PopOfOne DEF DataReg
<1> HIDE DEF c2
<1>8. Popping(c1, s, 0 + 1, r)
  BY <1>7, PopOfOne DEF DataReg
<1> HIDE DEF c1
<1>9. Popping(c0, s, 0, r)
  BY <1>8, PopOfOne DEF DataReg
<1> QED
  BY <1>0, <1>9

(* The instructions of the stack have one number of arguments each.        *)
LEMMA StackArity ==
  ASSUME NEW c \in Record, NEW i \in Instruction, Execute(c, i).exc = "none"
  PROVE  /\ i.op \in {"JSR", "PUSH"} => Len(i.args) = 1
         /\ i.op = "PUSHA" => Len(i.args) = 0
<1>1. ASSUME i.op \in {"JSR", "PUSH"}, Len(i.args) = 0 PROVE FALSE
  <2> DEFINE f == Fetch(Start(c), 2)
  <2>1. Reads(c, f) /\ InstructsZeroArg(f, i.op).exc = "none"
    BY <1>1, Instructs
  <2> HIDE DEF f
  <2>2. InstructsZeroArg(f, i.op) = Fail(f, "wrong")
    BY <1>1, <2>1, Zenon DEF InstructsZeroArg, Reads, Failed
  <2>3. Fail(f, "wrong").exc = "wrong"
    BY <2>1 DEF Fail, Failed, Reads, Record
  <2> QED
    BY <2>1, <2>2, <2>3
<1>2. ASSUME i.op = "PUSHA", Len(i.args) = 1 PROVE FALSE
  <2> DEFINE f == FetchedOne(c, i)
             a == i.args[1]
             t == LoadArg(f, a).val
  <2>1. a \in Argument /\ Reads(c, f) /\ InstructsOneArg(f, i.op, a).exc = "none"
    BY <1>2, Instructs
  <2> HIDE DEF f, a
  <2>2. f \in Record /\ f.exc = "none"
    BY <2>1 DEF Reads
  <2>3. ~Failed(OneArgEffect(f, i.op, t))
    BY <2>1, <2>2, OneArgRuns
  <2> HIDE DEF t
  <2>4. OneArgEffect(f, i.op, t) = Fail(f, "wrong")
    BY <1>2 DEF OneArgEffect, JumpsOn
  <2> QED
    BY <2>2, <2>3, <2>4 DEF Fail, Failed, Record
<1>3. ASSUME i.op \in {"JSR", "PUSH", "PUSHA"}, Len(i.args) = 2 PROVE FALSE
  <2> DEFINE f == FetchedTwo(c, i)
             a == i.args[1]
             b == i.args[2]
             t == LoadArg(f, a).val
             u == LoadArg(f, b).val
  <2>1. /\ a \in Argument /\ b \in Argument /\ Reads(c, f)
        /\ InstructsTwoArg(f, i.op, a, b).exc = "none"
    BY <1>3, Instructs
  <2> HIDE DEF f, a, b
  <2>2. f \in Record /\ f.exc = "none" /\ f.new % 16 = 0
    BY <2>1, ResetKeepsMode DEF Reads, Record
  <2>3. ~Failed(TwoArgEffect(f, i.op, t, u))
    BY <2>1, <2>2, TwoArgRuns
  <2> HIDE DEF t, u
  <2>4. TwoArgEffect(f, i.op, t, u) = Fail(f, "wrong")
    BY <1>3 DEF TwoArgEffect, Comparisons
  <2> QED
    BY <2>2, <2>3, <2>4 DEF Fail, Failed, Record
<1>4. ASSUME i.op \in {"JSR", "PUSH", "PUSHA"}, Len(i.args) = 3 PROVE FALSE
  <2> DEFINE f == FetchedThree(c, i)
             a1 == i.args[1]
             a2 == i.args[2]
             a3 == i.args[3]
             t1 == LoadArg(f, a1).val
             t2 == LoadArg(f, a2).val
             t3 == LoadArg(f, a3).val
  <2>1. /\ a1 \in Argument /\ a2 \in Argument /\ a3 \in Argument /\ Reads(c, f)
        /\ InstructsThreeArg(f, i.op, a1, a2, a3).exc = "none"
    BY <1>4, Instructs
  <2> HIDE DEF f, a1, a2, a3
  <2>2. f \in Record /\ f.exc = "none"
    BY <2>1 DEF Reads
  <2>3. ThreeArgEffect(f, i.op, t1, t2, t3).exc = "none"
    BY <2>1, <2>2, ThreeArgRuns
  <2> HIDE DEF t1, t2, t3
  <2>4. ThreeArgEffect(f, i.op, t1, t2, t3) = Fail(f, "wrong")
    BY <1>4 DEF ThreeArgEffect, IfJumps
  <2> QED
    BY <2>2, <2>3, <2>4 DEF Fail, Failed, Record
<1> QED
  BY <1>1, <1>2, <1>3, <1>4, Instructs

(* The end of a step moves the flags, but not the mode.                    *)
LEMMA SettleSees ==
  ASSUME NEW d \in Record, ~Failed(d), NEW f \in Word, d.new = ResetFlags(f),
         Svisor(d) = HasFlag(f, SVISOR)
  PROVE  /\ Settle(d) \in Record /\ ~Failed(Settle(d)) /\ SeesStack(d, Settle(d))
         /\ Settle(d).r = d.r /\ Settle(d).pc = d.pc
<1>1. Settle(d) \in Record
  BY SettleType
<1>2. /\ Settle(d).sr = d.new /\ Settle(d).exc = "none"
      /\ Settle(d).ssp = d.ssp /\ Settle(d).usp = d.usp /\ Settle(d).mem = d.mem
      /\ Settle(d).base = d.base /\ Settle(d).limit = d.limit
      /\ Settle(d).r = d.r /\ Settle(d).pc = d.pc
  BY DEF Settle, Record
<1>3. Svisor(Settle(d)) = Svisor(d)
  BY <1>2, ResetKeepsMode DEF Svisor
<1> QED
  BY <1>1, <1>2, <1>3 DEF SeesStack, Failed

LEMMA LoadArgShape ==
  ASSUME NEW c, NEW a \in Argument, LoadArg(c, a).exc = "none"
  PROVE  LoadArg(c, a) = [exc |-> "none", val |-> LoadArg(c, a).val]
<1>1. \A addr, scale : Load(c, addr, scale)
                         = [exc |-> Load(c, addr, scale).exc,
                            val |-> Load(c, addr, scale).val]
  BY DEF Load
<1> QED
  BY <1>1 DEF LoadArg

LEMMA WrapOnce ==
  ASSUME NEW p \in Word, NEW b \in 0 .. 8
  PROVE  Wrap(Wrap(p + 4) + b) = Wrap(p + 4 + b)
<1> DEFINE x == p + 4
           y == p + 4 + b
           w == Wrap(x)
           z == w + b
<1>1. p \in Nat /\ p < AddrSpace /\ AddrSpace \in Nat /\ AddrSpace > 64
  BY Constants
<1>2. /\ x \in Int /\ -AddrSpace <= x /\ 0 <= x /\ x < 2 * AddrSpace
      /\ y \in Int /\ -AddrSpace <= y /\ 0 <= y /\ y < 2 * AddrSpace /\ y = x + b
  BY <1>1
<1> HIDE DEF x, y
<1>3. w = IF x < AddrSpace THEN x ELSE x - AddrSpace
  BY <1>2, WrapNear
<1> HIDE DEF w
<1>4. z \in Int /\ -AddrSpace <= z /\ 0 <= z /\ z < 2 * AddrSpace
  BY <1>1, <1>2, <1>3
<1>5. z = y \/ (z = y - AddrSpace /\ y >= AddrSpace /\ z < AddrSpace)
  BY <1>1, <1>2, <1>3 DEF x
<1> HIDE DEF z
<1>6. /\ Wrap(z) = IF z < AddrSpace THEN z ELSE z - AddrSpace
      /\ Wrap(y) = IF y < AddrSpace THEN y ELSE y - AddrSpace
  BY <1>2, <1>4, WrapNear
<1>7. Wrap(z) = Wrap(y)
  BY <1>1, <1>2, <1>4, <1>5, <1>6
<1> QED
  BY <1>7, Zenon DEF w, x, y, z

LEMMA PushIsPopped ==
  ASSUME NEW c \in Record, NEW i \in Instruction, Execute(c, i).exc = "none",
         i.op = "PUSH", ~IsAutoIncrDecrArg(i.args[1]), PC \notin RegsOf(i.args[1])
  PROVE  LET e == Settle(Execute(c, i))
         IN  Top(e) = LoadArg(c, i.args[1]) /\ StackPointer(Drop(e)) = StackPointer(c)
<1> DEFINE f == FetchedOne(c, i)
           a == i.args[1]
           l == LoadArg(f, a)
           s == StackPointer(f)
           d == PushToStack(f, l.val)
           e == Settle(d)
<1>1. a \in Argument /\ Execute(c, i) = InstructsOneArg(f, "PUSH", a) /\ Reads(c, f)
  BY StackArity, Instructs
<1> HIDE DEF f, a
<1>2. f \in Record /\ Sees(c, f) /\ ~Failed(f) /\ f.new = ResetFlags(c.sr) /\ f.sr = c.sr
      /\ c.sr \in Word
  BY <1>1 DEF Reads, Sees, Failed, Record
<1>3. OneArgEffect(f, "PUSH", l.val) = d
  BY DEF OneArgEffect
<1>4. InstructsOneArg(f, "PUSH", a).exc = "none" /\ "PUSH" \notin OneArgWrites
  BY <1>1 DEF OneArgWrites
<1>5. l.exc = "none" /\ ~Failed(d) /\ Execute(c, i) = d
  BY <1>1, <1>2, <1>3, <1>4, OneArgRuns DEF a
<1>6. l = LoadArg(c, a) /\ l = [exc |-> "none", val |-> l.val] /\ l.val \in Word
  BY <1>1, <1>2, <1>5, LoadArgSees, LoadArgShape, LoadArgType DEF a
<1> HIDE DEF l
<1>7. Stacked(f, s, 0, <<l.val>>) /\ s \in Word
  BY <1>2, StackStarts, RegType
<1>8. Stacked(d, s, 1, <<l.val>>)
  <2>1. 0 \in 0 .. 7 /\ <<l.val>>[0 + 1] = l.val /\ 0 + 1 = 1
    OBVIOUS
  <2> HIDE DEF s, d
  <2>2. Stacked(d, s, 0 + 1, <<l.val>>)
    BY <1>5, <1>6, <1>7, <2>1, PushStacks DEF d
  <2> QED
    BY <2>1, <2>2
<1>9. d \in Record /\ d.new = f.new /\ Svisor(d) = Svisor(f)
  BY <1>2, <1>5, <1>6, PushOrdinary, PushIs DEF Ordinary
<1> HIDE DEF d, s
<1>10. e \in Record /\ ~Failed(e) /\ SeesStack(d, e)
  BY <1>2, <1>5, <1>9, SettleSees DEF Svisor
<1>11. Stacked(e, s, 1, <<l.val>>)
  BY <1>8, <1>10, StackSees
<1>12. Holds(e, StackPointer(e), 2, l.val) /\ Stacked(Drop(e), s, 0, <<l.val>>)
  <2>1. 0 \in 0 .. 7 /\ <<l.val>>[0 + 1] = l.val /\ 0 + 1 = 1
    OBVIOUS
  <2>2. Stacked(e, s, 0 + 1, <<l.val>>)
    BY <1>11, <2>1
  <2> HIDE DEF e
  <2> QED
    BY <1>7, <2>1, <2>2, PopUnstacks
<1>13. StackPointer(Drop(e)) = StackPointer(f)
  <2>1. Stacked(f, s, 0, <<l.val>>)
    BY <1>7
  <2> QED
    BY <1>12, <2>1 DEF Stacked
<1>14. StackPointer(f) = StackPointer(c)
  BY <1>2 DEF Sees, StackPointer, Svisor
<1> QED
  BY <1>5, <1>6, <1>12, <1>13, <1>14 DEF Holds, Top, a

LEMMA CallIsReturned ==
  ASSUME NEW c \in Record, NEW i \in Instruction, Execute(c, i).exc = "none",
         i.op = "JSR", ~IsAutoIncrDecrArg(i.args[1])
  PROVE  LET d == PopTo(Settle(Execute(c, i)), PC)
         IN  /\ ~Failed(d)
             /\ d.pc = Wrap(c.pc + 4 + ArgBytes(i.args[1]))
             /\ StackPointer(d) = StackPointer(c)
<1> DEFINE f == FetchedOne(c, i)
           a == i.args[1]
           l == LoadArg(f, a)
           s == StackPointer(f)
           p == PushToStack(f, f.pc)
           d == Jump(p, TRUE, l.val)
           e == Settle(d)
           v == f.pc
<1>1. /\ a \in Argument /\ Execute(c, i) = InstructsOneArg(f, "JSR", a) /\ Reads(c, f)
      /\ v = Wrap(Wrap(c.pc + 4) + ArgBytes(a))
  BY StackArity, Instructs
<1> HIDE DEF f, a
<1>2. f \in Record /\ Sees(c, f) /\ ~Failed(f) /\ f.new = ResetFlags(c.sr) /\ f.sr = c.sr
      /\ c.sr \in Word /\ v \in Word /\ c.pc \in Word
  BY <1>1 DEF Reads, Sees, Failed, Record
<1>3. v = Wrap(c.pc + 4 + ArgBytes(a))
  <2>1. ArgBytes(a) \in 0 .. 8
    <3>1. a.scale \in Scale
      BY <1>1 DEF Argument
    <3> QED
      BY <3>1, BytesType DEF ArgBytes
  <2> QED
    BY <1>1, <1>2, <2>1, WrapOnce
<1>4. OneArgEffect(f, "JSR", l.val) = d
  BY DEF OneArgEffect
<1>5. InstructsOneArg(f, "JSR", a).exc = "none" /\ "JSR" \notin OneArgWrites
  BY <1>1 DEF OneArgWrites
<1>6. ~Failed(d) /\ Execute(c, i) = d
  BY <1>1, <1>2, <1>4, <1>5, OneArgRuns DEF a
<1>7. l.val \in Word
  BY <1>1, <1>2, LoadArgType
<1> HIDE DEF l
<1>8. ~Failed(p)
  BY <1>6 DEF Jump
<1>9. p \in Record /\ p.new = f.new /\ Svisor(p) = Svisor(f)
  BY <1>2, <1>8, PushOrdinary, PushIs DEF Ordinary
<1>10. Stacked(f, s, 0, <<v>>) /\ s \in Word
  BY <1>2, StackStarts, RegType
<1>11. 0 \in 0 .. 7 /\ <<v>>[0 + 1] = v /\ 0 + 1 = 1
  OBVIOUS
<1> HIDE DEF s, p
<1>12. Stacked(p, s, 0 + 1, <<v>>)
  BY <1>2, <1>8, <1>10, <1>11, PushStacks DEF p
<1> HIDE DEF v
<1>13. /\ d \in Record /\ d.new = f.new /\ SeesStack(p, d) /\ Svisor(d) = Svisor(f)
  <2>1. d = [p EXCEPT !.pc = Wrap(p.pc + l.val)]
    BY <1>8 DEF Jump
  <2>2. d \in Record
    BY <1>7, <1>9, JumpOrdinary DEF Ordinary
  <2> HIDE DEF d
  <2> QED
    BY <1>9, <2>1, <2>2 DEF SeesStack, Svisor, Record
<1> HIDE DEF d
<1>14. e \in Record /\ ~Failed(e) /\ SeesStack(d, e)
  BY <1>2, <1>6, <1>13, SettleSees DEF Svisor
<1> HIDE DEF e
<1>15. Stacked(e, s, 0 + 1, <<v>>)
  <2>1. Stacked(d, s, 0 + 1, <<v>>)
    BY <1>6, <1>12, <1>13, StackSees
  <2> QED
    BY <1>14, <2>1, StackSees
<1>16. Holds(e, StackPointer(e), 2, v) /\ Stacked(Drop(e), s, 0, <<v>>)
  BY <1>10, <1>11, <1>15, PopUnstacks
<1> DEFINE g == Drop(e)
           h == PopTo(e, PC)
<1>17. g \in Record /\ ~Failed(g) /\ StackPointer(g) = StackPointer(f)
  BY <1>10, <1>16 DEF Stacked
<1> HIDE DEF g
<1>18. h = [g EXCEPT !.pc = v]
  <2>1. Top(e).val = v
    BY <1>16 DEF Top, Holds
  <2>2. PC \notin DataReg /\ PC # SP /\ PC # USP /\ PC # FP
    BY DEF PC, SP, USP, FP, DataReg
  <2>3. SetReg(g, PC, v) = [g EXCEPT !.pc = v]
    BY <1>17, <2>2 DEF SetReg
  <2> QED
    BY <2>1, <2>3, Zenon DEF PopTo, g
<1> HIDE DEF h
<1>19. ~Failed(h) /\ h.pc = v /\ StackPointer(h) = StackPointer(g)
  BY <1>17, <1>18 DEF Failed, StackPointer, Svisor, Record
<1>20. StackPointer(f) = StackPointer(c)
  BY <1>2 DEF Sees, StackPointer, Svisor
<1> QED
  BY <1>3, <1>6, <1>17, <1>19, <1>20 DEF a, e, h

LEMMA AllPushedIsPopped ==
  ASSUME NEW c \in Record, NEW i \in Instruction, Execute(c, i).exc = "none",
         i.op = "PUSHA"
  PROVE  LET d == PopAllRegs([Settle(Execute(c, i)) EXCEPT !.r = [n \in DataReg |-> 0]])
         IN  ~Failed(d) /\ d.r = c.r /\ StackPointer(d) = StackPointer(c)
<1> DEFINE f == Fetch(Start(c), 2)
           s == StackPointer(f)
           p == PushAllRegs(f)
           e == Settle(p)
           z == [e EXCEPT !.r = [n \in DataReg |-> 0]]
           d == PopAllRegs(z)
<1>1. Execute(c, i) = InstructsZeroArg(f, "PUSHA") /\ Reads(c, f)
  BY StackArity, Instructs
<1> HIDE DEF f
<1>2. f \in Record /\ Sees(c, f) /\ ~Failed(f) /\ f.new = ResetFlags(c.sr) /\ f.sr = c.sr
      /\ c.sr \in Word /\ f.r = c.r
  BY <1>1 DEF Reads, Sees, Failed, Record
<1>3. Execute(c, i) = p
  BY <1>1, <1>2, Zenon DEF InstructsZeroArg
<1> HIDE DEF p
<1>4. ~Failed(p)
  BY <1>3 DEF Failed
<1>5. Pushing(p, s, 8, f) /\ s \in Word
  BY <1>2, <1>4, PushAllStacks, RegType DEF p
<1>6. p \in Record /\ p.new = f.new
  BY <1>2, PushAllOrdinary DEF Ordinary, p
<1>7. Svisor(p) = Svisor(f)
  BY <1>5 DEF Pushing
<1> HIDE DEF s
<1>8. e \in Record /\ ~Failed(e) /\ SeesStack(p, e)
  BY <1>2, <1>4, <1>6, <1>7, SettleSees DEF Svisor
<1> HIDE DEF e
<1>9. z \in Record /\ ~Failed(z) /\ SeesStack(e, z)
  <2>1. 0 \in Word
    BY Constants
  <2>2. z \in Record
    BY <1>8, <2>1 DEF Record
  <2> QED
    BY <1>8, <2>2 DEF Failed, SeesStack, Svisor, Record
<1> HIDE DEF z
<1>10. Popping(z, s, 8, f.r)
  <2>1. Stacked(e, s, 8, Above(f.r))
    BY <1>5, <1>8, StackSees DEF Pushing
  <2>2. Stacked(z, s, 8, Above(f.r))
    BY <1>9, <2>1, StackSees
  <2>3. \A k \in DataReg : ~(k >= 8)
    BY DEF DataReg
  <2> QED
    BY <2>2, <2>3 DEF Popping
<1>11. Popping(d, s, 0, f.r)
  BY <1>5, <1>10, PopAllUnstacks
<1> HIDE DEF d
<1>12. ~Failed(d) /\ d \in Record /\ StackPointer(d) = Slot(s, 0)
  BY <1>11 DEF Popping, Stacked
<1>13. StackPointer(d) = s
  BY <1>2, <1>12, StackStarts DEF Stacked, s
<1>14. d.r = f.r
  <2>1. \A k \in DataReg : d.r[k] = f.r[k]
    BY <1>11 DEF Popping, DataReg
  <2>2. d.r \in [DataReg -> Word] /\ f.r \in [DataReg -> Word]
    BY <1>2, <1>12 DEF Record
  <2> QED
    BY <2>1, <2>2
<1>15. s = StackPointer(c)
  BY <1>2 DEF s, Sees, StackPointer, Svisor
<1> QED
  BY <1>2, <1>3, <1>12, <1>13, <1>14, <1>15 DEF d, z, e

(* What a call pushed a return pops, what PUSH stored is on top and POPA   *)
(* restores what PUSHA saved, with the stack pointer where it was: for     *)
(* each instruction that ends well, wherever the stack is, also when it    *)
(* goes round the end of the address space (pushToStack, popFromStack).    *)
THEOREM StackComesBack == Spec => StackRoundTrip
<1> DEFINE JsrBack ==
             LET d == PopTo(cpu', PC)
             IN  /\ ~Failed(d)
                 /\ d.pc = Wrap(cpu.pc + 4 + ArgBytes(Args[1]))
                 /\ StackPointer(d) = StackPointer(cpu)
           PushBack ==
             /\ Top(cpu') = LoadArg(cpu, Args[1])
             /\ StackPointer(Drop(cpu')) = StackPointer(cpu)
           AllBack ==
             LET d == PopAllRegs([cpu' EXCEPT !.r = [n \in DataReg |-> 0]])
             IN  ~Failed(d) /\ d.r = cpu.r /\ StackPointer(d) = StackPointer(cpu)
           A == NoStepping =>
                  /\ Does("JSR") => JsrBack
                  /\ Does("PUSH") /\ PC \notin RegsOf(Args[1]) => PushBack
                  /\ Does("PUSHA") => AllBack
<1>1. ASSUME TypeOK, Next, NoStepping, NEW op \in {"JSR", "PUSH", "PUSHA"}, Does(op)
      PROVE  \E i \in Instruction :
               /\ cpu \in Record /\ Execute(cpu, i).exc = "none"
               /\ i.op = op /\ Args = i.args /\ cpu' = Settle(Execute(cpu, i))
               /\ op # "PUSHA" => ~IsAutoIncrDecrArg(i.args[1])
  <2>1. PICK i : Ended(i)
    BY <1>1, FineEnds DEF Does
  <2>2. /\ cpu \in Record /\ i \in Instruction /\ Execute(cpu, i).exc = "none"
        /\ Args = i.args /\ i.op = op /\ cpu' = Settle(Execute(cpu, i))
    BY <1>1, <2>1 DEF Ended, TypeOK, Does
  <2>3. op # "PUSHA" => ~IsAutoIncrDecrArg(i.args[1])
    <3>1. op # "PUSHA" => Len(i.args) = 1 /\ i.args \in Seq(Argument)
      BY <1>1, <2>2, StackArity DEF Instruction
    <3>2. op # "PUSHA" => 1 \in DOMAIN i.args
      BY <3>1
    <3> QED
      BY <1>1, <2>2, <3>2 DEF NoStepping
  <2> QED
    BY <2>2, <2>3
<1>2. ASSUME TypeOK, Next, NoStepping, Does("JSR") PROVE JsrBack
  <2>1. PICK i \in Instruction :
          /\ cpu \in Record /\ Execute(cpu, i).exc = "none"
          /\ i.op = "JSR" /\ Args = i.args /\ cpu' = Settle(Execute(cpu, i))
          /\ ~IsAutoIncrDecrArg(i.args[1])
    BY <1>1, <1>2
  <2> QED
    BY <2>1, CallIsReturned
<1>3. ASSUME TypeOK, Next, NoStepping, Does("PUSH"), PC \notin RegsOf(Args[1])
      PROVE  PushBack
  <2>1. PICK i \in Instruction :
          /\ cpu \in Record /\ Execute(cpu, i).exc = "none"
          /\ i.op = "PUSH" /\ Args = i.args /\ cpu' = Settle(Execute(cpu, i))
          /\ ~IsAutoIncrDecrArg(i.args[1])
    BY <1>1, <1>3
  <2> QED
    BY <1>3, <2>1, PushIsPopped
<1>4. ASSUME TypeOK, Next, NoStepping, Does("PUSHA") PROVE AllBack
  <2>1. PICK i \in Instruction :
          /\ cpu \in Record /\ Execute(cpu, i).exc = "none"
          /\ i.op = "PUSHA" /\ cpu' = Settle(Execute(cpu, i))
    BY <1>1, <1>4
  <2> QED
    BY <2>1, AllPushedIsPopped
<1> HIDE DEF JsrBack, PushBack, AllBack
<1>5. TypeOK /\ [Next]_vars => [A]_vars
  BY <1>2, <1>3, <1>4
<1>6. Spec => [][A]_vars
  BY <1>5, TypeCorrect, PTL DEF Spec
<1> QED
  BY <1>6 DEF StackRoundTrip, A, JsrBack, PushBack, AllBack
=============================================================================
