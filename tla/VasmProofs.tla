------------------------------ MODULE VasmProofs ------------------------------
(***************************************************************************)
(* Theorems about Vasm for every set of files and names, every sequence of *)
(* invocations and every program: how the files are read, how the program  *)
(* is laid out, and what the variables hold through every pass.            *)
(***************************************************************************)
EXTENDS Vasm, Induction, SequenceTheorems

-----------------------------------------------------------------------------
(* Sequences of whatever elements.                                         *)
IsSeq(q) == q \in Seq(Range(q))

LEMMA SeqIsSeq ==
  ASSUME NEW S, NEW q \in Seq(S)
  PROVE  IsSeq(q)
<1>1. \A i \in 1..Len(q) : q[i] \in Range(q)
  BY DEF Range
<1>2. q = [i \in 1..Len(q) |-> q[i]] /\ Len(q) \in Nat
  OBVIOUS
<1> QED BY <1>1, <1>2 DEF IsSeq

LEMMA EmptyIsSeq == IsSeq(<<>>) /\ Len(<<>>) = 0
<1>1. <<>> \in Seq({})
  OBVIOUS
<1> QED BY <1>1, SeqIsSeq

LEMMA OneIsSeq ==
  ASSUME NEW e
  PROVE  IsSeq(<<e>>) /\ Len(<<e>>) = 1 /\ <<e>>[1] = e
<1>1. <<e>> \in Seq({e})
  OBVIOUS
<1> QED BY <1>1, SeqIsSeq

LEMMA AppendIsSeq ==
  ASSUME NEW q, IsSeq(q), NEW e
  PROVE  /\ IsSeq(Append(q, e))
         /\ Len(q) \in Nat /\ Len(Append(q, e)) = Len(q) + 1
         /\ \A i \in 1..Len(q) : Append(q, e)[i] = q[i]
         /\ Append(q, e)[Len(q) + 1] = e
<1> DEFINE S == Range(q) \cup {e}
<1>1. q \in Seq(S) /\ e \in S
  BY DEF IsSeq
<1>2. Append(q, e) \in Seq(S)
  BY <1>1
<1>3. IsSeq(Append(q, e))
  BY <1>2, SeqIsSeq
<1> QED BY <1>1, <1>3

LEMMA PoppedIsSeq ==
  ASSUME NEW q, IsSeq(q), Len(q) > 0
  PROVE  /\ IsSeq(Popped(q))
         /\ Len(q) \in Nat /\ Len(Popped(q)) = Len(q) - 1
         /\ \A i \in 1..(Len(q) - 1) : Popped(q)[i] = q[i]
<1>1. q \in Seq(Range(q)) /\ Len(q) \in Nat
  BY DEF IsSeq
<1>2. SubSeq(q, 1, Len(q) - 1) \in Seq(Range(q))
  BY <1>1
<1>3. IsSeq(Popped(q))
  BY <1>2, SeqIsSeq DEF Popped
<1>4. \A i \in 1..(Len(q) - 1) : q[i] \in Range(q)
  BY <1>1
<1>5. /\ Len(SubSeq(q, 1, Len(q) - 1)) = Len(q) - 1
      /\ \A i \in 1..(Len(q) - 1) : SubSeq(q, 1, Len(q) - 1)[i] = q[i]
  <2> DEFINE n == Len(q) - 1
  <2>1. n \in Int /\ 1 \in Int /\ \A i \in 1..n : q[i] \in Range(q)
    BY <1>1, <1>4
  <2> HIDE DEF n
  <2>2. /\ Len(SubSeq(q, 1, n)) = IF 1 <= n THEN n - 1 + 1 ELSE 0
        /\ \A i \in 1..(n - 1 + 1) : SubSeq(q, 1, n)[i] = q[1 + i - 1]
    BY <2>1, SubSeqProperties
  <2>3. n = Len(q) - 1 /\ n >= 0
    BY <1>1 DEF n
  <2>4. Len(SubSeq(q, 1, n)) = n
    BY <2>1, <2>2, <2>3
  <2>5. \A i \in 1..n : SubSeq(q, 1, n)[i] = q[i]
    BY <2>1, <2>2, <2>3
  <2> QED BY <2>3, <2>4, <2>5
<1> QED BY <1>1, <1>3, <1>5 DEF Popped

LEMMA DomainOfSeq ==
  ASSUME NEW q, IsSeq(q)
  PROVE  DOMAIN q = 1..Len(q) /\ Len(q) \in Nat /\ (q = <<>> <=> Len(q) = 0)
BY DEF IsSeq

-----------------------------------------------------------------------------
(* Reading.                                                                *)

\* Where reading stands in an open file.
LocIn(b) == [path |-> Directory[b.name], name |-> b.name,
             line |-> IF b.at = 0 THEN 1 ELSE b.at]

\* A node knows the line of the open file below that included it, and yylloc is
\* where the file on top stands: what is restored at the end of an included file
\* is right only because of the first.
ReaderInv ==
  /\ IsSeq(buffers) /\ IsSeq(nodes) /\ IsSeq(tree)
  /\ \A i \in 1..Len(buffers) :
       /\ buffers[i] = [name |-> buffers[i].name, at |-> buffers[i].at]
       /\ buffers[i].at \in Nat
  /\ \A i \in 1..Len(nodes) : nodes[i].path = Directory[nodes[i].name]
  /\ \A i, j \in 1..Len(nodes) : nodes[i].name = nodes[j].name => i = j
  /\ buffers # <<>> =>
       /\ Len(buffers) = Len(nodes)
       /\ \A i \in 1..Len(nodes) : nodes[i].name = buffers[i].name
       /\ \A i \in 2..Len(nodes) : nodes[i].parent = LocIn(buffers[i - 1])
       /\ loc = LocIn(buffers[Len(buffers)])

Located(entry) ==
  LET lines == disk[File[entry.loc.name]]
      n     == entry.loc.line
  IN  0 < n /\ n - 1 < Len(lines) /\ entry.def = lines[n]

TreeInv == \A i \in 1..Len(tree) : Located(tree[i])

\* The actions that change what the reader keeps.
Reset == buffers' = <<>> /\ nodes' = <<>> /\ tree' = <<>> /\ loc' = Nowhere
ReaderStep ==
  \/ source < Len(Args.sources) /\ OpenFirstFile(Args.sources[source + 1])
  \/ ReadDefinition \/ OpenIncludeFile \/ CloseIncludeFile \/ CloseFirstFile
  \/ Reset
  \/ UNCHANGED readerVars

LEMMA ReaderSteps ==
  ASSUME [Next]_vars
  PROVE  ReaderStep /\ disk' = disk
<1> USE DEF ReaderStep, planVars, readerVars
<1>1. ASSUME NEW why, Fail(why) PROVE UNCHANGED <<disk, readerVars>>
  BY <1>1 DEF Fail
<1>2. CASE OpenSource \/ ReadLine \/ Include \/ EndInclude \/ EndSource
  BY <1>2 DEF OpenSource, ReadLine, Include, EndInclude, EndSource
<1>3. CASE SourceMissing \/ IncludeFails \/ EndSourceFails
  BY <1>1, <1>3 DEF SourceMissing, IncludeFails, EndSourceFails
<1>4. CASE Check \/ Allocate \/ AllocationFails \/ EnsureTempsUsage
  BY <1>1, <1>4 DEF Check, Allocate, AllocationFails, EnsureTempsUsage
<1>5. CASE PlaceFunction \/ PlaceShared \/ PlaceConstant \/ EndPlacing
  BY <1>5 DEF PlaceFunction, PlaceShared, PlaceConstant, EndPlacing
<1>6. CASE ExposeGlobalLabels \/ AssignValuesToLocalLabels \/ LoadObj
  BY <1>1, <1>6 DEF ExposeGlobalLabels, AssignValuesToLocalLabels, LoadObj
<1>7. CASE LoadFails \/ Link
  BY <1>1, <1>7 DEF LoadFails, Link
<1>8. CASE UpdateFunctionLabels \/ AssignValuesToLabels
  BY <1>1, <1>8 DEF UpdateFunctionLabels, AssignValuesToLabels
<1>9. CASE SaveObj \/ Assemble
  BY <1>9 DEF SaveObj, Assemble, Succeed, Reset
<1>10. CASE Finished \/ UNCHANGED vars
  BY <1>10 DEF Finished, vars
<1> QED
  BY <1>2, <1>3, <1>4, <1>5, <1>6, <1>7, <1>8, <1>9, <1>10 DEF Next

LEMMA OpenedFirst ==
  ASSUME NEW name, OpenFirstFile(name)
  PROVE  ReaderInv' /\ TreeInv'
<1>1. /\ buffers' = <<[name |-> name, at |-> 0]>>
      /\ nodes' = <<Node(name, Nowhere)>>
      /\ loc' = StartOf(name) /\ tree' = <<>>
  BY DEF OpenFirstFile
<1>2. IsSeq(buffers') /\ Len(buffers') = 1 /\ buffers'[1] = [name |-> name, at |-> 0]
  BY <1>1, OneIsSeq
<1>3. IsSeq(nodes') /\ Len(nodes') = 1 /\ nodes'[1] = Node(name, Nowhere)
  BY <1>1, OneIsSeq
<1>4. IsSeq(tree') /\ Len(tree') = 0
  BY <1>1, EmptyIsSeq
<1>5. loc' = LocIn(buffers'[1])
  BY <1>1, <1>2 DEF StartOf, LocIn
<1>6. nodes'[1].name = name /\ nodes'[1].path = Directory[name]
  BY <1>3 DEF Node
<1>7. ReaderInv'
  BY <1>2, <1>3, <1>4, <1>5, <1>6 DEF ReaderInv
<1> QED BY <1>4, <1>7 DEF TreeInv

\* Where the line that is read next stands.
LEMMA NextLocIs ==
  ASSUME ReaderInv, buffers # <<>>
  PROVE  /\ Len(buffers) \in Nat /\ Len(buffers) > 0
         /\ Top(buffers).at \in Nat
         /\ NextLoc = [path |-> Directory[Top(buffers).name], name |-> Top(buffers).name,
                       line |-> Top(buffers).at + 1]
<1>1. Len(buffers) \in Nat /\ Len(buffers) > 0
  BY DomainOfSeq DEF ReaderInv
<1>2. Top(buffers) = buffers[Len(buffers)]
  BY DEF Top
<1>3. buffers[Len(buffers)].at \in Nat
  <2>1. Len(buffers) \in 1..Len(buffers)
    BY <1>1
  <2> QED BY <2>1, Zenon DEF ReaderInv
<1>4. loc = LocIn(buffers[Len(buffers)])
  BY DEF ReaderInv
<1> QED BY <1>1, <1>2, <1>3, <1>4 DEF NextLoc, LocIn

\* The file on top has one more of its lines read.
LEMMA AdvancedIs ==
  ASSUME ReaderInv, buffers # <<>>
  PROVE  LET n == Len(buffers)
         IN  /\ IsSeq(Advanced) /\ Len(Advanced) = n
             /\ \A i \in 1..(n - 1) : Advanced[i] = buffers[i]
             /\ Advanced[n] = [name |-> buffers[n].name, at |-> buffers[n].at + 1]
<1> DEFINE n == Len(buffers)
           one == [name |-> buffers[n].name, at |-> buffers[n].at + 1]
           S == Range(buffers) \cup {one}
<1>1. n \in Nat /\ n > 0 /\ DOMAIN buffers = 1..n /\ IsSeq(buffers)
  BY DomainOfSeq DEF ReaderInv
<1>2. buffers[n] = [name |-> buffers[n].name, at |-> buffers[n].at]
  BY <1>1 DEF ReaderInv
<1>3. [buffers[n] EXCEPT !.at = buffers[n].at + 1] = one
  BY <1>2
<1>4. Advanced = [buffers EXCEPT ![n] = one]
  BY <1>3 DEF Advanced
<1>5. buffers \in Seq(S) /\ one \in S
  BY <1>1 DEF IsSeq
<1>6. /\ [buffers EXCEPT ![n] = one] \in Seq(S)
      /\ Len([buffers EXCEPT ![n] = one]) = n
  BY <1>1, <1>5, ExceptSeq
<1>7. IsSeq(Advanced) /\ Len(Advanced) = n
  BY <1>4, <1>6, SeqIsSeq
<1>8. /\ \A i \in 1..(n - 1) : Advanced[i] = buffers[i]
      /\ Advanced[n] = one
  BY <1>1, <1>4
<1> QED BY <1>7, <1>8

LEMMA DefinitionRead ==
  ASSUME ReaderInv, TreeInv, ReadDefinition, disk' = disk
  PROVE  ReaderInv' /\ TreeInv'
<1> DEFINE n == Len(buffers)
           entry == [def |-> NextLine, loc |-> NextLoc]
<1>1. /\ buffers # <<>> /\ Unread
      /\ buffers' = Advanced /\ loc' = NextLoc
      /\ tree' = Append(tree, entry) /\ nodes' = nodes
  BY DEF ReadDefinition
<1>2. /\ n \in Nat /\ n > 0 /\ Top(buffers) = buffers[n] /\ buffers[n].at \in Nat
      /\ NextLoc = [path |-> Directory[buffers[n].name], name |-> buffers[n].name,
                    line |-> buffers[n].at + 1]
  BY <1>1, NextLocIs DEF Top
<1>3. /\ IsSeq(buffers') /\ Len(buffers') = n
      /\ \A i \in 1..(n - 1) : buffers'[i] = buffers[i]
      /\ buffers'[n] = [name |-> buffers[n].name, at |-> buffers[n].at + 1]
  BY <1>1, AdvancedIs
<1>4. /\ IsSeq(tree') /\ Len(tree) \in Nat /\ Len(tree') = Len(tree) + 1
      /\ \A i \in 1..Len(tree) : tree'[i] = tree[i]
      /\ tree'[Len(tree) + 1] = entry
  BY <1>1, AppendIsSeq DEF ReaderInv
<1>5. loc' = LocIn(buffers'[n])
  BY <1>1, <1>2, <1>3 DEF LocIn
<1>6. ReaderInv'
  <2>1. \A i \in 1..n : /\ buffers'[i] = [name |-> buffers'[i].name, at |-> buffers'[i].at]
                        /\ buffers'[i].at \in Nat
                        /\ buffers'[i].name = buffers[i].name
    BY <1>2, <1>3 DEF ReaderInv
  <2>2. Len(nodes) = n
    BY <1>1 DEF ReaderInv
  <2>3. \A i \in 1..n : nodes[i].name = buffers'[i].name
    BY <1>1, <2>1, <2>2 DEF ReaderInv
  <2>4. \A i \in 2..n : nodes[i].parent = LocIn(buffers'[i - 1])
    BY <1>1, <1>2, <1>3, <2>2 DEF ReaderInv
  <2>5. nodes' = nodes /\ IsSeq(nodes)
    BY <1>1 DEF ReaderInv
  <2>6. /\ \A i \in 1..n : nodes[i].path = Directory[nodes[i].name]
        /\ \A i, j \in 1..n : nodes[i].name = nodes[j].name => i = j
    BY <2>2 DEF ReaderInv
  <2> QED BY <1>3, <1>4, <1>5, <2>1, <2>2, <2>3, <2>4, <2>5, <2>6 DEF ReaderInv
<1>7. Located(entry)
  <2>1. NextLine = disk[File[buffers[n].name]][buffers[n].at + 1]
    BY <1>2 DEF NextLine
  <2>2. buffers[n].at < Len(disk[File[buffers[n].name]])
    BY <1>1, <1>2 DEF Unread
  <2>3. entry.loc.name = buffers[n].name /\ entry.loc.line = buffers[n].at + 1
    BY <1>2
  <2>4. 0 < buffers[n].at + 1 /\ buffers[n].at + 1 - 1 = buffers[n].at
    BY <1>2
  <2>5. entry.def = NextLine
    OBVIOUS
  <2> HIDE DEF entry
  <2>6. \A a \in Nat : \A line : line = a + 1 => 0 < line /\ line - 1 = a
    OBVIOUS
  <2>7. 0 < entry.loc.line /\ entry.loc.line - 1 = buffers[n].at
    BY <1>2, <2>3, <2>6, Zenon
  <2>8. entry.loc.line - 1 < Len(disk[File[buffers[n].name]])
    BY <2>2, <2>7, Zenon
  <2>9. 0 < entry.loc.line /\ entry.loc.line - 1 < Len(disk[File[entry.loc.name]])
    BY <2>3, <2>7, <2>8, Zenon
  <2>10. entry.def = disk[File[entry.loc.name]][entry.loc.line]
    BY <2>1, <2>3, <2>5
  <2> QED BY <2>9, <2>10 DEF Located
<1>8. TreeInv'
  <2> HIDE DEF entry
  <2>1. \A i \in 1..Len(tree') : i \in 1..Len(tree) \/ i = Len(tree) + 1
    BY <1>4
  <2>2. \A i \in 1..Len(tree') : Located(tree'[i])
    BY <1>4, <1>7, <2>1 DEF TreeInv
  <2> QED BY <2>2 DEF TreeInv, Located
<1> QED BY <1>6, <1>8

LEMMA IncludeOpened ==
  ASSUME ReaderInv, TreeInv, OpenIncludeFile, disk' = disk
  PROVE  ReaderInv' /\ TreeInv'
<1> DEFINE n == Len(buffers)
           name == NextLine.name
           opened == [name |-> name, at |-> 0]
           node == Node(name, NextLoc)
<1>1. /\ buffers # <<>> /\ ~IsInParents(name)
      /\ nodes' = Append(nodes, node)
      /\ buffers' = Append(Advanced, opened)
      /\ loc' = StartOf(name) /\ tree' = tree
  BY DEF OpenIncludeFile
<1>2. /\ n \in Nat /\ n > 0 /\ Top(buffers) = buffers[n] /\ buffers[n].at \in Nat
      /\ NextLoc = [path |-> Directory[buffers[n].name], name |-> buffers[n].name,
                    line |-> buffers[n].at + 1]
  BY <1>1, NextLocIs DEF Top
<1>3. /\ IsSeq(Advanced) /\ Len(Advanced) = n
      /\ \A i \in 1..(n - 1) : Advanced[i] = buffers[i]
      /\ Advanced[n] = [name |-> buffers[n].name, at |-> buffers[n].at + 1]
  BY <1>1, AdvancedIs
<1>4. /\ IsSeq(buffers') /\ Len(buffers') = n + 1
      /\ \A i \in 1..n : buffers'[i] = Advanced[i]
      /\ buffers'[n + 1] = opened
  BY <1>1, <1>3, AppendIsSeq
<1>5. IsSeq(nodes) /\ Len(nodes) = n
  BY <1>1 DEF ReaderInv
<1>6. /\ IsSeq(nodes') /\ Len(nodes') = n + 1
      /\ \A i \in 1..n : nodes'[i] = nodes[i]
      /\ nodes'[n + 1] = node
  BY <1>1, <1>5, AppendIsSeq
<1>7. node.name = name /\ node.path = Directory[name] /\ node.parent = NextLoc
  BY DEF Node
<1>8. /\ \A i \in 1..n : /\ nodes[i].path = Directory[nodes[i].name]
                         /\ nodes[i].name = buffers[i].name
      /\ \A i \in 2..n : nodes[i].parent = LocIn(buffers[i - 1])
      /\ \A i, j \in 1..n : nodes[i].name = nodes[j].name => i = j
  BY <1>1, <1>5 DEF ReaderInv
<1>9. \A i \in 1..n : /\ Advanced[i] = [name |-> Advanced[i].name, at |-> Advanced[i].at]
                      /\ Advanced[i].at \in Nat
                      /\ Advanced[i].name = buffers[i].name
  BY <1>2, <1>3 DEF ReaderInv
<1> HIDE DEF n, name, opened, node
<1>10. \A i \in 1..n : nodes[i].name # name
  <2>1. DOMAIN nodes = 1..n
    BY <1>5, DomainOfSeq
  <2> QED BY <1>1, <1>8, <2>1 DEF IsInParents
<1>11. LocIn(Advanced[n]) = NextLoc
  BY <1>2, <1>3 DEF LocIn
<1>12. \A i \in 1..(n + 1) : /\ buffers'[i] = [name |-> buffers'[i].name, at |-> buffers'[i].at]
                             /\ buffers'[i].at \in Nat
  <2>1. opened = [name |-> opened.name, at |-> opened.at] /\ opened.at \in Nat
    BY DEF opened
  <2>2. \A i \in 1..(n + 1) : i \in 1..n \/ i = n + 1
    BY <1>2
  <2>3. \A i \in 1..n : /\ buffers'[i] = [name |-> buffers'[i].name, at |-> buffers'[i].at]
                        /\ buffers'[i].at \in Nat
    BY <1>4, <1>9, Zenon
  <2>4. /\ buffers'[n + 1] = [name |-> buffers'[n + 1].name, at |-> buffers'[n + 1].at]
        /\ buffers'[n + 1].at \in Nat
    BY <1>4, <2>1
  <2> QED BY <2>2, <2>3, <2>4, Zenon
<1>13. \A i \in 1..(n + 1) : /\ nodes'[i].path = Directory[nodes'[i].name]
                             /\ nodes'[i].name = buffers'[i].name
  <2>1. opened.name = name
    BY DEF opened
  <2>2. \A i \in 1..(n + 1) : i \in 1..n \/ i = n + 1
    BY <1>2
  <2>3. \A i \in 1..n : /\ nodes'[i].path = Directory[nodes'[i].name]
                        /\ nodes'[i].name = buffers'[i].name
    <3>1. \A i \in 1..n : nodes'[i].path = Directory[nodes'[i].name]
      BY <1>6, <1>8
    <3>2. \A i \in 1..n : nodes'[i].name = buffers'[i].name
      <4> TAKE i \in 1..n
      <4>1. nodes'[i] = nodes[i] /\ buffers'[i] = Advanced[i]
        BY <1>4, <1>6
      <4>2. nodes[i].name = buffers[i].name /\ Advanced[i].name = buffers[i].name
        BY <1>8, <1>9, Zenon
      <4> QED BY <4>1, <4>2
    <3> QED BY <3>1, <3>2
  <2>4. /\ nodes'[n + 1].path = Directory[nodes'[n + 1].name]
        /\ nodes'[n + 1].name = buffers'[n + 1].name
    BY <1>4, <1>6, <1>7, <2>1
  <2> QED BY <2>2, <2>3, <2>4, Zenon
<1>14. \A i, j \in 1..(n + 1) : nodes'[i].name = nodes'[j].name => i = j
  BY <1>2, <1>6, <1>7, <1>8, <1>10
<1>15. \A i \in 2..(n + 1) : nodes'[i].parent = LocIn(buffers'[i - 1])
  <2>1. nodes'[n + 1].parent = LocIn(buffers'[n])
    BY <1>2, <1>4, <1>6, <1>7, <1>11
  <2>2. \A i \in 2..n : nodes'[i].parent = LocIn(buffers'[i - 1])
    BY <1>2, <1>3, <1>4, <1>6, <1>8
  <2> QED BY <1>2, <2>1, <2>2
<1>16. loc' = LocIn(buffers'[n + 1])
  BY <1>1, <1>4 DEF StartOf, LocIn, opened
<1>17. IsSeq(tree') /\ TreeInv'
  BY <1>1 DEF ReaderInv, TreeInv, Located
<1>18. ReaderInv'
  BY <1>4, <1>6, <1>12, <1>13, <1>14, <1>15, <1>16, <1>17 DEF ReaderInv
<1> QED BY <1>17, <1>18

LEMMA IncludeClosed ==
  ASSUME ReaderInv, TreeInv, CloseIncludeFile, disk' = disk
  PROVE  ReaderInv' /\ TreeInv'
<1> DEFINE n == Len(buffers)
<1>1. /\ n > 1 /\ buffers' = Popped(buffers) /\ tree' = tree
      /\ loc' = Top(nodes).parent
      /\ nodes' = IF Len(nodes) > 1 THEN Popped(nodes) ELSE nodes
  BY DEF CloseIncludeFile
<1>2. n \in Nat /\ IsSeq(buffers) /\ IsSeq(nodes) /\ buffers # <<>>
  BY <1>1, DomainOfSeq DEF ReaderInv
<1>3. Len(nodes) = n
  BY <1>2 DEF ReaderInv
<1>4. nodes' = Popped(nodes)
  BY <1>1, <1>3
<1>5. /\ IsSeq(buffers') /\ Len(buffers') = n - 1
      /\ \A i \in 1..(n - 1) : buffers'[i] = buffers[i]
  BY <1>1, <1>2, PoppedIsSeq
<1>6. /\ IsSeq(nodes') /\ Len(nodes') = n - 1
      /\ \A i \in 1..(n - 1) : nodes'[i] = nodes[i]
  BY <1>1, <1>2, <1>3, <1>4, PoppedIsSeq
<1>7. /\ \A i \in 1..n : /\ buffers[i] = [name |-> buffers[i].name, at |-> buffers[i].at]
                         /\ buffers[i].at \in Nat
                         /\ nodes[i].path = Directory[nodes[i].name]
                         /\ nodes[i].name = buffers[i].name
      /\ \A i \in 2..n : nodes[i].parent = LocIn(buffers[i - 1])
      /\ \A i, j \in 1..n : nodes[i].name = nodes[j].name => i = j
  BY <1>2, <1>3 DEF ReaderInv
<1>8. loc' = LocIn(buffers'[n - 1])
  BY <1>1, <1>2, <1>3, <1>5, <1>7 DEF Top
<1>9. IsSeq(tree') /\ TreeInv'
  BY <1>1 DEF ReaderInv, TreeInv, Located
<1> HIDE DEF n
<1>10. ReaderInv'
  <2>1. \A i \in 1..(n - 1) : i \in 1..n
    BY <1>2
  <2>2. \A i \in 2..(n - 1) : nodes'[i].parent = LocIn(buffers'[i - 1])
    BY <1>2, <1>5, <1>6, <1>7
  <2>3. \A i \in 1..(n - 1) : /\ buffers'[i] = [name |-> buffers'[i].name, at |-> buffers'[i].at]
                              /\ buffers'[i].at \in Nat
                              /\ nodes'[i].path = Directory[nodes'[i].name]
                              /\ nodes'[i].name = buffers'[i].name
    BY <1>5, <1>6, <1>7, <2>1
  <2>4. \A i, j \in 1..(n - 1) : nodes'[i].name = nodes'[j].name => i = j
    BY <1>6, <1>7, <2>1
  <2> QED BY <1>5, <1>6, <1>8, <1>9, <2>2, <2>3, <2>4 DEF ReaderInv
<1> QED BY <1>9, <1>10

LEMMA ReaderInvStep ==
  ASSUME ReaderInv, TreeInv, [Next]_vars
  PROVE  ReaderInv' /\ TreeInv'
<1>1. disk' = disk /\ ReaderStep
  BY ReaderSteps
<1>2. CASE OpenFirstFile(Args.sources[source + 1])
  BY <1>2, OpenedFirst
<1>3. CASE ReadDefinition
  BY <1>1, <1>3, DefinitionRead
<1>4. CASE OpenIncludeFile
  BY <1>1, <1>4, IncludeOpened
<1>5. CASE CloseIncludeFile
  BY <1>1, <1>5, IncludeClosed
<1>6. CASE CloseFirstFile
  <2>1. buffers' = <<>> /\ nodes' = nodes /\ tree' = tree
    BY <1>6 DEF CloseFirstFile
  <2>2. IsSeq(buffers') /\ Len(buffers') = 0
    BY <2>1, EmptyIsSeq
  <2>3. ReaderInv'
    BY <2>1, <2>2 DEF ReaderInv
  <2>4. TreeInv'
    BY <1>1, <2>1 DEF TreeInv, Located
  <2> QED BY <2>3, <2>4
<1>7. CASE Reset
  <2>1. buffers' = <<>> /\ nodes' = <<>> /\ tree' = <<>>
    BY <1>7 DEF Reset
  <2>2. /\ IsSeq(buffers') /\ Len(buffers') = 0 /\ IsSeq(nodes') /\ Len(nodes') = 0
        /\ IsSeq(tree') /\ Len(tree') = 0
    BY <2>1, EmptyIsSeq
  <2> QED BY <2>1, <2>2 DEF ReaderInv, TreeInv
<1>8. CASE UNCHANGED readerVars
  BY <1>1, <1>8 DEF ReaderInv, TreeInv, Located, readerVars
<1> QED
  BY <1>1, <1>2, <1>3, <1>4, <1>5, <1>6, <1>7, <1>8 DEF ReaderStep

LEMMA ReaderInvAlways == Spec => [](ReaderInv /\ TreeInv)
<1>1. Init => ReaderInv /\ TreeInv
  <2> SUFFICES ASSUME Init PROVE ReaderInv /\ TreeInv
    OBVIOUS
  <2>1. buffers = <<>> /\ nodes = <<>> /\ tree = <<>>
    BY DEF Init
  <2>2. /\ IsSeq(buffers) /\ Len(buffers) = 0 /\ IsSeq(nodes) /\ Len(nodes) = 0
        /\ IsSeq(tree) /\ Len(tree) = 0
    BY <2>1, EmptyIsSeq
  <2> QED BY <2>1, <2>2 DEF ReaderInv, TreeInv
<1>2. ReaderInv /\ TreeInv /\ [Next]_vars => (ReaderInv /\ TreeInv)'
  BY ReaderInvStep
<1> QED BY <1>1, <1>2, PTL DEF Spec

\* The lexer's stack of open files and the branch of the tree of includes name
\* the same files in the same order, and no file twice by one name, whatever
\* includes what (IncludesTree::enter and exitInclude, openIncludeFile).
THEOREM ChainIsSound == Spec => []ChainSound
<1>1. ReaderInv => ChainSound
  BY DomainOfSeq DEF ReaderInv, ChainSound
<1> QED BY <1>1, ReaderInvAlways, PTL

\* Every definition is kept with the file and the line it stands at, however many
\* files were included and left before it (YY_USER_ACTION, closeIncludeFile).
THEOREM LocationsAreTrue == Spec => []LocationsTrue
<1>1. ReaderInv /\ TreeInv => LocationsTrue
  BY DomainOfSeq DEF ReaderInv, TreeInv, Located, LocationsTrue
<1> QED BY <1>1, ReaderInvAlways, PTL

-----------------------------------------------------------------------------
(* What includes what, on a disk d.  Closure counts the steps along the    *)
(* inclusions, and as many as there are files are enough: it is the least  *)
(* set that has its files and whatever a file of it includes.              *)
Files == {File[m] : m \in Names}

Sound(d) ==
  \A n \in Names :
    File[n] # NoFile =>
      /\ IsSeq(d[File[n]])
      /\ \A line \in Range(d[File[n]]) : line.is = "include" => line.name \in Names

IncludesOf(d, f) ==
  IF f = NoFile THEN {}
  ELSE {File[d[f][i].name] : i \in {j \in DOMAIN d[f] : d[f][j].is = "include"}}

ClosureOn(d, S) ==
  LET n == Cardinality(Files)
      r[k \in 0..n] == IF k = 0 THEN S ELSE S \cup UNION {IncludesOf(d, f) : f \in r[k - 1]}
  IN  r[n]

\* No file that this one leads to includes itself.
Good(d, f) == \A h \in ClosureOn(d, {f}) : h \notin ClosureOn(d, IncludesOf(d, h))

Follow(d, C) == \A f \in C : IncludesOf(d, f) \subseteq C

ClosureFacts(d, S) ==
  /\ S \subseteq ClosureOn(d, S) /\ ClosureOn(d, S) \subseteq Files
  /\ Follow(d, ClosureOn(d, S))
  /\ \A L : S \subseteq L /\ Follow(d, L) => ClosureOn(d, S) \subseteq L

LEMMA FilesFinite == IsFiniteSet(Files)
<1> DEFINE f == [m \in Names |-> File[m]]
<1>1. f \in Surjection(Names, Files)
  BY DEF Surjection, Files
<1> HIDE DEF f
<1> QED BY <1>1, FS_Surjection, VasmAssumption

LEMMA IncludesAreFiles ==
  ASSUME NEW d, Sound(d), NEW f \in Files
  PROVE  IncludesOf(d, f) \subseteq Files
<1>1. PICK n \in Names : f = File[n]
  BY DEF Files
<1>2. CASE f # NoFile
  <2>1. \A j \in DOMAIN d[f] : d[f][j].is = "include" => d[f][j].name \in Names
    BY <1>1, <1>2 DEF Sound, Range
  <2> QED BY <1>2, <2>1 DEF IncludesOf, Files
<1> QED BY <1>2 DEF IncludesOf

LEMMA ClosureIs ==
  ASSUME NEW d, Sound(d), NEW S, S \subseteq Files
  PROVE  ClosureFacts(d, S)
<1> DEFINE N == Cardinality(Files)
           V == SUBSET Files
           On(X) == S \cup UNION {IncludesOf(d, f) : f \in X}
           g == [X \in V |-> On(X)]
           r == CHOOSE w : w = [k \in 0..N |-> IF k = 0 THEN S ELSE On(w[k - 1])]
<1>1. N \in Nat /\ IsFiniteSet(Files) /\ S \in V
  BY FilesFinite, FS_CardinalityType
<1>2. ClosureOn(d, S) = r[N]
  BY Zenon DEF ClosureOn
<1>3. g \in [V -> V] /\ \A X \in V : g[X] = On(X)
  BY IncludesAreFiles
<1>4. Monotone(g, Files) /\ S \subseteq g[S]
  <2>1. \A X, Y \in V : X \subseteq Y => g[X] \subseteq g[Y]
    BY <1>3
  <2>2. S \subseteq g[S]
    BY <1>1, <1>3
  <2> HIDE DEF g
  <2> QED BY <1>1, <1>3, <2>1, <2>2 DEF Monotone
<1>5. IsIteration(r, N, S, g)
  <2> HIDE DEF g, N, V, On
  <2>1. PICK w : IsIteration(w, N, S, g) /\ \A k \in 0..N : w[k] \in V
    BY <1>1, <1>3, Iterates
  <2>2. \A k \in 0..N : k # 0 => k - 1 \in 0..N
    BY <1>1
  <2>3. w = [k \in 0..N |-> IF k = 0 THEN S ELSE On(w[k - 1])]
    BY <1>3, <2>1, <2>2 DEF IsIteration
  <2>4. r = [k \in 0..N |-> IF k = 0 THEN S ELSE On(r[k - 1])]
    BY <2>3, Zenon
  <2> HIDE DEF r
  <2> DEFINE T == {k \in 0..N : r[k] \in V}
  <2>5. 0 \in T
    BY <1>1, <2>4
  <2>6. ASSUME NEW k \in 0..N, k \in T, k < N
        PROVE  k + 1 \in T
    <3>1. k + 1 \in 0..N /\ k + 1 # 0 /\ (k + 1) - 1 = k
      BY <1>1, <2>6
    <3>2. r[k + 1] = On(r[k]) /\ r[k] \in V
      BY <2>4, <2>6, <3>1
    <3> QED BY <1>3, <3>1, <3>2
  <2> HIDE DEF T
  <2>7. 0..N \subseteq T
    BY <1>1, <2>5, <2>6, Induct
  <2>8. \A k \in 0..N : r[k] \in V
    BY <2>7 DEF T
  <2> QED BY <1>3, <2>2, <2>4, <2>8 DEF IsIteration
<1> HIDE DEF r, g, N
<1>6. r[N] \subseteq Files /\ S \subseteq r[N] /\ g[r[N]] = r[N]
  <2>1. Cardinality(Files) <= N
    BY <1>1 DEF N
  <2>2. Grows(r, N, S, g, Files)
    BY <1>1, <1>4, <1>5, <2>1 DEF Grows
  <2>3. Settles(r, N, S, g, Files)
    BY <2>2, IterationSettles, Zenon
  <2> QED BY <2>3 DEF Settles
<1>7. Follow(d, r[N])
  BY <1>3, <1>6 DEF Follow
<1>8. ASSUME NEW L, S \subseteq L, Follow(d, L)
      PROVE  r[N] \subseteq L
  <2> DEFINE M == L \cap Files
  <2>1. \A X \in SUBSET M : g[X] \subseteq M
    BY <1>3, <1>8 DEF Follow
  <2>2. S \subseteq M
    BY <1>8
  <2> HIDE DEF M
  <2>3. r[N] \subseteq M
    BY <1>1, <1>5, <2>1, <2>2, IterationStaysWithin
  <2> QED BY <2>3 DEF M
<1> QED BY <1>2, <1>6, <1>7, <1>8 DEF ClosureFacts

LEMMA ClosureIsOnDisk ==
  /\ \A S : Closure(S) = ClosureOn(disk, S)
  /\ \A f : FilesIncluded(f) = IncludesOf(disk, f)
  /\ \A f : IncludesItself(f) <=> f \in ClosureOn(disk, IncludesOf(disk, f))
<1>1. \A f : FilesIncluded(f) = IncludesOf(disk, f)
  BY Zenon DEF FilesIncluded, IncludesOf
<1>2. \A S : Closure(S) = ClosureOn(disk, S)
  BY Zenon DEF Closure, ClosureOn, FilesIncluded, IncludesOf, Files
<1> QED BY <1>1, <1>2 DEF IncludesItself

\* What several files lead to, one of them leads to.
LEMMA ClosureOfUnion ==
  ASSUME NEW d, Sound(d), NEW S, S \subseteq Files
  PROVE  ClosureOn(d, S) \subseteq UNION {ClosureOn(d, {f}) : f \in S}
<1> DEFINE L == UNION {ClosureOn(d, {f}) : f \in S}
<1>1. \A f \in S : ClosureFacts(d, {f})
  <2> TAKE f \in S
  <2>1. {f} \subseteq Files
    OBVIOUS
  <2> QED BY <2>1, ClosureIs
<1>2. S \subseteq L
  BY <1>1 DEF ClosureFacts
<1>3. Follow(d, L)
  <2> SUFFICES ASSUME NEW f \in S, NEW h \in ClosureOn(d, {f})
               PROVE  IncludesOf(d, h) \subseteq L
    BY DEF Follow
  <2>1. IncludesOf(d, h) \subseteq ClosureOn(d, {f})
    BY <1>1 DEF ClosureFacts, Follow
  <2> QED BY <2>1
<1> HIDE DEF L
<1>4. ClosureFacts(d, S)
  BY ClosureIs
<1> QED BY <1>2, <1>3, <1>4, Zenon DEF ClosureFacts, L

\* A file is good when those it includes are: it leads to nothing else but itself,
\* and to itself only if one of them did.
LEMMA GoodIfIncludesAre ==
  ASSUME NEW d, Sound(d), NEW f \in Files, \A h \in IncludesOf(d, f) : Good(d, h)
  PROVE  Good(d, f)
<1> DEFINE I == IncludesOf(d, f)
           C == UNION {ClosureOn(d, {h}) : h \in I}
<1>1. I \subseteq Files /\ {f} \subseteq Files
  BY IncludesAreFiles
<1>2. ClosureOn(d, I) \subseteq C
  BY <1>1, ClosureOfUnion
<1>3. \A h \in I : ClosureFacts(d, {h})
  <2> TAKE h \in I
  <2>1. {h} \subseteq Files
    BY <1>1
  <2> QED BY <2>1, ClosureIs
<1>4. ClosureOn(d, {f}) \subseteq {f} \cup C
  <2> DEFINE L == {f} \cup C
  <2>1. {f} \subseteq L /\ Follow(d, L)
    <3>1. IncludesOf(d, f) \subseteq C
      <4>1. \A h \in I : h \in ClosureOn(d, {h})
        BY <1>3 DEF ClosureFacts
      <4> HIDE DEF I
      <4>2. I \subseteq C
        BY <4>1
      <4> QED
        BY <4>2 DEF I
    <3>2. ASSUME NEW h \in I, NEW k \in ClosureOn(d, {h})
          PROVE  IncludesOf(d, k) \subseteq C
      <4>1. IncludesOf(d, k) \subseteq ClosureOn(d, {h})
        BY <1>3 DEF ClosureFacts, Follow
      <4> QED BY <4>1
    <3>3. \A k \in C : IncludesOf(d, k) \subseteq C
      BY <3>2
    <3> HIDE DEF C, I
    <3> QED BY <3>1, <3>3 DEF Follow, I
  <2> HIDE DEF L
  <2>2. ClosureOn(d, {f}) \subseteq L
    BY <1>1, <2>1, ClosureIs DEF ClosureFacts
  <2> QED BY <2>2 DEF L
<1>5. \A h \in C : h \notin ClosureOn(d, IncludesOf(d, h))
  BY DEF Good
<1>6. f \notin ClosureOn(d, I)
  BY <1>2, <1>5
<1> QED BY <1>4, <1>5, <1>6 DEF Good

-----------------------------------------------------------------------------
(* What is known of a file while it is open: every line read led to a file *)
(* that is good, but for the inclusion that is open above it.              *)
LineOf(d, b, k) == d[File[b.name]][k]

OpenFile(d, b) == /\ b.name \in Names /\ File[b.name] # NoFile
                  /\ b.at \in 0..Len(d[File[b.name]])

LeadsTo(d, b, above) ==
  /\ b.at > 0 /\ LineOf(d, b, b.at).is = "include" /\ LineOf(d, b, b.at).name = above.name

ReadGood(d, b, n) ==
  \A k \in 1..n : LineOf(d, b, k).is = "include" => Good(d, File[LineOf(d, b, k).name])

Chain(d, q) ==
  /\ \A i \in 1..Len(q) : OpenFile(d, q[i])
  /\ \A i \in 1..(Len(q) - 1) : LeadsTo(d, q[i], q[i + 1]) /\ ReadGood(d, q[i], q[i].at - 1)
  /\ q # <<>> => ReadGood(d, Top(q), Top(q).at)

PlanInv ==
  /\ Sound(disk)
  /\ IsSeq(plan) /\ \A i \in DOMAIN plan : plan[i].sources \in Seq(Names)
  /\ step \in DOMAIN plan

SourcesGood(i, n) == \A j \in 1..n : Good(disk, File[plan[i].sources[j]])

Emitting == {"temps", "place", "expose", "local", "load", "update", "values", "assemble"}

SourceInv ==
  /\ source \in 0..Len(Args.sources)
  /\ phase = "reading" =>
       source > 0 /\ buffers # <<>> /\ buffers[1].name = Args.sources[source]
  /\ phase \in Emitting => source = Len(Args.sources)
  /\ SourcesGood(step, IF phase \in {"reading", "failed"} THEN source - 1 ELSE source)

PastInv ==
  \A i \in DOMAIN plan :
    i < step \/ phase = "done" => SourcesGood(i, Len(plan[i].sources))

OutcomeInv ==
  /\ phase # "failed" => outcome # "circular"
  /\ outcome = "circular" =>
       \E f \in ClosureOn(disk, SourcesOf(step)) : f \in ClosureOn(disk, IncludesOf(disk, f))

IncludeInv == PlanInv /\ Chain(disk, buffers) /\ SourceInv /\ PastInv /\ OutcomeInv

LEMMA LeadsIncludes ==
  ASSUME NEW d, Sound(d), NEW b, OpenFile(d, b), NEW k \in 1..Len(d[File[b.name]]),
         LineOf(d, b, k).is = "include"
  PROVE  File[LineOf(d, b, k).name] \in IncludesOf(d, File[b.name])
<1>1. DOMAIN d[File[b.name]] = 1..Len(d[File[b.name]])
  BY DomainOfSeq DEF Sound, OpenFile
<1> QED BY <1>1 DEF IncludesOf, LineOf, OpenFile

\* A file of which every line was read is good.
LEMMA GoodAtTheEnd ==
  ASSUME NEW d, Sound(d), NEW b, OpenFile(d, b), b.at >= Len(d[File[b.name]]),
         ReadGood(d, b, b.at)
  PROVE  Good(d, File[b.name])
<1> DEFINE f == File[b.name]
<1>1. f \in Files /\ f # NoFile /\ IsSeq(d[f])
  BY DEF OpenFile, Files, Sound
<1>2. DOMAIN d[f] = 1..Len(d[f]) /\ Len(d[f]) \in Nat /\ b.at = Len(d[f])
  BY <1>1, DomainOfSeq DEF OpenFile
<1>3. \A h \in IncludesOf(d, f) : Good(d, h)
  BY <1>1, <1>2 DEF IncludesOf, ReadGood, LineOf
<1> HIDE DEF f
<1>4. Good(d, f)
  BY <1>1, <1>3, GoodIfIncludesAre
<1> QED BY <1>4 DEF f

\* From an open file of a set the inclusions lead up to those above it.
LEMMA ChainLeads ==
  ASSUME NEW d, Sound(d), NEW q, Len(q) \in Nat, Chain(d, q), NEW C, Follow(d, C),
         NEW i \in 1..Len(q), File[q[i].name] \in C
  PROVE  File[Top(q).name] \in C
<1> DEFINE n == Len(q)
           T == {k \in 0..n : k >= i => File[q[k].name] \in C}
<1>1. 0 \in T
  OBVIOUS
<1>2. ASSUME NEW k \in 0..n, k \in T, k < n
      PROVE  k + 1 \in T
  <2>1. CASE k + 1 = i
    BY <2>1
  <2>2. CASE k + 1 > i
    <3>1. k \in 1..(n - 1) /\ k \in 1..n /\ File[q[k].name] \in C
      BY <1>2, <2>2
    <3>2. OpenFile(d, q[k]) /\ LeadsTo(d, q[k], q[k + 1])
      BY <3>1 DEF Chain
    <3>3. q[k].at \in 1..Len(d[File[q[k].name]])
      BY <3>2 DEF OpenFile, LeadsTo
    <3>4. File[LineOf(d, q[k], q[k].at).name] \in IncludesOf(d, File[q[k].name])
      BY <3>2, <3>3, LeadsIncludes DEF LeadsTo
    <3>5. File[q[k + 1].name] \in C
      BY <3>1, <3>2, <3>4 DEF Follow, LeadsTo
    <3> QED BY <1>2, <3>5
  <2>3. CASE k + 1 < i
    BY <1>2, <2>3
  <2> QED BY <1>2, <2>1, <2>2, <2>3
<1> HIDE DEF T
<1>3. 0..n \subseteq T
  BY <1>1, <1>2, Induct
<1> QED BY <1>3 DEF T, Top

\* An inclusion of what is open already closes a circle, which leads from the source.
LEMMA CircleFound ==
  ASSUME NEW d, Sound(d), NEW q, Len(q) \in Nat, q # <<>>, Chain(d, q),
         NEW i \in 1..Len(q), NEW name, File[name] = File[q[i].name],
         File[name] \in IncludesOf(d, File[Top(q).name]),
         NEW S, S \subseteq Files, File[q[1].name] \in S
  PROVE  /\ File[name] \in ClosureOn(d, S)
         /\ File[name] \in ClosureOn(d, IncludesOf(d, File[name]))
<1> DEFINE f == File[name]
           n == Len(q)
           I == IncludesOf(d, f)
<1>1. \A k \in 1..n : File[q[k].name] \in Files
  BY DEF Chain, OpenFile, Files
<1>2. I \subseteq Files
  BY <1>1, IncludesAreFiles
<1>3. ClosureFacts(d, S) /\ ClosureFacts(d, I)
  BY <1>2, ClosureIs
<1>4. f \in ClosureOn(d, S)
  <2>1. 1 \in 1..n /\ File[q[1].name] \in ClosureOn(d, S)
    BY <1>3 DEF ClosureFacts
  <2>2. File[Top(q).name] \in ClosureOn(d, S)
    BY <1>3, <2>1, ChainLeads DEF ClosureFacts
  <2> QED BY <1>3, <2>2 DEF ClosureFacts, Follow
<1>5. f \in ClosureOn(d, I)
  <2>1. CASE i = n
    BY <1>3, <2>1 DEF ClosureFacts, Top
  <2>2. CASE i # n
    <3>1. i \in 1..(n - 1) /\ i + 1 \in 1..n
      BY <2>2
    <3>2. OpenFile(d, q[i]) /\ LeadsTo(d, q[i], q[i + 1])
      BY <3>1 DEF Chain
    <3>3. q[i].at \in 1..Len(d[File[q[i].name]])
      BY <3>2 DEF OpenFile, LeadsTo
    <3>4. File[q[i + 1].name] \in I
      BY <3>2, <3>3, LeadsIncludes DEF LeadsTo
    <3>5. File[Top(q).name] \in ClosureOn(d, I)
      BY <1>3, <3>1, <3>4, ChainLeads DEF ClosureFacts
    <3> QED BY <1>3, <3>5 DEF ClosureFacts, Follow
  <2> QED BY <2>1, <2>2
<1> QED BY <1>4, <1>5

\* A sequence of open files whose file on top has read one more line.
Advances(d, q, a) ==
  LET n == Len(q)
  IN  /\ Len(a) = n /\ \A i \in 1..(n - 1) : a[i] = q[i]
      /\ a[n] = [name |-> q[n].name, at |-> q[n].at + 1]
      /\ q[n].at < Len(d[File[q[n].name]])

ChainBelow(d, q) ==
  LET n == Len(q)
  IN  /\ \A i \in 1..n : OpenFile(d, q[i])
      /\ \A i \in 1..(n - 1) : LeadsTo(d, q[i], q[i + 1]) /\ ReadGood(d, q[i], q[i].at - 1)
      /\ ReadGood(d, q[n], q[n].at - 1)

LEMMA ChainAdvanced ==
  ASSUME NEW d, NEW q, Len(q) \in Nat, Len(q) > 0, Chain(d, q), NEW a, Advances(d, q, a)
  PROVE  ChainBelow(d, a)
<1> DEFINE n == Len(q)
<1> USE DEF Advances
<1>1. n \in 1..n /\ OpenFile(d, q[n]) /\ ReadGood(d, q[n], q[n].at)
  BY DEF Chain, Top
<1>2. a[n].name = q[n].name /\ a[n].at = q[n].at + 1 /\ q[n].at \in Nat
  BY <1>1 DEF OpenFile
<1>3. OpenFile(d, a[n])
  <2>1. q[n].at \in 0..Len(d[File[q[n].name]])
    BY <1>1 DEF OpenFile
  <2>2. q[n].at + 1 \in 0..Len(d[File[q[n].name]])
    BY <2>1
  <2> QED BY <1>1, <1>2, <2>2 DEF OpenFile
<1>4. \A k : LineOf(d, a[n], k) = LineOf(d, q[n], k)
  BY <1>2 DEF LineOf
<1>5. ReadGood(d, a[n], a[n].at - 1)
  <2>1. a[n].at - 1 = q[n].at
    BY <1>2
  <2> QED BY <1>1, <1>4, <2>1 DEF ReadGood
<1>6. \A i \in 1..n : OpenFile(d, a[i])
  <2> TAKE i \in 1..n
  <2>1. i = n \/ i \in 1..(n - 1)
    OBVIOUS
  <2> QED BY <1>3, <2>1 DEF Chain
<1>7. \A i \in 1..(n - 1) : LeadsTo(d, a[i], a[i + 1]) /\ ReadGood(d, a[i], a[i].at - 1)
  <2> TAKE i \in 1..(n - 1)
  <2>1. i + 1 = n \/ i + 1 \in 1..(n - 1)
    OBVIOUS
  <2>2. a[i] = q[i] /\ a[i + 1].name = q[i + 1].name
    BY <1>2, <2>1
  <2>3. LeadsTo(d, q[i], q[i + 1]) /\ ReadGood(d, q[i], q[i].at - 1)
    BY DEF Chain
  <2> QED BY <2>2, <2>3 DEF LeadsTo
<1> QED BY <1>5, <1>6, <1>7 DEF ChainBelow

LEMMA ChainStep ==
  ASSUME PlanInv, ReaderInv, Chain(disk, buffers), source \in 0..Len(Args.sources),
         [Next]_vars
  PROVE  Chain(disk, buffers')
<1> DEFINE n == Len(buffers)
<1>1. ReaderStep /\ Sound(disk)
  BY ReaderSteps DEF PlanInv
<1>2. IsSeq(buffers) /\ n \in Nat /\ (buffers = <<>> <=> n = 0)
  BY DomainOfSeq DEF ReaderInv
<1>3. buffers' = <<>> => Chain(disk, buffers')
  BY EmptyIsSeq DEF Chain
<1>4. CASE source < Len(Args.sources) /\ OpenFirstFile(Args.sources[source + 1])
  <2> DEFINE name == Args.sources[source + 1]
             one == [name |-> name, at |-> 0]
  <2>1. name \in Names
    <3>1. Args.sources \in Seq(Names)
      BY DEF PlanInv, Args
    <3>2. source + 1 \in 1..Len(Args.sources)
      BY <1>4, <3>1
    <3> QED BY <3>1, <3>2
  <2>2. File[name] # NoFile /\ buffers' = <<one>>
    BY <1>4 DEF OpenFirstFile
  <2> HIDE DEF name
  <2>3. IsSeq(disk[File[name]])
    BY <1>1, <2>1, <2>2 DEF Sound
  <2>4. OpenFile(disk, one) /\ ReadGood(disk, one, one.at)
    <3>1. 0 \in 0..Len(disk[File[name]])
      BY <2>3, DomainOfSeq
    <3> QED BY <2>1, <2>2, <3>1 DEF OpenFile, ReadGood
  <2> HIDE DEF one
  <2>5. Len(buffers') = 1 /\ buffers'[1] = one
    BY <2>2, OneIsSeq
  <2> QED BY <2>4, <2>5 DEF Chain, Top
<1>5. CASE ReadDefinition \/ OpenIncludeFile
  <2>1. buffers # <<>> /\ Unread
    BY <1>5 DEF ReadDefinition, OpenIncludeFile
  <2>2. n > 0 /\ Top(buffers) = buffers[n]
    BY <1>2, <2>1 DEF Top
  <2>3. /\ IsSeq(Advanced) /\ Len(Advanced) = n
        /\ \A i \in 1..(n - 1) : Advanced[i] = buffers[i]
        /\ Advanced[n] = [name |-> buffers[n].name, at |-> buffers[n].at + 1]
    BY <2>1, AdvancedIs
  <2>4. buffers[n].at < Len(disk[File[buffers[n].name]])
    BY <2>1, <2>2 DEF Unread
  <2>5. /\ \A i \in 1..n : OpenFile(disk, Advanced[i])
        /\ \A i \in 1..(n - 1) : LeadsTo(disk, Advanced[i], Advanced[i + 1])
                                   /\ ReadGood(disk, Advanced[i], Advanced[i].at - 1)
        /\ ReadGood(disk, Advanced[n], Advanced[n].at - 1)
    <3>1. Advances(disk, buffers, Advanced)
      BY <2>3, <2>4 DEF Advances
    <3>2. ChainBelow(disk, Advanced)
      BY <1>2, <2>2, <3>1, ChainAdvanced, Zenon
    <3> QED BY <2>3, <3>2, Zenon DEF ChainBelow
  <2>6. buffers[n].at \in Nat /\ Advanced[n].at = buffers[n].at + 1
    <3>1. n \in 1..n
      BY <1>2, <2>2
    <3>2. buffers[n].at \in Nat
      BY <3>1, Zenon DEF ReaderInv
    <3> QED BY <2>3, <3>2
  <2>7. LineOf(disk, Advanced[n], Advanced[n].at) = NextLine
    BY <2>2, <2>3, <2>6 DEF LineOf, NextLine
  <2>8. CASE ReadDefinition
    <3>1. buffers' = Advanced /\ NextLine.is # "include"
      BY <2>8 DEF ReadDefinition
    <3>2. ReadGood(disk, Advanced[n], Advanced[n].at)
      <4>1. \A k \in 1..Advanced[n].at : k \in 1..(Advanced[n].at - 1) \/ k = Advanced[n].at
        BY <2>6
      <4> QED BY <2>5, <2>7, <3>1, <4>1 DEF ReadGood
    <3> QED BY <2>3, <2>5, <3>1, <3>2 DEF Chain, Top
  <2>9. CASE OpenIncludeFile
    <3> DEFINE opened == [name |-> NextLine.name, at |-> 0]
    <3>1. /\ buffers' = Append(Advanced, opened) /\ NextLine.is = "include"
          /\ File[NextLine.name] # NoFile
      BY <2>9 DEF OpenIncludeFile
    <3>2. NextLine.name \in Names
      <4>1. buffers[n].name \in Names /\ File[buffers[n].name] # NoFile
        BY <1>2, <2>2 DEF Chain, OpenFile
      <4>2. /\ IsSeq(disk[File[buffers[n].name]])
            /\ \A line \in Range(disk[File[buffers[n].name]]) :
                 line.is = "include" => line.name \in Names
        BY <1>1, <4>1 DEF Sound
      <4>3. buffers[n].at + 1 \in DOMAIN disk[File[buffers[n].name]]
        BY <2>4, <2>6, <4>2, DomainOfSeq
      <4>4. NextLine \in Range(disk[File[buffers[n].name]])
        BY <2>2, <4>3 DEF NextLine, Range
      <4> QED BY <3>1, <4>2, <4>4
    <3>3. OpenFile(disk, opened) /\ ReadGood(disk, opened, opened.at)
      <4>1. IsSeq(disk[File[NextLine.name]])
        BY <1>1, <3>1, <3>2 DEF Sound
      <4>2. 0 \in 0..Len(disk[File[NextLine.name]])
        BY <4>1, DomainOfSeq
      <4> QED BY <3>1, <3>2, <4>2 DEF OpenFile, ReadGood
    <3>4. LeadsTo(disk, Advanced[n], opened)
      BY <2>6, <2>7, <3>1 DEF LeadsTo
    <3> HIDE DEF opened
    <3>5. /\ Len(buffers') = n + 1 /\ buffers'[n + 1] = opened
          /\ \A i \in 1..n : buffers'[i] = Advanced[i]
      BY <2>3, <3>1, AppendIsSeq
    <3>6. \A i \in 1..(n + 1) : OpenFile(disk, buffers'[i])
      <4>1. \A i \in 1..(n + 1) : i \in 1..n \/ i = n + 1
        BY <1>2
      <4> QED BY <2>5, <3>3, <3>5, <4>1
    <3>7. \A i \in 1..n : LeadsTo(disk, buffers'[i], buffers'[i + 1])
                            /\ ReadGood(disk, buffers'[i], buffers'[i].at - 1)
      <4> TAKE i \in 1..n
      <4>1. CASE i = n
        BY <2>5, <3>4, <3>5, <4>1
      <4>2. CASE i # n
        <5>1. i \in 1..(n - 1) /\ i + 1 \in 1..n
          BY <4>2
        <5> QED BY <2>5, <3>5, <5>1
      <4> QED BY <4>1, <4>2
    <3>8. (n + 1) - 1 = n
      BY <1>2
    <3> QED BY <3>3, <3>5, <3>6, <3>7, <3>8 DEF Chain, Top
  <2> QED BY <1>5, <2>8, <2>9
<1>6. CASE CloseIncludeFile
  <2>1. n > 1 /\ ~Unread /\ buffers' = Popped(buffers)
    BY <1>6 DEF CloseIncludeFile
  <2>2. /\ Len(buffers') = n - 1
        /\ \A i \in 1..(n - 1) : buffers'[i] = buffers[i]
    BY <1>2, <2>1, PoppedIsSeq
  <2>3. /\ n - 1 \in 1..n /\ n - 1 \in 1..(n - 1) /\ n \in 1..n /\ (n - 1) + 1 = n
        /\ buffers # <<>> /\ Top(buffers) = buffers[n]
    BY <1>2, <2>1 DEF Top
  <2>4. Good(disk, File[buffers[n].name])
    <3>1. OpenFile(disk, buffers[n]) /\ ReadGood(disk, buffers[n], buffers[n].at)
      BY <2>3 DEF Chain
    <3>2. IsSeq(disk[File[buffers[n].name]])
      BY <1>1, <3>1 DEF Sound, OpenFile
    <3>3. buffers[n].at >= Len(disk[File[buffers[n].name]])
      BY <2>1, <2>3, <3>1, <3>2, DomainOfSeq DEF Unread, OpenFile
    <3> QED BY <1>1, <3>1, <3>3, GoodAtTheEnd
  <2> DEFINE b == buffers[n - 1]
  <2>5. LeadsTo(disk, b, buffers[n]) /\ ReadGood(disk, b, b.at - 1) /\ OpenFile(disk, b)
    BY <2>3 DEF Chain
  <2>6. ReadGood(disk, b, b.at)
    <3>1. b.at \in Nat
      BY <2>5 DEF OpenFile
    <3>2. \A k \in 1..b.at : k \in 1..(b.at - 1) \/ k = b.at
      BY <3>1
    <3> HIDE DEF b
    <3> QED BY <2>4, <2>5, <3>2 DEF ReadGood, LeadsTo
  <2>7. \A i \in 1..(n - 1) : i \in 1..n
    OBVIOUS
  <2>8. \A i \in 1..((n - 1) - 1) : i \in 1..(n - 1) /\ i + 1 \in 1..(n - 1)
    BY <1>2
  <2> HIDE DEF n
  <2>9. \A i \in 1..(n - 1) : OpenFile(disk, buffers'[i])
    BY <2>2, <2>7 DEF Chain, n
  <2>10. \A i \in 1..((n - 1) - 1) : LeadsTo(disk, buffers'[i], buffers'[i + 1])
                                 /\ ReadGood(disk, buffers'[i], buffers'[i].at - 1)
    BY <2>2, <2>8, Zenon DEF Chain, n
  <2> QED BY <2>2, <2>3, <2>6, <2>9, <2>10 DEF Chain, Top
<1>7. CASE CloseFirstFile \/ Reset
  BY <1>3, <1>7 DEF CloseFirstFile, Reset
<1>8. CASE UNCHANGED readerVars
  BY <1>8 DEF readerVars
<1> QED BY <1>1, <1>4, <1>5, <1>6, <1>7, <1>8 DEF ReaderStep

\* How a step takes part in the plan.
Opens    == /\ phase = "source" /\ source < Len(Args.sources)
            /\ OpenFirstFile(Args.sources[source + 1])
            /\ phase' = "reading" /\ source' = source + 1 /\ outcome' = outcome /\ step' = step
Reads    == /\ phase = "reading" /\ phase' = phase
            /\ ReadDefinition \/ OpenIncludeFile \/ CloseIncludeFile
            /\ source' = source /\ outcome' = outcome /\ step' = step
Ends     == /\ phase = "reading" /\ phase' = "source" /\ CloseFirstFile
            /\ source' = source /\ outcome' = outcome /\ step' = step
Fails    == /\ phase \notin {"failed", "done"} /\ phase' = "failed"
            /\ \/ outcome' # "circular"
               \/ phase = "reading" /\ CircularInclude
            /\ source' = source /\ step' = step
GoesOn   == /\ phase' \in Emitting
            /\ \/ phase \in Emitting
               \/ phase = "source" /\ source = Len(Args.sources)
            /\ source' = source /\ outcome' = outcome /\ step' = step
Finishes == phase \in Emitting /\ Succeed

LEMMA PlanSteps ==
  ASSUME [Next]_vars
  PROVE  /\ disk' = disk /\ plan' = plan
         /\ Opens \/ Reads \/ Ends \/ Fails \/ GoesOn \/ Finishes \/ UNCHANGED vars
<1> USE DEF planVars, outVars
<1>0. ASSUME NEW why, Fail(why)
      PROVE  /\ disk' = disk /\ plan' = plan /\ step' = step /\ source' = source
             /\ phase' = "failed" /\ outcome' = why
  BY <1>0 DEF Fail
<1>1. CASE OpenSource
  BY <1>1 DEF OpenSource, Opens
<1>2. CASE ReadLine \/ Include \/ EndInclude
  BY <1>2 DEF ReadLine, Include, EndInclude, Reads
<1>3. CASE EndSource
  BY <1>3 DEF EndSource, Ends
<1>4. CASE SourceMissing \/ IncludeFails \/ EndSourceFails \/ AllocationFails
  BY <1>0, <1>4 DEF SourceMissing, IncludeFails, EndSourceFails, AllocationFails, Fails
<1>5. CASE Check
  BY <1>0, <1>5 DEF Check, Fails, GoesOn, Emitting
<1>6. CASE Allocate \/ EnsureTempsUsage
  <2>1. CASE Allocate
    BY <2>1 DEF Allocate, GoesOn, Emitting
  <2>2. CASE EnsureTempsUsage
    <3>1. /\ phase = "temps"
          /\ \/ phase' = "place" /\ UNCHANGED <<planVars, source, outVars>>
             \/ Fail("temporaries")
      BY <2>2, Zenon DEF EnsureTempsUsage
    <3> QED BY <1>0, <3>1 DEF Fails, GoesOn, Emitting
  <2> QED BY <1>6, <2>1, <2>2
<1>7. CASE PlaceFunction \/ PlaceShared \/ PlaceConstant \/ EndPlacing
  BY <1>7 DEF PlaceFunction, PlaceShared, PlaceConstant, EndPlacing, GoesOn, Emitting
<1>8. CASE ExposeGlobalLabels \/ AssignValuesToLocalLabels \/ LoadObj
  BY <1>0, <1>8 DEF ExposeGlobalLabels, AssignValuesToLocalLabels, LoadObj, Fails, GoesOn,
                    Emitting
<1>9. CASE LoadFails \/ Link
  <2>1. CASE LoadFails
    <3>1. phase = "load" /\ \E why \in {"unreadable", "duplicate"} : Fail(why)
      BY <2>1 DEF LoadFails
    <3> QED BY <1>0, <3>1 DEF Fails
  <2>2. CASE Link
    <3>1. /\ phase = "load"
          /\ \/ phase' = "place" /\ UNCHANGED <<planVars, source, outVars>>
             \/ Fail("prototypes")
      BY <2>2, Zenon DEF Link
    <3> QED BY <1>0, <3>1 DEF Fails, GoesOn, Emitting
  <2> QED BY <1>9, <2>1, <2>2
<1>10. CASE UpdateFunctionLabels \/ AssignValuesToLabels
  BY <1>0, <1>10 DEF UpdateFunctionLabels, AssignValuesToLabels, Fails, GoesOn, Emitting
<1>11. CASE SaveObj \/ Assemble
  BY <1>11 DEF SaveObj, Assemble, Finishes, Succeed, Emitting
<1>12. CASE Finished \/ UNCHANGED vars
  BY <1>12 DEF Finished, vars
<1> QED
  BY <1>1, <1>2, <1>3, <1>4, <1>5, <1>6, <1>7, <1>8, <1>9, <1>10, <1>11, <1>12 DEF Next

\* The source that was read to its end is good: what it includes was read before it.
LEMMA SourceEnds ==
  ASSUME IncludeInv, ReaderInv, phase = "reading", CloseFirstFile
  PROVE  Good(disk, File[Args.sources[source]])
<1>1. Len(buffers) = 1 /\ ~Unread
  BY DEF CloseFirstFile
<1>2. IsSeq(buffers) /\ buffers # <<>> /\ buffers[1].name = Args.sources[source]
  BY DEF IncludeInv, SourceInv, ReaderInv
<1>3. Top(buffers) = buffers[1]
  BY <1>1 DEF Top
<1>4. OpenFile(disk, buffers[1]) /\ ReadGood(disk, buffers[1], buffers[1].at)
  BY <1>1, <1>2, <1>3 DEF IncludeInv, Chain
<1>5. Sound(disk) /\ IsSeq(disk[File[buffers[1].name]])
  BY <1>4 DEF IncludeInv, PlanInv, Sound, OpenFile
<1>6. buffers[1].at >= Len(disk[File[buffers[1].name]])
  BY <1>1, <1>3, <1>4, <1>5, DomainOfSeq DEF Unread, OpenFile
<1> QED BY <1>2, <1>4, <1>5, <1>6, GoodAtTheEnd

\* What is reported is there.
LEMMA CircleIsThere ==
  ASSUME IncludeInv, ReaderInv, phase = "reading", CircularInclude
  PROVE  \E f \in ClosureOn(disk, SourcesOf(step)) : f \in ClosureOn(disk, IncludesOf(disk, f))
<1> DEFINE n == Len(buffers)
           name == NextLine.name
           S == SourcesOf(step)
<1>1. /\ buffers # <<>> /\ Unread /\ NextLine.is = "include"
      /\ File[name] # NoFile /\ IsInParents(name)
  BY DEF CircularInclude
<1>2. IsSeq(buffers) /\ n \in Nat /\ n > 0 /\ Top(buffers) = buffers[n]
  BY <1>1, DomainOfSeq DEF ReaderInv, Top
<1>3. Sound(disk) /\ Chain(disk, buffers) /\ n \in 1..n
  BY <1>2 DEF IncludeInv, PlanInv
<1>4. PICK i \in 1..n : File[name] = File[buffers[i].name]
  <2>1. IsSeq(nodes) /\ Len(nodes) = n
    BY <1>1 DEF ReaderInv
  <2>2. PICK i \in DOMAIN nodes : nodes[i].name = name
    BY <1>1 DEF IsInParents
  <2>3. i \in 1..n
    BY <2>1, <2>2, DomainOfSeq
  <2>4. nodes[i].name = buffers[i].name
    BY <1>1, <2>1, <2>3, Zenon DEF ReaderInv
  <2> QED BY <2>2, <2>3, <2>4
<1>5. File[name] \in IncludesOf(disk, File[Top(buffers).name])
  <2>1. OpenFile(disk, buffers[n]) /\ buffers[n].at \in Nat
    BY <1>3 DEF Chain, OpenFile
  <2>2. buffers[n].at < Len(disk[File[buffers[n].name]])
    BY <1>1, <1>2 DEF Unread
  <2>3. IsSeq(disk[File[buffers[n].name]])
    BY <1>3, <2>1 DEF Sound, OpenFile
  <2>4. buffers[n].at + 1 \in 1..Len(disk[File[buffers[n].name]])
    BY <2>1, <2>2, <2>3, DomainOfSeq
  <2>5. NextLine = LineOf(disk, buffers[n], buffers[n].at + 1)
    BY <1>2 DEF NextLine, LineOf
  <2> QED BY <1>1, <1>2, <1>3, <2>1, <2>4, <2>5, LeadsIncludes
<1>6. S \subseteq Files /\ File[buffers[1].name] \in S
  <2>1. plan[step].sources \in Seq(Names)
    BY DEF IncludeInv, PlanInv
  <2>2. Range(plan[step].sources) \subseteq Names
    BY <2>1 DEF Range
  <2>3. source \in DOMAIN plan[step].sources /\ buffers[1].name = plan[step].sources[source]
    BY <2>1 DEF IncludeInv, SourceInv, Args
  <2> QED BY <2>2, <2>3 DEF SourcesOf, Files, Range
<1> HIDE DEF name, S
<1>7. /\ File[name] \in ClosureOn(disk, S)
      /\ File[name] \in ClosureOn(disk, IncludesOf(disk, File[name]))
  BY <1>1, <1>2, <1>3, <1>4, <1>5, <1>6, CircleFound
<1> QED BY <1>7 DEF S

LEMMA IncludeInit == Init => IncludeInv
<1> SUFFICES ASSUME Init PROVE IncludeInv
  OBVIOUS
<1>1. PICK build \in Builds : disk = build.disk /\ plan = build.plan
  BY DEF Init
<1>2. /\ IsSeq(plan) /\ plan # <<>>
      /\ \A i \in DOMAIN plan : plan[i].sources \in Seq(Names)
  BY <1>1, VasmAssumption DEF IsSeq, Range
<1>3. Sound(disk)
  BY <1>1, VasmAssumption DEF Sound, IsSeq
<1>4. step = 1 /\ phase = "source" /\ source = 0 /\ buffers = <<>> /\ outcome = "none"
  BY DEF Init
<1>5. PlanInv
  BY <1>2, <1>3, <1>4, DomainOfSeq DEF PlanInv
<1>6. Chain(disk, buffers)
  BY <1>4, EmptyIsSeq DEF Chain
<1>7. SourceInv
  <2>1. Len(plan[1].sources) \in Nat
    BY <1>2, <1>4, <1>5 DEF PlanInv
  <2> QED BY <1>4, <2>1 DEF SourceInv, Args, SourcesGood, Emitting
<1>8. PastInv
  <2>1. \A i \in DOMAIN plan : ~(i < step)
    BY <1>2, <1>4, DomainOfSeq
  <2> QED BY <1>4, <2>1 DEF PastInv
<1> QED BY <1>4, <1>5, <1>6, <1>7, <1>8 DEF IncludeInv, OutcomeInv

LEMMA IncludeStep ==
  ASSUME IncludeInv, ReaderInv, [Next]_vars
  PROVE  IncludeInv'
<1>1. /\ disk' = disk /\ plan' = plan
      /\ Opens \/ Reads \/ Ends \/ Fails \/ GoesOn \/ Finishes \/ UNCHANGED vars
  BY PlanSteps
<1>2. /\ IsSeq(plan) /\ DOMAIN plan = 1..Len(plan) /\ Len(plan) \in Nat /\ step \in 1..Len(plan)
      /\ Len(Args.sources) \in Nat /\ source \in 0..Len(Args.sources)
  BY DomainOfSeq DEF IncludeInv, PlanInv, SourceInv, Args
<1>3. Chain(disk, buffers)'
  BY <1>1, ChainStep DEF IncludeInv, SourceInv
<1>4. \A i, n : SourcesGood(i, n)' <=> SourcesGood(i, n)
  BY <1>1, Zenon DEF SourcesGood
<1>5. (Sound(disk) /\ IsSeq(plan) /\ \A i \in DOMAIN plan : plan[i].sources \in Seq(Names))'
  BY <1>1 DEF IncludeInv, PlanInv
<1>6. ASSUME step' = step
      PROVE  PlanInv' /\ Args' = Args
  BY <1>1, <1>5, <1>6 DEF IncludeInv, PlanInv, Args
<1>7. SourcesOf(step)' = SourcesOf(step) \/ step' # step
  BY <1>1 DEF SourcesOf
<1>8. CASE Opens
  <2>1. /\ phase = "source" /\ phase' = "reading" /\ source' = source + 1
        /\ source < Len(Args.sources)
        /\ step' = step /\ outcome' = outcome
        /\ buffers' = <<[name |-> Args.sources[source + 1], at |-> 0]>>
    BY <1>8 DEF Opens, OpenFirstFile
  <2>2. Len(buffers') = 1 /\ buffers'[1].name = Args.sources[source']
    BY <2>1, OneIsSeq
  <2>3. SourceInv'
    <3>1. buffers' # <<>>
      BY <2>2, EmptyIsSeq
    <3>2. SourcesGood(step, source)
      BY <2>1 DEF IncludeInv, SourceInv
    <3>3. source' \in 0..Len(Args.sources) /\ source' > 0 /\ source' - 1 = source
      BY <1>2, <2>1
    <3> QED BY <1>4, <1>6, <2>1, <2>2, <3>1, <3>2, <3>3 DEF SourceInv, Emitting
  <2>4. PastInv'
    BY <1>1, <1>4, <2>1 DEF IncludeInv, PastInv
  <2>5. OutcomeInv'
    BY <2>1 DEF IncludeInv, OutcomeInv
  <2> QED BY <1>3, <1>6, <2>1, <2>3, <2>4, <2>5 DEF IncludeInv
<1>9. CASE Reads
  <2>1. /\ phase = "reading" /\ phase' = phase /\ source' = source
        /\ step' = step /\ outcome' = outcome
        /\ ReadDefinition \/ OpenIncludeFile \/ CloseIncludeFile
    BY <1>9 DEF Reads
  <2>2. /\ source > 0 /\ buffers # <<>> /\ buffers[1].name = Args.sources[source]
        /\ SourcesGood(step, source - 1) /\ IsSeq(buffers)
    BY <2>1 DEF IncludeInv, SourceInv, ReaderInv
  <2>3. Len(buffers) \in Nat /\ Len(buffers) > 0
    BY <2>2, DomainOfSeq
  <2>4. Len(buffers') > 0 /\ buffers'[1].name = buffers[1].name
    <3>1. CASE ReadDefinition \/ OpenIncludeFile
      <4>1. LET n == Len(buffers)
            IN  /\ IsSeq(Advanced) /\ Len(Advanced) = n
                /\ \A i \in 1..(n - 1) : Advanced[i] = buffers[i]
                /\ Advanced[n] = [name |-> buffers[n].name, at |-> buffers[n].at + 1]
        BY <2>2, AdvancedIs
      <4>2. Advanced[1].name = buffers[1].name
        <5>1. \A m \in Nat : m > 0 => m = 1 \/ 1 \in 1..(m - 1)
          OBVIOUS
        <5>2. Len(buffers) = 1 \/ 1 \in 1..(Len(buffers) - 1)
          BY <2>3, <5>1, Zenon
        <5> QED BY <4>1, <5>2
      <4>3. CASE ReadDefinition
        BY <2>3, <4>1, <4>2, <4>3 DEF ReadDefinition
      <4>4. CASE OpenIncludeFile
        <5>1. buffers' = Append(Advanced, [name |-> NextLine.name, at |-> 0])
          BY <4>4 DEF OpenIncludeFile
        <5>2. /\ Len(buffers') = Len(Advanced) + 1
              /\ \A i \in 1..Len(Advanced) : buffers'[i] = Advanced[i]
          BY <4>1, <5>1, AppendIsSeq
        <5> QED BY <2>3, <4>1, <4>2, <5>2
      <4> QED BY <3>1, <4>3, <4>4
    <3>2. CASE CloseIncludeFile
      <4>1. Len(buffers) > 1 /\ buffers' = Popped(buffers)
        BY <3>2 DEF CloseIncludeFile
      <4>2. /\ Len(buffers') = Len(buffers) - 1
            /\ \A i \in 1..(Len(buffers) - 1) : buffers'[i] = buffers[i]
        BY <2>2, <2>3, <4>1, PoppedIsSeq
      <4> QED BY <2>3, <4>1, <4>2
    <3> QED BY <2>1, <3>1, <3>2
  <2>5. buffers' # <<>>
    BY <2>4, EmptyIsSeq
  <2>6. SourceInv'
    BY <1>2, <1>4, <1>6, <2>1, <2>2, <2>4, <2>5 DEF SourceInv, Emitting
  <2>7. PastInv' /\ OutcomeInv'
    BY <1>1, <1>4, <2>1 DEF IncludeInv, PastInv, OutcomeInv
  <2> QED BY <1>3, <1>6, <2>1, <2>6, <2>7 DEF IncludeInv
<1>10. CASE Ends
  <2>1. /\ phase = "reading" /\ phase' = "source" /\ source' = source
        /\ step' = step /\ outcome' = outcome /\ CloseFirstFile
    BY <1>10 DEF Ends
  <2>2. SourcesGood(step, source - 1) /\ Good(disk, File[plan[step].sources[source]])
    BY <2>1, SourceEnds DEF IncludeInv, SourceInv, Args
  <2>3. SourcesGood(step, source)
    <3>1. \A j \in 1..source : j \in 1..(source - 1) \/ j = source
      BY <1>2
    <3> QED BY <2>2, <3>1 DEF SourcesGood
  <2>4. SourceInv'
    BY <1>2, <1>4, <1>6, <2>1, <2>3 DEF SourceInv, Emitting
  <2>5. PastInv' /\ OutcomeInv'
    BY <1>1, <1>4, <2>1 DEF IncludeInv, PastInv, OutcomeInv
  <2> QED BY <1>3, <1>6, <2>1, <2>4, <2>5 DEF IncludeInv
<1>11. CASE Fails
  <2>1. /\ phase \notin {"failed", "done"} /\ phase' = "failed"
        /\ source' = source /\ step' = step
        /\ outcome' # "circular" \/ (phase = "reading" /\ CircularInclude)
    BY <1>11 DEF Fails
  <2>2. SourceInv'
    <3>1. SourcesGood(step, source - 1)
      BY <1>2, <2>1 DEF IncludeInv, SourceInv, SourcesGood
    <3> QED BY <1>2, <1>4, <1>6, <2>1, <3>1 DEF SourceInv, Emitting
  <2>3. PastInv'
    BY <1>1, <1>4, <2>1 DEF IncludeInv, PastInv
  <2>4. OutcomeInv'
    <3>1. CASE outcome' # "circular"
      BY <2>1, <3>1 DEF OutcomeInv
    <3>2. CASE phase = "reading" /\ CircularInclude
      <4>1. \E f \in ClosureOn(disk, SourcesOf(step)) :
              f \in ClosureOn(disk, IncludesOf(disk, f))
        BY <3>2, CircleIsThere
      <4>2. \E f \in ClosureOn(disk', SourcesOf(step)') :
              f \in ClosureOn(disk', IncludesOf(disk', f))
        BY <1>1, <1>7, <2>1, <4>1
      <4> QED BY <2>1, <4>2 DEF OutcomeInv
    <3> QED BY <2>1, <3>1, <3>2
  <2> QED BY <1>3, <1>6, <2>1, <2>2, <2>3, <2>4 DEF IncludeInv
<1>12. CASE GoesOn
  <2>1. /\ phase' \in Emitting
        /\ \/ phase \in Emitting
           \/ phase = "source" /\ source = Len(Args.sources)
        /\ source' = source /\ outcome' = outcome /\ step' = step
    BY <1>12 DEF GoesOn
  <2>2. /\ phase \notin {"reading", "failed", "done"}
        /\ phase' \notin {"reading", "failed", "done"}
        /\ source = Len(Args.sources) /\ SourcesGood(step, source)
    BY <2>1 DEF IncludeInv, SourceInv, Emitting
  <2>3. SourceInv'
    BY <1>2, <1>4, <1>6, <2>1, <2>2 DEF SourceInv
  <2>4. PastInv' /\ OutcomeInv'
    BY <1>1, <1>4, <2>1, <2>2 DEF IncludeInv, PastInv, OutcomeInv
  <2> QED BY <1>3, <1>6, <2>1, <2>3, <2>4 DEF IncludeInv
<1>13. CASE Finishes
  <2>1. /\ phase \in Emitting /\ outcome' = "ok" /\ source' = 0
        /\ step' = IF step < Len(plan) THEN step + 1 ELSE step
        /\ phase' = IF step < Len(plan) THEN "source" ELSE "done"
    BY <1>13 DEF Finishes, Succeed
  <2>2. step' \in 1..Len(plan)
    BY <1>2, <2>1
  <2>3. PlanInv'
    BY <1>1, <1>2, <1>5, <2>2 DEF PlanInv
  <2>4. Len(Args'.sources) \in Nat
    BY <2>3 DEF PlanInv, Args
  <2>5. SourceInv'
    BY <2>1, <2>4 DEF SourceInv, SourcesGood, Emitting
  <2>6. SourcesGood(step, Len(plan[step].sources))
    BY <2>1 DEF IncludeInv, SourceInv, Emitting, Args
  <2>7. PastInv'
    <3> SUFFICES ASSUME NEW i \in DOMAIN plan', i < step' \/ phase' = "done"
                 PROVE  SourcesGood(i, Len(plan[i].sources))
      BY <1>1, <1>4 DEF PastInv
    <3>1. i \in 1..Len(plan) /\ (i < step \/ i = step)
      BY <1>1, <1>2, <2>1
    <3> QED BY <1>2, <2>6, <3>1 DEF IncludeInv, PastInv
  <2>8. OutcomeInv'
    BY <2>1 DEF OutcomeInv
  <2> QED BY <1>3, <2>3, <2>5, <2>7, <2>8 DEF IncludeInv
<1>14. CASE UNCHANGED vars
  <2>1. /\ phase' = phase /\ source' = source /\ step' = step /\ outcome' = outcome
        /\ buffers' = buffers
    BY <1>14 DEF vars, planVars, readerVars, outVars
  <2>2. SourceInv'
    BY <1>4, <1>6, <2>1 DEF IncludeInv, SourceInv
  <2>3. PastInv' /\ OutcomeInv'
    BY <1>1, <1>4, <1>7, <2>1 DEF IncludeInv, PastInv, OutcomeInv
  <2> QED BY <1>3, <1>6, <2>1, <2>2, <2>3 DEF IncludeInv
<1> QED BY <1>1, <1>8, <1>9, <1>10, <1>11, <1>12, <1>13, <1>14

LEMMA IncludeAlways == Spec => [](IncludeInv /\ ReaderInv)
<1>1. IncludeInv /\ ReaderInv /\ [Next]_vars => IncludeInv'
  BY IncludeStep
<1> QED BY <1>1, IncludeInit, ReaderInvAlways, PTL DEF Spec

\* However the files of the invocations include each other and under whatever names,
\* what is reported as a circular inclusion is one, and from a file that leads to
\* itself nothing is ever compiled, linked or written to an object: the reader, which
\* compares names along the branch it is in, finds every circle of files before it is
\* at the end of the source (IncludesTree::isInParents, openIncludeFile).
THEOREM CirclesAreFound == Spec => []CircularFound
<1>1. IncludeInv => CircularFound
  <2> SUFFICES ASSUME IncludeInv PROVE CircularFound
    OBVIOUS
  <2>1. outcome = "circular" => \E f \in Closure(SourcesOf(step)) : IncludesItself(f)
    BY ClosureIsOnDisk DEF IncludeInv, OutcomeInv
  <2>2. ASSUME NEW i \in DOMAIN plan, i < step \/ phase = "done",
               NEW f \in Closure(SourcesOf(i))
        PROVE  ~IncludesItself(f)
    <3>1. SourcesGood(i, Len(plan[i].sources)) /\ plan[i].sources \in Seq(Names) /\ Sound(disk)
      BY <2>2 DEF IncludeInv, PastInv, PlanInv
    <3>2. SourcesOf(i) \subseteq Files
      BY <3>1 DEF SourcesOf, Files, Range
    <3>3. PICK h \in SourcesOf(i) : f \in ClosureOn(disk, {h})
      <4>1. f \in ClosureOn(disk, SourcesOf(i))
        BY <2>2, ClosureIsOnDisk
      <4>2. ClosureOn(disk, SourcesOf(i))
              \subseteq UNION {ClosureOn(disk, {h}) : h \in SourcesOf(i)}
        BY <3>1, <3>2, ClosureOfUnion
      <4> QED BY <4>1, <4>2
    <3>4. Good(disk, h)
      <4>1. PICK j \in DOMAIN plan[i].sources : h = File[plan[i].sources[j]]
        BY DEF SourcesOf, Range
      <4>2. j \in 1..Len(plan[i].sources)
        BY <3>1
      <4> QED BY <3>1, <4>1, <4>2 DEF SourcesGood
    <3> QED BY <3>3, <3>4, ClosureIsOnDisk DEF Good
  <2> QED BY <2>1, <2>2 DEF CircularFound
<1> QED BY <1>1, IncludeAlways, PTL

-----------------------------------------------------------------------------
(* Where rebuildOffsets puts things.                                       *)

\* A function and a datum are as big after they are placed as before.
LEMMA PlacedSize ==
  ASSUME NEW f, NEW at
  PROVE  Placed(f, at).offset = at /\ FunctionSize(Placed(f, at)) = FunctionSize(f)
<1> DEFINE placedStmts == StmtsPlaced(f)
<1>1. Placed(f, at).offset = at /\ Placed(f, at).stmts = placedStmts
  BY DEF Placed
<1>2. \A s, a : StmtSize(StmtAt(s, a)) = StmtSize(s)
  <2> SUFFICES ASSUME NEW s, NEW a PROVE StmtSize(StmtAt(s, a)) = StmtSize(s)
    OBVIOUS
  <2>1. StmtAt(s, a).op = s.op /\ StmtAt(s, a).args = s.args
    BY DEF StmtAt
  <2> QED BY <2>1, Zenon DEF StmtSize, Encoded, IsLabel
<1>3. DOMAIN placedStmts = DOMAIN f.stmts
  BY DEF StmtsPlaced
<1>4. \A i \in DOMAIN f.stmts : StmtSize(placedStmts[i]) = StmtSize(f.stmts[i])
  <2> TAKE i \in DOMAIN f.stmts
  <2>1. PICK a : placedStmts[i] = StmtAt(f.stmts[i], a)
    BY Zenon DEF StmtsPlaced
  <2> QED BY <1>2, <2>1, Zenon
<1> HIDE DEF placedStmts
<1>5. [i \in DOMAIN placedStmts |-> StmtSize(placedStmts[i])]
        = [i \in DOMAIN f.stmts |-> StmtSize(f.stmts[i])]
  BY <1>3, <1>4, Zenon
<1>6. InstrSize(Placed(f, at)) = InstrSize(f)
  BY <1>1, <1>5, Zenon DEF InstrSize
<1> QED BY <1>1, <1>6, Zenon DEF FunctionSize

LEMMA DataAtSize ==
  ASSUME NEW d, NEW at
  PROVE  DataAt(d, at).offset = at /\ DataSize(DataAt(d, at)) = DataSize(d)
<1>1. DataAt(d, at).offset = at /\ DataAt(d, at).cells = d.cells
  BY DEF DataAt
<1> QED BY <1>1, Zenon DEF DataSize

\* The first n of a list of data stand one behind the other, where they end, and
\* the list when one more has its place.
Chained(data, n, start) ==
  \A i \in 1..n : i \in DOMAIN data /\ Follows(data, i, start)
EndOf(data, n, start) == IF n = 0 THEN start ELSE data[n].offset + DataSize(data[n])
Extended(data, n, at) == [data EXCEPT ![n + 1] = DataAt(@, at)]

LEMMA DatumFollows ==
  ASSUME NEW data, NEW n \in Nat, NEW start,
         n + 1 \in DOMAIN data, Chained(data, n, start)
  PROVE  LET at   == EndOf(data, n, start)
             next == Extended(data, n, at)
         IN  /\ Chained(next, n + 1, start)
             /\ EndOf(next, n + 1, start) = at + DataSize(data[n + 1])
<1> DEFINE at   == EndOf(data, n, start)
           next == Extended(data, n, at)
<1>1. DOMAIN next = DOMAIN data /\ next[n + 1] = DataAt(data[n + 1], at)
  BY DEF Extended
<1>2. \A i \in 1..n : next[i] = data[i]
  BY DEF Extended, Chained
<1>3. next[n + 1].offset = at /\ DataSize(next[n + 1]) = DataSize(data[n + 1])
  BY <1>1, DataAtSize
<1>4. at = IF n = 0 THEN start ELSE data[n].offset + DataSize(data[n])
  BY DEF EndOf
<1> HIDE DEF next, at
<1>5. \A i \in 1..n : i \in DOMAIN next /\ Follows(next, i, start)
  <2> TAKE i \in 1..n
  <2>1. i = 1 \/ i - 1 \in 1..n
    OBVIOUS
  <2> QED BY <1>1, <1>2, <2>1 DEF Chained, Follows
<1>6. Follows(next, n + 1, start)
  <2>1. CASE n = 0
    BY <1>3, <1>4, <2>1 DEF Follows
  <2>2. CASE n # 0
    <3>1. n \in 1..n /\ n + 1 # 1 /\ (n + 1) - 1 = n
      BY <2>2
    <3>2. next[n + 1].offset = next[n].offset + DataSize(next[n])
      BY <1>2, <1>3, <1>4, <2>2, <3>1
    <3> QED BY <3>1, <3>2 DEF Follows
  <2> QED BY <2>1, <2>2
<1>7. Chained(next, n + 1, start)
  <2>1. \A i \in 1..(n + 1) : i \in 1..n \/ i = n + 1
    OBVIOUS
  <2> QED BY <1>1, <1>5, <1>6, <2>1 DEF Chained
<1>8. EndOf(next, n + 1, start) = at + DataSize(data[n + 1])
  BY <1>3 DEF EndOf
<1> QED BY <1>7, <1>8 DEF next, at

\* What is placed so far, each one where the one before it ends, a section not
\* begun before the one before it is done, and the offset the next one gets.
Counted == placed \in [functions : Nat, shared : Nat, constants : Nat]

InOrder ==
  /\ placed.shared > 0 => placed.functions + 1 \notin DOMAIN functions
  /\ placed.constants > 0 => /\ placed.functions + 1 \notin DOMAIN functions
                             /\ placed.shared + 1 \notin DOMAIN shared

FunctionsPlaced ==
  \A i \in 1..placed.functions : i \in DOMAIN functions /\ FollowsFunction(i, 0)
SharedPlaced    == Chained(shared, placed.shared, StartOfShared)
ConstantsPlaced == Chained(constants, placed.constants, StartOfConstants)

PlaceInv ==
  /\ Counted
  /\ InOrder
  /\ FunctionsPlaced
  /\ SharedPlaced
  /\ ConstantsPlaced
  /\ tempOffset = IF placed.constants > 0
                  THEN EndOf(constants, placed.constants, StartOfConstants)
                  ELSE IF placed.shared > 0
                  THEN EndOf(shared, placed.shared, StartOfShared)
                  ELSE EndOfFunctions

LEMMA FunctionPlaced ==
  ASSUME PlaceInv, PlaceFunction
  PROVE  PlaceInv'
<1> PICK n : n = placed.functions
  OBVIOUS
<1>1. /\ n + 1 \in DOMAIN functions
      /\ functions' = [functions EXCEPT ![n + 1] = Placed(@, tempOffset)]
      /\ tempOffset' = tempOffset + FunctionSize(functions[n + 1])
      /\ placed' = [placed EXCEPT !.functions = n + 1]
      /\ shared' = shared /\ constants' = constants /\ isObj' = isObj
  BY DEF PlaceFunction
<1>2. /\ n \in Nat /\ placed.shared = 0 /\ placed.constants = 0
  BY <1>1 DEF PlaceInv, Counted, InOrder
<1>3. Counted' /\ placed'.functions = n + 1 /\ placed'.shared = 0 /\ placed'.constants = 0
  BY <1>1, <1>2 DEF PlaceInv, Counted
<1>4. tempOffset = EndOfFunctions
  BY <1>2 DEF PlaceInv
<1>5. /\ DOMAIN functions' = DOMAIN functions
      /\ functions'[n + 1] = Placed(functions[n + 1], tempOffset)
      /\ \A i \in 1..n : functions'[i] = functions[i]
  BY <1>1, <1>2
<1>6. /\ functions'[n + 1].offset = tempOffset
      /\ FunctionSize(functions'[n + 1]) = FunctionSize(functions[n + 1])
  BY <1>5, PlacedSize
<1>7. \A i \in 1..n : i \in DOMAIN functions' /\ FollowsFunction(i, 0)'
  <2> TAKE i \in 1..n
  <2>1. i \in DOMAIN functions /\ FollowsFunction(i, 0)
    BY DEF PlaceInv, FunctionsPlaced
  <2>2. i = 1 \/ i - 1 \in 1..n
    BY <1>2
  <2> QED BY <1>5, <2>1, <2>2 DEF FollowsFunction
<1>8. FollowsFunction(n + 1, 0)'
  <2>1. CASE n = 0
    BY <1>4, <1>6, <2>1 DEF FollowsFunction, EndOfFunctions
  <2>2. CASE n # 0
    <3>1. n \in 1..n /\ n + 1 # 1 /\ (n + 1) - 1 = n
      BY <1>2, <2>2
    <3>2. functions'[n + 1].offset = functions'[n].offset + FunctionSize(functions'[n])
      BY <1>4, <1>5, <1>6, <2>2, <3>1 DEF EndOfFunctions
    <3> QED BY <3>1, <3>2 DEF FollowsFunction
  <2> QED BY <2>1, <2>2
<1>9. FunctionsPlaced'
  <2>1. \A i \in 1..(n + 1) : i \in 1..n \/ i = n + 1
    BY <1>2
  <2> QED BY <1>1, <1>3, <1>5, <1>7, <1>8, <2>1 DEF FunctionsPlaced
<1>10. SharedPlaced' /\ ConstantsPlaced' /\ InOrder'
  BY <1>3 DEF SharedPlaced, ConstantsPlaced, InOrder, Chained
<1>11. tempOffset' = EndOfFunctions'
  <2>1. EndOfFunctions' = functions'[n + 1].offset + FunctionSize(functions'[n + 1])
    BY <1>2, <1>3 DEF EndOfFunctions
  <2> QED BY <1>1, <1>6, <2>1
<1> QED BY <1>3, <1>9, <1>10, <1>11 DEF PlaceInv

LEMMA SharedFollows ==
  ASSUME PlaceInv, PlaceShared
  PROVE  PlaceInv'
<1> DEFINE n == placed.shared
           at == SectionStart(n + 1 = 1)
<1>1. /\ placed.functions + 1 \notin DOMAIN functions
      /\ n + 1 \in DOMAIN shared
      /\ shared' = [shared EXCEPT ![n + 1] = DataAt(@, at)]
      /\ tempOffset' = at + DataSize(shared[n + 1])
      /\ placed' = [placed EXCEPT !.shared = n + 1]
      /\ functions' = functions /\ constants' = constants /\ isObj' = isObj
  BY DEF PlaceShared
<1>2. n \in Nat /\ placed.constants = 0
  BY <1>1 DEF PlaceInv, Counted, InOrder
<1>3. /\ Counted' /\ placed'.functions = placed.functions
      /\ placed'.shared = n + 1 /\ placed'.constants = 0
  BY <1>1, <1>2 DEF PlaceInv, Counted
<1>4. /\ EndOfFunctions' = EndOfFunctions /\ FunctionsPlaced'
      /\ StartOfShared' = StartOfShared
  <2>1. EndOfFunctions' = EndOfFunctions
    BY <1>1, <1>3 DEF EndOfFunctions
  <2>2. FunctionsPlaced'
    BY <1>1, <1>3, Zenon DEF PlaceInv, FunctionsPlaced, FollowsFunction
  <2> QED BY <1>1, <2>1, <2>2, Zenon DEF StartOfShared
<1>5. at = EndOf(shared, n, StartOfShared)
  <2>1. CASE n = 0
    BY <1>2, <2>1 DEF PlaceInv, SectionStart, StartOfShared, EndOf
  <2>2. CASE n # 0
    BY <1>2, <2>2 DEF PlaceInv, SectionStart
  <2> QED BY <2>1, <2>2
<1>6. Chained(shared, n, StartOfShared)
  BY DEF PlaceInv, SharedPlaced
<1> HIDE DEF n, at
<1>7. /\ Chained(shared', n + 1, StartOfShared)
      /\ EndOf(shared', n + 1, StartOfShared) = at + DataSize(shared[n + 1])
  <2>1. shared' = Extended(shared, n, EndOf(shared, n, StartOfShared))
    BY <1>1, <1>5 DEF Extended
  <2>2. n \in Nat /\ n + 1 \in DOMAIN shared
    BY <1>1, <1>2
  <2>3. /\ Chained(Extended(shared, n, EndOf(shared, n, StartOfShared)), n + 1, StartOfShared)
        /\ EndOf(Extended(shared, n, EndOf(shared, n, StartOfShared)), n + 1, StartOfShared)
             = EndOf(shared, n, StartOfShared) + DataSize(shared[n + 1])
    BY <1>6, <2>2, DatumFollows
  <2> QED BY <1>5, <2>1, <2>3
<1>8. SharedPlaced'
  BY <1>3, <1>4, <1>7 DEF SharedPlaced
<1>9. ConstantsPlaced' /\ InOrder'
  BY <1>1, <1>3 DEF ConstantsPlaced, InOrder, Chained
<1>10. tempOffset' = EndOf(shared, placed.shared, StartOfShared)'
  BY <1>1, <1>3, <1>4, <1>7
<1> QED BY <1>2, <1>3, <1>4, <1>8, <1>9, <1>10 DEF PlaceInv

LEMMA ConstantFollows ==
  ASSUME PlaceInv, PlaceConstant
  PROVE  PlaceInv'
<1> DEFINE n == placed.constants
           at == SectionStart(n + 1 = 1)
<1>1. /\ placed.functions + 1 \notin DOMAIN functions
      /\ placed.shared + 1 \notin DOMAIN shared
      /\ n + 1 \in DOMAIN constants
      /\ constants' = [constants EXCEPT ![n + 1] = DataAt(@, at)]
      /\ tempOffset' = at + DataSize(constants[n + 1])
      /\ placed' = [placed EXCEPT !.constants = n + 1]
      /\ functions' = functions /\ shared' = shared /\ isObj' = isObj
  BY DEF PlaceConstant
<1>2. n \in Nat /\ placed.shared \in Nat
  BY DEF PlaceInv, Counted
<1>3. /\ Counted' /\ placed'.functions = placed.functions
      /\ placed'.shared = placed.shared /\ placed'.constants = n + 1
  BY <1>1, <1>2 DEF PlaceInv, Counted
<1>4. /\ FunctionsPlaced' /\ SharedPlaced' /\ StartOfConstants' = StartOfConstants
  <2>1. EndOfFunctions' = EndOfFunctions
    BY <1>1, <1>3 DEF EndOfFunctions
  <2>2. FunctionsPlaced'
    BY <1>1, <1>3, Zenon DEF PlaceInv, FunctionsPlaced, FollowsFunction
  <2>3. StartOfShared' = StartOfShared
    BY <1>1, <2>1, Zenon DEF StartOfShared
  <2>4. SharedPlaced'
    BY <1>1, <1>3, <2>3, Zenon DEF PlaceInv, SharedPlaced, Chained, Follows
  <2> QED BY <1>1, <1>3, <2>2, <2>3, <2>4 DEF StartOfConstants, EndOfShared
<1>5. at = EndOf(constants, n, StartOfConstants)
  <2>1. CASE n = 0
    BY <1>2, <2>1
    DEF PlaceInv, SectionStart, StartOfConstants, StartOfShared, EndOfShared, EndOf
  <2>2. CASE n # 0
    BY <1>2, <2>2 DEF PlaceInv, SectionStart
  <2> QED BY <2>1, <2>2
<1>6. Chained(constants, n, StartOfConstants)
  BY DEF PlaceInv, ConstantsPlaced
<1> HIDE DEF n, at
<1>7. /\ Chained(constants', n + 1, StartOfConstants)
      /\ EndOf(constants', n + 1, StartOfConstants) = at + DataSize(constants[n + 1])
  <2>1. constants' = Extended(constants, n, EndOf(constants, n, StartOfConstants))
    BY <1>1, <1>5 DEF Extended
  <2>2. n \in Nat /\ n + 1 \in DOMAIN constants
    BY <1>1, <1>2
  <2>3. /\ Chained(Extended(constants, n, EndOf(constants, n, StartOfConstants)), n + 1, StartOfConstants)
        /\ EndOf(Extended(constants, n, EndOf(constants, n, StartOfConstants)), n + 1, StartOfConstants)
             = EndOf(constants, n, StartOfConstants) + DataSize(constants[n + 1])
    BY <1>6, <2>2, DatumFollows
  <2> QED BY <1>5, <2>1, <2>3
<1>8. ConstantsPlaced'
  BY <1>3, <1>4, <1>7 DEF ConstantsPlaced
<1>9. InOrder'
  BY <1>1, <1>3 DEF InOrder
<1>10. tempOffset' = EndOf(constants, placed.constants, StartOfConstants)'
  BY <1>1, <1>3, <1>4, <1>7
<1> QED BY <1>2, <1>3, <1>4, <1>8, <1>9, <1>10 DEF PlaceInv

\* How a step takes part in rebuildOffsets.
LEMMA PlacingSteps ==
  ASSUME [Next]_vars
  PROVE  \/ phase' = "place" /\ placed' = NonePlaced /\ tempOffset' = 0
         \/ phase = "place" /\ phase' = phase
              /\ (PlaceFunction \/ PlaceShared \/ PlaceConstant)
         \/ EndPlacing
         \/ phase' \notin {"place", "expose", "update"}
         \/ UNCHANGED vars
<1>1. CASE \/ OpenSource \/ SourceMissing \/ ReadLine \/ Include \/ IncludeFails
           \/ EndInclude \/ EndSource \/ EndSourceFails
  BY <1>1 DEF OpenSource, SourceMissing, ReadLine, Include, IncludeFails, EndInclude,
              EndSource, EndSourceFails, Fail
<1>2. CASE Check \/ AllocationFails \/ ExposeGlobalLabels \/ AssignValuesToLocalLabels
  BY <1>2 DEF Check, AllocationFails, ExposeGlobalLabels, AssignValuesToLocalLabels, Fail
<1>3. CASE LoadObj \/ LoadFails \/ SaveObj \/ Assemble
  BY <1>3 DEF LoadObj, LoadFails, SaveObj, Assemble, Succeed, Fail, outVars
<1>4. CASE UpdateFunctionLabels \/ AssignValuesToLabels
  BY <1>4 DEF UpdateFunctionLabels, AssignValuesToLabels, Fail
<1>5. CASE Allocate \/ EnsureTempsUsage \/ Link
  BY <1>5 DEF Allocate, EnsureTempsUsage, Link, Rebuild, Fail
<1>6. CASE PlaceFunction \/ PlaceShared \/ PlaceConstant
  BY <1>6 DEF PlaceFunction, PlaceShared, PlaceConstant
<1>7. CASE EndPlacing \/ Finished \/ UNCHANGED vars
  BY <1>7 DEF Finished
<1> QED
  BY <1>1, <1>2, <1>3, <1>4, <1>5, <1>6, <1>7 DEF Next

Placing == phase = "place" => PlaceInv

LEMMA PlacingStep ==
  ASSUME Placing, LaidOut, [Next]_vars
  PROVE  Placing' /\ LaidOut'
<1>1. CASE phase' = "place" /\ placed' = NonePlaced /\ tempOffset' = 0
  <2>1. Counted' /\ InOrder'
    BY <1>1 DEF Counted, InOrder, NonePlaced
  <2>2. FunctionsPlaced' /\ SharedPlaced' /\ ConstantsPlaced'
    BY <1>1 DEF FunctionsPlaced, SharedPlaced, ConstantsPlaced, Chained, NonePlaced
  <2>3. tempOffset' = EndOfFunctions'
    BY <1>1 DEF EndOfFunctions, NonePlaced
  <2> QED BY <1>1, <2>1, <2>2, <2>3 DEF Placing, PlaceInv, LaidOut, NonePlaced
<1>2. CASE /\ phase = "place" /\ phase' = phase
           /\ PlaceFunction \/ PlaceShared \/ PlaceConstant
  BY <1>2, FunctionPlaced, SharedFollows, ConstantFollows DEF Placing, LaidOut
<1>3. CASE EndPlacing
  <2>1. PlaceInv /\ AllPlaced /\ phase' \in {"expose", "update"}
    BY <1>3 DEF EndPlacing, Placing
  <2>2. /\ functions' = functions /\ shared' = shared /\ constants' = constants
        /\ isObj' = isObj /\ placed' = placed
    BY <1>3 DEF EndPlacing, programVars, placeVars
  <2>3. \A i \in 1..placed.functions : FollowsFunction(i, 0)'
    BY <2>1, <2>2, Zenon DEF PlaceInv, FunctionsPlaced, FollowsFunction
  <2>4. StartOfShared' = StartOfShared /\ StartOfConstants' = StartOfConstants
    BY <2>2 DEF StartOfShared, StartOfConstants, EndOfShared, EndOfFunctions
  <2>5. \A i \in 1..placed.shared : Follows(shared', i, StartOfShared')
    BY <2>1, <2>2, <2>4, Zenon DEF PlaceInv, SharedPlaced, Chained
  <2>6. \A i \in 1..placed.constants : Follows(constants', i, StartOfConstants')
    BY <2>1, <2>2, <2>4, Zenon DEF PlaceInv, ConstantsPlaced, Chained
  <2>7. AllPlaced'
    BY <2>1, <2>2, Zenon DEF AllPlaced
  <2>8. LaidOut'
    BY <2>2, <2>3, <2>5, <2>6, <2>7, Zenon DEF LaidOut
  <2> QED BY <2>1, <2>8 DEF Placing
<1>4. CASE phase' \notin {"place", "expose", "update"}
  BY <1>4 DEF Placing, LaidOut
<1>5. CASE UNCHANGED vars
  <2>1. /\ functions' = functions /\ shared' = shared /\ constants' = constants
        /\ isObj' = isObj /\ placed' = placed /\ tempOffset' = tempOffset
        /\ phase' = phase
    BY <1>5 DEF vars, programVars, placeVars
  <2>2. /\ EndOfFunctions' = EndOfFunctions
        /\ StartOfShared' = StartOfShared /\ StartOfConstants' = StartOfConstants
    BY <2>1 DEF StartOfShared, StartOfConstants, EndOfShared, EndOfFunctions
  <2>3. LaidOut'
    BY <2>1, <2>2, Zenon DEF LaidOut, AllPlaced, FollowsFunction, Follows
  <2>4. Placing'
    <3>1. InOrder' = InOrder /\ Counted' = Counted
      BY <2>1, Zenon DEF InOrder, Counted
    <3>2. FunctionsPlaced' = FunctionsPlaced
      BY <2>1, Zenon DEF FunctionsPlaced, FollowsFunction
    <3>3. SharedPlaced' = SharedPlaced /\ ConstantsPlaced' = ConstantsPlaced
      BY <2>1, <2>2, Zenon DEF SharedPlaced, ConstantsPlaced
    <3> QED BY <2>1, <2>2, <3>1, <3>2, <3>3, Zenon DEF Placing, PlaceInv
  <2> QED BY <2>3, <2>4
<1> QED BY <1>1, <1>2, <1>3, <1>4, <1>5, PlacingSteps

\* Whatever the program, and however often it is laid out, every function, variable
\* and constant begins where what is emitted before it ends, so that the labels, the
\* relocations and the sections of an object mean the bytes that are written
\* (Linker::rebuildOffsets, for prelink and for link).
THEOREM LaidOutAlways == Spec => []LaidOut
<1>1. Init => Placing /\ LaidOut
  BY DEF Init, Placing, LaidOut
<1>2. Placing /\ LaidOut /\ [Next]_vars => (Placing /\ LaidOut)'
  BY PlacingStep
<1> QED BY <1>1, <1>2, PTL DEF Spec

-----------------------------------------------------------------------------
(* Sums and selections.                                                    *)

\* The sums of the first so many elements of a sequence of numbers.
IsSum(s, q) == /\ s \in [0..Len(q) -> Nat] /\ s[0] = 0
               /\ \A k \in 1..Len(q) : s[k] = s[k - 1] + q[k]

LEMMA SumFrom ==
  ASSUME NEW q \in Seq(Nat), NEW s, IsSum(s, q)
  PROVE  SumOf(q) = s[Len(q)] /\ SumOf(q) \in Nat
<1> DEFINE n == Len(q)
           Step(f) == [i \in 0..n |-> IF i = 0 THEN 0 ELSE f[i - 1] + q[i]]
           r == CHOOSE f : f = Step(f)
<1>1. n \in Nat /\ \A k \in 1..n : q[k] \in Nat
  BY ElementOfSeq
<1>2. SumOf(q) = r[n]
  BY Zenon DEF SumOf
<1>3. s = Step(s)
  <2>1. \A k \in 0..n : s[k] = IF k = 0 THEN 0 ELSE s[k - 1] + q[k]
    BY <1>1 DEF IsSum
  <2> QED BY <1>1, <2>1 DEF IsSum
<1>4. r = Step(r)
  BY <1>3, Zenon
<1> HIDE DEF r
<1>5. 0..n \subseteq {k \in 0..n : r[k] = s[k]}
  <2> DEFINE T == {k \in 0..n : r[k] = s[k]}
  <2>1. 0 \in T
    BY <1>1, <1>4 DEF IsSum
  <2>2. ASSUME NEW k \in 0..n, k \in T, k < n
        PROVE  k + 1 \in T
    <3>1. k + 1 \in 0..n /\ k + 1 \in 1..n /\ k + 1 # 0 /\ (k + 1) - 1 = k
      BY <1>1, <2>2
    <3>2. r[k + 1] = r[k] + q[k + 1]
      BY <1>4, <3>1
    <3>3. s[k + 1] = s[k] + q[k + 1]
      BY <3>1 DEF IsSum
    <3> QED BY <2>2, <3>1, <3>2, <3>3
  <2> HIDE DEF T
  <2> QED BY <1>1, <2>1, <2>2, Induct DEF T
<1>6. n \in 0..n
  BY <1>1
<1> QED BY <1>2, <1>5, <1>6 DEF IsSum

LEMMA SumIs ==
  ASSUME NEW q \in Seq(Nat)
  PROVE  \E s : IsSum(s, q) /\ SumOf(q) = s[Len(q)] /\ SumOf(q) \in Nat
<1> DEFINE n == Len(q)
           g == [k \in 1..n |-> [m \in Nat |-> m + q[k]]]
<1>1. n \in Nat /\ \A k \in 1..n : q[k] \in Nat
  BY ElementOfSeq
<1>2. g \in [1..n -> [Nat -> Nat]] /\ \A k \in 1..n, m \in Nat : g[k][m] = m + q[k]
  BY <1>1
<1> HIDE DEF g
<1>3. PICK s : IsRecursion(s, n, 0, g) /\ \A k \in 0..n : s[k] \in Nat
  BY <1>1, <1>2, Recurs
<1>4. s \in [0..n -> Nat] /\ s[0] = 0
  BY <1>1, <1>3 DEF IsRecursion
<1>5. ASSUME NEW k \in 1..n PROVE s[k] = s[k - 1] + q[k]
  <2>1. k \in 0..n /\ k # 0 /\ k - 1 \in 0..n
    BY <1>1
  <2>2. s[k] = g[k][s[k - 1]]
    BY <1>3, <2>1 DEF IsRecursion
  <2> QED BY <1>2, <1>4, <2>1, <2>2
<1>6. IsSum(s, q)
  BY <1>4, <1>5 DEF IsSum
<1> QED BY <1>6, SumFrom

\* The sum of the first numbers of a sequence.
LEMMA SumOfFirst ==
  ASSUME NEW q \in Seq(Nat), NEW s, IsSum(s, q), NEW k \in 0..Len(q)
  PROVE  SumOf([j \in 1..k |-> q[j]]) = s[k]
<1> DEFINE p == [j \in 1..k |-> q[j]]
           t == [j \in 0..k |-> s[j]]
<1>1. k \in Nat /\ Len(q) \in Nat /\ \A j \in 1..k : q[j] \in Nat
  BY ElementOfSeq
<1>2. p \in Seq(Nat) /\ Len(p) = k
  BY <1>1
<1>3. IsSum(t, p)
  <2>1. \A j \in 1..k : j \in 1..Len(q) /\ j \in 0..k /\ j - 1 \in 0..k
    BY <1>1
  <2>2. \A j \in 0..k : t[j] = s[j] /\ s[j] \in Nat
    BY <1>1 DEF IsSum
  <2>3. \A j \in 1..k : p[j] = q[j]
    OBVIOUS
  <2>4. t \in [0..k -> Nat] /\ 0 \in 0..k
    BY <1>1, <2>2
  <2> HIDE DEF t, p
  <2>5. \A j \in 1..k : t[j] = t[j - 1] + p[j]
    BY <2>1, <2>2, <2>3 DEF IsSum
  <2>6. t[0] = 0
    BY <2>2, <2>4 DEF IsSum
  <2> QED BY <1>2, <2>4, <2>5, <2>6 DEF IsSum
<1>4. SumOf(p) = t[k]
  BY <1>2, <1>3, SumFrom
<1> QED BY <1>1, <1>4

LEMMA SumOfNone == SumOf(<<>>) = 0
<1> DEFINE s == [k \in 0..0 |-> 0]
<1>1. <<>> \in Seq(Nat) /\ Len(<<>>) = 0
  OBVIOUS
<1>2. s \in [0..0 -> Nat] /\ s[0] = 0
  OBVIOUS
<1>3. IsSum(s, <<>>)
  BY <1>1, <1>2 DEF IsSum
<1> QED BY <1>1, <1>2, <1>3, SumFrom

\* The sums of a sequence behind another.
LEMMA SumOfBoth ==
  ASSUME NEW p \in Seq(Nat), NEW q \in Seq(Nat)
  PROVE  SumOf(p \o q) = SumOf(p) + SumOf(q)
<1> DEFINE m == Len(p)
           n == Len(q)
<1>1. PICK s : IsSum(s, p) /\ SumOf(p) = s[m]
  BY SumIs
<1>2. PICK t : IsSum(t, q) /\ SumOf(q) = t[n]
  BY SumIs
<1> DEFINE u == [k \in 0..(m + n) |-> IF k <= m THEN s[k] ELSE s[m] + t[k - m]]
<1>3. /\ m \in Nat /\ n \in Nat
      /\ p \o q \in Seq(Nat) /\ Len(p \o q) = m + n
      /\ \A k \in 1..(m + n) : (p \o q)[k] = IF k <= m THEN p[k] ELSE q[k - m]
      /\ \A k \in 1..n : q[k] \in Nat
  BY ConcatProperties, ElementOfSeq
<1>4. /\ s \in [0..m -> Nat] /\ s[0] = 0 /\ \A k \in 1..m : s[k] = s[k - 1] + p[k]
      /\ t \in [0..n -> Nat] /\ t[0] = 0 /\ \A k \in 1..n : t[k] = t[k - 1] + q[k]
  BY <1>1, <1>2 DEF IsSum
<1> HIDE DEF m, n
<1>5. \A k \in 0..(m + n) : u[k] = (IF k <= m THEN s[k] ELSE s[m] + t[k - m]) /\ u[k] \in Nat
  <2> TAKE k \in 0..(m + n)
  <2>1. CASE k <= m
    BY <1>3, <1>4, <2>1
  <2>2. CASE ~(k <= m)
    <3>1. k - m \in 0..n /\ m \in 0..m
      BY <1>3, <2>2
    <3>2. t[k - m] \in Nat /\ s[m] \in Nat
      BY <1>4, <3>1
    <3> QED BY <2>2, <3>2
  <2> QED BY <2>1, <2>2
<1>6. u \in [0..(m + n) -> Nat]
  <2>1. u = [k \in 0..(m + n) |-> u[k]]
    OBVIOUS
  <2> HIDE DEF u
  <2> QED BY <1>5, <2>1
<1> HIDE DEF u
<1>7. ASSUME NEW k \in 1..(m + n)
      PROVE  u[k] = u[k - 1] + (p \o q)[k]
  <2>1. k \in 0..(m + n) /\ k - 1 \in 0..(m + n)
    BY <1>3
  <2>2. CASE k <= m
    BY <1>3, <1>4, <1>5, <2>1, <2>2
  <2>3. CASE k = m + 1
    <3>1. k - m = 1 /\ k - 1 = m /\ 1 \in 1..n /\ m \in 0..m /\ 1 - 1 = 0
      BY <1>3, <2>3
    <3>2. t[1] = t[0] + q[1] /\ t[0] = 0 /\ q[1] \in Nat /\ s[m] \in Nat
      BY <1>3, <1>4, <3>1
    <3>3. ~(k <= m) /\ m <= m
      BY <1>3, <2>3
    <3>4. u[k] = s[m] + t[1] /\ u[k - 1] = s[m] /\ (p \o q)[k] = q[1]
      BY <1>3, <1>5, <2>1, <3>1, <3>3
    <3> QED BY <3>2, <3>4
  <2>4. CASE k > m + 1
    <3>1. ~(k <= m) /\ ~(k - 1 <= m) /\ k - m \in 1..n /\ (k - 1) - m = (k - m) - 1
          /\ (k - m) - 1 \in 0..n /\ m \in 0..m
      BY <1>3, <2>4
    <3>2. /\ t[k - m] = t[(k - m) - 1] + q[k - m] /\ t[(k - m) - 1] \in Nat
          /\ q[k - m] \in Nat /\ s[m] \in Nat
      BY <1>3, <1>4, <3>1
    <3>3. u[k] = s[m] + t[k - m] /\ u[k - 1] = s[m] + t[(k - m) - 1] /\ (p \o q)[k] = q[k - m]
      BY <1>3, <1>5, <2>1, <3>1
    <3>4. PICK a \in Nat, b \in Nat, c \in Nat : s[m] = a /\ t[(k - m) - 1] = b /\ q[k - m] = c
      BY <3>2
    <3>5. u[k] = a + (b + c) /\ u[k - 1] = a + b /\ (p \o q)[k] = c
      BY <3>2, <3>3, <3>4
    <3> QED BY <3>4, <3>5
  <2> QED BY <1>3, <2>2, <2>3, <2>4
<1>8. IsSum(u, p \o q)
  <2>1. u[0] = 0
    BY <1>3, <1>4, <1>5
  <2> QED BY <1>3, <1>6, <1>7, <2>1 DEF IsSum
<1>9. SumOf(p \o q) = u[m + n]
  BY <1>3, <1>8, SumFrom
<1>10. u[m + n] = s[m] + t[n]
  <2>1. CASE n = 0
    <3>1. m + n \in 0..(m + n) /\ m + n <= m /\ m + n = m /\ m \in 0..m
      BY <1>3, <2>1
    <3> QED BY <1>3, <1>4, <1>5, <2>1, <3>1
  <2>2. CASE n # 0
    <3>1. m + n \in 0..(m + n) /\ ~(m + n <= m) /\ (m + n) - m = n
      BY <1>3, <2>2
    <3> QED BY <1>5, <3>1
  <2> QED BY <2>1, <2>2
<1> QED BY <1>1, <1>2, <1>9, <1>10 DEF m, n

\* Sums of sums.
LEMMA SumOfPairs ==
  ASSUME NEW n \in Nat, NEW p, NEW q, NEW r,
         \A k \in 1..n : p[k] \in Nat /\ q[k] \in Nat /\ r[k] = p[k] + q[k],
         p = [k \in 1..n |-> p[k]], q = [k \in 1..n |-> q[k]], r = [k \in 1..n |-> r[k]]
  PROVE  SumOf(r) = SumOf(p) + SumOf(q)
<1>1. p \in Seq(Nat) /\ q \in Seq(Nat) /\ r \in Seq(Nat) /\ Len(p) = n /\ Len(q) = n /\ Len(r) = n
  <2>1. \A f : f = [k \in 1..n |-> f[k]] /\ (\A k \in 1..n : f[k] \in Nat) => f \in Seq(Nat) /\ Len(f) = n
    OBVIOUS
  <2>2. \A k \in 1..n : r[k] \in Nat
    OBVIOUS
  <2> QED BY <2>1, <2>2
<1>2. PICK s : IsSum(s, p) /\ SumOf(p) = s[n]
  BY <1>1, SumIs
<1>3. PICK t : IsSum(t, q) /\ SumOf(q) = t[n]
  BY <1>1, SumIs
<1> DEFINE u == [k \in 0..n |-> s[k] + t[k]]
<1>4. IsSum(u, r)
  <2>1. /\ s \in [0..n -> Nat] /\ s[0] = 0 /\ \A k \in 1..n : s[k] = s[k - 1] + p[k]
        /\ t \in [0..n -> Nat] /\ t[0] = 0 /\ \A k \in 1..n : t[k] = t[k - 1] + q[k]
    BY <1>1, <1>2, <1>3 DEF IsSum
  <2>2. u \in [0..n -> Nat] /\ \A k \in 0..n : u[k] = s[k] + t[k]
    BY <2>1
  <2> HIDE DEF u
  <2>3. \A k \in 1..n : k \in 0..n /\ k - 1 \in 0..n
    OBVIOUS
  <2>4. ASSUME NEW k \in 1..n PROVE u[k] = u[k - 1] + r[k]
    <3>1. /\ s[k] = s[k - 1] + p[k] /\ t[k] = t[k - 1] + q[k] /\ r[k] = p[k] + q[k]
          /\ u[k] = s[k] + t[k] /\ u[k - 1] = s[k - 1] + t[k - 1]
          /\ s[k - 1] \in Nat /\ t[k - 1] \in Nat /\ p[k] \in Nat /\ q[k] \in Nat
      BY <2>1, <2>2, <2>3
    <3> QED BY <3>1
  <2>5. u[0] = 0
    BY <2>1, <2>2
  <2> QED BY <1>1, <2>2, <2>4, <2>5 DEF IsSum
<1>5. SumOf(r) = u[n]
  BY <1>1, <1>4, SumFrom
<1>6. u[n] = s[n] + t[n]
  OBVIOUS
<1> QED BY <1>2, <1>3, <1>5, <1>6

\* What the elements of a sequence weigh.
Weights(q, v) == [i \in 1..Len(q) |-> v[q[i]]]

Weigh(w, q, v) ==
  /\ w \in Seq(Nat) /\ Len(w) = Len(q) /\ Len(q) \in Nat
  /\ \A i \in 1..Len(q) : w[i] = v[q[i]]
  /\ SumOf(w) \in Nat

LEMMA WeightsAre ==
  ASSUME NEW S, NEW v \in [S -> Nat], NEW q \in Seq(S)
  PROVE  Weigh(Weights(q, v), q, v)
<1>1. Len(q) \in Nat /\ \A i \in 1..Len(q) : q[i] \in S /\ v[q[i]] \in Nat
  BY ElementOfSeq
<1>2. /\ Weights(q, v) \in Seq(Nat) /\ Len(Weights(q, v)) = Len(q)
      /\ \A i \in 1..Len(q) : Weights(q, v)[i] = v[q[i]]
  BY <1>1 DEF Weights
<1> QED BY <1>1, <1>2, SumIs DEF Weigh

LEMMA WeightOfBoth ==
  ASSUME NEW S, NEW v \in [S -> Nat], NEW p \in Seq(S), NEW q \in Seq(S)
  PROVE  SumOf(Weights(p \o q, v)) = SumOf(Weights(p, v)) + SumOf(Weights(q, v))
<1> DEFINE a == Weights(p, v)
           b == Weights(q, v)
           c == Weights(p \o q, v)
<1>1. /\ a \in Seq(Nat) /\ Len(a) = Len(p) /\ Len(p) \in Nat
      /\ \A i \in 1..Len(p) : a[i] = v[p[i]]
  <2>1. Weigh(a, p, v)
    BY WeightsAre, Zenon
  <2> QED BY <2>1 DEF Weigh
<1>2. /\ b \in Seq(Nat) /\ Len(b) = Len(q) /\ Len(q) \in Nat
      /\ \A i \in 1..Len(q) : b[i] = v[q[i]]
  <2>1. Weigh(b, q, v)
    BY WeightsAre, Zenon
  <2> QED BY <2>1 DEF Weigh
<1>3. /\ p \o q \in Seq(S) /\ Len(p \o q) = Len(p) + Len(q)
      /\ \A i \in 1..(Len(p) + Len(q)) :
           (p \o q)[i] = IF i <= Len(p) THEN p[i] ELSE q[i - Len(p)]
  BY ConcatProperties
<1>4. /\ c \in Seq(Nat) /\ Len(c) = Len(p \o q)
      /\ \A i \in 1..Len(p \o q) : c[i] = v[(p \o q)[i]]
  <2>1. Weigh(c, p \o q, v)
    BY <1>3, WeightsAre, Zenon
  <2> QED BY <2>1 DEF Weigh
<1>5. /\ a \o b \in Seq(Nat) /\ Len(a \o b) = Len(a) + Len(b)
      /\ \A i \in 1..(Len(a) + Len(b)) :
           (a \o b)[i] = IF i <= Len(a) THEN a[i] ELSE b[i - Len(a)]
  BY <1>1, <1>2, ConcatProperties
<1> HIDE DEF a, b, c
<1>6. c = a \o b
  <2>1. ASSUME NEW i \in 1..Len(c) PROVE c[i] = (a \o b)[i]
    <3>1. CASE i <= Len(p)
      BY <1>1, <1>2, <1>3, <1>4, <1>5, <3>1
    <3>2. CASE ~(i <= Len(p))
      <4>1. i \in 1..(Len(p) + Len(q)) /\ i \in 1..Len(p \o q)
        BY <1>1, <1>2, <1>3, <1>4, <3>2
      <4>2. i - Len(p) \in 1..Len(q)
        BY <1>1, <1>2, <3>2, <4>1
      <4>3. c[i] = v[q[i - Len(p)]]
        BY <1>3, <1>4, <3>2, <4>1
      <4>4. (a \o b)[i] = b[i - Len(p)]
        BY <1>1, <1>2, <1>5, <3>2, <4>1
      <4> QED BY <1>2, <4>2, <4>3, <4>4
    <3> QED BY <3>1, <3>2
  <2>2. Len(c) = Len(a \o b)
    BY <1>1, <1>2, <1>3, <1>4, <1>5
  <2> QED BY <1>4, <1>5, <2>1, <2>2, SeqEqual
<1>7. SumOf(a \o b) = SumOf(a) + SumOf(b)
  BY <1>1, <1>2, SumOfBoth
<1> QED BY <1>6, <1>7 DEF a, b, c

\* Joined sequences weigh what they weigh each.
LEMMA WeightOfJoined ==
  ASSUME NEW S, NEW v \in [S -> Nat], NEW ss \in Seq(Seq(S)),
         NEW w, Len(w) = Len(ss), w \in Seq(Nat),
         \A k \in 1..Len(ss) : w[k] = SumOf(Weights(ss[k], v))
  PROVE  /\ FlattenSeq(ss) \in Seq(S)
         /\ SumOf(Weights(FlattenSeq(ss), v)) = SumOf(w)
<1> DEFINE n == Len(ss)
           F == FlattenSeq(ss)
           q == Weights(F, v)
<1>1. n \in Nat /\ \A k \in 1..n : ss[k] \in Seq(S)
  BY ElementOfSeq
<1>2. PICK o : F \in Seq(S) /\ Begin(o, ss, n) /\ Joins(F, ss, o, n)
  BY FlattenJoins
<1>3. /\ q \in Seq(Nat) /\ Len(q) = Len(F) /\ Len(F) \in Nat
      /\ \A i \in 1..Len(F) : q[i] = v[F[i]]
  <2>1. Weigh(q, F, v)
    BY <1>2, WeightsAre, Zenon
  <2> QED BY <2>1 DEF Weigh
<1> HIDE DEF n, F, q
<1>4. PICK s : IsSum(s, q) /\ SumOf(q) = s[Len(q)]
  BY <1>3, SumIs
<1>5. PICK t : IsSum(t, w) /\ SumOf(w) = t[Len(w)]
  BY SumIs
<1>a. /\ o \in [0..n -> Nat] /\ o[0] = 0 /\ \A k \in 1..n : o[k] = o[k - 1] + Len(ss[k])
      /\ Len(F) = o[n]
      /\ \A k \in 1..n : \A i \in 1..Len(ss[k]) :
           o[k - 1] + i \in 1..Len(F) /\ F[o[k - 1] + i] = ss[k][i]
  BY <1>2 DEF Begin, Joins
<1>b. s \in [0..Len(q) -> Nat] /\ s[0] = 0 /\ \A k \in 1..Len(q) : s[k] = s[k - 1] + q[k]
  BY <1>4 DEF IsSum
<1>c. t \in [0..n -> Nat] /\ t[0] = 0 /\ \A k \in 1..n : t[k] = t[k - 1] + w[k]
  BY <1>5 DEF IsSum, n
<1> DEFINE T == {k \in 0..n : o[k] \in 0..Len(q) /\ s[o[k]] = t[k]}
<1>6. 0 \in T
  BY <1>1, <1>3, <1>a, <1>b, <1>c
<1>7. ASSUME NEW k \in 0..n, k \in T, k < n
      PROVE  k + 1 \in T
  <2> DEFINE m == Len(ss[k + 1])
             u == Weights(ss[k + 1], v)
  <2>1. k + 1 \in 1..n /\ k + 1 \in 0..n /\ (k + 1) - 1 = k /\ ss[k + 1] \in Seq(S)
    BY <1>1, <1>7
  <2>2. u \in Seq(Nat) /\ Len(u) = m /\ m \in Nat /\ \A i \in 1..m : u[i] = v[ss[k + 1][i]]
    <3>1. Weigh(u, ss[k + 1], v)
      BY <2>1, WeightsAre, Zenon
    <3> QED BY <3>1 DEF Weigh
  <2>b. w[k + 1] = SumOf(u)
    BY <2>1 DEF n
  <2> HIDE DEF u
  <2>3. PICK r : IsSum(r, u) /\ SumOf(u) = r[m]
    BY <2>2, SumIs
  <2>4. w[k + 1] = r[m]
    BY <2>b, <2>3
  <2>5. r \in [0..m -> Nat] /\ r[0] = 0 /\ \A i \in 1..m : r[i] = r[i - 1] + u[i]
    BY <2>2, <2>3 DEF IsSum
  <2>6. o[k + 1] = o[k] + m
    BY <1>a, <2>1
  <2>7. \A i \in 1..m : o[k] + i \in 1..Len(F) /\ F[o[k] + i] = ss[k + 1][i]
    BY <1>a, <2>1
  <2> HIDE DEF m
  <2> DEFINE R == {i \in 0..m : o[k] + i \in 0..Len(q) /\ s[o[k] + i] = t[k] + r[i]}
  <2>a. o[k] \in Nat /\ t[k] \in Nat /\ s[o[k]] = t[k] /\ o[k] \in 0..Len(q)
    BY <1>7, <1>a, <1>c
  <2>8. 0 \in R
    BY <2>2, <2>5, <2>a
  <2>9. ASSUME NEW i \in 0..m, i \in R, i < m
        PROVE  i + 1 \in R
    <3>1. i + 1 \in 1..m /\ i + 1 \in 0..m /\ (i + 1) - 1 = i
      BY <2>2, <2>9
    <3>2. o[k] + (i + 1) \in 1..Len(F) /\ F[o[k] + (i + 1)] = ss[k + 1][i + 1]
      BY <2>7, <3>1
    <3>3. q[o[k] + (i + 1)] = u[i + 1]
      BY <1>3, <2>2, <3>1, <3>2
    <3>4. (o[k] + (i + 1)) - 1 = o[k] + i
      <4>1. i \in Nat /\ o[k] \in Nat
        BY <2>2, <2>a
      <4>2. PICK a \in Nat : o[k] = a
        BY <4>1
      <4> QED BY <4>1, <4>2
    <3>5. s[o[k] + (i + 1)] = s[o[k] + i] + u[i + 1]
      BY <1>3, <1>b, <3>2, <3>3, <3>4
    <3>6. r[i + 1] = r[i] + u[i + 1] /\ r[i] \in Nat /\ u[i + 1] \in Nat
      <4>1. u[i + 1] \in Nat
        BY <2>2, <3>1, ElementOfSeq
      <4> QED BY <2>5, <3>1, <4>1
    <3>7. s[o[k] + i] = t[k] + r[i]
      BY <2>9
    <3>8. s[o[k] + (i + 1)] = t[k] + r[i + 1]
      <4>1. PICK a \in Nat, b \in Nat, c \in Nat : t[k] = a /\ r[i] = b /\ u[i + 1] = c
        BY <2>a, <3>6
      <4>2. s[o[k] + (i + 1)] = (a + b) + c /\ r[i + 1] = b + c
        BY <3>5, <3>6, <3>7, <4>1
      <4> QED BY <4>1, <4>2
    <3>9. o[k] + (i + 1) \in 0..Len(q)
      BY <1>3, <3>2
    <3> QED BY <3>1, <3>8, <3>9
  <2> HIDE DEF R
  <2>10. 0..m \subseteq R
    BY <2>2, <2>8, <2>9, Induct
  <2>11. m \in R
    BY <2>2, <2>10
  <2>12. o[k + 1] \in 0..Len(q) /\ s[o[k + 1]] = t[k] + w[k + 1]
    BY <2>4, <2>6, <2>11 DEF R
  <2> QED BY <1>c, <2>1, <2>12
<1> HIDE DEF T
<1>8. 0..n \subseteq T
  BY <1>1, <1>6, <1>7, Induct
<1>9. s[o[n]] = t[n]
  BY <1>1, <1>8 DEF T
<1>10. SumOf(q) = SumOf(w)
  BY <1>3, <1>4, <1>5, <1>9, <1>a DEF n
<1> QED BY <1>2, <1>10 DEF F, q

-----------------------------------------------------------------------------
(* Sequences made of others.                                               *)

\* What a sequence holds that joins those of another.
Gathered(p, ss) ==
  /\ IsSeq(p)
  /\ \A k \in 1..Len(p) : \E j \in 1..Len(ss) : \E i \in 1..Len(ss[j]) : p[k] = ss[j][i]
  /\ \A j \in 1..Len(ss) : \A i \in 1..Len(ss[j]) : \E k \in 1..Len(p) : p[k] = ss[j][i]

LEMMA FlattenedGathers ==
  ASSUME NEW ss, IsSeq(ss), \A j \in 1..Len(ss) : IsSeq(ss[j])
  PROVE  Gathered(FlattenSeq(ss), ss)
<1> DEFINE n == Len(ss)
           S == UNION {Range(ss[j]) : j \in 1..n}
           F == FlattenSeq(ss)
<1>1. n \in Nat /\ DOMAIN ss = 1..n
  BY DomainOfSeq
<1>2. \A j \in 1..n : ss[j] \in Seq(S)
  <2> TAKE j \in 1..n
  <2>1. ss[j] \in Seq(Range(ss[j])) /\ Range(ss[j]) \subseteq S
    BY DEF IsSeq
  <2> HIDE DEF S
  <2> QED BY <2>1
<1> HIDE DEF S
<1>3. ss \in Seq(Seq(S))
  <2>1. ss = [j \in 1..n |-> ss[j]]
    BY <1>1 DEF IsSeq
  <2> QED BY <1>1, <1>2, <2>1
<1>4. PICK o : F \in Seq(S) /\ Begin(o, ss, n) /\ Joins(F, ss, o, n)
  BY <1>3, FlattenJoins
<1> HIDE DEF F, n
<1>5. IsSeq(F)
  BY <1>4, SeqIsSeq
<1>6. ASSUME NEW k \in 1..Len(F)
      PROVE  \E j \in 1..n : \E i \in 1..Len(ss[j]) : F[k] = ss[j][i]
  <2>1. PICK j \in 1..n : k - o[j - 1] \in 1..Len(ss[j])
    BY <1>4 DEF Joins
  <2>2. o[j - 1] \in Nat
    BY <1>1, <1>4 DEF Begin
  <2>3. o[j - 1] + (k - o[j - 1]) = k
    BY <1>1, <1>5, <2>2, DomainOfSeq
  <2>4. F[o[j - 1] + (k - o[j - 1])] = ss[j][k - o[j - 1]]
    BY <1>4, <2>1 DEF Joins
  <2> QED BY <2>1, <2>3, <2>4
<1>7. ASSUME NEW j \in 1..n, NEW i \in 1..Len(ss[j])
      PROVE  \E k \in 1..Len(F) : F[k] = ss[j][i]
  BY <1>4 DEF Joins
<1> QED BY <1>5, <1>6, <1>7 DEF Gathered, F, n

\* A function on the first numbers is a sequence.
LEMMA MapIsSeq ==
  ASSUME NEW n \in Nat, NEW q, q = [i \in 1..n |-> q[i]]
  PROVE  IsSeq(q) /\ Len(q) = n
<1>1. \A i \in 1..n : q[i] \in Range(q)
  BY DEF Range
<1> QED BY <1>1 DEF IsSeq

\* What is left of a sequence when some of its elements are selected.
Picks(p, q, T) ==
  /\ IsSeq(p)
  /\ \A k \in 1..Len(p) : \E i \in T : p[k] = q[i]
  /\ \A i \in T : \E k \in 1..Len(p) : p[k] = q[i]

LEMMA FlattenedPicks ==
  ASSUME NEW q, IsSeq(q), NEW T, T \subseteq DOMAIN q, NEW ss,
         ss = [i \in DOMAIN q |-> IF i \in T THEN <<q[i]>> ELSE <<>>]
  PROVE  Picks(FlattenSeq(ss), q, T)
<1>1. DOMAIN q = 1..Len(q) /\ Len(q) \in Nat
  BY DomainOfSeq
<1>2. \A i \in 1..Len(q) : \/ i \in T /\ ss[i] = <<q[i]>>
                           \/ i \notin T /\ ss[i] = <<>>
  BY <1>1
<1>3. \A i \in 1..Len(q) : IsSeq(ss[i])
  BY <1>2, OneIsSeq, EmptyIsSeq
<1>4. IsSeq(ss) /\ Len(ss) = Len(q)
  <2>1. ss = [i \in 1..Len(q) |-> ss[i]]
    BY <1>1
  <2> QED BY <1>1, <2>1, MapIsSeq
<1> DEFINE F == FlattenSeq(ss)
<1>5. Gathered(F, ss)
  BY <1>3, <1>4, FlattenedGathers
<1> HIDE DEF F
<1>6. ASSUME NEW k \in 1..Len(F) PROVE \E i \in T : F[k] = q[i]
  <2>0. \E j \in 1..Len(ss) : \E i \in 1..Len(ss[j]) : F[k] = ss[j][i]
    BY <1>5 DEF Gathered
  <2>1. PICK j \in 1..Len(q) : \E i \in 1..Len(ss[j]) : F[k] = ss[j][i]
    BY <1>4, <2>0
  <2>2. PICK i \in 1..Len(ss[j]) : F[k] = ss[j][i]
    BY <2>1
  <2>3. j \in T /\ ss[j] = <<q[j]>>
    <3>1. ss[j] # <<>>
      BY <2>2, EmptyIsSeq
    <3> QED BY <1>2, <2>1, <3>1
  <2>4. i = 1
    BY <2>2, <2>3, OneIsSeq
  <2> QED BY <2>2, <2>3, <2>4, OneIsSeq
<1>7. ASSUME NEW i \in T PROVE \E k \in 1..Len(F) : F[k] = q[i]
  <2>1. i \in 1..Len(q) /\ ss[i] = <<q[i]>>
    BY <1>1, <1>2
  <2>2. 1 \in 1..Len(ss[i]) /\ ss[i][1] = q[i]
    BY <2>1, OneIsSeq
  <2>3. \E k \in 1..Len(F) : F[k] = ss[i][1]
    BY <1>4, <1>5, <2>1, <2>2, Zenon DEF Gathered
  <2> QED BY <2>2, <2>3
<1> QED BY <1>5, <1>6, <1>7 DEF Picks, Gathered, F

LEMMA BothAreSeq ==
  ASSUME NEW p, IsSeq(p), NEW q, IsSeq(q)
  PROVE  /\ IsSeq(p \o q)
         /\ Len(p \o q) = Len(p) + Len(q) /\ Len(p) \in Nat /\ Len(q) \in Nat
         /\ \A i \in 1..(Len(p) + Len(q)) :
              (p \o q)[i] = IF i <= Len(p) THEN p[i] ELSE q[i - Len(p)]
<1> DEFINE S == Range(p) \cup Range(q)
<1>1. p \in Seq(S) /\ q \in Seq(S)
  <2>1. Range(p) \subseteq S /\ Range(q) \subseteq S
    OBVIOUS
  <2> HIDE DEF S
  <2> QED BY <2>1 DEF IsSeq
<1> HIDE DEF S
<1>2. /\ p \o q \in Seq(S)
      /\ Len(p \o q) = Len(p) + Len(q) /\ Len(p) \in Nat /\ Len(q) \in Nat
      /\ \A i \in 1..(Len(p) + Len(q)) :
           (p \o q)[i] = IF i <= Len(p) THEN p[i] ELSE q[i - Len(p)]
  BY <1>1, ConcatProperties
<1>3. IsSeq(p \o q)
  BY <1>2, SeqIsSeq
<1> QED BY <1>2, <1>3

\* What elements of a sequence are in two behind each other.
Unites(s, p, q) ==
  /\ IsSeq(s)
  /\ \A i \in 1..Len(s) : \/ \E j \in 1..Len(p) : s[i] = p[j]
                          \/ \E j \in 1..Len(q) : s[i] = q[j]
  /\ \A j \in 1..Len(p) : \E i \in 1..Len(s) : s[i] = p[j]
  /\ \A j \in 1..Len(q) : \E i \in 1..Len(s) : s[i] = q[j]

LEMMA BothHold ==
  ASSUME NEW p, IsSeq(p), NEW q, IsSeq(q)
  PROVE  Unites(p \o q, p, q)
<1>1. /\ IsSeq(p \o q)
      /\ Len(p \o q) = Len(p) + Len(q) /\ Len(p) \in Nat /\ Len(q) \in Nat
      /\ \A i \in 1..(Len(p) + Len(q)) :
           (p \o q)[i] = IF i <= Len(p) THEN p[i] ELSE q[i - Len(p)]
  BY BothAreSeq
<1>2. ASSUME NEW i \in 1..Len(p \o q)
      PROVE  \/ \E j \in 1..Len(p) : (p \o q)[i] = p[j]
             \/ \E j \in 1..Len(q) : (p \o q)[i] = q[j]
  <2>1. CASE i <= Len(p)
    <3>1. i \in 1..Len(p) /\ (p \o q)[i] = p[i]
      BY <1>1, <2>1
    <3> QED BY <3>1
  <2>2. CASE ~(i <= Len(p))
    <3>1. i \in 1..(Len(p) + Len(q))
      BY <1>1
    <3>2. i - Len(p) \in 1..Len(q)
      BY <1>1, <2>2, <3>1
    <3>3. (p \o q)[i] = q[i - Len(p)]
      BY <1>1, <2>2, <3>1
    <3> QED BY <3>2, <3>3
  <2> QED BY <2>1, <2>2
<1>3. ASSUME NEW j \in 1..Len(p)
      PROVE  \E i \in 1..Len(p \o q) : (p \o q)[i] = p[j]
  <2>1. j \in 1..Len(p \o q) /\ (p \o q)[j] = p[j]
    BY <1>1
  <2> QED BY <2>1
<1>4. ASSUME NEW j \in 1..Len(q)
      PROVE  \E i \in 1..Len(p \o q) : (p \o q)[i] = q[j]
  <2>1. Len(p) + j \in 1..(Len(p) + Len(q)) /\ ~(Len(p) + j <= Len(p))
    BY <1>1
  <2>2. (Len(p) + j) - Len(p) = j
    BY <1>1
  <2> QED BY <1>1, <2>1, <2>2
<1> QED BY <1>1, <1>2, <1>3, <1>4 DEF Unites

\* A part of a sequence.
LEMMA PartIsSeq ==
  ASSUME NEW q, IsSeq(q), NEW m \in Nat, m >= 1, NEW n \in Nat, n <= Len(q)
  PROVE  /\ IsSeq(SubSeq(q, m, n))
         /\ Len(SubSeq(q, m, n)) = IF m <= n THEN (n - m) + 1 ELSE 0
         /\ \A i \in 1..Len(SubSeq(q, m, n)) :
              /\ (m + i) - 1 \in 1..Len(q)
              /\ SubSeq(q, m, n)[i] = q[(m + i) - 1]
<1>1. q \in Seq(Range(q)) /\ Len(q) \in Nat
  BY DEF IsSeq
<1>2. \A i \in m..n : q[i] \in Range(q)
  <2>1. \A i \in m..n : i \in 1..Len(q)
    BY <1>1
  <2> QED BY <1>1, <2>1, ElementOfSeq
<1>3. /\ SubSeq(q, m, n) \in Seq(Range(q))
      /\ Len(SubSeq(q, m, n)) = IF m <= n THEN n - m + 1 ELSE 0
      /\ \A i \in 1..(n - m + 1) : SubSeq(q, m, n)[i] = q[m + i - 1]
  BY <1>2, SubSeqProperties
<1>4. IsSeq(SubSeq(q, m, n))
  BY <1>3, SeqIsSeq
<1>5. Len(SubSeq(q, m, n)) = IF m <= n THEN (n - m) + 1 ELSE 0
  BY <1>3
<1> HIDE DEF IsSeq
<1>6. ASSUME NEW i \in 1..Len(SubSeq(q, m, n))
      PROVE  (m + i) - 1 \in 1..Len(q) /\ SubSeq(q, m, n)[i] = q[(m + i) - 1]
  <2>1. m <= n /\ i \in 1..((n - m) + 1)
    BY <1>5
  <2>2. m + i - 1 = (m + i) - 1 /\ n - m + 1 = (n - m) + 1
    OBVIOUS
  <2> QED BY <1>1, <1>3, <2>1, <2>2
<1> QED BY <1>4, <1>5, <1>6

-----------------------------------------------------------------------------
(* The shapes of a program, and the sizes of its parts.                    *)

ArgList(q)  == IsListOf(q, IsArgument)
StmtList(q) == IsListOf(q, IsStatement)
DataList(q) == IsListOf(q, IsDatum)
CellList(q) == IsListOf(q, IsCell)

LEMMA ListsAre ==
  ASSUME NEW q
  PROVE  /\ ArgList(q)  <=> IsSeq(q) /\ \A i \in 1..Len(q) : IsArgument(q[i])
         /\ StmtList(q) <=> IsSeq(q) /\ \A i \in 1..Len(q) : IsStatement(q[i])
         /\ DataList(q) <=> IsSeq(q) /\ \A i \in 1..Len(q) : IsDatum(q[i])
         /\ CellList(q) <=> IsSeq(q) /\ \A i \in 1..Len(q) : IsCell(q[i])
<1>1. IsSeq(q) => DOMAIN q = 1..Len(q)
  BY DomainOfSeq
<1>2. ArgList(q)  <=> IsSeq(q) /\ \A i \in 1..Len(q) : IsArgument(q[i])
  BY <1>1, Zenon DEF ArgList, IsListOf, IsSeq
<1>3. StmtList(q) <=> IsSeq(q) /\ \A i \in 1..Len(q) : IsStatement(q[i])
  BY <1>1, Zenon DEF StmtList, IsListOf, IsSeq
<1>4. DataList(q) <=> IsSeq(q) /\ \A i \in 1..Len(q) : IsDatum(q[i])
  BY <1>1, Zenon DEF DataList, IsListOf, IsSeq
<1>5. CellList(q) <=> IsSeq(q) /\ \A i \in 1..Len(q) : IsCell(q[i])
  BY <1>1, Zenon DEF CellList, IsListOf, IsSeq
<1> QED BY <1>2, <1>3, <1>4, <1>5

ArgFields  == {"type", "scale", "label", "temp", "val", "base", "rel"}
StmtFields == {"op", "id", "label", "args", "offset"}
DataFields == {"label", "const", "shared", "cells", "offset"}
FunctionFields == {"name", "params", "stmts", "locals", "offset", "loaded"}

LEMMA ShapesAre ==
  /\ \A a : IsArgument(a) <=> DOMAIN a = ArgFields /\ a.scale \in {1, 2, 4, 8}
  /\ \A s : IsStatement(s) <=> DOMAIN s = StmtFields /\ s.offset \in Nat /\ ArgList(s.args)
  /\ \A d : IsDatum(d) <=> /\ DOMAIN d = DataFields
                           /\ d.const \in BOOLEAN /\ d.shared \in BOOLEAN
                           /\ d.offset \in Int /\ CellList(d.cells)
<1>1. \A a : IsArgument(a) <=> DOMAIN a = ArgFields /\ a.scale \in {1, 2, 4, 8}
  BY Zenon DEF IsArgument, ArgFields
<1>2. \A s : IsStatement(s) <=> DOMAIN s = StmtFields /\ s.offset \in Nat /\ ArgList(s.args)
  BY Zenon DEF IsStatement, StmtFields, ArgList
<1>3. \A d : IsDatum(d) <=> /\ DOMAIN d = DataFields
                           /\ d.const \in BOOLEAN /\ d.shared \in BOOLEAN
                           /\ d.offset \in Int /\ CellList(d.cells)
  BY Zenon DEF IsDatum, DataFields, CellList
<1> QED BY <1>1, <1>2, <1>3

IsFunction(f) ==
  /\ DOMAIN f = FunctionFields
  /\ f.offset \in Nat
  /\ StmtList(f.stmts)
  /\ DataList(f.locals)

FunctionList(q) == IsSeq(q) /\ \A i \in 1..Len(q) : IsFunction(q[i])

\* A call has the label it calls.
Callable(s) == s.op = "JSR" => Len(s.args) >= 1
CallsLegal(q) == \A i \in 1..Len(q) : Callable(q[i])
AllCallsLegal(q) == \A i \in 1..Len(q) : CallsLegal(q[i].stmts)

\* A sum of natural numbers.
LEMMA NatSum ==
  ASSUME NEW n \in Nat, NEW q, q = [i \in 1..n |-> q[i]], \A i \in 1..n : q[i] \in Nat
  PROVE  q \in Seq(Nat) /\ Len(q) = n /\ SumOf(q) \in Nat
<1>1. q \in Seq(Nat) /\ Len(q) = n
  OBVIOUS
<1> QED BY <1>1, SumIs

\* The sums of the first numbers of a sequence, and the one it adds.
LEMMA NatSumFirst ==
  ASSUME NEW n \in Nat, NEW q, \A i \in 1..n : q[i] \in Nat, NEW k \in 0..n
  PROVE  SumOf([j \in 1..k |-> q[j]]) \in Nat
<1> DEFINE p == [j \in 1..k |-> q[j]]
<1>1. p = [j \in 1..k |-> p[j]] /\ (\A j \in 1..k : p[j] \in Nat) /\ k \in Nat
  OBVIOUS
<1> HIDE DEF p
<1>2. SumOf(p) \in Nat
  BY <1>1, NatSum
<1> QED BY <1>2 DEF p

Words(n) == \E k \in Nat : n = 4 * k

LEMMA AlignedIs ==
  ASSUME NEW n \in Nat
  PROVE  /\ Aligned(n) \in Nat /\ Aligned(n) >= n /\ Words(Aligned(n))
         /\ Words(n) => Aligned(n) = n
<1>1. PICK m \in Nat, k \in Nat : m = n % 4 /\ m < 4 /\ n = 4 * k + m
  <2>1. n % 4 \in Nat /\ n % 4 < 4 /\ n \div 4 \in Nat /\ n = 4 * (n \div 4) + (n % 4)
    OBVIOUS
  <2> DEFINE k == n \div 4
             m == n % 4
  <2> HIDE DEF k, m
  <2> QED BY <2>1 DEF k, m
<1>2. CASE m = 0
  BY <1>1, <1>2 DEF Aligned, Words
<1>3. CASE m # 0
  <2>1. Aligned(n) = n + 4 - m
    BY <1>1, <1>3 DEF Aligned
  <2>2. Aligned(n) = 4 * (k + 1) /\ k + 1 \in Nat
    BY <1>1, <2>1
  <2>3. ~Words(n)
    BY <1>1, <1>3 DEF Words
  <2>4. Words(Aligned(n))
    BY <2>2 DEF Words
  <2> QED BY <1>1, <2>1, <2>3, <2>4
<1> QED BY <1>2, <1>3

LEMMA ArgSizeIs ==
  ASSUME NEW a, IsArgument(a)
  PROVE  ArgSize(a) \in Nat
BY ShapesAre DEF ArgSize

LEMMA EncodedIs ==
  ASSUME NEW s, IsStatement(s), Callable(s)
  PROVE  ArgList(Encoded(s))
<1>1. ArgList(s.args)
  BY ShapesAre
<1>2. CASE s.op = "RET" \/ IsLabel(s)
  BY <1>2, EmptyIsSeq, ListsAre DEF Encoded
<1>3. CASE ~(s.op = "RET" \/ IsLabel(s)) /\ s.op = "JSR"
  <2>1. Len(s.args) \in Nat /\ Len(s.args) >= 1 /\ IsSeq(s.args)
    BY <1>1, <1>3, ListsAre, DomainOfSeq DEF Callable
  <2>2. IsArgument(s.args[1])
    BY <1>1, <2>1, ListsAre
  <2>3. Encoded(s) = <<s.args[1]>>
    BY <1>3 DEF Encoded
  <2> QED BY <2>2, <2>3, OneIsSeq, ListsAre
<1>4. CASE ~(s.op = "RET" \/ IsLabel(s)) /\ s.op # "JSR"
  BY <1>1, <1>4 DEF Encoded
<1> QED BY <1>2, <1>3, <1>4

\* The size of a statement: nothing for a label, and at least its word.
LEMMA StmtSizeIs ==
  ASSUME NEW s, IsStatement(s), Callable(s)
  PROVE  /\ StmtSize(s) \in Nat
         /\ IsLabel(s) => StmtSize(s) = 0
         /\ ~IsLabel(s) => StmtSize(s) >= 4
<1> DEFINE e == Encoded(s)
           q == [k \in DOMAIN e |-> ArgSize(e[k])]
<1>1. IsSeq(e) /\ \A i \in 1..Len(e) : IsArgument(e[i])
  BY EncodedIs, ListsAre
<1>2. DOMAIN e = 1..Len(e) /\ Len(e) \in Nat
  BY <1>1, DomainOfSeq
<1> HIDE DEF e
<1>3. q = [k \in 1..Len(e) |-> q[k]] /\ \A k \in 1..Len(e) : q[k] \in Nat
  BY <1>1, <1>2, ArgSizeIs
<1>4. StmtSize(s) = IF IsLabel(s) THEN 0 ELSE 4 + SumOf(q)
  BY Zenon DEF StmtSize, e
<1> HIDE DEF q
<1>5. SumOf(q) \in Nat
  BY <1>2, <1>3, NatSum
<1> QED BY <1>4, <1>5

LEMMA FunctionSizeIs ==
  ASSUME NEW f, StmtList(f.stmts), CallsLegal(f.stmts)
  PROVE  InstrSize(f) \in Nat /\ FunctionSize(f) \in Nat
<1> DEFINE q == [i \in DOMAIN f.stmts |-> StmtSize(f.stmts[i])]
           n == Len(f.stmts)
<1>1. DOMAIN f.stmts = 1..n /\ n \in Nat
  BY ListsAre, DomainOfSeq
<1>2. \A i \in 1..n : IsStatement(f.stmts[i]) /\ Callable(f.stmts[i])
  BY ListsAre DEF CallsLegal
<1>3. \A i \in 1..n : StmtSize(f.stmts[i]) \in Nat
  BY <1>2, StmtSizeIs
<1>4. q = [i \in 1..n |-> q[i]] /\ \A i \in 1..n : q[i] \in Nat
  BY <1>1, <1>3
<1>5. InstrSize(f) = SumOf(q)
  BY Zenon DEF InstrSize
<1> HIDE DEF q, n
<1>6. SumOf(q) \in Nat
  BY <1>1, <1>4, NatSum
<1>7. InstrSize(f) \in Nat
  BY <1>5, <1>6
<1> QED BY <1>7, AlignedIs DEF FunctionSize

LEMMA DataSizeIs ==
  ASSUME NEW d, IsDatum(d)
  PROVE  DataSize(d) \in Nat
<1> DEFINE q == [i \in DOMAIN d.cells |-> d.cells[i].size]
           n == Len(d.cells)
<1>1. IsSeq(d.cells) /\ \A i \in 1..n : IsCell(d.cells[i])
  BY ShapesAre, ListsAre
<1>2. DOMAIN d.cells = 1..n /\ n \in Nat
  BY <1>1, DomainOfSeq
<1>3. q = [i \in 1..n |-> q[i]] /\ \A i \in 1..n : q[i] \in Nat
  BY <1>1, <1>2 DEF IsCell
<1>4. DataSize(d) = SumOf(q)
  BY Zenon DEF DataSize
<1> HIDE DEF q, n
<1> QED BY <1>2, <1>3, <1>4, NatSum
-----------------------------------------------------------------------------
(* What the tree of a source adds to the program.                          *)

LEMMA InheritedIs ==
  ASSUME NEW vars_, DataList(vars_)
  PROVE  /\ DataList(Inherited(vars_))
         /\ Len(Inherited(vars_)) = Len(vars_) /\ Len(vars_) \in Nat
         /\ \A i \in 1..Len(vars_) :
              /\ Inherited(vars_)[i].label = vars_[i].label
              /\ Inherited(vars_)[i].cells = vars_[i].cells
              /\ Inherited(vars_)[i].offset = vars_[i].offset
<1> DEFINE n == Len(vars_)
           q == Inherited(vars_)
<1>1. /\ DOMAIN vars_ = 1..n /\ n \in Nat /\ IsSeq(vars_)
      /\ \A i \in 1..n : IsDatum(vars_[i])
  BY ListsAre, DomainOfSeq
<1> HIDE DEF n
<1>2. ASSUME NEW i \in 1..n
      PROVE  \E c \in BOOLEAN, h \in BOOLEAN :
               q[i] = [vars_[i] EXCEPT !.const = c, !.shared = h]
  <2> DEFINE labels == {j \in 1..i : vars_[j].label # <<>>}
             of == vars_[CHOOSE j \in labels : \A k \in labels : k <= j]
  <2>1. q[i] = IF labels = {} THEN [vars_[i] EXCEPT !.const = FALSE, !.shared = FALSE]
               ELSE [vars_[i] EXCEPT !.const = of.const, !.shared = of.shared]
    BY <1>1, Zenon DEF Inherited
  <2>2. CASE labels = {}
    BY <2>1, <2>2
  <2>3. CASE labels # {}
    <3>1. labels \subseteq 1..n /\ labels \subseteq Nat /\ IsFiniteSet(labels)
      <4>1. labels \subseteq 1..i /\ 1..i \subseteq 1..n
        BY <1>1
      <4> QED BY <1>1, <4>1, FS_Interval, FS_Subset
    <3> HIDE DEF labels
    <3>2. \E j \in labels : \A k \in labels : k <= j
      BY <2>3, <3>1, LargestNumber
    <3> DEFINE m == CHOOSE j \in labels : \A k \in labels : k <= j
    <3>3. m \in labels
      BY <3>2
    <3> HIDE DEF m
    <3>4. of.const \in BOOLEAN /\ of.shared \in BOOLEAN
      <4>1. of = vars_[m] /\ m \in 1..n
        BY <3>1, <3>3 DEF m
      <4> QED BY <1>1, <4>1, ShapesAre
    <3> HIDE DEF of
    <3> QED BY <2>1, <2>3, <3>4
  <2> QED BY <2>2, <2>3
<1>3. q = [i \in 1..n |-> q[i]]
  <2>1. q = [i \in DOMAIN q |-> q[i]] /\ DOMAIN q = DOMAIN vars_
    BY DEF Inherited
  <2> QED BY <1>1, <2>1
<1> HIDE DEF q
<1>4. ASSUME NEW i \in 1..n
      PROVE  /\ IsDatum(q[i]) /\ q[i].label = vars_[i].label /\ q[i].cells = vars_[i].cells
             /\ q[i].offset = vars_[i].offset
  <2>1. PICK c \in BOOLEAN, h \in BOOLEAN :
               q[i] = [vars_[i] EXCEPT !.const = c, !.shared = h]
    BY <1>2
  <2>2. DOMAIN vars_[i] = DataFields /\ vars_[i].offset \in Int /\ CellList(vars_[i].cells)
    BY <1>1, ShapesAre
  <2>3. /\ DOMAIN q[i] = DataFields /\ q[i].const = c /\ q[i].shared = h
        /\ q[i].offset = vars_[i].offset /\ q[i].cells = vars_[i].cells
        /\ q[i].label = vars_[i].label
    BY <2>1, <2>2 DEF DataFields
  <2> QED BY <2>2, <2>3, ShapesAre
<1>5. IsSeq(q) /\ Len(q) = n
  BY <1>1, <1>3, MapIsSeq
<1>6. DataList(q)
  BY <1>4, <1>5, ListsAre
<1> QED BY <1>1, <1>4, <1>5, <1>6 DEF n, q

LEMMA FunctionVariablesAre ==
  ASSUME NEW f, NEW vars_, DataList(vars_)
  PROVE  /\ DataList(FunctionVariables(f, vars_))
         /\ Len(FunctionVariables(f, vars_)) = Len(vars_)
         /\ \A i \in 1..Len(vars_) :
              /\ FunctionVariables(f, vars_)[i] = Renamed(f, Inherited(vars_)[i])
              /\ FunctionVariables(f, vars_)[i].cells = vars_[i].cells
              /\ FunctionVariables(f, vars_)[i].offset = vars_[i].offset
              /\ FunctionVariables(f, vars_)[i].const = Inherited(vars_)[i].const
              /\ FunctionVariables(f, vars_)[i].shared = Inherited(vars_)[i].shared
<1> DEFINE n == Len(vars_)
           p == Inherited(vars_)
           q == FunctionVariables(f, vars_)
<1>1. /\ DataList(p) /\ Len(p) = n /\ n \in Nat
      /\ \A i \in 1..n : p[i].cells = vars_[i].cells /\ p[i].offset = vars_[i].offset
  BY InheritedIs
<1>2. DOMAIN p = 1..n /\ \A i \in 1..n : IsDatum(p[i])
  BY <1>1, ListsAre, DomainOfSeq
<1>3. q = [i \in 1..n |-> Renamed(f, p[i])]
  BY <1>2, Zenon DEF FunctionVariables
<1>4. \A i \in 1..n : q[i] = Renamed(f, p[i])
  BY <1>3
<1>5. q = [i \in 1..n |-> q[i]]
  BY <1>3, <1>4
<1> HIDE DEF n, p, q
<1>6. ASSUME NEW i \in 1..n
      PROVE  /\ IsDatum(q[i]) /\ q[i].cells = p[i].cells /\ q[i].offset = p[i].offset
             /\ q[i].const = p[i].const /\ q[i].shared = p[i].shared
  <2>1. /\ DOMAIN p[i] = DataFields /\ p[i].offset \in Int /\ CellList(p[i].cells)
        /\ p[i].const \in BOOLEAN /\ p[i].shared \in BOOLEAN
    BY <1>2, ShapesAre
  <2>2. q[i] = p[i] \/ \E l : q[i] = [p[i] EXCEPT !.label = l]
    BY <1>4 DEF Renamed
  <2>3. /\ DOMAIN q[i] = DataFields /\ q[i].const = p[i].const /\ q[i].shared = p[i].shared
        /\ q[i].offset = p[i].offset /\ q[i].cells = p[i].cells
    <3>1. CASE q[i] = p[i]
      BY <2>1, <3>1
    <3>2. ASSUME NEW l, q[i] = [p[i] EXCEPT !.label = l]
          PROVE  /\ DOMAIN q[i] = DataFields /\ q[i].const = p[i].const
                 /\ q[i].shared = p[i].shared
                 /\ q[i].offset = p[i].offset /\ q[i].cells = p[i].cells
      BY <2>1, <3>2 DEF DataFields
    <3> QED BY <2>2, <3>1, <3>2
  <2> QED BY <2>1, <2>3, ShapesAre
<1>7. IsSeq(q) /\ Len(q) = n
  BY <1>1, <1>5, MapIsSeq
<1>8. DataList(q)
  BY <1>6, <1>7, ListsAre
<1> QED BY <1>1, <1>4, <1>6, <1>7, <1>8 DEF n, p, q

-----------------------------------------------------------------------------
\* What is selected of data is data.
LEMMA PickedData ==
  ASSUME NEW q, DataList(q), NEW T, T \subseteq DOMAIN q, NEW p, Picks(p, q, T)
  PROVE  DataList(p)
<1>1. IsSeq(q) /\ DOMAIN q = 1..Len(q) /\ \A i \in 1..Len(q) : IsDatum(q[i])
  BY ListsAre, DomainOfSeq
<1>2. IsSeq(p) /\ \A k \in 1..Len(p) : IsDatum(p[k])
  BY <1>1 DEF Picks
<1> QED BY <1>2, ListsAre

LEMMA SelectedData ==
  ASSUME NEW q, DataList(q)
  PROVE  /\ Picks(Selected(q, OnStack), q, {i \in DOMAIN q : OnStack(q[i])})
         /\ Picks(Selected(q, InSection), q, {i \in DOMAIN q : InSection(q[i])})
         /\ Picks(Selected(q, IsConstant), q, {i \in DOMAIN q : IsConstant(q[i])})
         /\ Picks(Selected(q, IsShared), q, {i \in DOMAIN q : IsShared(q[i])})
         /\ DataList(Selected(q, OnStack)) /\ DataList(Selected(q, InSection))
         /\ DataList(Selected(q, IsConstant)) /\ DataList(Selected(q, IsShared))
<1>0. IsSeq(q)
  BY ListsAre
<1>1. Picks(Selected(q, OnStack), q, {i \in DOMAIN q : OnStack(q[i])})
  <2> DEFINE T == {i \in DOMAIN q : OnStack(q[i])}
             ss == [i \in DOMAIN q |-> IF OnStack(q[i]) THEN <<q[i]>> ELSE <<>>]
  <2>1. Selected(q, OnStack) = FlattenSeq(ss)
    BY Zenon DEF Selected
  <2>2. ss = [i \in DOMAIN q |-> IF i \in T THEN <<q[i]>> ELSE <<>>] /\ T \subseteq DOMAIN q
    OBVIOUS
  <2> HIDE DEF ss, T
  <2> QED BY <1>0, <2>1, <2>2, FlattenedPicks DEF T
<1>2. Picks(Selected(q, InSection), q, {i \in DOMAIN q : InSection(q[i])})
  <2> DEFINE T == {i \in DOMAIN q : InSection(q[i])}
             ss == [i \in DOMAIN q |-> IF InSection(q[i]) THEN <<q[i]>> ELSE <<>>]
  <2>1. Selected(q, InSection) = FlattenSeq(ss)
    BY Zenon DEF Selected
  <2>2. ss = [i \in DOMAIN q |-> IF i \in T THEN <<q[i]>> ELSE <<>>] /\ T \subseteq DOMAIN q
    OBVIOUS
  <2> HIDE DEF ss, T
  <2> QED BY <1>0, <2>1, <2>2, FlattenedPicks DEF T
<1>3. Picks(Selected(q, IsConstant), q, {i \in DOMAIN q : IsConstant(q[i])})
  <2> DEFINE T == {i \in DOMAIN q : IsConstant(q[i])}
             ss == [i \in DOMAIN q |-> IF IsConstant(q[i]) THEN <<q[i]>> ELSE <<>>]
  <2>1. Selected(q, IsConstant) = FlattenSeq(ss)
    BY Zenon DEF Selected
  <2>2. ss = [i \in DOMAIN q |-> IF i \in T THEN <<q[i]>> ELSE <<>>] /\ T \subseteq DOMAIN q
    OBVIOUS
  <2> HIDE DEF ss, T
  <2> QED BY <1>0, <2>1, <2>2, FlattenedPicks DEF T
<1>4. Picks(Selected(q, IsShared), q, {i \in DOMAIN q : IsShared(q[i])})
  <2> DEFINE T == {i \in DOMAIN q : IsShared(q[i])}
             ss == [i \in DOMAIN q |-> IF IsShared(q[i]) THEN <<q[i]>> ELSE <<>>]
  <2>1. Selected(q, IsShared) = FlattenSeq(ss)
    BY Zenon DEF Selected
  <2>2. ss = [i \in DOMAIN q |-> IF i \in T THEN <<q[i]>> ELSE <<>>] /\ T \subseteq DOMAIN q
    OBVIOUS
  <2> HIDE DEF ss, T
  <2> QED BY <1>0, <2>1, <2>2, FlattenedPicks DEF T
<1>5. /\ DataList(Selected(q, OnStack)) /\ DataList(Selected(q, InSection))
      /\ DataList(Selected(q, IsConstant)) /\ DataList(Selected(q, IsShared))
  <2>1. /\ {i \in DOMAIN q : OnStack(q[i])} \subseteq DOMAIN q
        /\ {i \in DOMAIN q : InSection(q[i])} \subseteq DOMAIN q
        /\ {i \in DOMAIN q : IsConstant(q[i])} \subseteq DOMAIN q
        /\ {i \in DOMAIN q : IsShared(q[i])} \subseteq DOMAIN q
    OBVIOUS
  <2>2. DataList(Selected(q, OnStack))
    BY <1>1, <2>1, PickedData
  <2>3. DataList(Selected(q, InSection))
    BY <1>2, <2>1, PickedData
  <2>4. DataList(Selected(q, IsConstant))
    BY <1>3, <2>1, PickedData
  <2>5. DataList(Selected(q, IsShared))
    BY <1>4, <2>1, PickedData
  <2> QED BY <2>2, <2>3, <2>4, <2>5
<1> QED BY <1>1, <1>2, <1>3, <1>4, <1>5

LEMMA SelectedItems ==
  ASSUME NEW q, IsSeq(q)
  PROVE  /\ Picks(Selected(q, IsDefinition), q, {i \in DOMAIN q : IsDefinition(q[i])})
         /\ Picks(Selected(q, IsPrototype), q, {i \in DOMAIN q : IsPrototype(q[i])})
         /\ Picks(Selected(q, IsGlobals), q, {i \in DOMAIN q : IsGlobals(q[i])})
<1>1. Picks(Selected(q, IsDefinition), q, {i \in DOMAIN q : IsDefinition(q[i])})
  <2> DEFINE T == {i \in DOMAIN q : IsDefinition(q[i])}
             ss == [i \in DOMAIN q |-> IF IsDefinition(q[i]) THEN <<q[i]>> ELSE <<>>]
  <2>1. Selected(q, IsDefinition) = FlattenSeq(ss)
    BY Zenon DEF Selected
  <2>2. ss = [i \in DOMAIN q |-> IF i \in T THEN <<q[i]>> ELSE <<>>] /\ T \subseteq DOMAIN q
    OBVIOUS
  <2> HIDE DEF ss, T
  <2> QED BY <2>1, <2>2, FlattenedPicks DEF T
<1>2. Picks(Selected(q, IsPrototype), q, {i \in DOMAIN q : IsPrototype(q[i])})
  <2> DEFINE T == {i \in DOMAIN q : IsPrototype(q[i])}
             ss == [i \in DOMAIN q |-> IF IsPrototype(q[i]) THEN <<q[i]>> ELSE <<>>]
  <2>1. Selected(q, IsPrototype) = FlattenSeq(ss)
    BY Zenon DEF Selected
  <2>2. ss = [i \in DOMAIN q |-> IF i \in T THEN <<q[i]>> ELSE <<>>] /\ T \subseteq DOMAIN q
    OBVIOUS
  <2> HIDE DEF ss, T
  <2> QED BY <2>1, <2>2, FlattenedPicks DEF T
<1>3. Picks(Selected(q, IsGlobals), q, {i \in DOMAIN q : IsGlobals(q[i])})
  <2> DEFINE T == {i \in DOMAIN q : IsGlobals(q[i])}
             ss == [i \in DOMAIN q |-> IF IsGlobals(q[i]) THEN <<q[i]>> ELSE <<>>]
  <2>1. Selected(q, IsGlobals) = FlattenSeq(ss)
    BY Zenon DEF Selected
  <2>2. ss = [i \in DOMAIN q |-> IF i \in T THEN <<q[i]>> ELSE <<>>] /\ T \subseteq DOMAIN q
    OBVIOUS
  <2> HIDE DEF ss, T
  <2> QED BY <2>1, <2>2, FlattenedPicks DEF T
<1> QED BY <1>1, <1>2, <1>3

\* The arguments of a statement know where in it they lie.
LEMMA WithArgsIs ==
  ASSUME NEW s, IsStatement(s)
  PROVE  /\ IsStatement(WithArgs(s))
         /\ WithArgs(s).op = s.op /\ WithArgs(s).id = s.id /\ WithArgs(s).label = s.label
         /\ Len(WithArgs(s).args) = Len(s.args)
         /\ \A k \in 1..Len(s.args) :
              \E r : WithArgs(s).args[k] = [s.args[k] EXCEPT !.rel = r]
<1> DEFINE Rel(k) == StmtSize([s EXCEPT !.args = SubSeq(@, 1, k)]) - ArgSize(s.args[k])
           p == [k \in DOMAIN s.args |-> [s.args[k] EXCEPT !.rel = Rel(k)]]
           n == Len(s.args)
<1>1. /\ DOMAIN s = StmtFields /\ s.offset \in Nat /\ ArgList(s.args)
      /\ IsSeq(s.args) /\ \A k \in 1..n : IsArgument(s.args[k])
  BY ShapesAre, ListsAre
<1>2. DOMAIN s.args = 1..n /\ n \in Nat
  BY <1>1, DomainOfSeq
<1>3. WithArgs(s) = [s EXCEPT !.args = p]
  BY Zenon DEF WithArgs
<1> HIDE DEF Rel, n
<1>4. p = [k \in 1..n |-> p[k]] /\ \A k \in 1..n : p[k] = [s.args[k] EXCEPT !.rel = Rel(k)]
  BY <1>2
<1> HIDE DEF p
<1>5. ASSUME NEW k \in 1..n PROVE IsArgument(p[k])
  <2>1. DOMAIN s.args[k] = ArgFields /\ s.args[k].scale \in {1, 2, 4, 8}
    BY <1>1, ShapesAre
  <2>2. DOMAIN p[k] = ArgFields /\ p[k].scale = s.args[k].scale
    BY <1>4, <2>1 DEF ArgFields
  <2> QED BY <2>1, <2>2, ShapesAre
<1>6. ArgList(p) /\ Len(p) = n
  BY <1>2, <1>4, <1>5, MapIsSeq, ListsAre
<1>7. /\ DOMAIN WithArgs(s) = StmtFields /\ WithArgs(s).offset = s.offset
      /\ WithArgs(s).args = p /\ WithArgs(s).op = s.op /\ WithArgs(s).id = s.id
      /\ WithArgs(s).label = s.label
  BY <1>1, <1>3 DEF StmtFields
<1>8. IsStatement(WithArgs(s))
  BY <1>1, <1>6, <1>7, ShapesAre
<1>9. \A k \in 1..n : \E r : p[k] = [s.args[k] EXCEPT !.rel = r]
  BY <1>4
<1> QED BY <1>6, <1>7, <1>8, <1>9 DEF n

LEMMA DeclaredData ==
  ASSUME NEW q, IsListOf(q, IsDeclared)
  PROVE  DataList(q) /\ \A i \in 1..Len(q) : q[i].offset = 0
<1>1. IsSeq(q) /\ \A i \in DOMAIN q : IsDatum(q[i]) /\ q[i].offset = 0
  BY Zenon DEF IsListOf, IsSeq, IsDeclared
<1>2. DOMAIN q = 1..Len(q)
  BY <1>1, DomainOfSeq
<1> QED BY <1>1, <1>2, ListsAre

LEMMA DefinitionIs ==
  ASSUME NEW def, IsItem(def), def.is = "function"
  PROVE  /\ IsFunction(Definition(def))
         /\ Definition(def).name = def.name
         /\ ~Definition(def).loaded
         /\ StmtList(def.stmts) /\ Len(Definition(def).stmts) = Len(def.stmts)
         /\ \A i \in 1..Len(def.stmts) : Definition(def).stmts[i] = WithArgs(def.stmts[i])
         /\ DataList(def.locals)
         /\ Definition(def).locals = Selected(FunctionVariables(def.name, def.locals), OnStack)
         /\ \A i \in 1..Len(Definition(def).locals) : Definition(def).locals[i].offset = 0
<1>0. StmtList(def.stmts) /\ IsListOf(def.locals, IsDeclared)
  BY Zenon DEF IsItem, StmtList
<1>1. /\ StmtList(def.stmts) /\ DataList(def.locals)
      /\ \A i \in 1..Len(def.locals) : def.locals[i].offset = 0
  BY <1>0, DeclaredData
<1> DEFINE q == [i \in DOMAIN def.stmts |-> WithArgs(def.stmts[i])]
           n == Len(def.stmts)
           l == Selected(FunctionVariables(def.name, def.locals), OnStack)
<1>2. DOMAIN def.stmts = 1..n /\ n \in Nat /\ \A i \in 1..n : IsStatement(def.stmts[i])
  BY <1>1, ListsAre, DomainOfSeq
<1> HIDE DEF n
<1>3. q = [i \in 1..n |-> q[i]] /\ \A i \in 1..n : q[i] = WithArgs(def.stmts[i])
  BY <1>2
<1>4. Definition(def) = [name |-> def.name, params |-> def.params, offset |-> 0,
                         loaded |-> FALSE, stmts |-> q, locals |-> l]
  BY Zenon DEF Definition
<1> HIDE DEF q
<1>5. \A i \in 1..n : IsStatement(q[i])
  BY <1>2, <1>3, WithArgsIs
<1>6. StmtList(q) /\ Len(q) = n
  BY <1>2, <1>3, <1>5, MapIsSeq, ListsAre
<1>7. DataList(l) /\ \A i \in 1..Len(l) : l[i].offset = 0
  <2> DEFINE v == FunctionVariables(def.name, def.locals)
  <2>1. DataList(v) /\ \A i \in 1..Len(v) : v[i].offset = 0
    BY <1>1, FunctionVariablesAre
  <2> HIDE DEF v
  <2>2. DOMAIN v = 1..Len(v)
    BY <2>1, ListsAre, DomainOfSeq
  <2>3. DataList(Selected(v, OnStack)) /\ Picks(Selected(v, OnStack), v, {i \in DOMAIN v : OnStack(v[i])})
    BY <2>1, SelectedData
  <2> QED BY <2>1, <2>2, <2>3 DEF v, Picks
<1> HIDE DEF l
<1>8. IsFunction(Definition(def))
  BY <1>4, <1>6, <1>7 DEF IsFunction, FunctionFields
<1>9. /\ Definition(def).name = def.name /\ ~Definition(def).loaded
      /\ Definition(def).stmts = q /\ Definition(def).locals = l
  BY <1>4
<1> QED BY <1>1, <1>3, <1>6, <1>7, <1>8, <1>9, Zenon DEF n, l

LEMMA PrototypeIs ==
  ASSUME NEW proto
  PROVE  /\ IsFunction(Prototype(proto)) /\ Prototype(proto).name = proto.name
         /\ Prototype(proto).stmts = <<>> /\ Prototype(proto).locals = <<>>
         /\ ~Prototype(proto).loaded
<1>1. StmtList(<<>>) /\ DataList(<<>>)
  BY EmptyIsSeq, ListsAre
<1> QED BY <1>1 DEF Prototype, IsFunction, FunctionFields

ItemList(t) == IsSeq(t) /\ \A i \in 1..Len(t) : IsItem(t[i])

\* The functions of a tree are its definitions and its prototypes, each once.
LEMMA EmittedFunctionsAre ==
  ASSUME NEW t, ItemList(t)
  PROVE  /\ FunctionList(EmittedFunctions(t))
         /\ \A i \in 1..Len(EmittedFunctions(t)) :
              \E j \in 1..Len(t) :
                \/ t[j].is = "function" /\ EmittedFunctions(t)[i] = Definition(t[j])
                \/ t[j].is = "prototype" /\ EmittedFunctions(t)[i] = Prototype(t[j])
         /\ \A j \in 1..Len(t) :
              t[j].is = "function" =>
                \E i \in 1..Len(EmittedFunctions(t)) : EmittedFunctions(t)[i] = Definition(t[j])
<1> DEFINE defs == Selected(t, IsDefinition)
           protos == Selected(t, IsPrototype)
           p == [i \in DOMAIN defs |-> Definition(defs[i])]
           q == [i \in DOMAIN protos |-> Prototype(protos[i])]
           F == EmittedFunctions(t)
<1>1. DOMAIN t = 1..Len(t)
  BY DomainOfSeq DEF ItemList
<1>2. Picks(defs, t, {i \in DOMAIN t : IsDefinition(t[i])})
  BY SelectedItems DEF ItemList
<1>3. Picks(protos, t, {i \in DOMAIN t : IsPrototype(t[i])})
  BY SelectedItems DEF ItemList
<1>4. F = p \o q
  BY Zenon DEF EmittedFunctions
<1> HIDE DEF defs, protos, F
<1>5. /\ DOMAIN defs = 1..Len(defs) /\ Len(defs) \in Nat
      /\ DOMAIN protos = 1..Len(protos) /\ Len(protos) \in Nat
  BY <1>2, <1>3, DomainOfSeq DEF Picks
<1>6. /\ \A i \in 1..Len(defs) : \E j \in 1..Len(t) : t[j].is = "function" /\ defs[i] = t[j]
      /\ \A i \in 1..Len(protos) : \E j \in 1..Len(t) : t[j].is = "prototype" /\ protos[i] = t[j]
  <2>1. \A i \in 1..Len(defs) : \E j \in 1..Len(t) : t[j].is = "function" /\ defs[i] = t[j]
    BY <1>1, <1>2 DEF Picks, IsDefinition
  <2>2. \A i \in 1..Len(protos) : \E j \in 1..Len(t) : t[j].is = "prototype" /\ protos[i] = t[j]
    BY <1>1, <1>3 DEF Picks, IsPrototype
  <2> QED BY <2>1, <2>2
<1>7. \A j \in 1..Len(t) : t[j].is = "function" => \E i \in 1..Len(defs) : defs[i] = t[j]
  BY <1>1, <1>2 DEF Picks, IsDefinition
<1>8. /\ p = [i \in 1..Len(defs) |-> p[i]] /\ \A i \in 1..Len(defs) : p[i] = Definition(defs[i])
      /\ q = [i \in 1..Len(protos) |-> q[i]] /\ \A i \in 1..Len(protos) : q[i] = Prototype(protos[i])
  BY <1>5
<1> HIDE DEF p, q
<1>9. IsSeq(p) /\ Len(p) = Len(defs) /\ IsSeq(q) /\ Len(q) = Len(protos)
  BY <1>5, <1>8, MapIsSeq
<1>10. /\ IsSeq(F) /\ Len(F) = Len(p) + Len(q)
       /\ \A i \in 1..(Len(p) + Len(q)) : F[i] = IF i <= Len(p) THEN p[i] ELSE q[i - Len(p)]
  BY <1>4, <1>9, BothAreSeq
<1>11. \A i \in 1..Len(F) : \/ \E j \in 1..Len(p) : F[i] = p[j]
                            \/ \E j \in 1..Len(q) : F[i] = q[j]
  <2>1. Unites(p \o q, p, q)
    BY <1>9, BothHold, Zenon
  <2> QED BY <1>4, <2>1 DEF Unites
<1>12. ASSUME NEW i \in 1..Len(F)
       PROVE  \E j \in 1..Len(t) :
                \/ t[j].is = "function" /\ F[i] = Definition(t[j])
                \/ t[j].is = "prototype" /\ F[i] = Prototype(t[j])
  <2>1. CASE \E j \in 1..Len(p) : F[i] = p[j]
    <3>1. PICK j \in 1..Len(defs) : F[i] = Definition(defs[j])
      BY <1>8, <1>9, <2>1
    <3>2. PICK k \in 1..Len(t) : t[k].is = "function" /\ defs[j] = t[k]
      BY <1>6
    <3> QED BY <3>1, <3>2
  <2>2. CASE \E j \in 1..Len(q) : F[i] = q[j]
    <3>1. PICK j \in 1..Len(protos) : F[i] = Prototype(protos[j])
      BY <1>8, <1>9, <2>2
    <3>2. PICK k \in 1..Len(t) : t[k].is = "prototype" /\ protos[j] = t[k]
      BY <1>6
    <3> QED BY <3>1, <3>2
  <2> QED BY <1>11, <2>1, <2>2
<1>13. ASSUME NEW j \in 1..Len(t), t[j].is = "function"
       PROVE  \E i \in 1..Len(F) : F[i] = Definition(t[j])
  <2>1. PICK i \in 1..Len(defs) : defs[i] = t[j]
    BY <1>7, <1>13
  <2>2. i \in 1..(Len(p) + Len(q)) /\ i <= Len(p) /\ p[i] = Definition(t[j])
    BY <1>5, <1>8, <1>9, <2>1
  <2> QED BY <1>10, <2>2
<1>14. \A i \in 1..Len(F) : IsFunction(F[i])
  <2> TAKE i \in 1..Len(F)
  <2>1. PICK j \in 1..Len(t) : \/ t[j].is = "function" /\ F[i] = Definition(t[j])
                               \/ t[j].is = "prototype" /\ F[i] = Prototype(t[j])
    BY <1>12
  <2>2. IsItem(t[j])
    BY DEF ItemList
  <2> QED BY <2>1, <2>2, DefinitionIs, PrototypeIs
<1> QED BY <1>10, <1>12, <1>13, <1>14 DEF FunctionList, F

\* A list of data that all have a place.
Natural(q) == \A i \in 1..Len(q) : q[i].offset \in Nat
PlacedData(q) == DataList(q) /\ Natural(q)

LEMMA FlattenedData ==
  ASSUME NEW ss, IsSeq(ss), \A j \in 1..Len(ss) : PlacedData(ss[j])
  PROVE  PlacedData(FlattenSeq(ss))
<1> DEFINE p == FlattenSeq(ss)
<1>1. \A j \in 1..Len(ss) : IsSeq(ss[j])
  BY ListsAre DEF PlacedData
<1>2. Gathered(p, ss)
  BY <1>1, FlattenedGathers
<1> HIDE DEF p
<1>3. ASSUME NEW k \in 1..Len(p)
      PROVE  IsDatum(p[k]) /\ p[k].offset \in Nat
  <2>1. PICK j \in 1..Len(ss) : \E i \in 1..Len(ss[j]) : p[k] = ss[j][i]
    BY <1>2 DEF Gathered
  <2> QED BY <2>1, ListsAre DEF PlacedData, Natural
<1> QED BY <1>2, <1>3, ListsAre DEF PlacedData, Natural, Gathered, p

LEMMA BothPlaced ==
  ASSUME NEW p, PlacedData(p), NEW q, PlacedData(q)
  PROVE  PlacedData(p \o q)
<1> DEFINE b == p \o q
<1>0. IsSeq(p) /\ IsSeq(q)
  BY ListsAre DEF PlacedData
<1>1. Unites(b, p, q)
  BY <1>0, BothHold
<1> HIDE DEF b
<1>2. ASSUME NEW k \in 1..Len(b) PROVE IsDatum(b[k]) /\ b[k].offset \in Nat
  BY <1>1, ListsAre DEF Unites, PlacedData, Natural
<1> QED BY <1>1, <1>2, ListsAre DEF Unites, PlacedData, Natural, b

\* What is selected of them, and what their variables are once they are inherited.
LEMMA SelectedPlaced ==
  ASSUME NEW q, PlacedData(q)
  PROVE  /\ PlacedData(Selected(q, InSection))
         /\ PlacedData(Selected(q, IsConstant)) /\ PlacedData(Selected(q, IsShared))
<1>1. IsSeq(q) /\ DOMAIN q = 1..Len(q) /\ \A i \in 1..Len(q) : q[i].offset \in Nat
  BY ListsAre, DomainOfSeq DEF PlacedData, Natural
<1>2. \A p, T : Picks(p, q, T) /\ T \subseteq DOMAIN q => Natural(p)
  BY <1>1 DEF Picks, Natural
<1>3. /\ Picks(Selected(q, InSection), q, {i \in DOMAIN q : InSection(q[i])})
      /\ Picks(Selected(q, IsConstant), q, {i \in DOMAIN q : IsConstant(q[i])})
      /\ Picks(Selected(q, IsShared), q, {i \in DOMAIN q : IsShared(q[i])})
      /\ DataList(Selected(q, InSection))
      /\ DataList(Selected(q, IsConstant)) /\ DataList(Selected(q, IsShared))
  BY SelectedData DEF PlacedData
<1>4. /\ {i \in DOMAIN q : InSection(q[i])} \subseteq DOMAIN q
      /\ {i \in DOMAIN q : IsConstant(q[i])} \subseteq DOMAIN q
      /\ {i \in DOMAIN q : IsShared(q[i])} \subseteq DOMAIN q
  OBVIOUS
<1>5. /\ Natural(Selected(q, InSection))
      /\ Natural(Selected(q, IsConstant)) /\ Natural(Selected(q, IsShared))
  BY <1>2, <1>3, <1>4, Zenon
<1> QED BY <1>3, <1>5 DEF PlacedData

LEMMA DeclaredPlaced ==
  ASSUME NEW q, IsListOf(q, IsDeclared)
  PROVE  PlacedData(Inherited(q)) /\ \A f : PlacedData(FunctionVariables(f, q))
<1>1. DataList(q) /\ \A i \in 1..Len(q) : q[i].offset = 0
  BY DeclaredData
<1>2. /\ DataList(Inherited(q)) /\ Len(Inherited(q)) = Len(q)
      /\ \A i \in 1..Len(q) : Inherited(q)[i].offset = q[i].offset
  BY <1>1, InheritedIs
<1>3. PlacedData(Inherited(q))
  BY <1>1, <1>2 DEF PlacedData, Natural
<1>4. ASSUME NEW f PROVE PlacedData(FunctionVariables(f, q))
  <2> DEFINE p == FunctionVariables(f, q)
  <2>1. /\ DataList(p) /\ Len(p) = Len(q)
        /\ \A i \in 1..Len(q) : p[i].offset = q[i].offset
    BY <1>1, FunctionVariablesAre
  <2> HIDE DEF p
  <2>2. PlacedData(p)
    BY <1>1, <2>1 DEF PlacedData, Natural
  <2> QED BY <2>2 DEF p
<1> QED BY <1>3, <1>4

\* The data of a tree.
LEMMA VariablesAre ==
  ASSUME NEW t, ItemList(t)
  PROVE  PlacedData(LocalVariables(t)) /\ PlacedData(GlobalVariables(t))
<1>1. DOMAIN t = 1..Len(t)
  BY DomainOfSeq DEF ItemList
<1>2. PlacedData(LocalVariables(t))
  <2> DEFINE defs == Selected(t, IsDefinition)
             ss == [i \in DOMAIN defs |-> FunctionVariables(defs[i].name, defs[i].locals)]
  <2>1. Picks(defs, t, {i \in DOMAIN t : IsDefinition(t[i])})
    BY SelectedItems DEF ItemList
  <2>2. LocalVariables(t) = Selected(FlattenSeq(ss), InSection)
    BY Zenon DEF LocalVariables
  <2> HIDE DEF defs
  <2>3. DOMAIN defs = 1..Len(defs) /\ Len(defs) \in Nat
    BY <2>1, DomainOfSeq DEF Picks
  <2>4. ASSUME NEW i \in 1..Len(defs)
        PROVE  PlacedData(FunctionVariables(defs[i].name, defs[i].locals))
    <3>1. PICK j \in 1..Len(t) : t[j].is = "function" /\ defs[i] = t[j]
      BY <1>1, <2>1 DEF Picks, IsDefinition
    <3>2. IsListOf(defs[i].locals, IsDeclared)
      BY <3>1, Zenon DEF ItemList, IsItem
    <3> QED BY <3>2, DeclaredPlaced
  <2>5. ss = [i \in 1..Len(defs) |-> ss[i]] /\ \A i \in 1..Len(defs) : PlacedData(ss[i])
    BY <2>3, <2>4
  <2> HIDE DEF ss
  <2>6. IsSeq(ss) /\ Len(ss) = Len(defs)
    BY <2>3, <2>5, MapIsSeq
  <2>7. PlacedData(FlattenSeq(ss))
    BY <2>5, <2>6, FlattenedData
  <2> QED BY <2>2, <2>7, SelectedPlaced
<1>3. PlacedData(GlobalVariables(t))
  <2> DEFINE globals == Selected(t, IsGlobals)
             ss == [i \in DOMAIN globals |-> Inherited(globals[i].vars)]
  <2>1. Picks(globals, t, {i \in DOMAIN t : IsGlobals(t[i])})
    BY SelectedItems DEF ItemList
  <2>2. GlobalVariables(t) = FlattenSeq(ss)
    BY Zenon DEF GlobalVariables
  <2> HIDE DEF globals
  <2>3. DOMAIN globals = 1..Len(globals) /\ Len(globals) \in Nat
    BY <2>1, DomainOfSeq DEF Picks
  <2>4. ASSUME NEW i \in 1..Len(globals)
        PROVE  PlacedData(Inherited(globals[i].vars))
    <3>1. PICK j \in 1..Len(t) : t[j].is = "globals" /\ globals[i] = t[j]
      BY <1>1, <2>1 DEF Picks, IsGlobals
    <3>2. IsItem(t[j]) /\ t[j].is # "function" /\ t[j].is # "prototype"
      BY <3>1 DEF ItemList
    <3>3. IsListOf(globals[i].vars, IsDeclared)
      BY <3>1, <3>2, Zenon DEF IsItem
    <3> QED BY <3>3, DeclaredPlaced
  <2>5. ss = [i \in 1..Len(globals) |-> ss[i]] /\ \A i \in 1..Len(globals) : PlacedData(ss[i])
    BY <2>3, <2>4
  <2> HIDE DEF ss
  <2>6. IsSeq(ss) /\ Len(ss) = Len(globals)
    BY <2>3, <2>5, MapIsSeq
  <2> QED BY <2>2, <2>5, <2>6, FlattenedData
<1> QED BY <1>2, <1>3

LEMMA EmittedDataAre ==
  ASSUME NEW t, ItemList(t)
  PROVE  PlacedData(EmittedShared(t)) /\ PlacedData(EmittedConstants(t))
<1>1. PlacedData(LocalVariables(t) \o GlobalVariables(t))
  BY VariablesAre, BothPlaced
<1> QED BY <1>1, SelectedPlaced DEF EmittedShared, EmittedConstants

LEMMA BothFunctions ==
  ASSUME NEW p, FunctionList(p), NEW q, FunctionList(q)
  PROVE  FunctionList(p \o q)
<1>1. /\ IsSeq(p \o q)
      /\ \A i \in 1..Len(p \o q) : \/ \E j \in 1..Len(p) : (p \o q)[i] = p[j]
                                   \/ \E j \in 1..Len(q) : (p \o q)[i] = q[j]
  <2>1. Unites(p \o q, p, q)
    BY BothHold, Zenon DEF FunctionList
  <2> QED BY <2>1 DEF Unites
<1> QED BY <1>1 DEF FunctionList

-----------------------------------------------------------------------------
(* What the passes leave as it was: they put statements in front of those  *)
(* of a function, and change nothing but offsets and what a reference      *)
(* resolves to.                                                            *)

ArgAlike(a, b) ==
  a.label = b.label /\ a.scale = b.scale /\ (a.type = b.type \/ a.type = "DISPLACED")

StmtAlike(s, t) ==
  /\ s.op = t.op /\ s.id = t.id /\ s.label = t.label
  /\ Len(s.args) = Len(t.args)
  /\ \A k \in 1..Len(t.args) : ArgAlike(s.args[k], t.args[k])

DatumAlike(d, e) ==
  d.label = e.label /\ d.cells = e.cells /\ d.const = e.const /\ d.shared = e.shared

\* The function g is f with the statements p in front.
Grown(g, f, p) ==
  /\ g.name = f.name /\ g.loaded = f.loaded
  /\ Len(g.stmts) = Len(p) + Len(f.stmts)
  /\ \A i \in 1..Len(p) : g.stmts[i] = p[i]
  /\ \A i \in 1..Len(f.stmts) : StmtAlike(g.stmts[Len(p) + i], f.stmts[i])
  /\ Len(g.locals) = Len(f.locals)
  /\ \A i \in 1..Len(f.locals) : DatumAlike(g.locals[i], f.locals[i])

LEMMA AlikeItself ==
  /\ \A s : StmtAlike(s, s)
  /\ \A d : DatumAlike(d, d)
BY DEF StmtAlike, ArgAlike, DatumAlike

\* Nothing grows by the empty sequence.
LEMMA GrownByNothing ==
  ASSUME NEW g, NEW f, Len(f.stmts) \in Nat,
         g.name = f.name, g.loaded = f.loaded,
         Len(g.stmts) = Len(f.stmts),
         \A i \in 1..Len(f.stmts) : StmtAlike(g.stmts[i], f.stmts[i]),
         Len(g.locals) = Len(f.locals),
         \A i \in 1..Len(f.locals) : DatumAlike(g.locals[i], f.locals[i])
  PROVE  Grown(g, f, <<>>)
<1> DEFINE n == Len(f.stmts)
<1>1. n \in Nat /\ Len(<<>>) = 0
  BY EmptyIsSeq
<1>2. \A i \in 1..n : 0 + i = i
  OBVIOUS
<1>3. \A i \in 1..n : StmtAlike(g.stmts[0 + i], f.stmts[i])
  BY <1>2
<1>4. Len(g.stmts) = 0 + n /\ \A i \in 1..0 : FALSE
  BY <1>1
<1> QED BY <1>1, <1>3, <1>4, Zenon DEF Grown, n

LEMMA GrownCalls ==
  ASSUME NEW g, NEW f, NEW p, IsSeq(p), StmtList(f.stmts), Grown(g, f, p),
         CallsLegal(f.stmts), CallsLegal(p)
  PROVE  CallsLegal(g.stmts)
<1>1. Len(p) \in Nat /\ Len(f.stmts) \in Nat
  BY ListsAre, DomainOfSeq
<1>2. ASSUME NEW i \in 1..Len(g.stmts) PROVE Callable(g.stmts[i])
  <2>1. CASE i <= Len(p)
    <3>1. i \in 1..Len(p)
      BY <1>1, <2>1
    <3> QED BY <3>1 DEF Grown, CallsLegal
  <2>2. CASE ~(i <= Len(p))
    <3>1. Len(g.stmts) = Len(p) + Len(f.stmts)
      BY DEF Grown
    <3>2. PICK j \in 1..Len(f.stmts) : i = Len(p) + j
      <4>1. i - Len(p) \in 1..Len(f.stmts) /\ i = Len(p) + (i - Len(p))
        BY <1>1, <2>2, <3>1
      <4> QED BY <4>1
    <3>3. StmtAlike(g.stmts[i], f.stmts[j]) /\ Callable(f.stmts[j])
      BY <3>2 DEF Grown, CallsLegal
    <3> QED BY <3>3 DEF StmtAlike, Callable
  <2> QED BY <2>1, <2>2
<1> QED BY <1>2 DEF CallsLegal

\* A function with other statements.
LEMMA OtherStmts ==
  ASSUME NEW f, IsFunction(f), NEW q, StmtList(q)
  PROVE  LET g == [f EXCEPT !.stmts = q]
         IN  /\ IsFunction(g) /\ g.stmts = q /\ g.locals = f.locals
             /\ g.name = f.name /\ g.loaded = f.loaded /\ g.offset = f.offset
BY DEF IsFunction, FunctionFields

\* A statement with other arguments.
LEMMA OtherArgs ==
  ASSUME NEW s, IsStatement(s), NEW q, ArgList(q)
  PROVE  LET t == [s EXCEPT !.args = q]
         IN  /\ IsStatement(t) /\ t.args = q
             /\ t.op = s.op /\ t.id = s.id /\ t.label = s.label /\ t.offset = s.offset
<1> DEFINE t == [s EXCEPT !.args = q]
<1>1. DOMAIN s = StmtFields /\ s.offset \in Nat
  BY ShapesAre
<1>2. /\ DOMAIN t = StmtFields /\ t.args = q
      /\ t.op = s.op /\ t.id = s.id /\ t.label = s.label /\ t.offset = s.offset
  BY <1>1 DEF StmtFields
<1> HIDE DEF t
<1>3. IsStatement(t)
  BY <1>1, <1>2, ShapesAre
<1> QED BY <1>2, <1>3 DEF t

\* What allocation adds.
LEMMA PrologueIs ==
  ASSUME NEW p \in Prologues
  PROVE  /\ StmtList(p) /\ IsSeq(p) /\ CallsLegal(p)
         /\ \A i \in 1..Len(p) : /\ p[i].id \in Allocations /\ ~IsLabel(p[i])
                                 /\ \A k \in 1..Len(p[i].args) : p[i].args[k].label = <<>>
<1>1. StmtList(p)
  BY SourcesAssumption DEF StmtList
<1>2. IsSeq(p) /\ DOMAIN p = 1..Len(p) /\ \A i \in 1..Len(p) : IsStatement(p[i])
  BY <1>1, ListsAre, DomainOfSeq
<1>3. \A i \in 1..Len(p) : p[i] \in Range(p)
  BY <1>2 DEF Range
<1>4. \A i \in 1..Len(p) : p[i].id \in Allocations
  BY <1>3 DEF Allocations
<1>5. \A i \in 1..Len(p) : ~IsLabel(p[i]) /\ p[i].op # "JSR"
  BY <1>3, SourcesAssumption DEF IsInstruction
<1>6. ASSUME NEW i \in 1..Len(p), NEW k \in 1..Len(p[i].args) PROVE p[i].args[k].label = <<>>
  <2>1. \A a \in Range(p[i].args) : ~Refers(a)
    BY <1>3, SourcesAssumption
  <2>2. IsSeq(p[i].args)
    BY <1>2, ShapesAre, ListsAre
  <2>3. DOMAIN p[i].args = 1..Len(p[i].args)
    BY <2>2, DomainOfSeq
  <2>4. p[i].args[k] \in Range(p[i].args)
    BY <2>3 DEF Range
  <2> QED BY <2>1, <2>4 DEF Refers
<1>7. CallsLegal(p)
  BY <1>5 DEF CallsLegal, Callable
<1> QED BY <1>1, <1>2, <1>4, <1>5, <1>6, <1>7

\* Arguments that are replaced one by one.
LEMMA ReplacedArgs ==
  ASSUME NEW s, IsStatement(s), NEW q,
         q = [k \in 1..Len(s.args) |-> q[k]],
         \A k \in 1..Len(s.args) : IsArgument(q[k]) /\ ArgAlike(q[k], s.args[k])
  PROVE  /\ IsStatement([s EXCEPT !.args = q])
         /\ StmtAlike([s EXCEPT !.args = q], s)
<1>1. Len(s.args) \in Nat
  BY ShapesAre, ListsAre, DomainOfSeq
<1>2. ArgList(q) /\ Len(q) = Len(s.args)
  BY <1>1, MapIsSeq, ListsAre
<1> DEFINE t == [s EXCEPT !.args = q]
<1>3. /\ IsStatement(t) /\ t.args = q
      /\ t.op = s.op /\ t.id = s.id /\ t.label = s.label
  BY <1>2, OtherArgs
<1> HIDE DEF t
<1>4. StmtAlike(t, s)
  BY <1>2, <1>3, Zenon DEF StmtAlike
<1> QED BY <1>3, <1>4 DEF t

\* Statements that are replaced one by one.
LEMMA ReplacedStmts ==
  ASSUME NEW f, IsFunction(f), NEW q,
         q = [i \in 1..Len(f.stmts) |-> q[i]],
         \A i \in 1..Len(f.stmts) : IsStatement(q[i]) /\ StmtAlike(q[i], f.stmts[i])
  PROVE  /\ IsFunction([f EXCEPT !.stmts = q]) /\ Grown([f EXCEPT !.stmts = q], f, <<>>)
         /\ StmtList(q)
<1>1. Len(f.stmts) \in Nat
  BY ListsAre, DomainOfSeq DEF IsFunction
<1>2. StmtList(q) /\ Len(q) = Len(f.stmts)
  BY <1>1, MapIsSeq, ListsAre
<1> DEFINE g == [f EXCEPT !.stmts = q]
<1>3. IsFunction(g) /\ g.stmts = q /\ g.locals = f.locals /\ g.name = f.name /\ g.loaded = f.loaded
  BY <1>2, OtherStmts
<1> HIDE DEF g
<1>4. Grown(g, f, <<>>)
  BY <1>1, <1>2, <1>3, AlikeItself, GrownByNothing
<1> QED BY <1>2, <1>3, <1>4 DEF g

LEMMA WithoutTempsIs ==
  ASSUME NEW s, IsStatement(s)
  PROVE  IsStatement(WithoutTemps(s)) /\ StmtAlike(WithoutTemps(s), s)
<1> DEFINE a == [k \in DOMAIN s.args |-> [s.args[k] EXCEPT !.temp = FALSE]]
<1>1. DOMAIN s.args = 1..Len(s.args) /\ \A k \in 1..Len(s.args) : IsArgument(s.args[k])
  BY ShapesAre, ListsAre, DomainOfSeq
<1>2. /\ a = [k \in 1..Len(s.args) |-> a[k]]
      /\ \A k \in 1..Len(s.args) : a[k] = [s.args[k] EXCEPT !.temp = FALSE]
  BY <1>1
<1>3. WithoutTemps(s) = [s EXCEPT !.args = a]
  BY Zenon DEF WithoutTemps
<1> HIDE DEF a
<1>4. ASSUME NEW k \in 1..Len(s.args)
      PROVE  IsArgument(a[k]) /\ ArgAlike(a[k], s.args[k])
  <2>1. DOMAIN s.args[k] = ArgFields /\ s.args[k].scale \in {1, 2, 4, 8}
    BY <1>1, ShapesAre
  <2>2. /\ DOMAIN a[k] = ArgFields /\ a[k].scale = s.args[k].scale
        /\ a[k].label = s.args[k].label /\ a[k].type = s.args[k].type
    BY <1>2, <2>1 DEF ArgFields
  <2> QED BY <2>1, <2>2, ShapesAre DEF ArgAlike
<1>5. /\ a = [k \in 1..Len(s.args) |-> a[k]]
      /\ \A k \in 1..Len(s.args) : IsArgument(a[k]) /\ ArgAlike(a[k], s.args[k])
  BY <1>2, <1>4
<1>6. /\ IsStatement([s EXCEPT !.args = a])
      /\ StmtAlike([s EXCEPT !.args = a], s)
  BY <1>5, ReplacedArgs
<1> QED BY <1>3, <1>6

LEMMA AllocatedGrows ==
  ASSUME NEW f, IsFunction(f), NEW p \in Prologues
  PROVE  /\ IsFunction(Allocated(f, p)) /\ Grown(Allocated(f, p), f, p)
         /\ Allocated(f, p).locals = f.locals
<1> DEFINE q == [i \in DOMAIN f.stmts |-> WithoutTemps(f.stmts[i])]
           n == Len(f.stmts)
<1>1. /\ DOMAIN f.stmts = 1..n /\ n \in Nat
      /\ \A i \in 1..n : IsStatement(f.stmts[i])
  BY ListsAre, DomainOfSeq DEF IsFunction
<1>2. Allocated(f, p) = [f EXCEPT !.stmts = p \o q]
  BY Zenon DEF Allocated
<1> HIDE DEF n
<1>4. /\ q = [i \in 1..n |-> q[i]]
      /\ \A i \in 1..n : q[i] = WithoutTemps(f.stmts[i])
  BY <1>1
<1> HIDE DEF q
<1>5. \A i \in 1..n : IsStatement(q[i]) /\ StmtAlike(q[i], f.stmts[i])
  BY <1>1, <1>4, WithoutTempsIs
<1>6. IsSeq(q) /\ Len(q) = n
  BY <1>1, <1>4, MapIsSeq
<1>7. StmtList(p) /\ IsSeq(p) /\ \A i \in 1..Len(p) : IsStatement(p[i])
  BY PrologueIs, ListsAre
<1> DEFINE b == p \o q
           g == Allocated(f, p)
<1>8. /\ IsSeq(b) /\ Len(b) = Len(p) + n /\ Len(p) \in Nat
      /\ \A i \in 1..(Len(p) + n) : b[i] = IF i <= Len(p) THEN p[i] ELSE q[i - Len(p)]
  BY <1>6, <1>7, BothAreSeq
<1>9. Unites(b, p, q)
  BY <1>6, <1>7, BothHold
<1> HIDE DEF b
<1>10. StmtList(b)
  BY <1>5, <1>6, <1>7, <1>8, <1>9, ListsAre DEF Unites
<1>11. /\ IsFunction(g) /\ g.stmts = b /\ g.locals = f.locals /\ g.name = f.name
       /\ g.loaded = f.loaded
  <2>1. g = [f EXCEPT !.stmts = b]
    BY <1>2 DEF b
  <2> QED BY <1>10, <2>1, OtherStmts
<1> HIDE DEF g
<1>12. \A i \in 1..Len(p) : b[i] = p[i]
  BY <1>1, <1>8
<1>13. ASSUME NEW i \in 1..n PROVE StmtAlike(b[Len(p) + i], f.stmts[i])
  <2>1. Len(p) + i \in 1..(Len(p) + n) /\ ~(Len(p) + i <= Len(p)) /\ (Len(p) + i) - Len(p) = i
    BY <1>1, <1>8
  <2>2. b[Len(p) + i] = q[i]
    BY <1>8, <2>1
  <2> QED BY <1>5, <2>2
<1>14. Grown(g, f, p)
  BY <1>8, <1>11, <1>12, <1>13, AlikeItself, Zenon DEF Grown, n
<1> QED BY <1>11, <1>14 DEF g

LEMMA ExposedGrows ==
  ASSUME NEW f, IsFunction(f)
  PROVE  /\ IsFunction(Exposed(f)) /\ Grown(Exposed(f), f, <<FunctionLabel(f)>>)
         /\ Exposed(f).locals = f.locals /\ Exposed(f).offset = f.offset
         /\ IsStatement(FunctionLabel(f)) /\ Callable(FunctionLabel(f))
         /\ IsLabel(FunctionLabel(f)) /\ FunctionLabel(f).op = "function"
<1> DEFINE l == FunctionLabel(f)
           p == <<l>>
           q == f.stmts
           b == p \o q
           g == Exposed(f)
<1>1. /\ IsStatement(l) /\ Callable(l) /\ IsLabel(l) /\ l.op = "function"
  <2>1. l.op = "function" /\ l.offset = f.offset /\ l.args = <<>> /\ DOMAIN l = StmtFields
    BY DEF FunctionLabel, StmtFields
  <2>2. f.offset \in Nat /\ ArgList(<<>>)
    BY EmptyIsSeq, ListsAre DEF IsFunction
  <2> HIDE DEF l
  <2> QED BY <2>1, <2>2, ShapesAre DEF Callable, IsLabel
<1>2. g = [f EXCEPT !.stmts = b]
  BY Zenon DEF Exposed
<1> HIDE DEF l, g
<1>3. IsSeq(p) /\ Len(p) = 1 /\ p[1] = l
  BY OneIsSeq
<1>4. IsSeq(q) /\ \A i \in 1..Len(q) : IsStatement(q[i])
  BY ListsAre DEF IsFunction
<1> HIDE DEF p
<1>5. /\ IsSeq(b) /\ Len(b) = Len(p) + Len(q) /\ Len(q) \in Nat
      /\ \A i \in 1..(Len(p) + Len(q)) : b[i] = IF i <= Len(p) THEN p[i] ELSE q[i - Len(p)]
  BY <1>3, <1>4, BothAreSeq
<1>6. Unites(b, p, q)
  BY <1>3, <1>4, BothHold
<1> HIDE DEF b
<1>a. \A i \in 1..Len(p) : IsStatement(p[i])
  BY <1>1, <1>3
<1>7. StmtList(b)
  BY <1>4, <1>5, <1>6, <1>a, ListsAre DEF Unites
<1>8. /\ IsFunction(g) /\ g.stmts = b /\ g.locals = f.locals /\ g.name = f.name
      /\ g.loaded = f.loaded /\ g.offset = f.offset
  BY <1>2, <1>7, OtherStmts
<1>9. \A i \in 1..Len(p) : b[i] = p[i]
  BY <1>3, <1>5
<1>10. ASSUME NEW i \in 1..Len(q) PROVE StmtAlike(b[Len(p) + i], q[i])
  <2>1. Len(p) + i \in 1..(Len(p) + Len(q)) /\ ~(Len(p) + i <= Len(p)) /\ (Len(p) + i) - Len(p) = i
    BY <1>3, <1>5
  <2>2. b[Len(p) + i] = q[i]
    BY <1>5, <2>1
  <2> QED BY <2>2, AlikeItself
<1>11. Grown(g, f, p)
  BY <1>5, <1>8, <1>9, <1>10, AlikeItself, Zenon DEF Grown
<1> QED BY <1>1, <1>8, <1>11 DEF l, p, g

-----------------------------------------------------------------------------
(* Where the locals of a function lie on its stack.                        *)

\* What the first locals take of the stack.
IsStack(s, q) == /\ s \in [0..Len(q) -> Nat] /\ s[0] = 0
                 /\ \A k \in 1..Len(q) : s[k] = Aligned(s[k - 1] + DataSize(q[k]))

Stack(s, f) == IsStack(s, f.locals) /\ StackedDataSize(f) = s[Len(f.locals)]

LEMMA StackFrom ==
  ASSUME NEW f, DataList(f.locals), NEW s, IsStack(s, f.locals)
  PROVE  Stack(s, f)
<1> DEFINE q == f.locals
           n == Len(q)
           Step(h) == [i \in 0..n |-> IF i = 0 THEN 0 ELSE Aligned(h[i - 1] + DataSize(q[i]))]
           r == CHOOSE h : h = Step(h)
<1>1. n \in Nat
  BY ListsAre, DomainOfSeq
<1>2. StackedDataSize(f) = r[n]
  BY Zenon DEF StackedDataSize
<1>3. s = Step(s)
  <2>1. \A k \in 0..n : s[k] = IF k = 0 THEN 0 ELSE Aligned(s[k - 1] + DataSize(q[k]))
    BY <1>1 DEF IsStack
  <2> QED BY <1>1, <2>1 DEF IsStack
<1>4. r = Step(r)
  BY <1>3, Zenon
<1> HIDE DEF r
<1> DEFINE T == {k \in 0..n : r[k] = s[k]}
<1>5. 0 \in T
  BY <1>1, <1>4 DEF IsStack
<1>6. ASSUME NEW k \in 0..n, k \in T, k < n
      PROVE  k + 1 \in T
  <2>1. k + 1 \in 0..n /\ k + 1 \in 1..n /\ k + 1 # 0 /\ (k + 1) - 1 = k
    BY <1>1, <1>6
  <2>2. r[k + 1] = Aligned(r[k] + DataSize(q[k + 1]))
    BY <1>4, <2>1
  <2>3. s[k + 1] = Aligned(s[k] + DataSize(q[k + 1]))
    BY <2>1 DEF IsStack
  <2> QED BY <1>6, <2>1, <2>2, <2>3
<1> HIDE DEF T
<1>7. 0..n \subseteq T
  BY <1>1, <1>5, <1>6, Induct
<1>8. n \in 0..n
  BY <1>1
<1> QED BY <1>2, <1>7, <1>8 DEF T, Stack

LEMMA StackIs ==
  ASSUME NEW f, DataList(f.locals)
  PROVE  \E s : Stack(s, f)
<1> DEFINE q == f.locals
           n == Len(q)
           g == [k \in 1..n |-> [m \in Nat |-> Aligned(m + DataSize(q[k]))]]
<1>1. n \in Nat /\ \A k \in 1..n : DataSize(q[k]) \in Nat
  BY ListsAre, DomainOfSeq, DataSizeIs
<1>a. \A k \in 1..n, m \in Nat : Aligned(m + DataSize(q[k])) \in Nat
  BY <1>1, AlignedIs
<1>2. g \in [1..n -> [Nat -> Nat]]
      /\ \A k \in 1..n, m \in Nat : g[k][m] = Aligned(m + DataSize(q[k]))
  BY <1>a
<1> HIDE DEF g
<1>3. PICK s : IsRecursion(s, n, 0, g) /\ \A k \in 0..n : s[k] \in Nat
  BY <1>1, <1>2, Recurs
<1>b. n \in Nat
  BY <1>1
<1> HIDE DEF n
<1>4. s \in [0..n -> Nat] /\ s[0] = 0
  BY <1>b, <1>3 DEF IsRecursion
<1>5. ASSUME NEW k \in 1..n PROVE s[k] = Aligned(s[k - 1] + DataSize(q[k]))
  <2>1. k \in 0..n /\ k # 0 /\ k - 1 \in 0..n
    BY <1>1
  <2>2. s[k] = g[k][s[k - 1]]
    BY <1>3, <2>1 DEF IsRecursion
  <2> QED BY <1>2, <1>4, <2>1, <2>2
<1>6. IsStack(s, q)
  BY <1>4, <1>5 DEF IsStack, n
<1> QED BY <1>6, StackFrom

Sizes(q) == [i \in 1..Len(q) |-> DataSize(q[i])]

LEMMA SizesAre ==
  ASSUME NEW q, DataList(q)
  PROVE  /\ Sizes(q) \in Seq(Nat) /\ Len(Sizes(q)) = Len(q) /\ Len(q) \in Nat
         /\ \A i \in 1..Len(q) : Sizes(q)[i] = DataSize(q[i]) /\ DataSize(q[i]) \in Nat
<1>1. Len(q) \in Nat /\ \A i \in 1..Len(q) : DataSize(q[i]) \in Nat
  BY ListsAre, DomainOfSeq, DataSizeIs
<1> QED BY <1>1 DEF Sizes

\* The stack has room for the locals up to each one, in whole words.
LEMMA StackCovers ==
  ASSUME NEW q, DataList(q), NEW s, IsStack(s, q), NEW t, IsSum(t, Sizes(q)),
         NEW k \in 0..Len(q)
  PROVE  s[k] >= t[k] /\ Words(s[k]) /\ s[k] \in Nat /\ t[k] \in Nat
<1> DEFINE n == Len(q)
<1>1. /\ n \in Nat /\ Len(Sizes(q)) = n
      /\ \A i \in 1..n : Sizes(q)[i] = DataSize(q[i]) /\ DataSize(q[i]) \in Nat
  BY SizesAre
<1>2. /\ s \in [0..n -> Nat] /\ t \in [0..n -> Nat] /\ s[0] = 0 /\ t[0] = 0
  BY <1>1 DEF IsStack, IsSum
<1> DEFINE T == {i \in 0..n : s[i] >= t[i] /\ Words(s[i])}
<1>3. 0 \in T
  <2>1. Words(0)
    BY DEF Words
  <2> QED BY <1>1, <1>2, <2>1
<1>4. ASSUME NEW i \in 0..n, i \in T, i < n
      PROVE  i + 1 \in T
  <2>1. i + 1 \in 0..n /\ i + 1 \in 1..n /\ (i + 1) - 1 = i
    BY <1>1, <1>4
  <2>2. s[i + 1] = Aligned(s[i] + DataSize(q[i + 1]))
    BY <2>1 DEF IsStack
  <2>3. t[i + 1] = t[i] + DataSize(q[i + 1])
    BY <1>1, <2>1 DEF IsSum
  <2>4. PICK a \in Nat, b \in Nat, d \in Nat : a = s[i] /\ b = t[i] /\ d = DataSize(q[i + 1])
    BY <1>1, <1>2, <2>1
  <2>5. Aligned(a + d) \in Nat /\ Aligned(a + d) >= a + d /\ Words(Aligned(a + d))
    BY AlignedIs
  <2>6. a >= b
    BY <1>4, <2>4
  <2> QED BY <2>1, <2>2, <2>3, <2>4, <2>5, <2>6
<1> HIDE DEF T
<1>5. 0..n \subseteq T
  BY <1>1, <1>3, <1>4, Induct
<1> QED BY <1>2, <1>5 DEF T

\* A list of locals that is empty or ends in something of a size.
EndsInData(q) == q # <<>> => DataSize(q[Len(q)]) >= 1

\* Where the locals are put.
LocalAt(f, i) ==
  StackedDataSize(f) - 4 - SumOf([j \in 1..(i - 1) |-> DataSize(f.locals[j])])

LEMMA LocalAtIs ==
  ASSUME NEW f, DataList(f.locals), NEW i \in 1..Len(f.locals)
  PROVE  /\ LocalAt(f, i) \in Int
         /\ EndsInData(f.locals) => LocalAt(f, i) \in Nat
<1> DEFINE q == f.locals
           n == Len(q)
<1>1. PICK s : Stack(s, f)
  BY StackIs
<1>2. PICK t : IsSum(t, Sizes(q))
  BY SizesAre, SumIs
<1>3. /\ n \in Nat /\ n >= 1 /\ Len(Sizes(q)) = n /\ Sizes(q) \in Seq(Nat) /\ q # <<>>
      /\ \A j \in 1..n : Sizes(q)[j] = DataSize(q[j]) /\ DataSize(q[j]) \in Nat
  BY SizesAre, EmptyIsSeq
<1>4. i - 1 \in 0..n
  BY <1>3
<1>5. SumOf([j \in 1..(i - 1) |-> DataSize(q[j])]) = t[i - 1]
  <2>1. SumOf([j \in 1..(i - 1) |-> Sizes(q)[j]]) = t[i - 1]
    <3>1. PICK z \in Seq(Nat) : z = Sizes(q)
      BY <1>3
    <3>2. IsSum(t, z) /\ i - 1 \in 0..Len(z)
      BY <1>2, <1>3, <1>4, <3>1
    <3> DEFINE u == [j \in 1..(i - 1) |-> Sizes(q)[j]]
               w == [j \in 1..(i - 1) |-> z[j]]
    <3>3. SumOf(w) = t[i - 1]
      BY <3>2, SumOfFirst
    <3>4. u = w
      BY <3>1
    <3> HIDE DEF u, w
    <3>5. SumOf(u) = t[i - 1]
      BY <3>3, <3>4
    <3> QED BY <3>5 DEF u
  <2>a. \A j \in 1..(i - 1) : j \in 1..n
    BY <1>3, <1>4
  <2>2. \A j \in 1..(i - 1) : Sizes(q)[j] = DataSize(q[j])
    BY <1>3, <2>a, Zenon
  <2>3. [j \in 1..(i - 1) |-> Sizes(q)[j]] = [j \in 1..(i - 1) |-> DataSize(q[j])]
    BY <2>2
  <2> QED BY <2>1, <2>3
<1>6. LocalAt(f, i) = s[n] - 4 - t[i - 1]
  BY <1>1, <1>5 DEF LocalAt, Stack
<1>7. s[n] \in Nat /\ t[i - 1] \in Nat
  BY <1>1, <1>2, <1>3, <1>4, StackCovers DEF Stack
<1>8. ASSUME EndsInData(q) PROVE s[n] - 4 >= t[i - 1]
  <2>1. n - 1 \in 0..n /\ n \in 1..n
    BY <1>3
  <2>2. s[n - 1] >= t[n - 1] /\ Words(s[n - 1]) /\ s[n - 1] \in Nat /\ t[n - 1] \in Nat
    BY <1>1, <1>2, <2>1, StackCovers DEF Stack
  <2>3. s[n] = Aligned(s[n - 1] + DataSize(q[n]))
    BY <1>1, <2>1 DEF Stack, IsStack
  <2>4. PICK d \in Nat, a \in Nat : d = DataSize(q[n]) /\ a = s[n - 1] /\ d >= 1
    BY <1>3, <1>8, <2>1, <2>2 DEF EndsInData
  <2>5. /\ Aligned(a + d) >= a + d /\ Words(Aligned(a + d)) /\ Words(a)
        /\ Aligned(a + d) \in Nat
    BY <2>2, <2>4, AlignedIs
  <2>6. Aligned(a + d) >= a + 4
    <3>1. PICK k \in Nat, l \in Nat : a = 4 * k /\ Aligned(a + d) = 4 * l
      BY <2>5 DEF Words
    <3>2. l > k
      BY <2>4, <2>5, <3>1
    <3> QED BY <2>4, <3>1, <3>2
  <2>7. s[n] >= s[n - 1] + 4 /\ s[n] \in Nat
    BY <2>3, <2>4, <2>5, <2>6
  <2>8. t[i - 1] <= t[n - 1]
    <3> DEFINE T == {k \in 0..(n - 1) : k >= i - 1 => t[k] >= t[i - 1]}
    <3>a. t \in [0..n -> Nat]
      BY <1>2, <1>3 DEF IsSum
    <3>1. 0 \in T
      BY <1>3, <3>a
    <3>2. ASSUME NEW k \in 0..(n - 1), k \in T, k < n - 1
          PROVE  k + 1 \in T
      <4>1. k + 1 \in 1..n /\ (k + 1) - 1 = k /\ k \in 0..n /\ k + 1 \in 0..n
        BY <1>3, <3>2
      <4>2. t[k + 1] = t[k] + DataSize(q[k + 1]) /\ DataSize(q[k + 1]) \in Nat
        BY <1>2, <1>3, <4>1 DEF IsSum
      <4>3. t[k] \in Nat /\ t[i - 1] \in Nat /\ t[k + 1] \in Nat
        BY <1>4, <3>a, <4>1
      <4>4. CASE k >= i - 1
        BY <3>2, <4>1, <4>2, <4>3, <4>4
      <4>5. CASE ~(k >= i - 1)
        <5>1. k + 1 >= i - 1 => k + 1 = i - 1
          BY <1>3, <4>5
        <5>2. k + 1 \in 0..(n - 1)
          BY <3>2, <1>3
        <5> QED BY <5>1, <5>2, <4>3
      <4> QED BY <4>4, <4>5
    <3>b. n - 1 \in Nat
      BY <1>3
    <3> HIDE DEF T
    <3>3. 0..(n - 1) \subseteq T
      BY <3>1, <3>2, <3>b, Induct
    <3>4. n - 1 \in 0..(n - 1) /\ n - 1 >= i - 1
      BY <1>3, <3>b
    <3>5. n - 1 \in T
      BY <3>3, <3>4
    <3>6. t[n - 1] >= t[i - 1]
      BY <3>4, <3>5 DEF T
    <3>7. t[n - 1] \in Nat /\ t[i - 1] \in Nat
      BY <1>7, <2>2
    <3> QED BY <3>6, <3>7
  <2>9. PICK u \in Nat, v \in Nat, x \in Nat, y \in Nat :
             u = s[n] /\ v = s[n - 1] /\ x = t[n - 1] /\ y = t[i - 1]
    BY <1>7, <2>2
  <2>10. u >= v + 4 /\ v >= x /\ y <= x
    BY <2>2, <2>7, <2>8, <2>9
  <2>11. u - 4 >= y
    BY <2>10
  <2> QED BY <2>9, <2>11
<1> QED BY <1>6, <1>7, <1>8

-----------------------------------------------------------------------------
(* Laying out a function, and binding its references.                      *)

LEMMA DataAtIs ==
  ASSUME NEW d, IsDatum(d), NEW at \in Int
  PROVE  IsDatum(DataAt(d, at)) /\ DatumAlike(DataAt(d, at), d) /\ DataAt(d, at).offset = at
<1> DEFINE e == DataAt(d, at)
<1>1. /\ DOMAIN e = DataFields /\ e.label = d.label /\ e.const = d.const
      /\ e.shared = d.shared /\ e.cells = d.cells /\ e.offset = at
  BY DEF DataAt, DataFields
<1> HIDE DEF e
<1>2. d.const \in BOOLEAN /\ d.shared \in BOOLEAN /\ CellList(d.cells)
  BY ShapesAre
<1>3. IsDatum(e)
  BY <1>1, <1>2, ShapesAre
<1> QED BY <1>1, <1>3 DEF DatumAlike, e

LEMMA StmtAtIs ==
  ASSUME NEW s, IsStatement(s), NEW at \in Nat
  PROVE  IsStatement(StmtAt(s, at)) /\ StmtAlike(StmtAt(s, at), s) /\ StmtAt(s, at).offset = at
<1> DEFINE t == StmtAt(s, at)
<1>1. /\ DOMAIN t = StmtFields /\ t.op = s.op /\ t.id = s.id /\ t.label = s.label
      /\ t.args = s.args /\ t.offset = at
  BY DEF StmtAt, StmtFields
<1> HIDE DEF t
<1>2. ArgList(s.args)
  BY ShapesAre
<1>3. IsStatement(t)
  BY <1>1, <1>2, ShapesAre
<1>4. StmtAlike(t, s)
  BY <1>1 DEF StmtAlike, ArgAlike
<1> QED BY <1>1, <1>3, <1>4 DEF t

\* The sizes of the statements of a function.
LEMMA StmtSizesAre ==
  ASSUME NEW q, StmtList(q), CallsLegal(q), NEW i \in 0..Len(q)
  PROVE  SumOf([j \in 1..i |-> StmtSize(q[j])]) \in Nat
<1>1. Len(q) \in Nat /\ \A j \in 1..Len(q) : IsStatement(q[j]) /\ Callable(q[j])
  BY ListsAre, DomainOfSeq DEF CallsLegal
<1>2. \A j \in 1..Len(q) : StmtSize(q[j]) \in Nat
  BY <1>1, StmtSizeIs
<1> DEFINE z == [j \in 1..i |-> StmtSize(q[j])]
<1>3. i \in Nat /\ z = [j \in 1..i |-> z[j]] /\ \A j \in 1..i : z[j] \in Nat
  BY <1>1, <1>2
<1> HIDE DEF z
<1>4. SumOf(z) \in Nat
  BY <1>3, NatSum
<1> QED BY <1>4 DEF z

LEMMA StmtsPlacedAre ==
  ASSUME NEW f, IsFunction(f), CallsLegal(f.stmts)
  PROVE  /\ StmtList(StmtsPlaced(f)) /\ Len(StmtsPlaced(f)) = Len(f.stmts)
         /\ \A i \in 1..Len(f.stmts) : StmtAlike(StmtsPlaced(f)[i], f.stmts[i])
<1> DEFINE q == StmtsPlaced(f)
           n == Len(f.stmts)
           At(i) == SumOf([j \in 1..(i - 1) |-> StmtSize(f.stmts[j])])
<1>1. /\ StmtList(f.stmts) /\ DOMAIN f.stmts = 1..n /\ n \in Nat
      /\ \A i \in 1..n : IsStatement(f.stmts[i])
  BY ListsAre, DomainOfSeq DEF IsFunction
<1>2. q = [i \in DOMAIN f.stmts |-> StmtAt(f.stmts[i], At(i))]
  BY Zenon DEF StmtsPlaced
<1> HIDE DEF q, n
<1>3. \A i \in 1..n : At(i) \in Nat
  <2> TAKE i \in 1..n
  <2>1. i - 1 \in 0..n
    BY <1>1
  <2>2. i - 1 \in 0..Len(f.stmts)
    BY <2>1 DEF n
  <2> QED BY <1>1, <2>2, StmtSizesAre
<1> HIDE DEF At
<1>4. q = [i \in 1..n |-> q[i]] /\ \A i \in 1..n : q[i] = StmtAt(f.stmts[i], At(i))
  BY <1>1, <1>2
<1>5. \A i \in 1..n : IsStatement(q[i]) /\ StmtAlike(q[i], f.stmts[i])
  BY <1>1, <1>3, <1>4, StmtAtIs
<1>6. StmtList(q) /\ Len(q) = n
  BY <1>1, <1>4, <1>5, MapIsSeq, ListsAre
<1> QED BY <1>5, <1>6 DEF q, n

LEMMA LocalsPlacedAre ==
  ASSUME NEW f, DataList(f.locals)
  PROVE  /\ DataList(LocalsPlaced(f)) /\ Len(LocalsPlaced(f)) = Len(f.locals)
         /\ \A i \in 1..Len(f.locals) : /\ DatumAlike(LocalsPlaced(f)[i], f.locals[i])
                                        /\ LocalsPlaced(f)[i].offset = LocalAt(f, i)
         /\ EndsInData(f.locals) => Natural(LocalsPlaced(f))
<1> DEFINE q == LocalsPlaced(f)
           n == Len(f.locals)
<1>1. /\ DOMAIN f.locals = 1..n /\ n \in Nat
      /\ \A i \in 1..n : IsDatum(f.locals[i])
  BY ListsAre, DomainOfSeq
<1>2. q = [i \in DOMAIN f.locals |-> DataAt(f.locals[i], LocalAt(f, i))]
  BY Zenon DEF LocalsPlaced, LocalAt
<1> HIDE DEF q, n
<1>3. \A i \in 1..n : LocalAt(f, i) \in Int /\ (EndsInData(f.locals) => LocalAt(f, i) \in Nat)
  BY LocalAtIs DEF n
<1>4. q = [i \in 1..n |-> q[i]] /\ \A i \in 1..n : q[i] = DataAt(f.locals[i], LocalAt(f, i))
  BY <1>1, <1>2
<1>5. \A i \in 1..n : /\ IsDatum(q[i]) /\ DatumAlike(q[i], f.locals[i])
                      /\ q[i].offset = LocalAt(f, i)
  BY <1>1, <1>3, <1>4, DataAtIs
<1>6. DataList(q) /\ Len(q) = n
  BY <1>1, <1>4, <1>5, MapIsSeq, ListsAre
<1> QED BY <1>3, <1>5, <1>6 DEF q, n, Natural

LEMMA PlacedGrows ==
  ASSUME NEW f, IsFunction(f), CallsLegal(f.stmts), NEW at \in Nat
  PROVE  /\ IsFunction(Placed(f, at)) /\ Grown(Placed(f, at), f, <<>>)
         /\ Placed(f, at).locals = LocalsPlaced(f)
         /\ EndsInData(f.locals) => Natural(Placed(f, at).locals)
<1> DEFINE g == Placed(f, at)
<1>1. /\ DOMAIN g = FunctionFields /\ g.name = f.name /\ g.stmts = StmtsPlaced(f)
      /\ g.locals = LocalsPlaced(f) /\ g.offset = at /\ g.loaded = f.loaded
  BY DEF Placed, FunctionFields
<1> HIDE DEF g
<1>2. DataList(f.locals) /\ StmtList(f.stmts)
  BY DEF IsFunction
<1>3. IsFunction(g)
  BY <1>1, <1>2, StmtsPlacedAre, LocalsPlacedAre DEF IsFunction
<1>4. /\ Len(f.stmts) \in Nat /\ Len(g.stmts) = Len(f.stmts)
      /\ \A i \in 1..Len(f.stmts) : StmtAlike(g.stmts[i], f.stmts[i])
  BY <1>1, <1>2, StmtsPlacedAre, ListsAre, DomainOfSeq
<1>5. /\ Len(g.locals) = Len(f.locals)
      /\ \A i \in 1..Len(f.locals) : DatumAlike(g.locals[i], f.locals[i])
      /\ EndsInData(f.locals) => Natural(g.locals)
  BY <1>1, <1>2, LocalsPlacedAre
<1>6. Grown(g, f, <<>>)
  BY <1>1, <1>4, <1>5, GrownByNothing
<1> QED BY <1>1, <1>3, <1>5, <1>6 DEF g

\* What a list of locals ends in does not depend on where they are.
LEMMA EndsAlike ==
  ASSUME NEW g, NEW f, NEW p, Grown(g, f, p), DataList(f.locals), DataList(g.locals)
  PROVE  EndsInData(g.locals) <=> EndsInData(f.locals)
<1>1. /\ Len(f.locals) \in Nat /\ Len(g.locals) = Len(f.locals)
      /\ f.locals = <<>> <=> Len(f.locals) = 0
      /\ g.locals = <<>> <=> Len(g.locals) = 0
  BY ListsAre, DomainOfSeq DEF Grown
<1>2. CASE f.locals = <<>>
  BY <1>1, <1>2 DEF EndsInData
<1>3. CASE f.locals # <<>>
  <2>1. Len(f.locals) \in 1..Len(f.locals)
    BY <1>1, <1>3
  <2>2. DatumAlike(g.locals[Len(f.locals)], f.locals[Len(f.locals)])
    BY <2>1 DEF Grown
  <2>3. DataSize(g.locals[Len(f.locals)]) = DataSize(f.locals[Len(f.locals)])
    BY <2>2 DEF DatumAlike, DataSize
  <2> QED BY <1>1, <1>3, <2>3 DEF EndsInData
<1> QED BY <1>2, <1>3

-----------------------------------------------------------------------------
(* References.                                                             *)

\* A function whose statements have other arguments, each like the one it was.
Rewritten(q, f) ==
  /\ q = [i \in 1..Len(f.stmts) |-> q[i]]
  /\ \A i \in 1..Len(f.stmts) : \E a :
       /\ q[i] = [f.stmts[i] EXCEPT !.args = a]
       /\ a = [k \in 1..Len(f.stmts[i].args) |-> a[k]]
       /\ \A k \in 1..Len(f.stmts[i].args) :
            IsArgument(a[k]) /\ ArgAlike(a[k], f.stmts[i].args[k])

LEMMA RewrittenGrows ==
  ASSUME NEW f, IsFunction(f), NEW q, Rewritten(q, f)
  PROVE  /\ IsFunction([f EXCEPT !.stmts = q]) /\ Grown([f EXCEPT !.stmts = q], f, <<>>)
         /\ [f EXCEPT !.stmts = q].locals = f.locals
<1> DEFINE n == Len(f.stmts)
<1>1. n \in Nat /\ \A i \in 1..n : IsStatement(f.stmts[i])
  BY ListsAre, DomainOfSeq DEF IsFunction
<1>2. ASSUME NEW i \in 1..n PROVE IsStatement(q[i]) /\ StmtAlike(q[i], f.stmts[i])
  <2>1. PICK a : /\ q[i] = [f.stmts[i] EXCEPT !.args = a]
                 /\ a = [k \in 1..Len(f.stmts[i].args) |-> a[k]]
                 /\ \A k \in 1..Len(f.stmts[i].args) :
                      IsArgument(a[k]) /\ ArgAlike(a[k], f.stmts[i].args[k])
    BY DEF Rewritten
  <2>2. /\ IsStatement([f.stmts[i] EXCEPT !.args = a])
        /\ StmtAlike([f.stmts[i] EXCEPT !.args = a], f.stmts[i])
    BY <1>1, <2>1, ReplacedArgs
  <2> QED BY <2>1, <2>2
<1>3. q = [i \in 1..Len(f.stmts) |-> q[i]]
  BY DEF Rewritten
<1>4. /\ IsFunction([f EXCEPT !.stmts = q]) /\ Grown([f EXCEPT !.stmts = q], f, <<>>)
      /\ StmtList(q)
  BY <1>2, <1>3, ReplacedStmts
<1> QED BY <1>4, OtherStmts

LEMMA LocallyBoundIs ==
  ASSUME NEW f, NEW s, NEW a, IsArgument(a), NEW o
  PROVE  IsArgument(LocallyBound(f, s, a, o)) /\ ArgAlike(LocallyBound(f, s, a, o), a)
<1> DEFINE b == LocallyBound(f, s, a, o)
<1>1. DOMAIN a = ArgFields /\ a.scale \in {1, 2, 4, 8}
  BY ShapesAre
<1>2. \/ \E v : b = [a EXCEPT !.val = v]
      \/ \E v, w : b = [a EXCEPT !.type = "DISPLACED", !.base = w, !.val = v]
  BY Zenon DEF LocallyBound
<1> HIDE DEF b
<1>3. /\ DOMAIN b = ArgFields /\ b.scale = a.scale /\ b.label = a.label
      /\ b.type = a.type \/ b.type = "DISPLACED"
  BY <1>1, <1>2 DEF ArgFields
<1> QED BY <1>1, <1>3, ShapesAre DEF ArgAlike, b

LEMMA BoundIs ==
  ASSUME NEW f, NEW s, NEW a, IsArgument(a), NEW t, NEW o
  PROVE  IsArgument(Bound(f, s, a, t, o)) /\ ArgAlike(Bound(f, s, a, t, o), a)
<1> DEFINE b == Bound(f, s, a, t, o)
<1>1. DOMAIN a = ArgFields /\ a.scale \in {1, 2, 4, 8}
  BY ShapesAre
<1>2. b = LocallyBound(f, s, a, o) \/ \E v : b = [a EXCEPT !.val = v]
  BY Zenon DEF Bound
<1> HIDE DEF b
<1>3. CASE b = LocallyBound(f, s, a, o)
  BY <1>3, LocallyBoundIs DEF b
<1>4. CASE \E v : b = [a EXCEPT !.val = v]
  <2>1. /\ DOMAIN b = ArgFields /\ b.scale = a.scale /\ b.label = a.label
        /\ b.type = a.type
    BY <1>1, <1>4 DEF ArgFields
  <2> QED BY <1>1, <2>1, ShapesAre DEF ArgAlike, b
<1> QED BY <1>2, <1>3, <1>4

LEMMA LocalValuesGrow ==
  ASSUME NEW f, IsFunction(f), NEW o
  PROVE  /\ IsFunction(WithLocalValues(f, o)) /\ Grown(WithLocalValues(f, o), f, <<>>)
         /\ WithLocalValues(f, o).locals = f.locals
<1> DEFINE Arg(s, a) == IF Refers(a) /\ IsLocal(f, a.label) THEN LocallyBound(f, s, a, o) ELSE a
           Those(s) == [k \in DOMAIN s.args |-> Arg(s, s.args[k])]
           q == [i \in DOMAIN f.stmts |-> [f.stmts[i] EXCEPT !.args = Those(f.stmts[i])]]
           n == Len(f.stmts)
<1>1. WithLocalValues(f, o) = [f EXCEPT !.stmts = q]
  BY Zenon DEF WithLocalValues, Rebound
<1>2. DOMAIN f.stmts = 1..n /\ n \in Nat /\ \A i \in 1..n : IsStatement(f.stmts[i])
  BY ListsAre, DomainOfSeq DEF IsFunction
<1>3. \A s, a : IsArgument(a) => IsArgument(Arg(s, a)) /\ ArgAlike(Arg(s, a), a)
  BY LocallyBoundIs DEF ArgAlike
<1> HIDE DEF Arg
<1>4. ASSUME NEW i \in 1..n
      PROVE  LET a == Those(f.stmts[i])
             IN  /\ a = [k \in 1..Len(f.stmts[i].args) |-> a[k]]
                 /\ \A k \in 1..Len(f.stmts[i].args) :
                      IsArgument(a[k]) /\ ArgAlike(a[k], f.stmts[i].args[k])
  <2>1. /\ DOMAIN f.stmts[i].args = 1..Len(f.stmts[i].args)
        /\ \A k \in 1..Len(f.stmts[i].args) : IsArgument(f.stmts[i].args[k])
    BY <1>2, ShapesAre, ListsAre, DomainOfSeq
  <2> QED BY <1>3, <2>1
<1> HIDE DEF Those
<1>5. /\ q = [i \in 1..n |-> q[i]]
      /\ \A i \in 1..n : q[i] = [f.stmts[i] EXCEPT !.args = Those(f.stmts[i])]
  BY <1>2
<1> HIDE DEF q
<1>6. Rewritten(q, f)
  BY <1>4, <1>5, Zenon DEF Rewritten
<1> QED BY <1>1, <1>6, RewrittenGrows

LEMMA ValuesGrow ==
  ASSUME NEW f, IsFunction(f), NEW t, NEW o
  PROVE  /\ IsFunction(WithValues(f, t, o)) /\ Grown(WithValues(f, t, o), f, <<>>)
         /\ WithValues(f, t, o).locals = f.locals
<1> DEFINE Arg(s, a) == IF Refers(a) /\ TRUE THEN Bound(f, s, a, t, o) ELSE a
           Those(s) == [k \in DOMAIN s.args |-> Arg(s, s.args[k])]
           q == [i \in DOMAIN f.stmts |-> [f.stmts[i] EXCEPT !.args = Those(f.stmts[i])]]
           n == Len(f.stmts)
<1>1. WithValues(f, t, o) = [f EXCEPT !.stmts = q]
  BY Zenon DEF WithValues, Rebound
<1>2. DOMAIN f.stmts = 1..n /\ n \in Nat /\ \A i \in 1..n : IsStatement(f.stmts[i])
  BY ListsAre, DomainOfSeq DEF IsFunction
<1>3. \A s, a : IsArgument(a) => IsArgument(Arg(s, a)) /\ ArgAlike(Arg(s, a), a)
  BY BoundIs DEF ArgAlike
<1> HIDE DEF Arg
<1>4. ASSUME NEW i \in 1..n
      PROVE  LET a == Those(f.stmts[i])
             IN  /\ a = [k \in 1..Len(f.stmts[i].args) |-> a[k]]
                 /\ \A k \in 1..Len(f.stmts[i].args) :
                      IsArgument(a[k]) /\ ArgAlike(a[k], f.stmts[i].args[k])
  <2>1. /\ DOMAIN f.stmts[i].args = 1..Len(f.stmts[i].args)
        /\ \A k \in 1..Len(f.stmts[i].args) : IsArgument(f.stmts[i].args[k])
    BY <1>2, ShapesAre, ListsAre, DomainOfSeq
  <2> QED BY <1>3, <2>1
<1> HIDE DEF Those
<1>5. /\ q = [i \in 1..n |-> q[i]]
      /\ \A i \in 1..n : q[i] = [f.stmts[i] EXCEPT !.args = Those(f.stmts[i])]
  BY <1>2
<1> HIDE DEF q
<1>6. Rewritten(q, f)
  BY <1>4, <1>5, Zenon DEF Rewritten
<1> QED BY <1>1, <1>6, RewrittenGrows

-----------------------------------------------------------------------------
(* Tables of symbols.                                                      *)

SymbolFields == {"offset", "size", "global", "func", "const"}
IsSymbol(e) == DOMAIN e = SymbolFields /\ e.offset \in Nat
IsTable(t)  == \A n \in DOMAIN t : IsSymbol(t[n])

LEMMA OtherOffset ==
  ASSUME NEW e, IsSymbol(e), NEW at \in Nat
  PROVE  IsSymbol([e EXCEPT !.offset = at])
BY DEF IsSymbol, SymbolFields

LEMMA OffsetInTable ==
  ASSUME NEW t, IsTable(t), NEW name, NEW at \in Nat
  PROVE  IsTable(WithOffset(t, name, at)) /\ DOMAIN WithOffset(t, name, at) = DOMAIN t
<1> DEFINE u == WithOffset(t, name, at)
<1>1. CASE name \notin DOMAIN t
  BY <1>1 DEF WithOffset
<1>2. CASE name \in DOMAIN t
  <2>1. u = [t EXCEPT ![name].offset = at]
    BY <1>2 DEF WithOffset
  <2>2. /\ DOMAIN u = DOMAIN t
        /\ \A n \in DOMAIN t : u[n] = IF n = name THEN [t[n] EXCEPT !.offset = at] ELSE t[n]
    BY <1>2, <2>1
  <2> HIDE DEF u
  <2>3. \A n \in DOMAIN t : IsSymbol(t[n]) /\ IsSymbol([t[n] EXCEPT !.offset = at])
    BY OtherOffset DEF IsTable
  <2>4. \A n \in DOMAIN u : IsSymbol(u[n])
    BY <2>2, <2>3
  <2> QED BY <2>2, <2>4, Zenon DEF IsTable, u
<1> QED BY <1>1, <1>2

LEMMA JoinedTables ==
  ASSUME NEW t, IsTable(t), NEW u, IsTable(u)
  PROVE  IsTable(Joined(t, u)) /\ DOMAIN Joined(t, u) = (DOMAIN t) \cup (DOMAIN u)
<1> DEFINE j == Joined(t, u)
<1>1. /\ DOMAIN j = (DOMAIN t) \cup (DOMAIN u)
      /\ \A n \in DOMAIN j : j[n] = IF n \in DOMAIN t THEN t[n] ELSE u[n]
  BY DEF Joined
<1> HIDE DEF j
<1>2. \A n \in DOMAIN j : IsSymbol(j[n])
  BY <1>1 DEF IsTable
<1> QED BY <1>1, <1>2 DEF IsTable, j

LEMMA TextSymbolsAre ==
  ASSUME NEW q, FunctionList(q)
  PROVE  IsTable(TextSymbols(q))
<1>1. DOMAIN q = 1..Len(q) /\ \A i \in 1..Len(q) : q[i].offset \in Nat
  BY DomainOfSeq DEF FunctionList, IsFunction
<1>2. ASSUME NEW n \in {q[i].name : i \in DOMAIN q} PROVE IsSymbol(TextSymbols(q)[n])
  <2> DEFINE i == CHOOSE k \in DOMAIN q : q[k].name = n
             e == FunctionSymbol(q[i])
  <2>1. i \in DOMAIN q
    BY <1>2
  <2>2. TextSymbols(q)[n] = e
    BY <1>2 DEF TextSymbols
  <2> HIDE DEF i
  <2>3. DOMAIN e = SymbolFields /\ e.offset = q[i].offset
    BY DEF FunctionSymbol, SymbolFields
  <2> HIDE DEF e
  <2> QED BY <1>1, <2>1, <2>2, <2>3 DEF IsSymbol
<1>3. DOMAIN TextSymbols(q) = {q[i].name : i \in DOMAIN q}
  BY DEF TextSymbols
<1> QED BY <1>2, <1>3 DEF IsTable

LEMMA DataSymbolsAre ==
  ASSUME NEW q, IsSeq(q), Natural(q)
  PROVE  IsTable(DataSymbols(q))
<1>1. DOMAIN q = 1..Len(q) /\ \A i \in 1..Len(q) : q[i].offset \in Nat
  BY DomainOfSeq DEF Natural
<1>2. ASSUME NEW n \in {q[i].label : i \in Labels(q)} PROVE IsSymbol(DataSymbols(q)[n])
  <2> DEFINE i == CHOOSE k \in Labels(q) : q[k].label = n
             e == DataSymbol(q[i])
  <2>1. i \in DOMAIN q
    BY <1>2 DEF Labels
  <2>2. DataSymbols(q)[n] = e
    BY <1>2 DEF DataSymbols
  <2> HIDE DEF i
  <2>3. DOMAIN e = SymbolFields /\ e.offset = q[i].offset
    BY DEF DataSymbol, SymbolFields
  <2> HIDE DEF e
  <2> QED BY <1>1, <2>1, <2>2, <2>3 DEF IsSymbol
<1>3. DOMAIN DataSymbols(q) = {q[i].label : i \in Labels(q)}
  BY DEF DataSymbols
<1> QED BY <1>2, <1>3 DEF IsTable

LEMMA SymbolsOfAre ==
  ASSUME NEW q, FunctionList(q), NEW s, DataList(s), Natural(s),
         NEW c, DataList(c), Natural(c)
  PROVE  IsTable(SymbolsOf(q, s, c))
<1>1. IsTable(TextSymbols(q)) /\ IsTable(DataSymbols(s)) /\ IsTable(DataSymbols(c))
  BY TextSymbolsAre, DataSymbolsAre, ListsAre
<1>2. IsTable(Joined(DataSymbols(s), DataSymbols(c)))
  BY <1>1, JoinedTables
<1> QED BY <1>1, <1>2, JoinedTables DEF SymbolsOf

LEMMA ReadSymbolsAre ==
  ASSUME NEW o, IsTable(o.symbols)
  PROVE  IsTable(ReadSymbols(o)) /\ DOMAIN ReadSymbols(o) = DOMAIN o.symbols
<1> DEFINE t == ReadSymbols(o)
<1>1. /\ DOMAIN t = DOMAIN o.symbols
      /\ \A n \in DOMAIN t : t[n] = [o.symbols[n] EXCEPT !.const = FALSE]
  BY DEF ReadSymbols
<1> HIDE DEF t
<1>2. \A n \in DOMAIN t : IsSymbol(o.symbols[n])
  BY <1>1 DEF IsTable
<1>3. \A e : IsSymbol(e) => IsSymbol([e EXCEPT !.const = FALSE])
  BY DEF IsSymbol, SymbolFields
<1>4. \A n \in DOMAIN t : IsSymbol(t[n])
  BY <1>1, <1>2, <1>3
<1> QED BY <1>1, <1>4 DEF IsTable, t

-----------------------------------------------------------------------------
(* The labels of a section, in the order of their offsets.                 *)

Increasing(q, v) == \A i, j \in DOMAIN q : i < j => v[q[i]] < v[q[j]]

\* Names whose numbers are distinct can be put in the order of these.
LEMMA OrderExists ==
  ASSUME NEW S, NEW v, \A x \in S : v[x] \in Nat,
         \A x, y \in S : v[x] = v[y] => x = y, NEW e \in Nat
  PROVE  LET T == {x \in S : v[x] < e}
         IN  /\ IsFiniteSet(T)
             /\ \E q \in [1..Cardinality(T) -> T] : Increasing(q, v)
<1> DEFINE Below(m) == {x \in S : v[x] < m}
           Good_(m) == /\ IsFiniteSet(Below(m))
                       /\ \E q \in [1..Cardinality(Below(m)) -> Below(m)] : Increasing(q, v)
           N == {m \in 0..e : Good_(m)}
<1>1. 0 \in N
  <2>1. Below(0) = {}
    OBVIOUS
  <2>2. IsFiniteSet(Below(0)) /\ Cardinality(Below(0)) = 0
    BY <2>1, FS_EmptySet
  <2>3. \E q \in [1..0 -> {}] : Increasing(q, v)
    <3>1. <<>> \in [1..0 -> {}] /\ Increasing(<<>>, v)
      BY DEF Increasing
    <3> QED BY <3>1
  <2>4. Good_(0)
    <3> HIDE DEF Below
    <3>1. \E q \in [1..Cardinality(Below(0)) -> Below(0)] : Increasing(q, v)
      BY <2>1, <2>2, <2>3
    <3> QED BY <2>2, <3>1
  <2> HIDE DEF Good_
  <2> QED BY <2>4
<1>2. ASSUME NEW m \in 0..e, m \in N, m < e
      PROVE  m + 1 \in N
  <2>1. Good_(m)
    BY <1>2
  <2>2. PICK q \in [1..Cardinality(Below(m)) -> Below(m)] : Increasing(q, v)
    BY <2>1
  <2>3. IsFiniteSet(Below(m)) /\ Cardinality(Below(m)) \in Nat
    BY <2>1, FS_CardinalityType
  <2>4. CASE \E x \in S : v[x] = m
    <3>1. PICK x \in S : v[x] = m
      BY <2>4
    <3>2. Below(m + 1) = Below(m) \cup {x} /\ x \notin Below(m)
      BY <1>2, <3>1
    <3>a. \A y \in Below(m) : v[y] < m
      OBVIOUS
    <3> HIDE DEF Below
    <3>3. PICK n \in Nat : n = Cardinality(Below(m))
      BY <2>3
    <3>4. IsFiniteSet(Below(m + 1)) /\ Cardinality(Below(m + 1)) = n + 1
      BY <2>3, <3>2, <3>3, FS_AddElement
    <3> DEFINE p == [i \in 1..(n + 1) |-> IF i = n + 1 THEN x ELSE q[i]]
    <3>5. p \in [1..(n + 1) -> Below(m + 1)]
      BY <2>2, <3>2, <3>3
    <3>6. \A i \in 1..n : p[i] = q[i] /\ q[i] \in Below(m)
      BY <2>2, <3>3
    <3>7. p[n + 1] = x
      OBVIOUS
    <3> HIDE DEF p
    <3>8. ASSUME NEW i \in 1..(n + 1), NEW j \in 1..(n + 1), i < j
          PROVE  v[p[i]] < v[p[j]]
      <4>1. i \in 1..n
        BY <3>8
      <4>2. CASE j = n + 1
        BY <3>1, <3>6, <3>7, <3>a, <4>1, <4>2
      <4>3. CASE j # n + 1
        <5>1. j \in 1..n
          BY <4>3
        <5>2. v[q[i]] < v[q[j]]
          BY <2>2, <3>3, <3>8, <4>1, <5>1 DEF Increasing
        <5> QED BY <3>6, <4>1, <5>1, <5>2
      <4> QED BY <4>2, <4>3
    <3>9. Increasing(p, v)
      BY <3>5, <3>8 DEF Increasing
    <3>10. Good_(m + 1)
      BY <3>4, <3>5, <3>9
    <3> HIDE DEF Good_
    <3> QED BY <1>2, <3>10
  <2>5. CASE ~\E x \in S : v[x] = m
    <3>1. Below(m + 1) = Below(m)
      BY <1>2, <2>5
    <3> HIDE DEF Below
    <3>2. Good_(m + 1)
      BY <2>1, <3>1
    <3> HIDE DEF Good_
    <3> QED BY <1>2, <3>2
  <2> QED BY <2>4, <2>5
<1> HIDE DEF N
<1>3. 0..e \subseteq N
  BY <1>1, <1>2, Induct
<1>4. e \in N
  BY <1>3
<1> QED BY <1>4 DEF N

\* The names that have a place inside of a section, in order.
Ordered(q, o, names, end) ==
  /\ IsSeq(q) /\ Len(q) \in Nat /\ DOMAIN q = 1..Len(q)
  /\ \A i \in 1..Len(q) : q[i] \in names /\ o.symbols[q[i]].offset < end
  /\ \A i, j \in 1..Len(q) : i < j => o.symbols[q[i]].offset < o.symbols[q[j]].offset

LEMMA SortedIs ==
  ASSUME NEW o, IsTable(o.symbols), NEW names, names \subseteq DOMAIN o.symbols,
         OffsetsDistinct(o, names), NEW end \in Nat
  PROVE  Ordered(Sorted(o, names, end), o, names, end)
<1> DEFINE v == [n \in names |-> o.symbols[n].offset]
           inside == {n \in names : o.symbols[n].offset < end}
           q == Sorted(o, names, end)
<1>1. \A n \in names : o.symbols[n].offset \in Nat
  BY DEF IsTable, IsSymbol
<1>2. /\ \A n \in names : v[n] = o.symbols[n].offset /\ v[n] \in Nat
      /\ \A m, n \in names : v[m] = v[n] => m = n
  BY <1>1 DEF OffsetsDistinct
<1> HIDE DEF v
<1>3. inside = {n \in names : v[n] < end}
  BY <1>2
<1> DEFINE T == {n \in names : v[n] < end}
<1>a. IsFiniteSet(T) /\ \E p \in [1..Cardinality(T) -> T] : Increasing(p, v)
  BY <1>2, OrderExists
<1>4. IsFiniteSet(inside) /\ \E p \in [1..Cardinality(inside) -> inside] : Increasing(p, v)
  <2>1. inside = T
    BY <1>3
  <2> HIDE DEF T, inside
  <2> QED BY <1>a, <2>1
<1>5. q = CHOOSE p \in [1..Cardinality(inside) -> inside] :
            \A i, j \in DOMAIN p : i < j => o.symbols[p[i]].offset < o.symbols[p[j]].offset
  BY Zenon DEF Sorted
<1>6. \E p \in [1..Cardinality(inside) -> inside] :
        \A i, j \in DOMAIN p : i < j => o.symbols[p[i]].offset < o.symbols[p[j]].offset
  <2>1. PICK p \in [1..Cardinality(inside) -> inside] : Increasing(p, v)
    BY <1>4
  <2>2. \A i \in DOMAIN p : v[p[i]] = o.symbols[p[i]].offset
    BY <1>2, <2>1
  <2> QED BY <2>1, <2>2 DEF Increasing
<1>7. /\ q \in [1..Cardinality(inside) -> inside]
      /\ \A i, j \in DOMAIN q : i < j => o.symbols[q[i]].offset < o.symbols[q[j]].offset
  BY <1>5, <1>6, Zenon
<1>8. PICK n \in Nat : n = Cardinality(inside)
  BY <1>4, FS_CardinalityType
<1> HIDE DEF q
<1>9. q = [i \in 1..n |-> q[i]] /\ DOMAIN q = 1..n /\ \A i \in 1..n : q[i] \in inside
  BY <1>7, <1>8
<1>10. IsSeq(q) /\ Len(q) = n
  BY <1>9, MapIsSeq
<1>11. Ordered(q, o, names, end)
  BY <1>7, <1>9, <1>10 DEF Ordered
<1> QED BY <1>11 DEF q

-----------------------------------------------------------------------------
(* What is written to an object and to an image, and what is read from an  *)
(* object.                                                                 *)

\* What lies at places of a section or of the image.
Spans(q) ==
  /\ IsSeq(q)
  /\ \A i \in 1..Len(q) : q[i].at \in Nat /\ q[i].next \in Nat /\ q[i].at <= q[i].next

\* Code at places.
Codes(q) ==
  /\ IsSeq(q)
  /\ \A i \in 1..Len(q) : /\ q[i].at \in Nat
                          /\ IsStatement(q[i].stmt) /\ Callable(q[i].stmt)

ObjectIs(o) ==
  /\ IsTable(o.symbols)
  /\ Codes(o.text) /\ o.size \in Nat
  /\ Spans(o.data) /\ Spans(o.rodata)

LEMMA SelectedStmts ==
  ASSUME NEW q, StmtList(q), CallsLegal(q)
  PROVE  /\ Picks(Selected(q, IsInstruction), q, {i \in DOMAIN q : IsInstruction(q[i])})
         /\ StmtList(Selected(q, IsInstruction)) /\ CallsLegal(Selected(q, IsInstruction))
<1> DEFINE T == {i \in DOMAIN q : IsInstruction(q[i])}
           ss == [i \in DOMAIN q |-> IF IsInstruction(q[i]) THEN <<q[i]>> ELSE <<>>]
           p == Selected(q, IsInstruction)
<1>1. IsSeq(q) /\ DOMAIN q = 1..Len(q) /\ \A i \in 1..Len(q) : IsStatement(q[i])
  BY ListsAre, DomainOfSeq
<1>2. p = FlattenSeq(ss)
  BY Zenon DEF Selected
<1>3. ss = [i \in DOMAIN q |-> IF i \in T THEN <<q[i]>> ELSE <<>>] /\ T \subseteq DOMAIN q
  OBVIOUS
<1> HIDE DEF ss, T, p
<1>4. Picks(p, q, T)
  BY <1>1, <1>2, <1>3, FlattenedPicks
<1>5. IsSeq(p) /\ \A k \in 1..Len(p) : \E i \in 1..Len(q) : p[k] = q[i]
  BY <1>1, <1>3, <1>4 DEF Picks
<1>6. StmtList(p)
  BY <1>1, <1>5, ListsAre
<1>7. CallsLegal(p)
  BY <1>5 DEF CallsLegal
<1> QED BY <1>4, <1>6, <1>7 DEF p, T

LEMMA EmissionIs ==
  ASSUME NEW at \in Nat, NEW id, NEW size \in Nat, NEW args
  PROVE  LET e == Emission(at, id, size, args)
         IN  e.at \in Nat /\ e.next \in Nat /\ e.at <= e.next
BY DEF Emission

LEMMA EmittedCellsAre ==
  ASSUME NEW d, IsDatum(d), NEW at \in Nat
  PROVE  Spans(EmittedCells(d, at)) /\ Len(EmittedCells(d, at)) = Len(d.cells)
<1> DEFINE q == EmittedCells(d, at)
           n == Len(d.cells)
           Off(i) == SumOf([j \in 1..(i - 1) |-> d.cells[j].size])
<1>1. CellList(d.cells)
  BY ShapesAre
<1>2. DOMAIN d.cells = 1..n /\ n \in Nat /\ \A i \in 1..n : d.cells[i].size \in Nat
  BY <1>1, ListsAre, DomainOfSeq DEF IsCell
<1>3. q = [i \in DOMAIN d.cells |-> Emission(at + Off(i), d.cells[i].id, d.cells[i].size, <<>>)]
  BY Zenon DEF EmittedCells
<1> HIDE DEF q, n
<1>4. ASSUME NEW i \in 1..n PROVE Off(i) \in Nat
  <2> DEFINE z == [j \in 1..(i - 1) |-> d.cells[j].size]
  <2>1. i - 1 \in Nat /\ z = [j \in 1..(i - 1) |-> z[j]] /\ \A j \in 1..(i - 1) : z[j] \in Nat
    BY <1>2
  <2> HIDE DEF z
  <2>2. SumOf(z) \in Nat
    BY <2>1, NatSum
  <2> QED BY <2>2 DEF z
<1> HIDE DEF Off
<1>5. /\ q = [i \in 1..n |-> q[i]]
      /\ \A i \in 1..n : q[i] = Emission(at + Off(i), d.cells[i].id, d.cells[i].size, <<>>)
  BY <1>2, <1>3
<1>6. IsSeq(q) /\ Len(q) = n
  BY <1>2, <1>5, MapIsSeq
<1>7. ASSUME NEW i \in 1..n
      PROVE  q[i].at \in Nat /\ q[i].next \in Nat /\ q[i].at <= q[i].next
  <2>1. at + Off(i) \in Nat /\ d.cells[i].size \in Nat
    BY <1>2, <1>4
  <2> QED BY <1>5, <2>1, EmissionIs
<1> QED BY <1>6, <1>7 DEF Spans, q, n

LEMMA FlattenedSpans ==
  ASSUME NEW ss, IsSeq(ss), \A j \in 1..Len(ss) : Spans(ss[j])
  PROVE  Spans(FlattenSeq(ss))
<1> DEFINE p == FlattenSeq(ss)
<1>1. \A j \in 1..Len(ss) : IsSeq(ss[j])
  BY DEF Spans
<1>2. Gathered(p, ss)
  BY <1>1, FlattenedGathers
<1> HIDE DEF p
<1>3. ASSUME NEW k \in 1..Len(p)
      PROVE  p[k].at \in Nat /\ p[k].next \in Nat /\ p[k].at <= p[k].next
  <2>1. PICK j \in 1..Len(ss) : \E i \in 1..Len(ss[j]) : p[k] = ss[j][i]
    BY <1>2 DEF Gathered
  <2> QED BY <2>1 DEF Spans
<1> QED BY <1>2, <1>3 DEF Spans, Gathered, p

LEMMA BothSpan ==
  ASSUME NEW p, Spans(p), NEW q, Spans(q)
  PROVE  Spans(p \o q)
<1> DEFINE b == p \o q
<1>1. Unites(b, p, q)
  BY BothHold DEF Spans
<1> HIDE DEF b
<1> QED BY <1>1 DEF Spans, Unites, b

LEMMA DataBeforeIs ==
  ASSUME NEW q, DataList(q), NEW i \in 1..(Len(q) + 1)
  PROVE  DataBefore(q, i) \in Nat
<1> DEFINE z == [j \in 1..(i - 1) |-> DataSize(q[j])]
<1>1. Len(q) \in Nat /\ \A j \in 1..Len(q) : DataSize(q[j]) \in Nat
  BY ListsAre, DomainOfSeq, DataSizeIs
<1>2. i - 1 \in Nat /\ z = [j \in 1..(i - 1) |-> z[j]] /\ \A j \in 1..(i - 1) : z[j] \in Nat
  BY <1>1
<1>3. DataBefore(q, i) = SumOf(z)
  BY Zenon DEF DataBefore
<1> HIDE DEF z
<1> QED BY <1>2, <1>3, NatSum

LEMMA TotalSizeIs ==
  ASSUME NEW q, DataList(q)
  PROVE  TotalSize(q) \in Nat
<1> DEFINE z == [j \in DOMAIN q |-> DataSize(q[j])]
<1>1. /\ Len(q) \in Nat /\ DOMAIN q = 1..Len(q)
      /\ \A j \in 1..Len(q) : DataSize(q[j]) \in Nat
  BY ListsAre, DomainOfSeq, DataSizeIs
<1>2. z = [j \in 1..Len(q) |-> z[j]] /\ \A j \in 1..Len(q) : z[j] \in Nat
  BY <1>1
<1>3. TotalSize(q) = SumOf(z)
  BY Zenon DEF TotalSize
<1> HIDE DEF z
<1> QED BY <1>1, <1>2, <1>3, NatSum

LEMMA TextBeforeIs ==
  ASSUME NEW q, FunctionList(q), AllCallsLegal(q), NEW i \in 1..(Len(q) + 1)
  PROVE  TextBefore(q, i) \in Nat
<1> DEFINE z == [j \in 1..(i - 1) |-> FunctionSize(q[j])]
<1>1. Len(q) \in Nat /\ \A j \in 1..Len(q) : StmtList(q[j].stmts) /\ CallsLegal(q[j].stmts)
  BY DomainOfSeq DEF FunctionList, IsFunction, AllCallsLegal
<1>a. \A j \in 1..Len(q) : FunctionSize(q[j]) \in Nat
  BY <1>1, FunctionSizeIs
<1>2. i - 1 \in Nat /\ z = [j \in 1..(i - 1) |-> z[j]] /\ \A j \in 1..(i - 1) : z[j] \in Nat
  BY <1>1, <1>a
<1>3. TextBefore(q, i) = SumOf(z)
  BY Zenon DEF TextBefore
<1> HIDE DEF z
<1> QED BY <1>2, <1>3, NatSum

LEMMA SectionIs ==
  ASSUME NEW q, DataList(q)
  PROVE  Spans(Section(q))
<1> DEFINE ss == [i \in DOMAIN q |-> EmittedCells(q[i], DataBefore(q, i))]
           n == Len(q)
<1>1. DOMAIN q = 1..n /\ n \in Nat /\ \A i \in 1..n : IsDatum(q[i])
  BY ListsAre, DomainOfSeq
<1>2. Section(q) = FlattenSeq(ss)
  BY Zenon DEF Section
<1>a. \A i \in 1..n : i \in 1..(Len(q) + 1)
  BY <1>1
<1> HIDE DEF n
<1>3. \A i \in 1..n : DataBefore(q, i) \in Nat
  BY <1>a, DataBeforeIs
<1>4. ss = [i \in 1..n |-> ss[i]] /\ \A i \in 1..n : ss[i] = EmittedCells(q[i], DataBefore(q, i))
  BY <1>1
<1> HIDE DEF ss
<1>5. \A i \in 1..n : Spans(ss[i])
  BY <1>1, <1>3, <1>4, EmittedCellsAre
<1>6. IsSeq(ss) /\ Len(ss) = n
  BY <1>1, <1>4, MapIsSeq
<1> QED BY <1>2, <1>5, <1>6, FlattenedSpans

\* The statements of a function one behind the other, from a place on.
LEMMA EmittedCodeIs ==
  ASSUME NEW f, IsFunction(f), CallsLegal(f.stmts), NEW at \in Nat
  PROVE  Spans(EmittedCode(f, at))
<1> DEFINE code == Selected(f.stmts, IsInstruction)
           n == Len(code)
           q == EmittedCode(f, at)
           Off(i) == SumOf([j \in 1..(i - 1) |-> StmtSize(code[j])])
<1>1. StmtList(code) /\ CallsLegal(code)
  BY SelectedStmts DEF IsFunction
<1>2. q = [i \in DOMAIN code |->
             Emission(at + Off(i), code[i].id, StmtSize(code[i]), Encoded(code[i]))]
  BY Zenon DEF EmittedCode
<1> HIDE DEF q, code
<1>3. /\ DOMAIN code = 1..n /\ n \in Nat
      /\ \A i \in 1..n : IsStatement(code[i]) /\ Callable(code[i])
  BY <1>1, ListsAre, DomainOfSeq DEF CallsLegal
<1>4. \A i \in 1..n : StmtSize(code[i]) \in Nat
  BY <1>3, StmtSizeIs
<1>5. \A i \in 1..n : i - 1 \in 0..Len(code)
  BY <1>3
<1> HIDE DEF n
<1>6. \A i \in 1..n : Off(i) \in Nat
  BY <1>1, <1>5, StmtSizesAre
<1> HIDE DEF Off
<1>7. /\ q = [i \in 1..n |-> q[i]]
      /\ \A i \in 1..n :
           q[i] = Emission(at + Off(i), code[i].id, StmtSize(code[i]), Encoded(code[i]))
  BY <1>2, <1>3
<1>8. IsSeq(q) /\ Len(q) = n
  BY <1>3, <1>7, MapIsSeq
<1>9. ASSUME NEW i \in 1..n
      PROVE  q[i].at \in Nat /\ q[i].next \in Nat /\ q[i].at <= q[i].next
  <2>1. at + Off(i) \in Nat
    BY <1>6
  <2> QED BY <1>4, <1>7, <2>1, EmissionIs
<1> QED BY <1>8, <1>9 DEF Spans, q

LEMMA CodeOfIs ==
  ASSUME NEW fs, FunctionList(fs), AllCallsLegal(fs), NEW i \in 1..Len(fs)
  PROVE  Codes(CodeOf(fs, i))
<1> DEFINE code == Selected(fs[i].stmts, IsInstruction)
           n == Len(code)
           q == CodeOf(fs, i)
           Off(j) == SumOf([k \in 1..(j - 1) |-> StmtSize(code[k])])
<1>0. StmtList(fs[i].stmts) /\ CallsLegal(fs[i].stmts)
  BY DEF FunctionList, IsFunction, AllCallsLegal
<1>1. StmtList(code) /\ CallsLegal(code)
  BY <1>0, SelectedStmts
<1>2. q = [j \in DOMAIN code |-> [at |-> TextBefore(fs, i) + Off(j), stmt |-> code[j]]]
  BY Zenon DEF CodeOf
<1> HIDE DEF q, code
<1>3. /\ DOMAIN code = 1..n /\ n \in Nat
      /\ \A j \in 1..n : IsStatement(code[j]) /\ Callable(code[j])
  BY <1>1, ListsAre, DomainOfSeq DEF CallsLegal
<1>5. \A j \in 1..n : j - 1 \in 0..Len(code)
  BY <1>3
<1> HIDE DEF n
<1>6. \A j \in 1..n : Off(j) \in Nat
  BY <1>1, <1>5, StmtSizesAre
<1> HIDE DEF Off
<1>7. TextBefore(fs, i) \in Nat
  <2>1. i \in 1..(Len(fs) + 1)
    BY DomainOfSeq DEF FunctionList
  <2> QED BY <2>1, TextBeforeIs
<1>8. /\ q = [j \in 1..n |-> q[j]]
      /\ \A j \in 1..n : q[j] = [at |-> TextBefore(fs, i) + Off(j), stmt |-> code[j]]
  BY <1>2, <1>3
<1>9. IsSeq(q) /\ Len(q) = n
  BY <1>3, <1>8, MapIsSeq
<1>10. ASSUME NEW j \in 1..n
       PROVE  q[j].at \in Nat /\ IsStatement(q[j].stmt) /\ Callable(q[j].stmt)
  <2>1. TextBefore(fs, i) + Off(j) \in Nat
    BY <1>6, <1>7
  <2> QED BY <1>3, <1>8, <2>1
<1> QED BY <1>9, <1>10 DEF Codes, q

LEMMA FlattenedCodes ==
  ASSUME NEW ss, IsSeq(ss), \A j \in 1..Len(ss) : Codes(ss[j])
  PROVE  Codes(FlattenSeq(ss))
<1> DEFINE p == FlattenSeq(ss)
<1>1. \A j \in 1..Len(ss) : IsSeq(ss[j])
  BY DEF Codes
<1>2. Gathered(p, ss)
  BY <1>1, FlattenedGathers
<1> HIDE DEF p
<1>3. ASSUME NEW k \in 1..Len(p)
      PROVE  p[k].at \in Nat /\ IsStatement(p[k].stmt) /\ Callable(p[k].stmt)
  <2>1. PICK j \in 1..Len(ss) : \E i \in 1..Len(ss[j]) : p[k] = ss[j][i]
    BY <1>2 DEF Gathered
  <2> QED BY <2>1 DEF Codes
<1> QED BY <1>2, <1>3 DEF Codes, Gathered, p

LEMMA WrittenIs ==
  ASSUME NEW fs, FunctionList(fs), AllCallsLegal(fs), NEW s, DataList(s), NEW c, DataList(c),
         NEW t, IsTable(t)
  PROVE  ObjectIs(WrittenObj(fs, s, c, t))
<1> DEFINE o == WrittenObj(fs, s, c, t)
           ss == [i \in DOMAIN fs |-> CodeOf(fs, i)]
           n == Len(fs)
<1>1. /\ o.symbols = t /\ o.text = FlattenSeq(ss) /\ o.size = TextBefore(fs, n + 1)
      /\ o.data = Section(s) /\ o.rodata = Section(c)
  BY DEF WrittenObj
<1> HIDE DEF o
<1>2. DOMAIN fs = 1..n /\ n \in Nat /\ n + 1 \in 1..(n + 1)
  BY DomainOfSeq DEF FunctionList
<1>3. o.size \in Nat
  BY <1>1, <1>2, TextBeforeIs
<1>4. ss = [i \in 1..n |-> ss[i]] /\ \A i \in 1..n : ss[i] = CodeOf(fs, i)
  BY <1>2
<1> HIDE DEF ss
<1>5. IsSeq(ss) /\ Len(ss) = n
  BY <1>2, <1>4, MapIsSeq
<1>6. Codes(o.text)
  BY <1>1, <1>4, <1>5, CodeOfIs, FlattenedCodes
<1> QED BY <1>1, <1>3, <1>6, SectionIs DEF ObjectIs, o

-----------------------------------------------------------------------------
(* Reading an object.                                                      *)

LEMMA SectionEndIs ==
  ASSUME NEW q, Spans(q)
  PROVE  SectionEnd(q) \in Nat
<1>1. IsSeq(q) /\ Len(q) \in Nat /\ (q = <<>> <=> Len(q) = 0)
  BY DomainOfSeq DEF Spans
<1>2. CASE q = <<>>
  BY <1>2 DEF SectionEnd
<1>3. CASE q # <<>>
  <2>1. Len(q) \in 1..Len(q)
    BY <1>1, <1>3
  <2> QED BY <1>3, <2>1 DEF SectionEnd, Spans
<1> QED BY <1>2, <1>3

LEMMA ChunkIs ==
  ASSUME NEW q, Spans(q), NEW from, NEW to
  PROVE  IsDatum(Chunk(q, from, to)) /\ Chunk(q, from, to).offset = 0
<1> DEFINE T == {i \in DOMAIN q : from <= q[i].at /\ q[i].at < to}
           ss == [i \in DOMAIN q |-> IF from <= q[i].at /\ q[i].at < to THEN <<q[i]>> ELSE <<>>]
           p == FlattenSeq(ss)
           cells == [i \in DOMAIN p |-> [id |-> p[i].id, size |-> p[i].next - p[i].at]]
           c == Chunk(q, from, to)
<1>1. c = [label |-> <<>>, const |-> FALSE, shared |-> FALSE, offset |-> 0, cells |-> cells]
  BY Zenon DEF Chunk, Selected
<1>2. ss = [i \in DOMAIN q |-> IF i \in T THEN <<q[i]>> ELSE <<>>] /\ T \subseteq DOMAIN q
  OBVIOUS
<1> HIDE DEF c, ss, T
<1>3. Picks(p, q, T)
  BY <1>2, FlattenedPicks DEF Spans
<1> HIDE DEF p
<1>4. IsSeq(p) /\ \A k \in 1..Len(p) : \E i \in 1..Len(q) : p[k] = q[i]
  BY <1>2, <1>3, DomainOfSeq DEF Picks, Spans
<1>5. DOMAIN p = 1..Len(p) /\ Len(p) \in Nat
  BY <1>4, DomainOfSeq
<1>6. /\ cells = [i \in 1..Len(p) |-> cells[i]]
      /\ \A i \in 1..Len(p) : cells[i] = [id |-> p[i].id, size |-> p[i].next - p[i].at]
  BY <1>5
<1> HIDE DEF cells
<1>7. ASSUME NEW i \in 1..Len(p) PROVE IsCell(cells[i])
  <2>1. p[i].next \in Nat /\ p[i].at \in Nat /\ p[i].at <= p[i].next
    BY <1>4 DEF Spans
  <2>2. p[i].next - p[i].at \in Nat
    BY <2>1
  <2> QED BY <1>6, <2>2 DEF IsCell
<1>8. CellList(cells)
  BY <1>5, <1>6, <1>7, MapIsSeq, ListsAre
<1>9. /\ DOMAIN c = DataFields /\ c.const = FALSE /\ c.shared = FALSE /\ c.offset = 0
      /\ c.cells = cells
  BY <1>1 DEF DataFields
<1>a. c.offset \in Int /\ CellList(c.cells)
  BY <1>8, <1>9
<1>b. FALSE \in BOOLEAN
  OBVIOUS
<1>c. c.const \in BOOLEAN /\ c.shared \in BOOLEAN
  BY  <1>9, <1>b, Zenon
<1>10. IsDatum(c)
  BY <1>9, <1>a, <1>c, ShapesAre, Zenon
<1> QED BY <1>9, <1>10 DEF c

LEMMA LabelReadIs ==
  ASSUME NEW o, IsTable(o.symbols), NEW n \in DOMAIN o.symbols
  PROVE  IsDatum(LabelRead(o, n)) /\ LabelRead(o, n).offset \in Nat
<1> DEFINE d == LabelRead(o, n)
<1>1. /\ DOMAIN d = DataFields /\ d.const = FALSE /\ d.shared = FALSE /\ d.cells = <<>>
      /\ d.offset = o.symbols[n].offset
  BY DEF LabelRead, DataFields
<1> HIDE DEF d
<1>2. o.symbols[n].offset \in Nat
  BY DEF IsTable, IsSymbol
<1>3. CellList(<<>>)
  BY EmptyIsSeq, ListsAre
<1>a. d.offset \in Int /\ CellList(d.cells)
  BY <1>1, <1>2, <1>3
<1>b. FALSE \in BOOLEAN
  OBVIOUS
<1>c. d.const \in BOOLEAN /\ d.shared \in BOOLEAN
  BY <1>1, <1>b, Zenon
<1>4. IsDatum(d)
  BY <1>1, <1>a, <1>c, ShapesAre, Zenon
<1> QED BY <1>1, <1>2, <1>4 DEF d

LEMMA FewPlaced ==
  /\ PlacedData(<<>>)
  /\ \A d : IsDatum(d) /\ d.offset \in Nat => PlacedData(<<d>>)
  /\ \A d, e : IsDatum(d) /\ d.offset \in Nat /\ IsDatum(e) /\ e.offset \in Nat =>
       PlacedData(<<d, e>>)
<1>1. PlacedData(<<>>)
  BY EmptyIsSeq, ListsAre DEF PlacedData, Natural
<1>2. ASSUME NEW d, IsDatum(d), d.offset \in Nat PROVE PlacedData(<<d>>)
  BY <1>2, OneIsSeq, ListsAre DEF PlacedData, Natural
<1>3. ASSUME NEW d, NEW e, IsDatum(d), d.offset \in Nat, IsDatum(e), e.offset \in Nat
      PROVE  PlacedData(<<d, e>>)
  <2>1. IsSeq(<<d, e>>) /\ Len(<<d, e>>) = 2
    <3>1. <<d, e>> \in Seq({d, e})
      OBVIOUS
    <3> QED BY <3>1, SeqIsSeq
  <2>2. \A i \in 1..2 : <<d, e>>[i] = d \/ <<d, e>>[i] = e
    OBVIOUS
  <2> DEFINE q == <<d, e>>
  <2> HIDE DEF q
  <2>3. \A i \in 1..Len(q) : IsDatum(q[i]) /\ q[i].offset \in Nat
    BY <1>3, <2>1, <2>2 DEF q
  <2>4. IsSeq(q)
    BY <2>1 DEF q
  <2> QED BY <2>3, <2>4, ListsAre DEF PlacedData, Natural, q
<1> QED BY <1>1, <1>2, <1>3

LEMMA ReadSectionIs ==
  ASSUME NEW o, IsTable(o.symbols), NEW names, names \subseteq DOMAIN o.symbols,
         OffsetsDistinct(o, names), NEW cells, Spans(cells)
  PROVE  PlacedData(ReadSection(o, names, cells))
<1> DEFINE end == SectionEnd(cells)
           sorted == Sorted(o, names, end)
           At(i) == IF i > Len(sorted) THEN end ELSE o.symbols[sorted[i]].offset
           ss == [i \in DOMAIN sorted |->
                    <<LabelRead(o, sorted[i]), Chunk(cells, At(i), At(i + 1))>>]
           first == IF At(1) > 0 THEN <<Chunk(cells, 0, At(1))>> ELSE <<>>
<1>1. ReadSection(o, names, cells) = first \o FlattenSeq(ss)
  BY Zenon DEF ReadSection
<1>2. end \in Nat
  BY SectionEndIs
<1> HIDE DEF end
<1>3. Ordered(sorted, o, names, end)
  BY <1>2, SortedIs
<1> HIDE DEF sorted, At
<1>4. /\ DOMAIN sorted = 1..Len(sorted) /\ Len(sorted) \in Nat
      /\ \A i \in 1..Len(sorted) : sorted[i] \in DOMAIN o.symbols
  BY <1>3 DEF Ordered
<1>5. /\ ss = [i \in 1..Len(sorted) |-> ss[i]]
      /\ \A i \in 1..Len(sorted) :
           ss[i] = <<LabelRead(o, sorted[i]), Chunk(cells, At(i), At(i + 1))>>
  BY <1>4
<1> HIDE DEF ss
<1>6. IsSeq(ss) /\ Len(ss) = Len(sorted)
  BY <1>4, <1>5, MapIsSeq
<1>7. ASSUME NEW i \in 1..Len(ss) PROVE PlacedData(ss[i])
  <2>1. IsDatum(LabelRead(o, sorted[i])) /\ LabelRead(o, sorted[i]).offset \in Nat
    BY <1>4, <1>6, LabelReadIs
  <2>2. /\ IsDatum(Chunk(cells, At(i), At(i + 1)))
        /\ Chunk(cells, At(i), At(i + 1)).offset \in Nat
    BY ChunkIs
  <2>3. ss[i] = <<LabelRead(o, sorted[i]), Chunk(cells, At(i), At(i + 1))>>
    BY <1>5, <1>6
  <2> QED BY <2>1, <2>2, <2>3, FewPlaced
<1>8. PlacedData(FlattenSeq(ss))
  BY <1>6, <1>7, FlattenedData
<1>9. PlacedData(first)
  <2>1. IsDatum(Chunk(cells, 0, At(1))) /\ Chunk(cells, 0, At(1)).offset \in Nat
    BY ChunkIs
  <2>2. PlacedData(<<Chunk(cells, 0, At(1))>>) /\ PlacedData(<<>>)
    BY <2>1, FewPlaced
  <2> QED BY <2>2
<1> HIDE DEF first
<1> QED BY <1>1, <1>8, <1>9, BothPlaced

LEMMA ReadStmtIs ==
  ASSUME NEW o, NEW c, IsStatement(c.stmt), Callable(c.stmt)
  PROVE  LET s == ReadStmt(o, c)
         IN  /\ IsStatement(s) /\ Callable(s)
             /\ s.op = c.stmt.op /\ s.id = c.stmt.id
<1> DEFINE e == Encoded(c.stmt)
           At(k) == c.at + 4 + SumOf([j \in 1..(k - 1) |-> ArgSize(e[j])])
           a == [k \in DOMAIN e |-> ReadArg(o, e[k], At(k))]
           s == ReadStmt(o, c)
<1>1. s = [c.stmt EXCEPT !.offset = 0, !.args = a]
  BY Zenon DEF ReadStmt
<1>2. ArgList(e)
  BY EncodedIs
<1> HIDE DEF e, At, s
<1>3. DOMAIN e = 1..Len(e) /\ Len(e) \in Nat /\ \A k \in 1..Len(e) : IsArgument(e[k])
  BY <1>2, ListsAre, DomainOfSeq
<1>4. a = [k \in 1..Len(e) |-> a[k]] /\ \A k \in 1..Len(e) : a[k] = ReadArg(o, e[k], At(k))
  BY <1>3
<1> HIDE DEF a
<1>5. ASSUME NEW k \in 1..Len(e) PROVE IsArgument(a[k])
  <2>1. \E l : ReadArg(o, e[k], At(k)) = [e[k] EXCEPT !.rel = 0, !.label = l]
    BY Zenon DEF ReadArg
  <2>2. DOMAIN e[k] = ArgFields /\ e[k].scale \in {1, 2, 4, 8}
    BY <1>3, ShapesAre
  <2>3. DOMAIN a[k] = ArgFields /\ a[k].scale = e[k].scale
    BY <1>4, <2>1, <2>2 DEF ArgFields
  <2> QED BY <2>2, <2>3, ShapesAre
<1>6. ArgList(a) /\ Len(a) = Len(e)
  BY <1>3, <1>4, <1>5, MapIsSeq, ListsAre
<1>7. DOMAIN c.stmt = StmtFields
  BY ShapesAre
<1>8. /\ DOMAIN s = StmtFields /\ s.offset = 0 /\ s.args = a
      /\ s.op = c.stmt.op /\ s.id = c.stmt.id
  BY <1>1, <1>7 DEF StmtFields
<1>9. IsStatement(s)
  BY <1>6, <1>8, ShapesAre
<1>10. Callable(s)
  <2>1. c.stmt.op = "JSR" => e = <<c.stmt.args[1]>>
    BY DEF e, Encoded, IsLabel
  <2>2. c.stmt.op = "JSR" => Len(e) = 1
    BY <2>1, OneIsSeq
  <2>3. s.op = "JSR" => Len(s.args) = 1
    BY <1>6, <1>8, <2>2
  <2> QED BY <2>3 DEF Callable
<1> QED BY <1>8, <1>9, <1>10 DEF s

LEMMA GarbageIs == IsStatement(Garbage) /\ Callable(Garbage)
<1> DEFINE g == Garbage
<1>1. DOMAIN g = StmtFields /\ g.offset = 0 /\ g.args = <<>> /\ g.op = "padding"
  BY DEF Garbage, StmtFields
<1> HIDE DEF g
<1>2. ArgList(<<>>)
  BY EmptyIsSeq, ListsAre
<1>3. IsStatement(g) /\ Callable(g)
  BY <1>1, <1>2, ShapesAre DEF Callable
<1> QED BY <1>3 DEF g

\* What a function read from an object is like.
LoadedIs(g) == IsFunction(g) /\ CallsLegal(g.stmts) /\ g.locals = <<>>

LEMMA ReadFunctionIs ==
  ASSUME NEW o, ObjectIs(o), NEW n
  PROVE  LoadedIs(ReadFunction(o, n)) /\ ReadFunction(o, n).name = n
<1> DEFINE from == o.symbols[n].offset
           to == from + o.symbols[n].size
           q == o.text
           T == {i \in DOMAIN q : from <= q[i].at /\ q[i].at < to}
           ss == [i \in DOMAIN q |-> IF from <= q[i].at /\ q[i].at < to THEN <<q[i]>> ELSE <<>>]
           code == FlattenSeq(ss)
           stmts == [i \in DOMAIN code |-> ReadStmt(o, code[i])]
           end == IF code = <<>> THEN from
                  ELSE code[Len(code)].at + StmtSize(code[Len(code)].stmt)
           f == [name |-> n, params |-> 0, offset |-> 0, loaded |-> TRUE,
                 locals |-> <<>>, stmts |-> stmts]
           g == IF end < to THEN [f EXCEPT !.stmts = Append(@, Garbage)] ELSE f
<1>1. ReadFunction(o, n) = Exposed(g)
  BY Zenon DEF ReadFunction, Selected
<1>2. ss = [i \in DOMAIN q |-> IF i \in T THEN <<q[i]>> ELSE <<>>] /\ T \subseteq DOMAIN q
  OBVIOUS
<1> HIDE DEF ss, T
<1>3. Picks(code, q, T)
  BY <1>2, FlattenedPicks DEF ObjectIs, Codes
<1> HIDE DEF code, from, to, end
<1>4. IsSeq(code) /\ \A k \in 1..Len(code) : \E i \in 1..Len(q) : code[k] = q[i]
  BY <1>2, <1>3, DomainOfSeq DEF Picks, ObjectIs, Codes
<1>5. /\ DOMAIN code = 1..Len(code) /\ Len(code) \in Nat
      /\ \A k \in 1..Len(code) : IsStatement(code[k].stmt) /\ Callable(code[k].stmt)
  BY <1>4, DomainOfSeq DEF ObjectIs, Codes
<1>6. /\ stmts = [i \in 1..Len(code) |-> stmts[i]]
      /\ \A i \in 1..Len(code) : stmts[i] = ReadStmt(o, code[i])
  BY <1>5
<1> HIDE DEF stmts
<1>7. \A i \in 1..Len(code) : IsStatement(stmts[i]) /\ Callable(stmts[i])
  BY <1>5, <1>6, ReadStmtIs
<1>8. IsSeq(stmts) /\ Len(stmts) = Len(code)
  BY <1>5, <1>6, MapIsSeq
<1>9. StmtList(stmts) /\ CallsLegal(stmts)
  BY <1>7, <1>8, ListsAre DEF CallsLegal
<1> DEFINE more == Append(stmts, Garbage)
<1>10. IsSeq(more) /\ Len(more) = Len(stmts) + 1
       /\ (\A i \in 1..Len(stmts) : more[i] = stmts[i]) /\ more[Len(stmts) + 1] = Garbage
  BY <1>8, AppendIsSeq
<1> HIDE DEF more
<1>11. \A i \in 1..Len(more) : IsStatement(more[i]) /\ Callable(more[i])
  <2> TAKE i \in 1..Len(more)
  <2>1. i \in 1..Len(stmts) \/ i = Len(stmts) + 1
    BY <1>5, <1>8, <1>10
  <2> QED BY <1>7, <1>8, <1>10, <2>1, GarbageIs
<1>12. StmtList(more) /\ CallsLegal(more)
  BY <1>10, <1>11, ListsAre DEF CallsLegal
<1>13. /\ DOMAIN f = FunctionFields /\ f.offset = 0 /\ f.stmts = stmts /\ f.locals = <<>>
       /\ f.name = n
  BY DEF FunctionFields
<1>14. DataList(<<>>)
  BY EmptyIsSeq, ListsAre
<1>15. g = f \/ g = [f EXCEPT !.stmts = more]
  BY <1>13 DEF more
<1> HIDE DEF f, g
<1>16. IsFunction(f)
  BY <1>9, <1>13, <1>14 DEF IsFunction
<1>17. IsFunction(g) /\ CallsLegal(g.stmts) /\ g.locals = <<>> /\ g.name = n
  <2>1. CASE g = f
    BY <1>9, <1>13, <1>16, <2>1
  <2>2. CASE g = [f EXCEPT !.stmts = more]
    <3>1. IsFunction(g) /\ g.stmts = more /\ g.locals = f.locals /\ g.name = f.name
      BY <1>12, <1>16, <2>2, OtherStmts
    <3> QED BY <1>12, <1>13, <3>1
  <2> QED BY <1>15, <2>1, <2>2
<1> DEFINE l == FunctionLabel(g)
           h == Exposed(g)
<1>18. IsFunction(h) /\ Grown(h, g, <<l>>) /\ h.locals = <<>> /\ Callable(l)
  BY <1>17, ExposedGrows
<1> HIDE DEF l, h
<1>19. IsSeq(<<l>>) /\ CallsLegal(<<l>>)
  BY <1>18, OneIsSeq DEF CallsLegal
<1>20. StmtList(g.stmts)
  BY <1>17 DEF IsFunction
<1>21. CallsLegal(h.stmts)
  BY <1>17, <1>18, <1>19, <1>20, GrownCalls
<1>22. h.name = n
  BY <1>17, <1>18 DEF Grown
<1> QED BY <1>1, <1>18, <1>21, <1>22 DEF LoadedIs, h

LEMMA ReadFunctionsAre ==
  ASSUME NEW o, ObjectIs(o), OffsetsDistinct(o, Funcs(o))
  PROVE  /\ IsSeq(ReadFunctions(o))
         /\ \A i \in 1..Len(ReadFunctions(o)) : LoadedIs(ReadFunctions(o)[i])
<1> DEFINE sorted == Sorted(o, Funcs(o), o.size)
           q == ReadFunctions(o)
<1>1. q = [i \in DOMAIN sorted |-> ReadFunction(o, sorted[i])]
  BY Zenon DEF ReadFunctions
<1>2. Funcs(o) \subseteq DOMAIN o.symbols
  BY DEF Funcs
<1>3. Ordered(sorted, o, Funcs(o), o.size)
  BY <1>2, SortedIs DEF ObjectIs
<1> HIDE DEF sorted, q
<1>4. DOMAIN sorted = 1..Len(sorted) /\ Len(sorted) \in Nat
  BY <1>3 DEF Ordered
<1>5. /\ q = [i \in 1..Len(sorted) |-> q[i]]
      /\ \A i \in 1..Len(sorted) : q[i] = ReadFunction(o, sorted[i])
  BY <1>1, <1>4
<1>6. IsSeq(q) /\ Len(q) = Len(sorted)
  BY <1>4, <1>5, MapIsSeq
<1> QED BY <1>5, <1>6, ReadFunctionIs DEF q

-----------------------------------------------------------------------------
(* What the passes do to the whole of a program.                           *)

LocalsFit(f) == EndsInData(f.locals) /\ Natural(f.locals)
AllFit(q)    == \A i \in 1..Len(q) : LocalsFit(q[i])

\* What a pass makes of a function.
Kin(g, f) ==
  /\ IsFunction(g)
  /\ \E p : IsSeq(p) /\ CallsLegal(p) /\ Grown(g, f, p)
  /\ LocalsFit(f) => Natural(g.locals)

LEMMA KinItself ==
  ASSUME NEW f, IsFunction(f)
  PROVE  Kin(f, f)
<1>1. Len(f.stmts) \in Nat
  BY ListsAre, DomainOfSeq DEF IsFunction
<1>2. Grown(f, f, <<>>)
  BY <1>1, AlikeItself, GrownByNothing
<1>3. IsSeq(<<>>) /\ CallsLegal(<<>>)
  BY EmptyIsSeq DEF CallsLegal
<1> QED BY <1>2, <1>3 DEF Kin, LocalsFit

LEMMA PassIs ==
  ASSUME NEW q, FunctionList(q), NEW r, r = [i \in 1..Len(q) |-> r[i]],
         \A i \in 1..Len(q) : Kin(r[i], q[i])
  PROVE  /\ FunctionList(r) /\ Len(r) = Len(q)
         /\ AllCallsLegal(q) => AllCallsLegal(r)
         /\ AllFit(q) => AllFit(r)
<1>1. Len(q) \in Nat /\ \A i \in 1..Len(q) : IsFunction(q[i])
  BY DomainOfSeq DEF FunctionList
<1>2. IsSeq(r) /\ Len(r) = Len(q)
  BY <1>1, MapIsSeq
<1>3. FunctionList(r)
  BY <1>2 DEF FunctionList, Kin
<1>4. ASSUME AllCallsLegal(q), NEW i \in 1..Len(q)
      PROVE  CallsLegal(r[i].stmts)
  <2>1. PICK p : IsSeq(p) /\ CallsLegal(p) /\ Grown(r[i], q[i], p)
    BY DEF Kin
  <2>2. StmtList(q[i].stmts) /\ CallsLegal(q[i].stmts)
    BY <1>1, <1>4 DEF IsFunction, AllCallsLegal
  <2> QED BY <2>1, <2>2, GrownCalls
<1>5. ASSUME AllFit(q), NEW i \in 1..Len(q)
      PROVE  LocalsFit(r[i])
  <2>1. PICK p : Grown(r[i], q[i], p)
    BY DEF Kin
  <2>2. DataList(q[i].locals) /\ DataList(r[i].locals)
    BY <1>1 DEF IsFunction, Kin
  <2>3. LocalsFit(q[i]) /\ Natural(r[i].locals)
    BY <1>5 DEF AllFit, Kin
  <2> QED BY <2>1, <2>2, <2>3, EndsAlike DEF LocalsFit
<1> QED BY <1>2, <1>3, <1>4, <1>5 DEF AllCallsLegal, AllFit

LEMMA AllocationPass ==
  ASSUME NEW q, FunctionList(q), NEW p \in Prologues,
         NEW r, r = [i \in DOMAIN q |-> Allocated(q[i], p)]
  PROVE  /\ FunctionList(r) /\ Len(r) = Len(q)
         /\ AllCallsLegal(q) => AllCallsLegal(r)
         /\ AllFit(q) => AllFit(r)
<1>1. DOMAIN q = 1..Len(q) /\ \A i \in 1..Len(q) : IsFunction(q[i])
  BY DomainOfSeq DEF FunctionList
<1>2. r = [i \in 1..Len(q) |-> r[i]] /\ \A i \in 1..Len(q) : r[i] = Allocated(q[i], p)
  BY <1>1
<1>3. IsSeq(p) /\ CallsLegal(p)
  BY PrologueIs
<1>4. \A i \in 1..Len(q) : Kin(r[i], q[i])
  <2> TAKE i \in 1..Len(q)
  <2>1. /\ IsFunction(r[i]) /\ Grown(r[i], q[i], p)
        /\ r[i].locals = q[i].locals
    BY <1>1, <1>2, AllocatedGrows
  <2> QED BY <1>3, <2>1 DEF Kin, LocalsFit
<1> QED BY <1>2, <1>4, PassIs

LEMMA ExposePass ==
  ASSUME NEW q, FunctionList(q), NEW r, r = [i \in DOMAIN q |-> Exposed(q[i])]
  PROVE  /\ FunctionList(r) /\ Len(r) = Len(q)
         /\ AllCallsLegal(q) => AllCallsLegal(r)
         /\ AllFit(q) => AllFit(r)
<1>1. DOMAIN q = 1..Len(q) /\ \A i \in 1..Len(q) : IsFunction(q[i])
  BY DomainOfSeq DEF FunctionList
<1>2. r = [i \in 1..Len(q) |-> r[i]] /\ \A i \in 1..Len(q) : r[i] = Exposed(q[i])
  BY <1>1
<1>4. \A i \in 1..Len(q) : Kin(r[i], q[i])
  <2> TAKE i \in 1..Len(q)
  <2> DEFINE l == FunctionLabel(q[i])
  <2>1. /\ IsFunction(r[i]) /\ Grown(r[i], q[i], <<l>>)
        /\ r[i].locals = q[i].locals /\ Callable(l)
    BY <1>1, <1>2, ExposedGrows
  <2> HIDE DEF l
  <2>2. IsSeq(<<l>>) /\ CallsLegal(<<l>>)
    BY <2>1, OneIsSeq DEF CallsLegal
  <2> QED BY <2>1, <2>2 DEF Kin, LocalsFit
<1> QED BY <1>2, <1>4, PassIs

LEMMA ValuePasses ==
  ASSUME NEW q, FunctionList(q), NEW t, NEW o, NEW r,
         \/ r = [i \in DOMAIN q |-> WithLocalValues(q[i], o)]
         \/ r = [i \in DOMAIN q |-> WithValues(q[i], t, o)]
  PROVE  /\ FunctionList(r) /\ Len(r) = Len(q)
         /\ AllCallsLegal(q) => AllCallsLegal(r)
         /\ AllFit(q) => AllFit(r)
<1>1. DOMAIN q = 1..Len(q) /\ \A i \in 1..Len(q) : IsFunction(q[i])
  BY DomainOfSeq DEF FunctionList
<1>2. /\ r = [i \in 1..Len(q) |-> r[i]]
      /\ \A i \in 1..Len(q) : \/ r[i] = WithLocalValues(q[i], o)
                              \/ r[i] = WithValues(q[i], t, o)
  BY <1>1
<1>3. IsSeq(<<>>) /\ CallsLegal(<<>>)
  BY EmptyIsSeq DEF CallsLegal
<1>4. \A i \in 1..Len(q) : Kin(r[i], q[i])
  <2> TAKE i \in 1..Len(q)
  <2>1. /\ IsFunction(r[i]) /\ Grown(r[i], q[i], <<>>)
        /\ r[i].locals = q[i].locals
    BY <1>1, <1>2, LocalValuesGrow, ValuesGrow
  <2> QED BY <1>3, <2>1 DEF Kin, LocalsFit
<1> QED BY <1>2, <1>4, PassIs

LEMMA PlacePass ==
  ASSUME NEW q, FunctionList(q), AllCallsLegal(q), NEW k \in 1..Len(q), NEW at \in Nat,
         NEW r, r = [i \in 1..Len(q) |-> r[i]],
         \A i \in 1..Len(q) : r[i] = IF i = k THEN Placed(q[k], at) ELSE q[i]
  PROVE  /\ FunctionList(r) /\ Len(r) = Len(q) /\ AllCallsLegal(r)
         /\ AllFit(q) => AllFit(r)
<1>1. DOMAIN q = 1..Len(q) /\ \A i \in 1..Len(q) : IsFunction(q[i])
  BY DomainOfSeq DEF FunctionList
<1>2. /\ r = [i \in 1..Len(q) |-> r[i]]
      /\ \A i \in 1..Len(q) : r[i] = IF i = k THEN Placed(q[k], at) ELSE q[i]
  OBVIOUS
<1>3. IsSeq(<<>>) /\ CallsLegal(<<>>)
  BY EmptyIsSeq DEF CallsLegal
<1>4. \A i \in 1..Len(q) : Kin(r[i], q[i])
  <2> TAKE i \in 1..Len(q)
  <2>1. CASE i = k
    <3>1. CallsLegal(q[k].stmts)
      BY DEF AllCallsLegal
    <3>2. /\ IsFunction(r[i]) /\ Grown(r[i], q[i], <<>>)
          /\ EndsInData(q[i].locals) => Natural(r[i].locals)
      BY <1>1, <1>2, <2>1, <3>1, PlacedGrows
    <3> QED BY <1>3, <3>2 DEF Kin, LocalsFit
  <2>2. CASE i # k
    BY <1>1, <1>2, <2>2, KinItself
  <2> QED BY <2>1, <2>2
<1>5. r = [i \in 1..Len(q) |-> r[i]]
  BY <1>2
<1>6. /\ FunctionList(r) /\ Len(r) = Len(q)
      /\ AllCallsLegal(q) => AllCallsLegal(r)
      /\ AllFit(q) => AllFit(r)
  BY <1>4, <1>5, PassIs
<1> QED BY <1>6

\* Functions in front of others.
LEMMA JoinedPrograms ==
  ASSUME NEW p, FunctionList(p), NEW q, FunctionList(q)
  PROVE  /\ FunctionList(p \o q) /\ Len(p \o q) = Len(p) + Len(q)
         /\ Len(p) \in Nat /\ Len(q) \in Nat
         /\ AllCallsLegal(p) /\ AllCallsLegal(q) => AllCallsLegal(p \o q)
         /\ AllFit(p) /\ AllFit(q) => AllFit(p \o q)
<1> DEFINE b == p \o q
<1>1. Unites(b, p, q) /\ FunctionList(b)
  BY BothHold, BothFunctions DEF FunctionList
<1>2. Len(b) = Len(p) + Len(q) /\ Len(p) \in Nat /\ Len(q) \in Nat
  BY BothAreSeq DEF FunctionList
<1> HIDE DEF b
<1>3. AllCallsLegal(p) /\ AllCallsLegal(q) => AllCallsLegal(b)
  BY <1>1 DEF Unites, AllCallsLegal
<1>4. AllFit(p) /\ AllFit(q) => AllFit(b)
  BY <1>1 DEF Unites, AllFit
<1> QED BY <1>1, <1>2, <1>3, <1>4 DEF b

\* moveMainToTop puts one function before the others, and nothing is lost.
LEMMA MainMoves ==
  ASSUME NEW q, IsSeq(q)
  PROVE  \/ MainToTop(q) = q /\ \A i \in 1..Len(q) : q[i].name # <<"main">>
         \/ \E k \in 1..Len(q) :
              /\ q[k].name = <<"main">> /\ \A i \in 1..(k - 1) : q[i].name # <<"main">>
              /\ MainToTop(q) = <<q[k]>> \o SubSeq(q, 1, k - 1) \o SubSeq(q, k + 1, Len(q))
<1> DEFINE mains == {i \in DOMAIN q : q[i].name = <<"main">>}
           first == CHOOSE i \in mains : \A j \in mains : i <= j
<1>1. DOMAIN q = 1..Len(q) /\ Len(q) \in Nat
  BY DomainOfSeq
<1>2. MainToTop(q) = IF mains = {} THEN q
                     ELSE <<q[first]>> \o SubSeq(q, 1, first - 1) \o SubSeq(q, first + 1, Len(q))
  BY Zenon DEF MainToTop
<1>3. CASE mains = {}
  BY <1>1, <1>2, <1>3
<1>4. CASE mains # {}
  <2>1. mains \subseteq Nat
    BY <1>1
  <2>2. \E i \in mains : \A j \in mains : i <= j
    BY <1>4, <2>1, LeastNumber
  <2>3. first \in mains /\ \A j \in mains : first <= j
    BY <2>2
  <2> DEFINE k == first
  <2> HIDE DEF k
  <2>4. k \in 1..Len(q) /\ q[k].name = <<"main">>
    BY <1>1, <2>3 DEF k
  <2>5. \A j \in 1..Len(q) : q[j].name = <<"main">> => k <= j
    BY <1>1, <2>3 DEF k
  <2>6. \A i \in 1..(k - 1) : q[i].name # <<"main">>
    BY <1>1, <2>4, <2>5
  <2>7. MainToTop(q) = <<q[k]>> \o SubSeq(q, 1, k - 1) \o SubSeq(q, k + 1, Len(q))
    BY <1>2, <1>4, Zenon DEF k
  <2> QED BY <2>4, <2>6, <2>7
<1> QED BY <1>3, <1>4

LEMMA MainPass ==
  ASSUME NEW q, IsSeq(q)
  PROVE  /\ IsSeq(MainToTop(q))
         /\ \A i \in 1..Len(MainToTop(q)) : \E j \in 1..Len(q) : MainToTop(q)[i] = q[j]
<1>1. CASE MainToTop(q) = q
  BY <1>1
<1>2. ASSUME NEW k \in 1..Len(q),
             MainToTop(q) = <<q[k]>> \o SubSeq(q, 1, k - 1) \o SubSeq(q, k + 1, Len(q))
      PROVE  /\ IsSeq(MainToTop(q))
             /\ \A i \in 1..Len(MainToTop(q)) : \E j \in 1..Len(q) : MainToTop(q)[i] = q[j]
  <2> DEFINE a == <<q[k]>>
             b == SubSeq(q, 1, k - 1)
             c == SubSeq(q, k + 1, Len(q))
             d == a \o b
             e == d \o c
  <2>1. Len(q) \in Nat /\ k \in Nat /\ k - 1 \in Nat /\ k + 1 \in Nat /\ k - 1 <= Len(q)
    BY DomainOfSeq
  <2>2. IsSeq(a) /\ Len(a) = 1 /\ a[1] = q[k]
    BY OneIsSeq
  <2>3. IsSeq(b) /\ \A i \in 1..Len(b) : (1 + i) - 1 \in 1..Len(q) /\ b[i] = q[(1 + i) - 1]
    BY <2>1, PartIsSeq
  <2>4. IsSeq(c) /\ \A i \in 1..Len(c) : ((k + 1) + i) - 1 \in 1..Len(q)
                                         /\ c[i] = q[((k + 1) + i) - 1]
    BY <2>1, PartIsSeq
  <2>5. MainToTop(q) = e
    BY <1>2
  <2> HIDE DEF a, b, c
  <2>6. Unites(d, a, b)
    BY <2>2, <2>3, BothHold
  <2> HIDE DEF d
  <2>a. IsSeq(d)
    BY <2>6 DEF Unites
  <2>7. Unites(e, d, c)
    BY <2>4, <2>a, BothHold
  <2> HIDE DEF e
  <2>8. \A i \in 1..Len(a) : \E j \in 1..Len(q) : a[i] = q[j]
    BY <2>2
  <2>9. /\ \A i \in 1..Len(b) : \E j \in 1..Len(q) : b[i] = q[j]
        /\ \A i \in 1..Len(c) : \E j \in 1..Len(q) : c[i] = q[j]
    BY <2>3, <2>4
  <2>10. ASSUME NEW i \in 1..Len(d) PROVE \E j \in 1..Len(q) : d[i] = q[j]
    <3>1. \/ \E j \in 1..Len(a) : d[i] = a[j]
          \/ \E j \in 1..Len(b) : d[i] = b[j]
      BY <2>6 DEF Unites
    <3>2. CASE \E j \in 1..Len(a) : d[i] = a[j]
      BY <2>8, <3>2
    <3>3. CASE \E j \in 1..Len(b) : d[i] = b[j]
      BY <2>9, <3>3, Zenon
    <3> QED BY <3>1, <3>2, <3>3
  <2>11. ASSUME NEW i \in 1..Len(e) PROVE \E j \in 1..Len(q) : e[i] = q[j]
    <3>1. \/ \E j \in 1..Len(d) : e[i] = d[j]
          \/ \E j \in 1..Len(c) : e[i] = c[j]
      BY <2>7 DEF Unites
    <3>2. CASE \E j \in 1..Len(d) : e[i] = d[j]
      BY <2>10, <3>2, Zenon
    <3>3. CASE \E j \in 1..Len(c) : e[i] = c[j]
      BY <2>9, <3>3, Zenon
    <3> QED BY <3>1, <3>2, <3>3
  <2>12. IsSeq(e)
    BY <2>7 DEF Unites
  <2> QED BY <2>5, <2>11, <2>12
<1> QED BY <1>1, <1>2, MainMoves

LEMMA MainProgram ==
  ASSUME NEW q, FunctionList(q)
  PROVE  /\ FunctionList(MainToTop(q))
         /\ AllCallsLegal(q) => AllCallsLegal(MainToTop(q))
         /\ AllFit(q) => AllFit(MainToTop(q))
<1> DEFINE r == MainToTop(q)
<1>1. IsSeq(r) /\ \A i \in 1..Len(r) : \E j \in 1..Len(q) : r[i] = q[j]
  BY MainPass DEF FunctionList
<1> HIDE DEF r
<1>2. FunctionList(r)
  BY <1>1 DEF FunctionList
<1>3. AllCallsLegal(q) => AllCallsLegal(r)
  BY <1>1 DEF AllCallsLegal
<1>4. AllFit(q) => AllFit(r)
  BY <1>1 DEF AllFit
<1> QED BY <1>2, <1>3, <1>4 DEF r

\* Data of which one gets a place.
LEMMA DatumPass ==
  ASSUME NEW q, PlacedData(q), NEW k \in 1..Len(q), NEW at \in Nat
  PROVE  LET r == [q EXCEPT ![k] = DataAt(@, at)]
         IN  PlacedData(r) /\ Len(r) = Len(q)
<1> DEFINE r == [q EXCEPT ![k] = DataAt(@, at)]
<1>1. DOMAIN q = 1..Len(q) /\ Len(q) \in Nat
      /\ \A i \in 1..Len(q) : IsDatum(q[i]) /\ q[i].offset \in Nat
  BY ListsAre, DomainOfSeq DEF PlacedData, Natural
<1>2. /\ r = [i \in 1..Len(q) |-> r[i]]
      /\ \A i \in 1..Len(q) : r[i] = IF i = k THEN DataAt(q[k], at) ELSE q[i]
  BY <1>1
<1> HIDE DEF r
<1>3. IsDatum(DataAt(q[k], at)) /\ DataAt(q[k], at).offset = at
  BY <1>1, DataAtIs
<1>4. \A i \in 1..Len(q) : IsDatum(r[i]) /\ r[i].offset \in Nat
  BY <1>1, <1>2, <1>3
<1>5. IsSeq(r) /\ Len(r) = Len(q)
  BY <1>1, <1>2, MapIsSeq
<1>6. PlacedData(r)
  BY <1>4, <1>5, ListsAre DEF PlacedData, Natural
<1> QED BY <1>5, <1>6 DEF r

\* What the checker lets through.
LEMMA LegalCalls ==
  ASSUME NEW q, FunctionList(q), NEW u, InstructionsLegal(q, u)
  PROVE  AllCallsLegal(q)
<1>1. ASSUME NEW i \in 1..Len(q), NEW j \in 1..Len(q[i].stmts)
      PROVE  Callable(q[i].stmts[j])
  <2>1. i \in DOMAIN q /\ j \in DOMAIN q[i].stmts
    BY ListsAre, DomainOfSeq DEF FunctionList, IsFunction
  <2>2. CASE q[i].stmts[j].op = "JSR"
    <3>1. ~IsLabel(q[i].stmts[j])
      BY <2>2 DEF IsLabel
    <3>2. ArgsLegal(q[i].stmts[j])
      BY <2>1, <3>1 DEF InstructionsLegal
    <3> QED BY <2>2, <3>2 DEF ArgsLegal, Callable
  <2> QED BY <2>2 DEF Callable
<1> QED BY <1>1 DEF AllCallsLegal, CallsLegal

\* The functions a tree adds.
LEMMA EmittedProgram ==
  ASSUME NEW t, ItemList(t)
  PROVE  /\ FunctionList(EmittedFunctions(t))
         /\ (\A i \in 1..Len(t) : t[i].is = "function" => EndsInData(Definition(t[i]).locals))
              => AllFit(EmittedFunctions(t))
<1> DEFINE q == EmittedFunctions(t)
<1>1. /\ FunctionList(q)
      /\ \A i \in 1..Len(q) : \E j \in 1..Len(t) :
           \/ t[j].is = "function" /\ q[i] = Definition(t[j])
           \/ t[j].is = "prototype" /\ q[i] = Prototype(t[j])
  BY EmittedFunctionsAre
<1> HIDE DEF q
<1>2. ASSUME NEW i \in 1..Len(q),
             \A k \in 1..Len(t) : t[k].is = "function" => EndsInData(Definition(t[k]).locals)
      PROVE  LocalsFit(q[i])
  <2>1. PICK j \in 1..Len(t) : \/ t[j].is = "function" /\ q[i] = Definition(t[j])
                               \/ t[j].is = "prototype" /\ q[i] = Prototype(t[j])
    BY <1>1
  <2>2. CASE t[j].is = "function" /\ q[i] = Definition(t[j])
    <3>1. \A k \in 1..Len(Definition(t[j]).locals) : Definition(t[j]).locals[k].offset = 0
      BY <2>2, DefinitionIs DEF ItemList
    <3> QED BY <1>2, <2>2, <3>1 DEF LocalsFit, Natural
  <2>3. CASE q[i] = Prototype(t[j])
    <3>1. q[i].locals = <<>>
      BY <2>3, PrototypeIs
    <3> QED BY <3>1, EmptyIsSeq DEF LocalsFit, Natural, EndsInData
  <2> QED BY <2>1, <2>2, <2>3
<1> QED BY <1>1, <1>2 DEF AllFit, q

-----------------------------------------------------------------------------
\* The image is made of spans.
LEMMA AssembledIs ==
  ASSUME FunctionList(functions), AllCallsLegal(functions),
         DataList(shared), DataList(constants)
  PROVE  Spans(Assembled)
<1> DEFINE text == TextBefore(functions, Len(functions) + 1)
           data == text + TotalSize(shared)
           fs == [i \in DOMAIN functions |-> EmittedCode(functions[i], TextBefore(functions, i))]
           ss == [i \in DOMAIN shared |-> EmittedCells(shared[i], text + DataBefore(shared, i))]
           cs == [i \in DOMAIN constants |->
                    EmittedCells(constants[i], data + DataBefore(constants, i))]
<1>1. Assembled = FlattenSeq(fs) \o FlattenSeq(ss) \o FlattenSeq(cs)
  BY Zenon DEF Assembled
<1>2. /\ DOMAIN functions = 1..Len(functions) /\ Len(functions) \in Nat
      /\ DOMAIN shared = 1..Len(shared) /\ Len(shared) \in Nat
      /\ DOMAIN constants = 1..Len(constants) /\ Len(constants) \in Nat
      /\ \A i \in 1..Len(functions) : IsFunction(functions[i]) /\ CallsLegal(functions[i].stmts)
      /\ \A i \in 1..Len(shared) : IsDatum(shared[i])
      /\ \A i \in 1..Len(constants) : IsDatum(constants[i])
  BY ListsAre, DomainOfSeq DEF FunctionList, AllCallsLegal
<1>3. /\ \A i \in 1..Len(functions) : i \in 1..(Len(functions) + 1)
      /\ \A i \in 1..Len(shared) : i \in 1..(Len(shared) + 1)
      /\ \A i \in 1..Len(constants) : i \in 1..(Len(constants) + 1)
      /\ Len(functions) + 1 \in 1..(Len(functions) + 1)
  BY <1>2
<1>4. /\ \A i \in 1..(Len(functions) + 1) : TextBefore(functions, i) \in Nat
      /\ \A i \in 1..(Len(shared) + 1) : DataBefore(shared, i) \in Nat
      /\ \A i \in 1..(Len(constants) + 1) : DataBefore(constants, i) \in Nat
      /\ TotalSize(shared) \in Nat
  BY TextBeforeIs, DataBeforeIs, TotalSizeIs
<1>5. text \in Nat
  BY <1>3, <1>4
<1> HIDE DEF text
<1>6. data \in Nat
  BY <1>4, <1>5
<1> HIDE DEF data
<1>7. Spans(FlattenSeq(fs))
  <2>1. /\ fs = [i \in 1..Len(functions) |-> fs[i]]
        /\ \A i \in 1..Len(functions) : fs[i] = EmittedCode(functions[i], TextBefore(functions, i))
    BY <1>2
  <2> HIDE DEF fs
  <2>2. \A i \in 1..Len(functions) : Spans(fs[i])
    BY <1>2, <1>3, <1>4, <2>1, EmittedCodeIs
  <2>3. IsSeq(fs) /\ Len(fs) = Len(functions)
    BY <1>2, <2>1, MapIsSeq
  <2> QED BY <2>2, <2>3, FlattenedSpans
<1>8. Spans(FlattenSeq(ss))
  <2>1. /\ ss = [i \in 1..Len(shared) |-> ss[i]]
        /\ \A i \in 1..Len(shared) : ss[i] = EmittedCells(shared[i], text + DataBefore(shared, i))
    BY <1>2
  <2> HIDE DEF ss
  <2>a. \A i \in 1..Len(shared) : text + DataBefore(shared, i) \in Nat
    BY <1>3, <1>4, <1>5
  <2>2. \A i \in 1..Len(shared) : Spans(ss[i])
    BY <1>2, <2>a, <2>1, EmittedCellsAre
  <2>3. IsSeq(ss) /\ Len(ss) = Len(shared)
    BY <1>2, <2>1, MapIsSeq
  <2> QED BY <2>2, <2>3, FlattenedSpans
<1>9. Spans(FlattenSeq(cs))
  <2>1. /\ cs = [i \in 1..Len(constants) |-> cs[i]]
        /\ \A i \in 1..Len(constants) :
             cs[i] = EmittedCells(constants[i], data + DataBefore(constants, i))
    BY <1>2
  <2> HIDE DEF cs
  <2>a. \A i \in 1..Len(constants) : data + DataBefore(constants, i) \in Nat
    BY <1>3, <1>4, <1>6
  <2>2. \A i \in 1..Len(constants) : Spans(cs[i])
    BY <1>2, <2>a, <2>1, EmittedCellsAre
  <2>3. IsSeq(cs) /\ Len(cs) = Len(constants)
    BY <1>2, <2>1, MapIsSeq
  <2> QED BY <2>2, <2>3, FlattenedSpans
<1> HIDE DEF fs, ss, cs
<1> QED BY <1>1, <1>7, <1>8, <1>9, BothSpan

-----------------------------------------------------------------------------
(* What the variables hold.                                                *)

\* Every function whose locals are not empty has something of a size as the last
\* of them.  The grammar also accepts a label with nothing behind it, and the
\* offset of that one is -4 in an unsigned number.
LocalsEndInData ==
  \A n \in Names :
    File[n] # NoFile =>
      \A line \in Range(disk[File[n]]) :
        line.is = "function" => EndsInData(Definition(line).locals)

\* A file is of inclusions and of what the grammar accepts.
FilesWell ==
  /\ \A n \in Names :
       File[n] # NoFile =>
         \A line \in Range(disk[File[n]]) : line.is = "include" \/ IsItem(line)
  /\ \A i \in DOMAIN plan : IsSeq(plan[i].objects)

TreeWell ==
  \A i \in 1..Len(tree) :
    /\ IsItem(tree[i].def)
    /\ LocalsEndInData /\ tree[i].def.is = "function" =>
         EndsInData(Definition(tree[i].def).locals)

CountsWell ==
  /\ phase \in Phases /\ outcome \in Outcomes
  /\ loads \in 0..Len(Args.objects)
  /\ loc.line \in Nat
  /\ Counted
  /\ placed.functions \in 0..Len(functions)
  /\ placed.shared \in 0..Len(shared)
  /\ placed.constants \in 0..Len(constants)
  /\ tempOffset \in Nat

FunctionsWell ==
  /\ FunctionList(functions)
  /\ phase \in Emitting => AllCallsLegal(functions)
  /\ LocalsEndInData => AllFit(functions)

DataWell == PlacedData(shared) /\ PlacedData(constants) /\ IsTable(symbols)

OutWell ==
  /\ \A o \in DOMAIN objects : ObjectIs(objects[o])
  /\ Spans(image)

TypeInv == FilesWell /\ TreeWell /\ CountsWell /\ FunctionsWell /\ DataWell /\ OutWell

LEMMA TypeInvMeans ==
  ASSUME PlanInv, Chain(disk, buffers), SourceInv, ReaderInv, TypeInv
  PROVE  LocalsEndInData => TypeOK
<1>1. step \in DOMAIN plan /\ source \in 0..Len(Args.sources)
  BY DEF PlanInv, SourceInv
<1>2. \A i \in DOMAIN buffers : buffers[i].name \in Names /\ buffers[i].at \in Nat
  BY DomainOfSeq DEF Chain, OpenFile, ReaderInv
<1>3. ASSUME LocalsEndInData, NEW f \in Range(functions), NEW d \in Range(f.locals)
      PROVE  d.offset \in Nat
  <2>1. PICK i \in 1..Len(functions) : f = functions[i]
    BY DomainOfSeq DEF Range, TypeInv, FunctionsWell, FunctionList
  <2>2. LocalsFit(f) /\ IsFunction(f)
    BY <1>3, <2>1 DEF TypeInv, FunctionsWell, AllFit, FunctionList
  <2>3. PICK j \in 1..Len(f.locals) : d = f.locals[j]
    BY <2>2, ListsAre, DomainOfSeq DEF Range, IsFunction
  <2> QED BY <2>2, <2>3 DEF LocalsFit, Natural
<1>4. \A n \in DOMAIN symbols : symbols[n].offset \in Nat
  BY DEF TypeInv, DataWell, IsTable, IsSymbol
<1>5. \A i \in DOMAIN image : image[i].at \in Nat /\ image[i].next \in Nat
  BY DomainOfSeq DEF TypeInv, OutWell, Spans
<1> QED BY <1>1, <1>2, <1>3, <1>4, <1>5 DEF TypeInv, CountsWell, TypeOK

LEMMA TypeInit == Init => TypeInv
<1> SUFFICES ASSUME Init PROVE TypeInv
  OBVIOUS
<1>1. FilesWell
  <2>1. PICK build \in Builds : disk = build.disk /\ plan = build.plan
    BY DEF Init
  <2>2. \A i \in DOMAIN plan : plan[i] \in Range(plan)
    BY DEF Range
  <2>3. \A i \in DOMAIN plan : IsSeq(plan[i].objects)
    BY <2>1, <2>2, SourcesAssumption DEF IsSeq
  <2>4. \A n \in Names :
          File[n] # NoFile =>
            \A line \in Range(disk[File[n]]) : line.is = "include" \/ IsItem(line)
    BY <2>1, SourcesAssumption, Zenon
  <2> QED BY <2>3, <2>4 DEF FilesWell
<1>2. TreeWell /\ FunctionsWell
  BY EmptyIsSeq DEF Init, TreeWell, FunctionsWell, FunctionList, AllCallsLegal, AllFit
<1>3. DataWell /\ OutWell
  <2>1. PlacedData(<<>>)
    BY FewPlaced
  <2>2. Spans(<<>>)
    BY EmptyIsSeq DEF Spans
  <2>3. DOMAIN <<>> = {}
    OBVIOUS
  <2> QED BY <2>1, <2>2, <2>3 DEF Init, DataWell, OutWell, IsTable
<1>4. CountsWell
  <2>1. Len(Args.objects) \in Nat
    <3>1. IsSeq(plan[1].objects) 
      <4>1. 1 \in DOMAIN plan
        BY IncludeInit DEF Init, IncludeInv, PlanInv
      <4> QED BY <1>1, <4>1 DEF FilesWell
    <3> QED BY <3>1, DomainOfSeq DEF Args, Init
  <2>2. /\ phase = "source" /\ outcome = "none" /\ loads = 0 /\ loc = Nowhere
        /\ placed = NonePlaced /\ tempOffset = 0
        /\ functions = <<>> /\ shared = <<>> /\ constants = <<>>
    BY DEF Init
  <2>3. /\ phase \in Phases /\ outcome \in Outcomes
    BY <2>2 DEF Phases, Outcomes
  <2>4. loc.line = 0
    BY <2>2 DEF Nowhere
  <2>5. placed.functions = 0 /\ placed.shared = 0 /\ placed.constants = 0
    BY <2>2 DEF NonePlaced
  <2>a. Counted
    BY <2>2 DEF NonePlaced, Counted
  <2>6. Len(functions) = 0 /\ Len(shared) = 0 /\ Len(constants) = 0
    BY <2>2, EmptyIsSeq
  <2>7. 0 \in 0..Len(Args.objects) /\ 0 \in 0..0 /\ 0 \in Nat
    BY <2>1
  <2> QED BY <2>2, <2>3, <2>4, <2>5, <2>6, <2>7, <2>a DEF CountsWell
<1> QED BY <1>1, <1>2, <1>3, <1>4 DEF TypeInv

-----------------------------------------------------------------------------
(* What a step changes.                                                    *)

\* The steps that leave the program, the objects and the image alone.
Keeps ==
  /\ UNCHANGED <<functions, shared, constants, symbols, objects, image, loads, step>>
  /\ \/ UNCHANGED <<placed, tempOffset>>
     \/ placed' = NonePlaced /\ tempOffset' = 0
  /\ phase' \in Phases \/ phase' = phase
  /\ outcome' \in Outcomes \/ outcome' = outcome
  /\ phase' \in Emitting => phase \in Emitting \/ InstructionsLegal(functions, Args.usingTemps)

\* The steps that may also fail, when they do not.
Exposes ==
  /\ phase = "expose" /\ phase' = "local"
  /\ symbols' = SymbolsOf(functions, shared, constants)
  /\ functions' = [i \in DOMAIN functions |-> Exposed(functions[i])]
  /\ UNCHANGED <<shared, constants, placed, tempOffset, loads, step, objects, image, outcome>>

Links ==
  /\ phase = "load" /\ phase' = "place"
  /\ functions' = MainToTop(functions)
  /\ placed' = NonePlaced /\ tempOffset' = 0
  /\ UNCHANGED <<shared, constants, symbols, loads, step, objects, image, outcome>>

Binds ==
  /\ phase = "values" /\ phase' = "assemble"
  /\ functions' = [i \in DOMAIN functions |-> WithValues(functions[i], symbols, Args.omitFP)]
  /\ UNCHANGED <<shared, constants, symbols, placed, tempOffset, loads, step,
                 objects, image, outcome>>

LEMMA TypeSteps ==
  ASSUME [Next]_vars
  PROVE  \/ Keeps
         \/ EndSource \/ Allocate \/ PlaceFunction \/ PlaceShared \/ PlaceConstant
         \/ Exposes \/ AssignValuesToLocalLabels \/ LoadObj \/ SaveObj
         \/ Links \/ UpdateFunctionLabels \/ Binds \/ Assemble
<1> USE DEF planVars, outVars, programVars, placeVars
<1>0. ASSUME NEW why \in Outcomes, Fail(why) PROVE Keeps
  BY <1>0 DEF Fail, Keeps, Phases, Emitting
<1>a. /\ "missing" \in Outcomes /\ "circular" \in Outcomes /\ "labels" \in Outcomes
      /\ "instructions" \in Outcomes /\ "allocation" \in Outcomes
      /\ "temporaries" \in Outcomes /\ "duplicate" \in Outcomes
      /\ "unreadable" \in Outcomes /\ "prototypes" \in Outcomes /\ "unbound" \in Outcomes
  BY DEF Outcomes
<1>1. CASE OpenSource
  BY <1>1 DEF OpenSource, Keeps, Phases, Emitting
<1>2. CASE ReadLine \/ Include \/ EndInclude
  BY <1>2 DEF ReadLine, Include, EndInclude, Keeps, Emitting
<1>4. CASE SourceMissing \/ IncludeFails \/ EndSourceFails \/ AllocationFails
  BY <1>0, <1>a, <1>4 DEF SourceMissing, IncludeFails, EndSourceFails, AllocationFails
<1>5. CASE Check
  <2>1. \/ /\ InstructionsLegal(functions, Args.usingTemps)
           /\ phase' = "temps" /\ UNCHANGED <<planVars, programVars, placeVars, loads, outVars>>
        \/ Fail("instructions")
    BY <1>5, Zenon DEF Check
  <2> QED BY <1>0, <1>a, <2>1 DEF Keeps, Phases
<1>6. CASE EnsureTempsUsage
  <2>1. /\ phase = "temps"
        /\ \/ phase' = "place" /\ Rebuild(TRUE)
                /\ UNCHANGED <<planVars, programVars, loads, outVars>>
           \/ Fail("temporaries")
    BY <1>6, Zenon DEF EnsureTempsUsage
  <2> QED BY <1>0, <1>a, <2>1 DEF Keeps, Rebuild, Phases, Emitting
<1>7. CASE EndPlacing
  BY <1>7 DEF EndPlacing, Keeps, Phases, Emitting
<1>8. CASE ExposeGlobalLabels
  <2>1. /\ phase = "expose"
        /\ \/ Fail("duplicate")
           \/ /\ symbols' = SymbolsOf(functions, shared, constants)
              /\ functions' = [i \in DOMAIN functions |-> Exposed(functions[i])]
              /\ phase' = "local"
              /\ UNCHANGED <<planVars, shared, constants, placeVars, loads, outVars>>
    BY <1>8, Zenon DEF ExposeGlobalLabels
  <2> QED BY <1>0, <1>a, <2>1 DEF Exposes
<1>9. CASE LoadFails
  <2>1. \E why \in {"unreadable", "duplicate"} : Fail(why)
    BY <1>9 DEF LoadFails
  <2> QED BY <1>0, <1>a, <2>1
<1>10. CASE Link
  <2>1. /\ phase = "load"
        /\ \/ Fail("prototypes")
           \/ /\ functions' = MainToTop(functions) /\ Rebuild(FALSE) /\ phase' = "place"
              /\ UNCHANGED <<planVars, shared, constants, symbols, loads, outVars>>
    BY <1>10, Zenon DEF Link
  <2> QED BY <1>0, <1>a, <2>1 DEF Links, Rebuild
<1>11. CASE AssignValuesToLabels
  <2>1. /\ phase = "values"
        /\ \/ Fail("unbound")
           \/ /\ functions' = [i \in DOMAIN functions |->
                                 WithValues(functions[i], symbols, Args.omitFP)]
              /\ phase' = "assemble"
              /\ UNCHANGED <<planVars, shared, constants, symbols, placeVars, loads, outVars>>
    BY <1>11, Zenon DEF AssignValuesToLabels
  <2> QED BY <1>0, <1>a, <2>1 DEF Binds
<1>12. CASE Finished \/ UNCHANGED vars
  BY <1>12 DEF Finished, vars, Keeps
<1> QED
  BY <1>1, <1>2, <1>4, <1>5, <1>6, <1>7, <1>8, <1>9, <1>10, <1>11, <1>12 DEF Next

\* The next line of a file is a definition, or an inclusion of a name.
LEMMA NextLineIs ==
  ASSUME PlanInv, Chain(disk, buffers), ReaderInv, FilesWell, buffers # <<>>, Unread
  PROVE  /\ NextLine.is = "include" \/ IsItem(NextLine)
         /\ LocalsEndInData /\ NextLine.is = "function" =>
              EndsInData(Definition(NextLine).locals)
<1> DEFINE n == Len(buffers)
           name == Top(buffers).name
           lines == disk[File[name]]
           k == Top(buffers).at + 1
<1>1. n \in 1..Len(buffers) /\ Top(buffers) = buffers[n]
  BY NextLocIs DEF Top
<1>2. OpenFile(disk, buffers[n])
  BY <1>1 DEF Chain
<1>3. name \in Names /\ File[name] # NoFile /\ Top(buffers).at \in 0..Len(lines)
  BY <1>1, <1>2 DEF OpenFile
<1>4. IsSeq(lines)
  BY <1>3 DEF PlanInv, Sound
<1>5. Top(buffers).at < Len(lines)
  BY DEF Unread
<1> HIDE DEF name
<1>6. Len(lines) \in Nat /\ DOMAIN lines = 1..Len(lines)
  BY <1>4, DomainOfSeq
<1>7. k \in DOMAIN lines
  BY <1>3, <1>5, <1>6
<1>8. NextLine = lines[k]
  BY DEF NextLine, name
<1>9. NextLine \in Range(lines)
  BY <1>7, <1>8 DEF Range
<1>10. NextLine.is = "include" \/ IsItem(NextLine)
  BY <1>3, <1>9, Zenon DEF FilesWell
<1>11. LocalsEndInData /\ NextLine.is = "function" => EndsInData(Definition(NextLine).locals)
  BY <1>3, <1>9, Zenon DEF LocalsEndInData
<1> QED BY <1>10, <1>11

LEMMA TreeStep ==
  ASSUME PlanInv, Chain(disk, buffers), ReaderInv, FilesWell, TreeWell, [Next]_vars
  PROVE  TreeWell' /\ FilesWell' /\ (LocalsEndInData' <=> LocalsEndInData)
<1>1. disk' = disk /\ plan' = plan /\ ReaderStep
  BY ReaderSteps, PlanSteps
<1>2. FilesWell' /\ (LocalsEndInData' <=> LocalsEndInData)
  BY <1>1 DEF FilesWell, LocalsEndInData
<1>3. CASE tree' = tree
  BY <1>2, <1>3, Zenon DEF TreeWell
<1>4. CASE tree' = <<>>
  <2>1. Len(tree') = 0
    BY <1>4, EmptyIsSeq
  <2>2. \A i \in 1..Len(tree') : FALSE
    BY <2>1
  <2> QED BY <1>2, <2>2, Zenon DEF TreeWell
<1>5. CASE ReadDefinition
  <2> DEFINE e == [def |-> NextLine, loc |-> NextLoc]
  <2>1. buffers # <<>> /\ Unread /\ NextLine.is # "include" /\ tree' = Append(tree, e)
    BY <1>5 DEF ReadDefinition
  <2>2. /\ IsItem(NextLine)
        /\ LocalsEndInData /\ NextLine.is = "function" =>
             EndsInData(Definition(NextLine).locals)
    BY <2>1, NextLineIs
  <2>3. e.def = NextLine
    OBVIOUS
  <2> HIDE DEF e
  <2>4. IsSeq(tree) /\ Len(tree) \in Nat
    BY DomainOfSeq DEF ReaderInv
  <2>5. /\ Len(tree') = Len(tree) + 1 /\ tree'[Len(tree) + 1] = e
        /\ \A i \in 1..Len(tree) : tree'[i] = tree[i]
    BY <2>1, <2>4, AppendIsSeq
  <2>6. \A i \in 1..Len(tree') : i \in 1..Len(tree) \/ i = Len(tree) + 1
    BY <2>4, <2>5
  <2> QED BY <1>2, <2>2, <2>3, <2>5, <2>6, Zenon DEF TreeWell
<1>6. tree' = tree \/ tree' = <<>> \/ ReadDefinition
  BY <1>1 DEF ReaderStep, OpenFirstFile, OpenIncludeFile, CloseIncludeFile, CloseFirstFile,
              Reset, readerVars
<1> QED BY <1>2, <1>3, <1>4, <1>5, <1>6

\* Where reading stands.
LEMMA LocStep ==
  ASSUME ReaderInv, loc.line \in Nat, [Next]_vars
  PROVE  loc'.line \in Nat
<1>1. ReaderStep
  BY ReaderSteps
<1>2. CASE OpenFirstFile(Args.sources[source + 1]) \/ OpenIncludeFile
  BY <1>2 DEF OpenFirstFile, OpenIncludeFile, StartOf
<1>3. CASE ReadDefinition
  <2>1. buffers # <<>> /\ loc' = NextLoc
    BY <1>3 DEF ReadDefinition
  <2>2. loc'.line = Top(buffers).at + 1 /\ Top(buffers).at \in Nat
    BY <2>1, NextLocIs
  <2> QED BY <2>2
<1>4. CASE CloseIncludeFile
  <2> DEFINE n == Len(nodes)
  <2>1. Len(buffers) > 1 /\ loc' = nodes[n].parent
    BY <1>4 DEF CloseIncludeFile, Top
  <2>2. buffers # <<>>
    BY <2>1, EmptyIsSeq
  <2>3. n = Len(buffers) /\ n \in Nat /\ n \in 2..n /\ n - 1 \in 1..Len(buffers)
    BY <2>1, <2>2, DomainOfSeq DEF ReaderInv
  <2>4. nodes[n].parent = LocIn(buffers[n - 1])
    BY <2>2, <2>3 DEF ReaderInv
  <2>5. buffers[n - 1].at \in Nat
    BY <2>3 DEF ReaderInv
  <2> QED BY <2>1, <2>4, <2>5 DEF LocIn
<1>5. CASE CloseFirstFile \/ UNCHANGED readerVars
  BY <1>5 DEF CloseFirstFile, readerVars
<1>6. CASE Reset
  BY <1>6 DEF Reset, Nowhere
<1> QED BY <1>1, <1>2, <1>3, <1>4, <1>5, <1>6 DEF ReaderStep

-----------------------------------------------------------------------------
(* What a step makes of the program, the objects and the image.            *)
ProgramWell == FunctionsWell /\ DataWell /\ OutWell

\* The parts of FunctionsWell, for a program that a step makes.

LEMMA KeepsProgram ==
  ASSUME ProgramWell, LocalsEndInData' <=> LocalsEndInData, Keeps
  PROVE  ProgramWell'
<1>1. /\ functions' = functions /\ shared' = shared /\ constants' = constants
      /\ symbols' = symbols /\ objects' = objects /\ image' = image
      /\ phase' \in Emitting => phase \in Emitting \/ InstructionsLegal(functions, Args.usingTemps)
  BY DEF Keeps
<1>2. DataWell' /\ OutWell'
  BY <1>1 DEF ProgramWell, DataWell, OutWell
<1>3. FunctionList(functions) /\ (phase \in Emitting => AllCallsLegal(functions))
      /\ (LocalsEndInData => AllFit(functions))
  BY DEF ProgramWell, FunctionsWell
<1>4. phase' \in Emitting => AllCallsLegal(functions)
  BY <1>1, <1>3, LegalCalls
<1>5. FunctionsWell'
  BY <1>1, <1>3, <1>4 DEF FunctionsWell
<1> QED BY <1>2, <1>5 DEF ProgramWell

\* The tree at the end of a source.
LEMMA DefinitionsAre ==
  ASSUME ReaderInv, TreeWell
  PROVE  /\ ItemList(Definitions)
         /\ LocalsEndInData =>
              \A i \in 1..Len(Definitions) :
                Definitions[i].is = "function" => EndsInData(Definition(Definitions[i]).locals)
<1> DEFINE t == Definitions
<1>1. DOMAIN tree = 1..Len(tree) /\ Len(tree) \in Nat
  BY DomainOfSeq DEF ReaderInv
<1>2. t = [i \in 1..Len(tree) |-> t[i]] /\ \A i \in 1..Len(tree) : t[i] = tree[i].def
  BY <1>1 DEF Definitions
<1> HIDE DEF t
<1>3. IsSeq(t) /\ Len(t) = Len(tree)
  BY <1>1, <1>2, MapIsSeq
<1>4. ItemList(t)
  BY <1>2, <1>3 DEF TreeWell, ItemList
<1>5. LocalsEndInData =>
        \A i \in 1..Len(t) : t[i].is = "function" => EndsInData(Definition(t[i]).locals)
  BY <1>2, <1>3, Zenon DEF TreeWell
<1> QED BY <1>4, <1>5 DEF t

LEMMA SourceProgram ==
  ASSUME ReaderInv, TreeWell, ProgramWell, LocalsEndInData' <=> LocalsEndInData, EndSource
  PROVE  ProgramWell'
<1> DEFINE t == Definitions
           e == EmittedFunctions(t)
<1>1. /\ functions' = functions \o e
      /\ shared' = shared \o EmittedShared(t)
      /\ constants' = constants \o EmittedConstants(t)
      /\ phase' = "source" /\ symbols' = symbols /\ objects' = objects /\ image' = image
  BY DEF EndSource, outVars
<1>2. /\ ItemList(t)
      /\ LocalsEndInData =>
           \A i \in 1..Len(t) : t[i].is = "function" => EndsInData(Definition(t[i]).locals)
  BY DefinitionsAre
<1> HIDE DEF t
<1>3. FunctionList(e) /\ (LocalsEndInData => AllFit(e))
  BY <1>2, EmittedProgram
<1> HIDE DEF e
<1>4. FunctionList(functions) /\ (LocalsEndInData => AllFit(functions))
  BY DEF ProgramWell, FunctionsWell
<1>5. FunctionList(functions') /\ (LocalsEndInData => AllFit(functions'))
  BY <1>1, <1>3, <1>4, JoinedPrograms
<1>6. FunctionsWell'
  <2>1. phase' \notin Emitting
    BY <1>1 DEF Emitting
  <2> QED BY <1>5, <2>1 DEF FunctionsWell
<1>7. PlacedData(shared') /\ PlacedData(constants')
  BY <1>1, <1>2, EmittedDataAre, BothPlaced DEF ProgramWell, DataWell
<1>8. DataWell' /\ OutWell'
  BY <1>1, <1>7 DEF ProgramWell, DataWell, OutWell
<1> QED BY <1>6, <1>8 DEF ProgramWell

\* The passes that leave the data alone.
LEMMA PassProgram ==
  ASSUME ProgramWell, LocalsEndInData' <=> LocalsEndInData,
         phase \in Emitting,
         UNCHANGED <<shared, constants, objects, image>>, IsTable(symbols'),
         FunctionList(functions'),
         AllCallsLegal(functions) => AllCallsLegal(functions'),
         AllFit(functions) => AllFit(functions')
  PROVE  ProgramWell'
<1>1. FunctionsWell'
  BY DEF ProgramWell, FunctionsWell
<1>2. DataWell' /\ OutWell'
  BY DEF ProgramWell, DataWell, OutWell
<1> QED BY <1>1, <1>2 DEF ProgramWell

LEMMA PassesProgram ==
  ASSUME ProgramWell, LocalsEndInData' <=> LocalsEndInData,
         \/ Allocate \/ Exposes \/ AssignValuesToLocalLabels \/ Binds \/ Links
  PROVE  ProgramWell'
<1>0. FunctionList(functions) /\ PlacedData(shared) /\ PlacedData(constants) /\ IsTable(symbols)
  BY DEF ProgramWell, FunctionsWell, DataWell
<1>1. CASE Allocate
  <2>1. PICK p \in Prologues : functions' = [i \in DOMAIN functions |-> Allocated(functions[i], p)]
    BY <1>1 DEF Allocate
  <2>2. phase \in Emitting /\ UNCHANGED <<shared, constants, symbols, objects, image>>
    BY <1>1 DEF Allocate, Emitting, outVars
  <2>3. /\ FunctionList(functions')
        /\ AllCallsLegal(functions) => AllCallsLegal(functions')
        /\ AllFit(functions) => AllFit(functions')
    BY <1>0, <2>1, AllocationPass
  <2> QED BY <1>0, <2>2, <2>3, PassProgram
<1>2. CASE Exposes
  <2>1. /\ functions' = [i \in DOMAIN functions |-> Exposed(functions[i])]
        /\ symbols' = SymbolsOf(functions, shared, constants)
        /\ phase \in Emitting /\ UNCHANGED <<shared, constants, objects, image>>
    BY <1>2 DEF Exposes, Emitting
  <2>2. IsTable(symbols')
    BY <1>0, <2>1, SymbolsOfAre DEF PlacedData
  <2>3. /\ FunctionList(functions')
        /\ AllCallsLegal(functions) => AllCallsLegal(functions')
        /\ AllFit(functions) => AllFit(functions')
    BY <1>0, <2>1, ExposePass
  <2> QED BY <2>1, <2>2, <2>3, PassProgram
<1>3. CASE AssignValuesToLocalLabels \/ Binds
  <2>1. /\ \/ functions' = [i \in DOMAIN functions |-> WithLocalValues(functions[i], Args.omitFP)]
           \/ functions' = [i \in DOMAIN functions |->
                              WithValues(functions[i], symbols, Args.omitFP)]
        /\ phase \in Emitting /\ UNCHANGED <<shared, constants, symbols, objects, image>>
    BY <1>3 DEF AssignValuesToLocalLabels, Binds, Emitting, outVars
  <2>3. /\ FunctionList(functions')
        /\ AllCallsLegal(functions) => AllCallsLegal(functions')
        /\ AllFit(functions) => AllFit(functions')
    <3>1. CASE functions' = [i \in DOMAIN functions |->
                               WithLocalValues(functions[i], Args.omitFP)]
      BY <1>0, <3>1, ValuePasses
    <3>2. CASE functions' = [i \in DOMAIN functions |->
                               WithValues(functions[i], symbols, Args.omitFP)]
      BY <1>0, <3>2, ValuePasses
    <3> QED BY <2>1, <3>1, <3>2
  <2> QED BY <1>0, <2>1, <2>3, PassProgram
<1>4. CASE Links
  <2>1. /\ functions' = MainToTop(functions)
        /\ phase \in Emitting /\ UNCHANGED <<shared, constants, symbols, objects, image>>
    BY <1>4 DEF Links, Emitting
  <2>3. /\ FunctionList(functions')
        /\ AllCallsLegal(functions) => AllCallsLegal(functions')
        /\ AllFit(functions) => AllFit(functions')
    BY <1>0, <2>1, MainProgram
  <2> QED BY <1>0, <2>1, <2>3, PassProgram
<1> QED BY <1>1, <1>2, <1>3, <1>4

\* One function, variable or constant gets its place.
LEMMA PlaceProgram ==
  ASSUME ProgramWell, LocalsEndInData' <=> LocalsEndInData, tempOffset \in Nat,
         placed.functions \in Nat, placed.shared \in Nat, placed.constants \in Nat,
         PlaceFunction \/ PlaceShared \/ PlaceConstant
  PROVE  /\ ProgramWell' /\ tempOffset' \in Nat
         /\ Len(functions') = Len(functions) /\ Len(shared') = Len(shared)
         /\ Len(constants') = Len(constants)
<1>0. /\ FunctionList(functions) /\ AllCallsLegal(functions)
      /\ PlacedData(shared) /\ PlacedData(constants) /\ IsTable(symbols)
      /\ phase = "place" /\ phase' = phase /\ phase \in Emitting
      /\ LocalsEndInData => AllFit(functions)
  BY DEF ProgramWell, FunctionsWell, DataWell, Emitting, PlaceFunction, PlaceShared,
         PlaceConstant
<1>00. objects' = objects /\ image' = image
  BY DEF PlaceFunction, PlaceShared, PlaceConstant, outVars
<1>1. CASE PlaceFunction
  <2> DEFINE k == placed.functions + 1
  <2>1. /\ k \in DOMAIN functions
        /\ functions' = [functions EXCEPT ![k] = Placed(functions[k], tempOffset)]
        /\ symbols' = WithOffset(symbols, functions[k].name, 0)
        /\ tempOffset' = tempOffset + FunctionSize(functions[k])
        /\ UNCHANGED <<shared, constants>>
    BY <1>1 DEF PlaceFunction
  <2> HIDE DEF k
  <2>2. DOMAIN functions = 1..Len(functions) /\ Len(functions) \in Nat
    BY <1>0, DomainOfSeq DEF FunctionList
  <2>3. /\ functions' = [i \in 1..Len(functions) |-> functions'[i]]
        /\ \A i \in 1..Len(functions) :
             functions'[i] = IF i = k THEN Placed(functions[k], tempOffset) ELSE functions[i]
    BY <2>1, <2>2
  <2>4. /\ FunctionList(functions') /\ Len(functions') = Len(functions)
        /\ AllCallsLegal(functions')
        /\ AllFit(functions) => AllFit(functions')
    <3>1. k \in 1..Len(functions)
      BY <2>1, <2>2
    <3> DEFINE r == functions'
    <3>2. /\ r = [i \in 1..Len(functions) |-> r[i]]
          /\ \A i \in 1..Len(functions) :
               r[i] = IF i = k THEN Placed(functions[k], tempOffset) ELSE functions[i]
      BY <2>3
    <3> HIDE DEF r
    <3>3. /\ FunctionList(r) /\ Len(r) = Len(functions) /\ AllCallsLegal(r)
          /\ AllFit(functions) => AllFit(r)
      BY <1>0, <3>1, <3>2, PlacePass
    <3> QED BY <3>3 DEF r
  <2>5. FunctionSize(functions[k]) \in Nat
    <3>1. StmtList(functions[k].stmts) /\ CallsLegal(functions[k].stmts)
      BY <1>0, <2>1, <2>2 DEF FunctionList, IsFunction, AllCallsLegal
    <3> QED BY <3>1, FunctionSizeIs
  <2>6. IsTable(symbols')
    <3>1. 0 \in Nat
      OBVIOUS
    <3> QED BY <1>0, <2>1, <3>1, OffsetInTable
  <2>7. ProgramWell'
    BY <1>0, <1>00, <2>1, <2>4, <2>6, PassProgram
  <2> QED BY <2>1, <2>4, <2>5, <2>7
<1>2. \A first : SectionStart(first) \in Nat
  BY DEF SectionStart
<1>3. CASE PlaceShared
  <2> DEFINE k == placed.shared + 1
             at == SectionStart(k = 1)
  <2>1. /\ k \in DOMAIN shared
        /\ shared' = [shared EXCEPT ![k] = DataAt(@, at)]
        /\ symbols' = WithOffset(symbols, shared[k].label, at)
        /\ tempOffset' = at + DataSize(shared[k])
        /\ UNCHANGED <<functions, constants>>
    BY <1>3 DEF PlaceShared
  <2>2. at \in Nat
    BY <1>2
  <2> HIDE DEF k, at
  <2>3. DOMAIN shared = 1..Len(shared) /\ IsDatum(shared[k])
    BY <1>0, <2>1, ListsAre, DomainOfSeq DEF PlacedData
  <2>4. PlacedData(shared') /\ Len(shared') = Len(shared)
    BY <1>0, <2>1, <2>2, <2>3, DatumPass
  <2>5. IsTable(symbols') /\ DataSize(shared[k]) \in Nat
    BY <1>0, <2>1, <2>2, <2>3, OffsetInTable, DataSizeIs
  <2>6. DataWell' /\ OutWell' /\ FunctionsWell'
    BY <1>0, <1>00, <2>1, <2>4, <2>5 DEF ProgramWell, DataWell, OutWell, FunctionsWell
  <2> QED BY <2>1, <2>2, <2>4, <2>5, <2>6 DEF ProgramWell
<1>4. CASE PlaceConstant
  <2> DEFINE k == placed.constants + 1
             at == SectionStart(k = 1)
  <2>1. /\ k \in DOMAIN constants
        /\ constants' = [constants EXCEPT ![k] = DataAt(@, at)]
        /\ symbols' = WithOffset(symbols, constants[k].label, at)
        /\ tempOffset' = at + DataSize(constants[k])
        /\ UNCHANGED <<functions, shared>>
    BY <1>4 DEF PlaceConstant
  <2>2. at \in Nat
    BY <1>2
  <2> HIDE DEF k, at
  <2>3. DOMAIN constants = 1..Len(constants) /\ IsDatum(constants[k])
    BY <1>0, <2>1, ListsAre, DomainOfSeq DEF PlacedData
  <2>4. PlacedData(constants') /\ Len(constants') = Len(constants)
    BY <1>0, <2>1, <2>2, <2>3, DatumPass
  <2>5. IsTable(symbols') /\ DataSize(constants[k]) \in Nat
    BY <1>0, <2>1, <2>2, <2>3, OffsetInTable, DataSizeIs
  <2>6. DataWell' /\ OutWell' /\ FunctionsWell'
    BY <1>0, <1>00, <2>1, <2>4, <2>5 DEF ProgramWell, DataWell, OutWell, FunctionsWell
  <2> QED BY <2>1, <2>2, <2>4, <2>5, <2>6 DEF ProgramWell
<1> QED BY <1>1, <1>3, <1>4

\* An object goes in front of what is there.
LEMMA LoadProgram ==
  ASSUME ProgramWell, LocalsEndInData' <=> LocalsEndInData, LoadObj
  PROVE  ProgramWell'
<1> DEFINE o == Loading
           r == ReadFunctions(o)
<1>1. /\ phase = "load" /\ Args.objects[loads + 1] \in DOMAIN objects /\ Readable(o)
      /\ functions' = r \o functions
      /\ shared' = ReadSection(o, DataNames(o), o.data) \o shared
      /\ constants' = ReadSection(o, RodataOf(o), o.rodata) \o constants
      /\ symbols' = Joined(ReadSymbols(o), symbols)
      /\ objects' = objects /\ image' = image
  BY DEF LoadObj, outVars
<1>2. ObjectIs(o)
  BY <1>1 DEF ProgramWell, OutWell, Loading
<1> HIDE DEF o
<1>3. /\ OffsetsDistinct(o, Funcs(o)) /\ OffsetsDistinct(o, RodataOf(o))
      /\ OffsetsDistinct(o, DataNames(o))
  BY <1>1 DEF Readable
<1>4. /\ IsTable(o.symbols) /\ Spans(o.data) /\ Spans(o.rodata)
      /\ RodataOf(o) \subseteq DOMAIN o.symbols /\ DataNames(o) \subseteq DOMAIN o.symbols
  BY <1>2 DEF ObjectIs, RodataOf, DataNames
<1>5. /\ FunctionList(functions) /\ PlacedData(shared) /\ PlacedData(constants)
      /\ IsTable(symbols) /\ AllCallsLegal(functions)
      /\ LocalsEndInData => AllFit(functions)
  BY <1>1 DEF ProgramWell, FunctionsWell, DataWell, Emitting
<1>6. IsSeq(r) /\ \A i \in 1..Len(r) : LoadedIs(r[i])
  BY <1>2, <1>3, ReadFunctionsAre
<1> HIDE DEF r
<1>7. FunctionList(r) /\ AllCallsLegal(r)
  BY <1>6 DEF FunctionList, AllCallsLegal, LoadedIs
<1>8. AllFit(r)
  <2>1. ASSUME NEW i \in 1..Len(r) PROVE LocalsFit(r[i])
    <3>1. r[i].locals = <<>>
      BY <1>6 DEF LoadedIs
    <3> QED BY <3>1, EmptyIsSeq DEF LocalsFit, Natural, EndsInData
  <2> QED BY <2>1 DEF AllFit
<1>9. /\ FunctionList(functions') /\ AllCallsLegal(functions')
      /\ LocalsEndInData => AllFit(functions')
  BY <1>1, <1>5, <1>7, <1>8, JoinedPrograms
<1>10. /\ PlacedData(ReadSection(o, DataNames(o), o.data))
       /\ PlacedData(ReadSection(o, RodataOf(o), o.rodata))
  BY <1>3, <1>4, ReadSectionIs
<1>11. PlacedData(shared') /\ PlacedData(constants')
  BY <1>1, <1>5, <1>10, BothPlaced
<1>12. IsTable(symbols')
  BY <1>1, <1>4, <1>5, ReadSymbolsAre, JoinedTables
<1>13. FunctionsWell' /\ DataWell' /\ OutWell'
  BY <1>1, <1>9, <1>11, <1>12 DEF ProgramWell, FunctionsWell, DataWell, OutWell
<1> QED BY <1>13 DEF ProgramWell

\* The table takes the offsets of the functions.
LEMMA UpdateProgram ==
  ASSUME ProgramWell, LocalsEndInData' <=> LocalsEndInData, UpdateFunctionLabels
  PROVE  ProgramWell'
<1>1. /\ phase \in Emitting /\ functions' = functions
      /\ UNCHANGED <<shared, constants, objects, image>>
      /\ symbols' =
           [n \in DOMAIN symbols |->
              IF \E i \in DOMAIN functions : functions[i].name = n
              THEN [symbols[n] EXCEPT !.offset =
                      functions[CHOOSE i \in DOMAIN functions : functions[i].name = n].offset]
              ELSE symbols[n]]
  BY DEF UpdateFunctionLabels, Emitting, outVars
<1>2. FunctionList(functions) /\ IsTable(symbols)
  BY DEF ProgramWell, FunctionsWell, DataWell
<1>3. ASSUME NEW n \in DOMAIN symbols PROVE IsSymbol(symbols'[n])
  <2>1. IsSymbol(symbols[n])
    BY <1>2 DEF IsTable
  <2>2. CASE \E i \in DOMAIN functions : functions[i].name = n
    <3> DEFINE i == CHOOSE i \in DOMAIN functions : functions[i].name = n
    <3>1. i \in DOMAIN functions
      BY <2>2
    <3>2. symbols'[n] = [symbols[n] EXCEPT !.offset = functions[i].offset]
      BY <1>1, <2>2
    <3> HIDE DEF i
    <3>3. functions[i].offset \in Nat
      BY <1>2, <3>1, DomainOfSeq DEF FunctionList, IsFunction
    <3> QED BY <2>1, <3>2, <3>3, OtherOffset
  <2>3. CASE ~\E i \in DOMAIN functions : functions[i].name = n
    BY <1>1, <2>1, <2>3
  <2> QED BY <2>2, <2>3
<1>4. DOMAIN symbols' = DOMAIN symbols
  BY <1>1
<1>5. IsTable(symbols')
  BY <1>3, <1>4 DEF IsTable
<1> QED BY <1>1, <1>2, <1>5, PassProgram

\* The end of an invocation leaves no program.
LEMMA EndProgram ==
  ASSUME ProgramWell, SaveObj \/ Assemble
  PROVE  ProgramWell'
<1>1. /\ phase \in Emitting /\ Succeed
      /\ \/ Args.onlyCompile
            /\ objects' = Joined([o \in {Args.output} |->
                                    WrittenObj(functions, shared, constants, symbols)],
                                 objects)
            /\ image' = image
         \/ objects' = objects /\ image' = Assembled
  BY DEF SaveObj, Assemble, Emitting
<1>2. /\ FunctionList(functions) /\ AllCallsLegal(functions)
      /\ DataList(shared) /\ DataList(constants) /\ IsTable(symbols)
      /\ \A o \in DOMAIN objects : ObjectIs(objects[o])
      /\ Spans(image)
  BY <1>1 DEF ProgramWell, FunctionsWell, DataWell, OutWell, PlacedData
<1>3. /\ functions' = <<>> /\ shared' = <<>> /\ constants' = <<>> /\ symbols' = <<>>
      /\ phase' \in {"source", "done"}
  BY <1>1 DEF Succeed
<1>4. FunctionsWell' /\ DataWell'
  <2>1. FunctionList(functions') /\ AllCallsLegal(functions') /\ AllFit(functions')
    <3>1. IsSeq(functions') /\ Len(functions') = 0
      BY <1>3, EmptyIsSeq
    <3>2. \A i \in 1..Len(functions') : FALSE
      BY <3>1
    <3> QED BY <3>1, <3>2, Zenon DEF FunctionList, AllCallsLegal, AllFit
  <2>2. PlacedData(shared') /\ PlacedData(constants')
    BY <1>3, FewPlaced
  <2>3. IsTable(symbols')
    BY <1>3 DEF IsTable
  <2> QED BY <2>1, <2>2, <2>3 DEF FunctionsWell, DataWell
<1>5. Spans(image')
  BY <1>1, <1>2, AssembledIs
<1>6. \A o \in DOMAIN objects' : ObjectIs(objects'[o])
  <2>1. CASE objects' = objects
    BY <1>2, <2>1
  <2> DEFINE w == WrittenObj(functions, shared, constants, symbols)
             u == [o \in {Args.output} |-> w]
  <2>2. CASE objects' = Joined(u, objects)
    <3>1. ObjectIs(w)
      BY <1>2, WrittenIs
    <3> HIDE DEF w
    <3>2. DOMAIN u = {Args.output} /\ \A o \in DOMAIN u : u[o] = w
      OBVIOUS
    <3> HIDE DEF u
    <3>3. /\ DOMAIN objects' = DOMAIN u \cup DOMAIN objects
          /\ \A o \in DOMAIN objects' :
               objects'[o] = IF o \in DOMAIN u THEN u[o] ELSE objects[o]
      BY <2>2 DEF Joined
    <3> QED BY <1>2, <3>1, <3>2, <3>3, Zenon
  <2> QED BY <1>1, <2>1, <2>2
<1> QED BY <1>4, <1>5, <1>6 DEF ProgramWell, OutWell

-----------------------------------------------------------------------------
(* What a step makes of the counters.                                      *)
Within == /\ Counted
          /\ placed.functions \in 0..Len(functions)
          /\ placed.shared \in 0..Len(shared)
          /\ placed.constants \in 0..Len(constants)

LEMMA LensAre ==
  ASSUME ProgramWell
  PROVE  /\ Len(functions) \in Nat /\ DOMAIN functions = 1..Len(functions)
         /\ Len(shared) \in Nat /\ DOMAIN shared = 1..Len(shared)
         /\ Len(constants) \in Nat /\ DOMAIN constants = 1..Len(constants)
BY ListsAre, DomainOfSeq DEF ProgramWell, FunctionsWell, DataWell, PlacedData, FunctionList

LEMMA WithinNone ==
  ASSUME ProgramWell, placed = NonePlaced
  PROVE  Within
BY LensAre DEF NonePlaced, Counted, Within

LEMMA DataInFront ==
  ASSUME NEW p, PlacedData(p), NEW q, PlacedData(q)
  PROVE  Len(q) \in Nat /\ Len(q) <= Len(p \o q)
<1>1. IsSeq(p) /\ IsSeq(q)
  BY ListsAre DEF PlacedData
<1>2. Len(p \o q) = Len(p) + Len(q) /\ Len(p) \in Nat /\ Len(q) \in Nat
  BY <1>1, BothAreSeq
<1> QED BY <1>2

LEMMA WithinStep ==
  ASSUME Within, ProgramWell, ProgramWell', ReaderInv, TreeWell, tempOffset \in Nat,
         LocalsEndInData' <=> LocalsEndInData, [Next]_vars
  PROVE  Within' /\ tempOffset' \in Nat
<1>0. /\ Len(functions) \in Nat /\ DOMAIN functions = 1..Len(functions)
      /\ Len(shared) \in Nat /\ DOMAIN shared = 1..Len(shared)
      /\ Len(constants) \in Nat /\ DOMAIN constants = 1..Len(constants)
  BY LensAre
<1>00. /\ Len(functions') \in Nat /\ Len(shared') \in Nat /\ Len(constants') \in Nat
  <2>1. ProgramWell' => /\ Len(functions') \in Nat /\ Len(shared') \in Nat
                        /\ Len(constants') \in Nat
    BY ListsAre, DomainOfSeq DEF ProgramWell, FunctionsWell, DataWell, PlacedData, FunctionList
  <2> QED BY <2>1
<1>a. ASSUME placed' = placed, Len(functions) <= Len(functions'),
             Len(shared) <= Len(shared'), Len(constants) <= Len(constants')
      PROVE  Within'
  BY <1>0, <1>00, <1>a DEF Within, Counted
<1>b. ASSUME placed' = NonePlaced
      PROVE  Within'
  BY <1>00, <1>b DEF Within, Counted, NonePlaced
<1>c. FunctionList(functions) /\ PlacedData(shared) /\ PlacedData(constants)
  BY DEF ProgramWell, FunctionsWell, DataWell
<1>1. CASE Keeps
  <2>1. functions' = functions /\ shared' = shared /\ constants' = constants
    BY <1>1 DEF Keeps
  <2>2. CASE UNCHANGED <<placed, tempOffset>>
    BY <1>0, <1>a, <2>1, <2>2
  <2>3. CASE placed' = NonePlaced /\ tempOffset' = 0
    BY <1>b, <2>3
  <2> QED BY <1>1, <2>2, <2>3 DEF Keeps
<1>2. CASE EndSource
  <2> DEFINE t == Definitions
             e == EmittedFunctions(t)
  <2>1. /\ functions' = functions \o e
        /\ shared' = shared \o EmittedShared(t)
        /\ constants' = constants \o EmittedConstants(t)
        /\ placed' = placed /\ tempOffset' = tempOffset
    BY <1>2 DEF EndSource, placeVars
  <2>2. ItemList(t)
    BY DefinitionsAre
  <2> HIDE DEF t
  <2>3. FunctionList(e) /\ PlacedData(EmittedShared(t)) /\ PlacedData(EmittedConstants(t))
    BY <2>2, EmittedProgram, EmittedDataAre
  <2> HIDE DEF e
  <2>4. Len(functions') = Len(functions) + Len(e) /\ Len(e) \in Nat
    BY <1>c, <2>1, <2>3, JoinedPrograms
  <2>5. /\ IsSeq(shared) /\ IsSeq(constants) /\ IsSeq(EmittedShared(t))
        /\ IsSeq(EmittedConstants(t))
    BY <1>c, <2>3, ListsAre DEF PlacedData
  <2>6. /\ Len(shared') = Len(shared) + Len(EmittedShared(t))
        /\ Len(EmittedShared(t)) \in Nat
        /\ Len(constants') = Len(constants) + Len(EmittedConstants(t))
        /\ Len(EmittedConstants(t)) \in Nat
    BY <2>1, <2>5, BothAreSeq
  <2> QED BY <1>0, <1>a, <2>1, <2>4, <2>6
<1>3. CASE LoadObj
  <2> DEFINE o == Loading
             r == ReadFunctions(o)
             d == ReadSection(o, DataNames(o), o.data)
             c == ReadSection(o, RodataOf(o), o.rodata)
  <2>1. /\ Args.objects[loads + 1] \in DOMAIN objects /\ Readable(o)
        /\ functions' = r \o functions /\ shared' = d \o shared /\ constants' = c \o constants
        /\ placed' = placed /\ tempOffset' = tempOffset
    BY <1>3 DEF LoadObj, placeVars
  <2>2. ObjectIs(o)
    BY <2>1 DEF ProgramWell, OutWell, Loading
  <2> HIDE DEF o
  <2>3. /\ OffsetsDistinct(o, Funcs(o)) /\ OffsetsDistinct(o, RodataOf(o))
        /\ OffsetsDistinct(o, DataNames(o))
    BY <2>1 DEF Readable
  <2>4. /\ IsTable(o.symbols) /\ Spans(o.data) /\ Spans(o.rodata)
        /\ RodataOf(o) \subseteq DOMAIN o.symbols /\ DataNames(o) \subseteq DOMAIN o.symbols
    BY <2>2 DEF ObjectIs, RodataOf, DataNames
  <2>5. IsSeq(r)
    BY <2>2, <2>3, ReadFunctionsAre
  <2>6. PlacedData(d) /\ PlacedData(c)
    BY <2>3, <2>4, ReadSectionIs
  <2> HIDE DEF r, d, c
  <2>7. Len(functions) <= Len(functions')
    <3>1. IsSeq(functions)
      BY <1>c DEF FunctionList
    <3>2. Len(functions') = Len(r) + Len(functions) /\ Len(r) \in Nat
      BY <2>1, <2>5, <3>1, BothAreSeq
    <3> QED BY <1>0, <3>2
  <2>8. Len(shared) <= Len(shared') /\ Len(constants) <= Len(constants')
    BY <1>c, <2>1, <2>6, DataInFront
  <2> QED BY <1>a, <2>1, <2>7, <2>8
<1>4. CASE Allocate \/ Links \/ SaveObj \/ Assemble
  <2>1. placed' = NonePlaced /\ tempOffset' = 0
    BY <1>4 DEF Allocate, Links, SaveObj, Assemble, Succeed, Rebuild
  <2> QED BY <1>b, <2>1
<1>5. CASE Exposes \/ AssignValuesToLocalLabels \/ Binds
  <2>1. /\ \/ functions' = [i \in DOMAIN functions |-> Exposed(functions[i])]
           \/ functions' = [i \in DOMAIN functions |-> WithLocalValues(functions[i], Args.omitFP)]
           \/ functions' = [i \in DOMAIN functions |->
                              WithValues(functions[i], symbols, Args.omitFP)]
        /\ placed' = placed /\ tempOffset' = tempOffset
        /\ shared' = shared /\ constants' = constants
    BY <1>5 DEF Exposes, AssignValuesToLocalLabels, Binds, placeVars
  <2>2. functions' = [i \in 1..Len(functions) |-> functions'[i]]
    BY <1>0, <2>1
  <2>3. Len(functions') = Len(functions)
    <3> DEFINE r == functions'
    <3>1. r = [i \in 1..Len(functions) |-> r[i]]
      BY <2>2
    <3> HIDE DEF r
    <3>2. Len(r) = Len(functions)
      BY <1>0, <3>1, MapIsSeq
    <3> QED BY <3>2 DEF r
  <2> QED BY <1>0, <1>a, <2>1, <2>3
<1>6. CASE UpdateFunctionLabels
  <2>1. /\ functions' = functions /\ shared' = shared /\ constants' = constants
        /\ placed' = placed /\ tempOffset' = tempOffset
    BY <1>6 DEF UpdateFunctionLabels, placeVars
  <2> QED BY <1>0, <1>a, <2>1
<1>7. CASE PlaceFunction \/ PlaceShared \/ PlaceConstant
  <2>1. placed.functions \in Nat /\ placed.shared \in Nat /\ placed.constants \in Nat
    BY DEF Within, Counted
  <2>a. placed = [functions |-> placed.functions, shared |-> placed.shared,
                  constants |-> placed.constants]
    BY DEF Within, Counted
  <2>2. /\ tempOffset' \in Nat
        /\ Len(functions') = Len(functions) /\ Len(shared') = Len(shared)
        /\ Len(constants') = Len(constants)
    BY <1>7, <2>1, PlaceProgram
  <2>3. CASE PlaceFunction
    <3>1. /\ placed.functions + 1 \in 1..Len(functions)
          /\ placed' = [placed EXCEPT !.functions = placed.functions + 1]
      BY <1>0, <2>3 DEF PlaceFunction
    <3> QED BY <2>2, <3>1 DEF Within, Counted
  <2>4. CASE PlaceShared
    <3>1. /\ placed.shared + 1 \in 1..Len(shared)
          /\ placed' = [placed EXCEPT !.shared = placed.shared + 1]
      BY <1>0, <2>4 DEF PlaceShared
    <3> QED BY <2>2, <3>1 DEF Within, Counted
  <2>5. CASE PlaceConstant
    <3>1. /\ placed.constants + 1 \in 1..Len(constants)
          /\ placed' = [placed EXCEPT !.constants = placed.constants + 1]
      BY <1>0, <2>5 DEF PlaceConstant
    <3> QED BY <2>2, <3>1 DEF Within, Counted
  <2> QED BY <1>7, <2>2, <2>3, <2>4, <2>5
<1> QED BY <1>1, <1>2, <1>3, <1>4, <1>5, <1>6, <1>7, TypeSteps

LEMMA PhaseStep ==
  ASSUME phase \in Phases, outcome \in Outcomes, loads \in 0..Len(Args.objects),
         FilesWell, PlanInv', [Next]_vars
  PROVE  phase' \in Phases /\ outcome' \in Outcomes /\ loads' \in 0..Len(Args'.objects)
<1>0. /\ "ok" \in Outcomes
      /\ "source" \in Phases /\ "place" \in Phases /\ "local" \in Phases /\ "load" \in Phases
      /\ "values" \in Phases /\ "assemble" \in Phases /\ "done" \in Phases
  BY DEF Phases, Outcomes
<1>1. plan' = plan
  BY PlanSteps
<1>2. CASE Keeps
  BY <1>1, <1>2 DEF Keeps, Args
<1>3. CASE EndSource \/ Allocate \/ PlaceFunction \/ PlaceShared \/ PlaceConstant
  BY <1>0, <1>3 DEF EndSource, Allocate, PlaceFunction, PlaceShared, PlaceConstant, planVars,
                    outVars, Args
<1>4. CASE Exposes \/ AssignValuesToLocalLabels \/ Links \/ UpdateFunctionLabels \/ Binds
  BY <1>0, <1>1, <1>4 DEF Exposes, AssignValuesToLocalLabels, Links, UpdateFunctionLabels,
                          Binds, planVars, outVars, Args
<1>5. CASE LoadObj
  <2>1. /\ loads < Len(Args.objects) /\ loads' = loads + 1
        /\ phase' = phase /\ outcome' = outcome /\ Args' = Args
    BY <1>5 DEF LoadObj, planVars, outVars, Args
  <2> QED BY <2>1
<1>6. CASE SaveObj \/ Assemble
  <2>1. phase' = "source" \/ phase' = "done"
    BY <1>6 DEF SaveObj, Assemble, Succeed
  <2>2. IsSeq(Args'.objects)
    <3>1. step' \in DOMAIN plan
      BY <1>1 DEF PlanInv
    <3> QED BY <1>1, <3>1 DEF FilesWell, Args
  <2>3. Len(Args'.objects) \in Nat
    BY <2>2, DomainOfSeq
  <2>4. outcome' = "ok" /\ loads' = 0
    BY <1>6 DEF SaveObj, Assemble, Succeed
  <2> QED BY <1>0, <2>1, <2>3, <2>4
<1> QED BY <1>2, <1>3, <1>4, <1>5, <1>6, TypeSteps

LEMMA ProgramStep ==
  ASSUME PlanInv, Chain(disk, buffers), ReaderInv, TypeInv, [Next]_vars
  PROVE  ProgramWell'
<1>1. ProgramWell /\ TreeWell /\ tempOffset \in Nat
  BY DEF TypeInv, ProgramWell, CountsWell
<1>2. LocalsEndInData' <=> LocalsEndInData
  BY TreeStep DEF TypeInv
<1>3. placed.functions \in Nat /\ placed.shared \in Nat /\ placed.constants \in Nat
  BY DEF TypeInv, CountsWell, Counted
<1>4. CASE PlaceFunction \/ PlaceShared \/ PlaceConstant
  BY <1>1, <1>2, <1>3, <1>4, PlaceProgram
<1> QED
  BY <1>1, <1>2, <1>4, TypeSteps, KeepsProgram, SourceProgram, PassesProgram, LoadProgram,
     UpdateProgram, EndProgram

LEMMA TypeStep ==
  ASSUME PlanInv, PlanInv', Chain(disk, buffers), ReaderInv, TypeInv, [Next]_vars
  PROVE  TypeInv'
<1>1. FilesWell' /\ TreeWell' /\ (LocalsEndInData' <=> LocalsEndInData)
  BY TreeStep DEF TypeInv
<1>2. ProgramWell'
  BY ProgramStep
<1>3. ProgramWell /\ Within /\ TreeWell /\ FilesWell
  BY DEF TypeInv, ProgramWell, CountsWell, Within
<1>4. /\ phase \in Phases /\ outcome \in Outcomes /\ loads \in 0..Len(Args.objects)
      /\ loc.line \in Nat /\ tempOffset \in Nat
  BY DEF TypeInv, CountsWell
<1>5. Within' /\ tempOffset' \in Nat
  BY <1>1, <1>2, <1>3, <1>4, WithinStep
<1>6. phase' \in Phases /\ outcome' \in Outcomes /\ loads' \in 0..Len(Args'.objects)
  BY <1>3, <1>4, PhaseStep
<1>7. loc'.line \in Nat
  BY <1>4, LocStep
<1>8. CountsWell'
  BY <1>5, <1>6, <1>7 DEF CountsWell, Within
<1> QED BY <1>1, <1>2, <1>8 DEF TypeInv, ProgramWell

LEMMA TypeAlways == Spec => [](TypeInv /\ IncludeInv /\ ReaderInv)
<1>1. TypeInv /\ IncludeInv /\ ReaderInv /\ IncludeInv' /\ [Next]_vars => TypeInv'
  <2> SUFFICES ASSUME TypeInv, IncludeInv, ReaderInv, IncludeInv', [Next]_vars
               PROVE  TypeInv'
    OBVIOUS
  <2>1. PlanInv /\ PlanInv' /\ Chain(disk, buffers)
    BY DEF IncludeInv
  <2> QED BY <2>1, TypeStep
<1> QED BY <1>1, TypeInit, IncludeAlways, PTL DEF Spec

\* Whatever is assembled, the counters of the assembler stay within what they count
\* and what it works with keeps its shape: every local, every name of the table and
\* everything in an image has a place that is a natural number, through every pass,
\* every object written and every object read back (Backend::emit, ObjHandler,
\* Linker::rebuildOffsets).  The locals have one unless a function ends in a label
\* with nothing behind it, which the grammar accepts.
THEOREM TypeCorrect == Spec => [](LocalsEndInData => TypeOK)
<1>1. TypeInv /\ IncludeInv /\ ReaderInv => (LocalsEndInData => TypeOK)
  BY TypeInvMeans DEF IncludeInv
<1> QED BY <1>1, TypeAlways, PTL
=============================================================================
