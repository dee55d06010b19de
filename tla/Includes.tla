------------------------------ MODULE Includes ------------------------------
(***************************************************************************)
(* How a source is read: the stack of open files of the lexer              *)
(* (openFirstFile, openIncludeFile, closeIncludeFile) and, beside it, the  *)
(* branch of the IncludesTree from the current node to the head, each node *)
(* knowing from where it was included.                                     *)
(*                                                                         *)
(* A file is a sequence of lines, a line an inclusion or a definition of   *)
(* the program.  What a name opens depends on nothing but the name and the *)
(* include directories: Directory[name] is where it was found, and disk    *)
(* the contents.                                                           *)
(***************************************************************************)
EXTENDS Integers, Sequences

CONSTANTS
  Names,       \* every name a source is opened or included by
  Directory,   \* the directory the name is found in ("." or an include dir)
  File,        \* the file it is there; two names may be one file
  NoFile       \* File[name] when no directory has the name

ASSUME IncludesAssumption == /\ DOMAIN Directory = Names
                             /\ DOMAIN File = Names

VARIABLES
  disk,      \* file -> its lines
  buffers,   \* includesStack: the open files and how many lines were read
  nodes,     \* from the head of the tree to current: path, name, parent (YYLTYPE)
  loc,       \* yylloc: the node and the line of what is being read
  tree       \* the ASTL_Tree: the definitions read so far, each at its loc

readerVars == <<buffers, nodes, loc, tree>>

Top(q) == q[Len(q)]
Popped(q) == SubSeq(q, 1, Len(q) - 1)

Node(name, parent) == [path |-> Directory[name], name |-> name, parent |-> parent]

Nowhere == [path |-> "", name |-> "", line |-> 0]

\* The first line of a file.
StartOf(name) == [path |-> Directory[name], name |-> name, line |-> 1]

\* A file that was just opened is at its first line; of another the newline
\* that ends the line before is read first.
NextLoc ==
  IF Top(buffers).at = 0 THEN loc ELSE [loc EXCEPT !.line = @ + 1]

IsInParents(name) ==
  \E i \in DOMAIN nodes : nodes[i].path = Directory[name] /\ nodes[i].name = name

Unread == Top(buffers).at < Len(disk[File[Top(buffers).name]])
NextLine == disk[File[Top(buffers).name]][Top(buffers).at + 1]

\* One more line of the file on top was read.
Advanced == [buffers EXCEPT ![Len(buffers)].at = @ + 1]

-----------------------------------------------------------------------------

\* openFirstFile, on a file that exists.
OpenFirstFile(name) ==
  /\ File[name] # NoFile
  /\ buffers' = <<[name |-> name, at |-> 0]>>
  /\ nodes' = <<Node(name, Nowhere)>>
  /\ loc' = StartOf(name)
  /\ tree' = <<>>

\* A definition: the parser adds it to the tree.
ReadDefinition ==
  /\ buffers # <<>>
  /\ Unread
  /\ NextLine.is # "include"
  /\ buffers' = Advanced
  /\ loc' = NextLoc
  /\ tree' = Append(tree, [def |-> NextLine, loc |-> NextLoc])
  /\ UNCHANGED nodes

\* The line that includes is read again afterwards.
OpenWithoutAdvance ==                                                 (* mutant *)
  /\ buffers # <<>>
  /\ Unread
  /\ NextLine.is = "include"
  /\ File[NextLine.name] # NoFile
  /\ ~IsInParents(NextLine.name)
  /\ nodes' = Append(nodes, Node(NextLine.name, NextLoc))
  /\ buffers' = Append(buffers, [name |-> NextLine.name, at |-> 0])
  /\ loc' = StartOf(NextLine.name)
  /\ UNCHANGED tree

\* openIncludeFile: the file exists and does not include itself.
OpenIncludeFile ==
  /\ buffers # <<>>
  /\ Unread
  /\ NextLine.is = "include"
  /\ File[NextLine.name] # NoFile
  /\ ~IsInParents(NextLine.name)
  /\ nodes' = Append(nodes, Node(NextLine.name, NextLoc))
  /\ buffers' = Append(Advanced, [name |-> NextLine.name, at |-> 0])
  /\ loc' = StartOf(NextLine.name)
  /\ UNCHANGED tree

\* The two ways an inclusion ends the assembler.
MissingInclude ==
  /\ buffers # <<>>
  /\ Unread
  /\ NextLine.is = "include"
  /\ File[NextLine.name] = NoFile

CircularInclude ==
  /\ buffers # <<>>
  /\ Unread
  /\ NextLine.is = "include"
  /\ File[NextLine.name] # NoFile
  /\ IsInParents(NextLine.name)

\* The tree stays at the file that ends.
CloseWithoutExit ==                                                   (* mutant *)
  /\ Len(buffers) > 1
  /\ ~Unread
  /\ buffers' = Popped(buffers)
  /\ loc' = Top(nodes).parent
  /\ UNCHANGED <<nodes, tree>>

\* The location stays in the file that ends.
CloseWithoutReturn ==                                                 (* mutant *)
  /\ Len(buffers) > 1
  /\ ~Unread
  /\ buffers' = Popped(buffers)
  /\ nodes' = Popped(nodes)
  /\ UNCHANGED <<loc, tree>>

\* closeIncludeFile at the end of an included file: back to the line that
\* included it.
CloseIncludeFile ==
  /\ Len(buffers) > 1
  /\ ~Unread
  /\ buffers' = Popped(buffers)
  /\ loc' = Top(nodes).parent
  /\ nodes' = IF Len(nodes) > 1 THEN Popped(nodes) ELSE nodes
  /\ UNCHANGED tree

\* closeIncludeFile at the end of the source itself, where reading stops.  The
\* tree of includes is left as it is.
CloseFirstFile ==
  /\ Len(buffers) = 1
  /\ ~Unread
  /\ buffers' = <<>>
  /\ UNCHANGED <<nodes, loc, tree>>
=============================================================================
