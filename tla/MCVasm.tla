------------------------------- MODULE MCVasm -------------------------------
(* Two families of builds: every way two small files can include each      *)
(* other, and programs of two files that refer to themselves and to each   *)
(* other, assembled together or through object files.                      *)
EXTENDS Vasm

MCNames == {"m", "l", "a", "b", "./a", "gone"}
MCDirectory == [n \in MCNames |-> "."]
MCFile == [n \in MCNames |-> IF n = "./a" THEN "a" ELSE IF n = "gone" THEN NoFile ELSE n]

Disk(contents) == contents @@ [f \in {"m", "l", "a", "b"} |-> <<>>]

Direct(sources) == [sources |-> sources, objects |-> <<>>, output |-> "out",
                    onlyCompile |-> FALSE, usingTemps |-> FALSE, omitFP |-> FALSE]
With(sources, objs) == [Direct(sources) EXCEPT !.objects = objs]
Compile(name, output) ==
  [Direct(<<name>>) EXCEPT !.onlyCompile = TRUE, !.output = output]
OmitFP(p)  == [i \in DOMAIN p |-> [p[i] EXCEPT !.omitFP = TRUE]]
Temps(p)   == [i \in DOMAIN p |-> [p[i] EXCEPT !.usingTemps = TRUE]]

-----------------------------------------------------------------------------
(* Includes.                                                               *)
Incl(name) == [is |-> "include", name |-> name]
Label(name, isConst, isShared) ==
  [label |-> <<name>>, const |-> isConst, shared |-> isShared, cells |-> <<>>, offset |-> 0]
Datum(cells) ==
  [label |-> <<>>, const |-> FALSE, shared |-> FALSE, cells |-> cells, offset |-> 0]
Cell(id, size) == [id |-> id, size |-> size]
Globals(data) == [is |-> "globals", vars |-> data]

Lines(f) ==
  {Incl("a"), Incl("b"), Incl("./a"),
   Globals((IF f = "a" THEN <<Label(f, FALSE, FALSE)>> ELSE <<>>)
             \o <<Datum(<<Cell(<<f>>, 1)>>)>>)}
Contents(f) == SeqOf(Lines(f), 2) \cup {<<Incl("gone")>>}

Inclusions ==
  {[disk |-> Disk("a" :> a @@ "b" :> b), plan |-> <<Direct(sources)>>] :
     a \in Contents("a"), b \in Contents("b"), sources \in {<<"a">>, <<"b", "a">>}}

-----------------------------------------------------------------------------
(* Programs.                                                               *)
Plain(type) == [type |-> type, scale |-> 4, label |-> <<>>, temp |-> FALSE,
                val |-> 0, base |-> "", rel |-> 0]
R1 == Plain("REG")
Temp1 == [R1 EXCEPT !.temp = TRUE]
Imm(scale) == [Plain("IMMED") EXCEPT !.scale = scale]
Ref(type, name) == [Plain(type) EXCEPT !.label = <<name>>]

Stmt(op, args) == [op |-> op, id |-> <<>>, label |-> <<>>, args |-> args, offset |-> 0]
Place(name) == [Stmt("label", <<>>) EXCEPT !.label = <<name>>]

Fn(name, params, locals, stmts) ==
  [is |-> "function", name |-> <<name>>, params |-> params, locals |-> locals,
   stmts |-> [i \in DOMAIN stmts |-> [stmts[i] EXCEPT !.id = <<name, i>>]]]
Proto(name, params) == [is |-> "prototype", name |-> <<name>>, params |-> params]

Kept(f) == <<Label("kept", FALSE, TRUE), Datum(<<Cell(<<f, "kept", 1>>, 4)>>),
             Label("fixed", TRUE, FALSE), Datum(<<Cell(<<f, "fixed", 1>>, 1)>>)>>
Stacked(f) == <<Label("near", FALSE, FALSE), Datum(<<Cell(<<f, "near", 1>>, 4)>>),
                Label("far", FALSE, FALSE), Datum(<<Cell(<<f, "far", 1>>, 8)>>)>>

(* What a statement may refer to: of its function, and of either file.     *)
Ahead  == {Stmt("IFNJ", <<Ref("IMMED", "out")>>)}
Inside == Ahead \cup {Stmt("MOV", <<Ref("DIRECT", "kept"), R1>>),
                     Stmt("ADD", <<R1, Ref("DIRECT", "near")>>),
                     Stmt("IFEQJ", <<Ref("IMMED", "again"), R1, R1>>)}
OfM == {Stmt("ADD", <<Imm(1), Ref("DIRECT", "total")>>), Stmt("JMP", <<Ref("IMMED", "main")>>)}
OfL == {Stmt("MOV", <<Ref("IMMED", "table"), R1>>), Stmt("JSR", <<Ref("IMMED", "f"), R1>>)}

(* main stands behind another function, and is moved before it.            *)
MFile(s, t) ==
  <<Globals(<<Label("total", FALSE, FALSE), Datum(<<Cell(<<"m", "total", 1>>, 4), Cell(<<"m", "total", 2>>, 1)>>)>>),
    Fn("aside", 0, <<>>, <<Stmt("NOT", <<R1>>), Stmt("RET", <<>>)>>),
    Fn("main", 0, Stacked("main") \o Kept("main"),
       <<Place("again"), s, Stmt("MOV", <<Ref("DIRECT", "far"), Ref("DIRECT", "near")>>), t,
         Place("out"), Stmt("HALT", <<>>)>>)>>

LFile(s) ==
  <<Globals(<<Label("table", TRUE, FALSE), Datum(<<Cell(<<"l", "table", 1>>, 1)>>), Datum(<<Cell(<<"l", "table", 2>>, 4)>>)>>),
    Fn("f", 1, Kept("f") \o Stacked("f"),
       <<Place("again"), Stmt("INCR", <<Ref("DIRECT", "far")>>), s, Place("out"),
         Stmt("MOV", <<Ref("DIRECT", "fixed"), R1>>), Stmt("RET", <<R1>>)>>)>>

Program(m, l) == Disk("m" :> m @@ "l" :> l)

(* Assembled together, each may refer to both; an object refers to itself  *)
(* only, and what is linked with it to both.                               *)
Together(p) ==
  {[disk |-> Program(MFile(s, t), LFile(u)), plan |-> p] :
     s \in Inside \cup OfM \cup OfL, t \in Ahead \cup OfL, u \in Inside \cup OfM \cup OfL}
FirstL(p) ==
  {[disk |-> Program(MFile(s, t), LFile(u)), plan |-> p] :
     s \in Inside \cup OfM \cup OfL, t \in Ahead \cup OfL, u \in Inside \cup OfL}
FirstM(p) ==
  {[disk |-> Program(MFile(s, t), LFile(u)), plan |-> p] :
     s \in Inside \cup OfM, t \in Ahead, u \in Inside \cup OfM \cup OfL}
Apart(p) ==
  {[disk |-> Program(MFile(s, t), LFile(u)), plan |-> p] :
     s \in Inside \cup OfM, t \in Ahead, u \in Inside \cup OfL}

CompileL == Compile("l", "l.o")
CompileM == Compile("m", "m.o")

Programs ==
  Together(<<Direct(<<"m", "l">>)>>) \cup Together(Temps(<<Direct(<<"l", "m">>)>>))
  \cup Together(OmitFP(<<Direct(<<"l", "m">>)>>))
  \cup FirstL(<<CompileL, With(<<"m">>, <<"l.o">>)>>)
  \cup FirstL(OmitFP(Temps(<<CompileL, With(<<"m">>, <<"l.o">>)>>)))
  \cup FirstM(<<CompileM, With(<<"l">>, <<"m.o">>)>>)
  \cup Apart(<<CompileM, CompileL, With(<<>>, <<"m.o", "l.o">>)>>)
  \cup Apart(<<CompileL, CompileM, With(<<>>, <<"m.o", "l.o">>)>>)

-----------------------------------------------------------------------------
(* Programs that something is wrong with.                                  *)
Only(stmts) == Disk("m" :> <<Fn("main", 0, <<>>, stmts)>>)
Halt == Stmt("HALT", <<>>)
Alone == <<Direct(<<"m">>)>>
Of(d, p) == [disk |-> d, plan |-> p]

Wrong ==
  {Of(Only(<<Halt>>), <<Direct(<<"gone">>)>>),
   Of(Only(<<Place("x"), Place("x"), Halt>>), Alone),
   Of(Only(<<Stmt("INCR", <<Imm(4)>>)>>), Alone),
   Of(Only(<<Stmt("MOV", <<Temp1, R1>>)>>), Alone),
   Of(Only(<<Stmt("MOV", <<Temp1, R1>>)>>), Temps(Alone)),
   Of(Only(<<Stmt("JMP", <<Ref("IMMED", "nowhere")>>)>>), Alone),
   Of(Program(MFile(Halt, Stmt("JSR", <<Ref("IMMED", "f")>>)), LFile(Halt)),
      Temps(<<Direct(<<"m", "l">>)>>)),
   Of(Program(MFile(Halt, Halt), MFile(Halt, Halt)), <<Direct(<<"m", "l">>)>>),
   Of(Program(MFile(Halt, Halt), MFile(Halt, Halt)), <<CompileL, With(<<"m">>, <<"l.o">>)>>),
   Of(Only(<<Stmt("MOV", <<Imm(1), R1>>), Halt>>), <<CompileM, With(<<>>, <<"m.o">>)>>),
   Of(Only(<<Stmt("MOV", <<Imm(8), R1>>), Halt>>), <<CompileM, With(<<>>, <<"m.o">>)>>),
   Of(Disk("m" :> <<Proto("g", 0), Proto("h", 0)>>), <<CompileM, With(<<>>, <<"m.o">>)>>)}

\* What the theorem about whole images asks of sources is met by all that run well.
ASSUME \A b \in Inclusions \cup Programs : \A f \in DOMAIN b.disk : \A i \in DOMAIN b.disk[f] :
         b.disk[f][i].is # "include" => Fresh(b.disk[f][i])

\* What the theorem about locals asks is met too: an id stands for one thing.
ASSUME \A b \in Programs : \A f, g \in DOMAIN b.disk :
         \A i \in DOMAIN b.disk[f], j \in DOMAIN b.disk[g] :
           /\ IsInjective(IdsOf(b.disk[f][i]))
           /\ Range(IdsOf(b.disk[f][i])) \cap Range(IdsOf(b.disk[g][j])) # {} => <<f, i>> = <<g, j>>

MCBuilds == Inclusions \cup Programs \cup Wrong

Push == [Stmt("PUSH", <<R1>>) EXCEPT !.id = <<"added">>]
MCPrologues == {<<>>, <<Push>>}
=============================================================================
