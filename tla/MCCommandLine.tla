---------------------------- MODULE MCCommandLine ----------------------------
(* Two workflows that lint, some that do not, and three test files.          *)
EXTENDS CommandLine

CONSTANTS A, B, C, x, hot, Hot, cold, said, saidEscaped, noted, goalA, goalB, GOALA, goalC, vague, garbled

MCEntities == {A, B, C}
\* C is an Assessment.
MCBegins == [e \in MCEntities |-> IF e = C THEN "assess" ELSE ""]
MCAttributes == {x}
MCWords == {hot, Hot, cold, said, noted}
MCEscaped == [w \in MCWords |-> IF w = said THEN saidEscaped ELSE w]
MCExprs == {goalA, goalB, GOALA, goalC, vague, garbled}
MCFold == [e \in MCWords \cup MCExprs \cup {saidEscaped} |->
             IF e \in {said, saidEscaped, noted} THEN "other" ELSE IF e = Hot THEN "hot" ELSE IF e = hot THEN "hot" ELSE IF e = cold THEN "cold"
             ELSE IF e \in {goalA, GOALA} THEN "goal a" ELSE IF e = goalB THEN "goal b"
             ELSE IF e = goalC THEN "goal a for c" ELSE "vague"]
MCInside == {<<"goal a", "goal a for c">>}

V(num, rank, fold, type) ==
  [num |-> num, rank |-> rank, fold |-> fold, point |-> FALSE, type |-> type, marks |-> 0, cut |-> FALSE]
Nine == V(9, 3, "9", "number")
NineText == V(9, 3, "9", "text")
Ten == V(10, 1, "10", "number")
TenPoint == [V(10, 2, "10.0", "number") EXCEPT !.point = TRUE]
High == V(None, 4, "high", "text")
HIGH == V(None, 0, "high", "text")
Yes == V(None, 5, "true", "bool")
Quotation == [V(None, 6, "said", "text") EXCEPT !.marks = 1]
Link == [V(None, 7, "link", "text") EXCEPT !.cut = TRUE]
MCValues == {Nine, NineText, Ten, TenPoint, High, HIGH, Yes, Quotation, Link}

MCMentions == [e \in MCExprs |-> IF e \in {goalA, GOALA} THEN {A} ELSE IF e = goalB THEN {B}
                                 ELSE IF e = goalC THEN {A, C} ELSE {}]
MCVague == {vague}
MCMute == {vague}

Def(e) == Line(<<Key("define"), Word(e), Key("as"), Quoted(e)>>)
Has(e, v) == Line(<<Word(e), Key("has"), Word(x), Key("of"), Word(v)>>)
Attr(e, v) == Line(<<Word(e), Word(x), Key("is"), Word(v)>>)
Is(e, w) == Line(<<Word(e), Key("is"), Quoted(w)>>)
Goal1(g) == Line(<<Key("ensure"), Word(g)>>)
If(c, act) == Line(<<Key("if"), Word(c), Key("then ensure"), Word(act)>>)
Open(line) == [line EXCEPT !.dot = FALSE]

Plain == <<Def(A), Def(C), Has(A, Ten), Goal1(goalA), Is(A, cold), Goal1(goalC)>>
Ruled == <<Def(A), Attr(A, Nine), Has(A, High), Line(<<Word(B), Word(x), Key("is"), Quoted(Nine)>>), If(goalA, vague), Goal1(vague)>>
Undefined == <<Def(A), Goal1(goalA), Line(<<Key("assess"), Word(B), Key("for"), Word(goalB)>>)>>
Repeated == <<Def(A), Open(Def(A)), Line(<<>>), If(goalB, goalA), Line(<<Key("execute"), Word(goalA)>>)>>
Related == <<Line(<<Key("relate"), Word(A), Key("and"), Word(B), Key("as"), Quoted(x)>>),
             Line(<<Key("determine"), Word(A), Key("label"), Key("as"), Quoted(hot)>>), Goal1(vague)>>
Empty == <<Line(<<Key("nothing")>>)>>
Unended == <<Def(A), Open(Goal1(goalA))>>
Awkward == <<Is(C, hot)>>

MCSources == {Plain, Ruled, Undefined, Repeated, Related, Empty, Unended, Awkward}

Sets(attr, v, words) == [sets |-> <<<<attr, v>>>>, words |-> words]
Both(a, v, b, w, words) == [sets |-> <<<<a, v>>, <<b, w>>>>, words |-> words]
MCReplies == {Both(<<A, x>>, High, <<C, x>>, NineText, {<<A, Hot>>}), [sets |-> <<>>, words |-> {<<C, hot>>}],
              Both(<<B, x>>, Yes, <<C, x>>, Quotation, {<<A, said>>}), Sets(<<B, x>>, Link, {<<B, noted>>}), Silence}

Blank == [name |-> "lint", audit |-> FALSE, seed |-> FALSE, save |-> FALSE, strict |-> FALSE,
          output |-> FALSE, noLint |-> FALSE, failFast |-> FALSE, step |-> FALSE, maxIter |-> 25, paths |-> <<>>, tags |-> {}, mode |-> None]

\* The test files.  The workflow "flow" lies beside them, "pipe" above them.
Form(says, of) == [says |-> says, of |-> of, op |-> "", value |-> None, quoted |-> TRUE]
Check(of, op, v) == [Form("attribute", of) EXCEPT !.op = op, !.value = v]
Item(kw, of) == [is |-> "line", of |-> At(kw, of)]
Given(line) == [is |-> "line", of |-> [At("given", line) EXCEPT !.rl = Line(<<Key("given")>> \o line.words)]]
Says(reply) == Item("respond", [file |-> FALSE, of |-> reply])
SaysFile(name) == Item("respond", [file |-> TRUE, of |-> name])
Path(name) == [is |-> "path", of |-> name]
Block(text) == [is |-> "block", of |-> text]
Test1(items) == [is |-> "case", of |-> items]

MCAbove == [d \in {"here", "tests"} |-> IF d = "tests" THEN <<"root">> ELSE <<>>]
Heat == [sets |-> <<>>, words |-> {<<A, Hot>>}]
MCPlaced == [p \in {<<"tests", "flow">>, <<"root", "pipe">>, <<"root", "reply">>, <<"here", "other">>, <<"tests", "other">>} |->
              IF p[2] = "flow" THEN Plain ELSE IF p[2] = "pipe" THEN Plain ELSE IF p[2] = "reply" THEN Heat
              ELSE IF p[1] = "here" THEN Ruled ELSE Undefined]

Passes == Test1(<<Item("tags", {"smoke"}), Given(Has(A, HIGH)), Given(Attr(B, TenPoint)), Says(Heat),
                  Item("expect", Form("run succeeds", None)), Item("expect", Form("is", <<A, hot>>)),
                  Item("expect", Check(<<A, x>>, "equals", High)), Item("expect", Form("goal is achieved", GOALA)),
                  Item("expect", Check(<<B, x>>, ">", Nine))>>)
Fails == Test1(<<Given(Has(A, HIGH)), SaysFile("reply"), Item("expect", Check(<<A, x>>, "!=", HIGH))>>)
Json == Test1(<<Item("output_mode", "json"), Item("max_iter", 1), Says(Sets(<<B, x>>, TenPoint, {<<B, hot>>})),
                Item("expect", Form("run fails", None)), Item("expect", Form("is not", <<A, hot>>)),
                Item("expect", Check(<<A, x>>, "exists", None)), Item("expect", Form("entity exists", B)),
                Item("expect", Form("goal exists", goalC))>>)
Staged1 == Test1(<<Path("pipe"), Given(Is(A, hot)), Given(Has(B, Nine)),
                   Item("expect", Form("goal is failed", goalA)), Item("expect", Form("entity does not exist", C))>>)
Skipped == Test1(<<Item("tags", {"slow"}), Item("skip", None)>>)
Own == Test1(<<Path("other"), Given(Has(A, Nine)), Says(Heat), Item("expect", Form("goal exists", vague))>>)
Inline == Test1(<<Path("other"), Block(Unended), Given(Has(A, Nine)), Given(Has(B, Nine)), Says(Heat)>>)
Nowhere == Test1(<<Path("nowhere"), SaysFile("nowhere")>>)
Awkward1 == Test1(<<Given(Is(C, hot)), Says(Silence)>>)

File(decl) == [dir |-> "tests", decl |-> decl, lines |-> Printed(decl)]
\* An `end` is missing: the block takes the case's, and the file ends in the case.
Forgot == [dir |-> "tests", decl |-> <<>>,
           lines |-> <<At("test", None), At("workflow", None), TextLine(Def(A)), TextLine(Goal1(goalA)),
                       Given(Has(A, Nine)).of, At("expect", Form("run fails", None)), At("end", None)>>]
Unclosed == [Forgot EXCEPT !.lines = SubSeq(@, 1, 6)]
Unread == [Forgot EXCEPT !.lines = <<At("test", None), [At("respond", None) EXCEPT !.ok = FALSE]>>]

Found(suites) == [kind |-> "file", files |-> suites]
Good == Found(<<File(<<Path("flow"), Passes, Skipped>>)>>)
Mixed == [kind |-> "directory", files |-> <<File(<<Path("flow"), Fails, Passes>>), File(<<Path("flow"), Json, Staged1>>)>>]
Layered == Found(<<File(<<Block(Plain), Path("pipe"), Own, Json, Path("flow"), Inline, Passes, Block(Ruled), Awkward1>>)>>)
Errs == Found(<<File(<<Nowhere, Path("flow"), Json>>)>>)
NoSuite == Found(<<Unclosed>>)
Bad == Found(<<Forgot, Unread>>)
Bare == [kind |-> "directory", files |-> <<>>]
Gone == [kind |-> "missing", files |-> <<>>]

Test(paths, failFast, tags) ==
  [Blank EXCEPT !.name = "test", !.paths = paths, !.failFast = failFast, !.tags = tags]

MCCommands ==
  <<Blank, [Blank EXCEPT !.strict = TRUE], [Blank EXCEPT !.name = "inspect"],
    [Blank EXCEPT !.name = "version"], [Blank EXCEPT !.name = "debug", !.step = TRUE],
    [Blank EXCEPT !.name = "debug", !.maxIter = 1], [Blank EXCEPT !.name = "run", !.audit = TRUE, !.maxIter = 1], [Blank EXCEPT !.name = "run", !.save = TRUE],
    [Blank EXCEPT !.name = "run", !.seed = TRUE],
    [Blank EXCEPT !.name = "pipelineRun", !.audit = TRUE], [Blank EXCEPT !.name = "pipelineRun", !.seed = TRUE],
    [Blank EXCEPT !.name = "pipelineDebug"],
    [Blank EXCEPT !.name = "generate", !.output = TRUE],
    [Blank EXCEPT !.name = "generate", !.output = TRUE, !.noLint = TRUE],
    Test(<<Good>>, FALSE, {}), Test(<<Mixed>>, FALSE, {}), Test(<<Good, Errs>>, FALSE, {}),
    Test(<<Errs, NoSuite>>, FALSE, {}), Test(<<Bare>>, FALSE, {}), Test(<<Good, Gone>>, FALSE, {}),
    Test(<<Layered>>, FALSE, {}), Test(<<Bad>>, FALSE, {}),
    Test(<<Mixed, Errs>>, TRUE, {}), Test(<<Good, Mixed>>, FALSE, {"slow"}), Test(<<Good>>, TRUE, {"smoke"}),
    [Test(<<Mixed>>, FALSE, {}) EXCEPT !.mode = "json"]>>
=============================================================================
