------------------------------- MODULE TestFile -------------------------------
(***************************************************************************)
(* A .rl.test file, read line by line into its cases.                      *)
(*                                                                         *)
(* A line is [kw, of, ok, rl]: its keyword ("rl" where it is the text of a *)
(* workflow), what follows, whether that can be read (a comment sign cuts  *)
(* a quoted text), and how the line reads as a line of RelateLang.         *)
(***************************************************************************)
EXTENDS TestCase

CONSTANTS
  Cwd,       \* the directory the command is run in
  Above,     \* directory -> the directories above it, the nearest first
  Placed,    \* <<directory, name>> -> what the file of that name says
  Pipelines  \* the names that end in .yaml

-----------------------------------------------------------------------------
(* The statements.                                                         *)

\* CompareOp: the operators a comparison may have.
Operators == {"==", "!=", ">", ">=", "<", "<="}

\* _parse_expect and its sub-parsers: a form they do not know raises.
Readable(line) ==
  /\ line.ok
  /\ line.kw = "output_mode" => line.of \in {"auto", "json", "rl"}
  /\ line.kw = "max_iter" => line.of \in Int
  /\ line.kw = "expect" =>
       /\ line.of.says = "attribute" => line.of.op \in Operators \cup {"", "exists", "equals"}
       /\ line.of.says = "is not" => line.of.quoted

\* _parse_expect_attribute: "equals" and "==" are one kind, the other operators another.
Expectation(form) ==
  [kind |-> IF form.says # "attribute" THEN form.says
            ELSE IF form.op \in {"", "exists"} THEN "attribute exists"
            ELSE IF form.op \in {"equals", "=="} THEN "equals" ELSE "compare",
   of |-> form.of, op |-> form.op, value |-> form.value]

-----------------------------------------------------------------------------
(* The file.  `at` is where the reader is: at the top, in a case, or in an  *)
(* inline block of either; path and inline are the workflow the file        *)
(* declares so far for the cases that do not.                               *)

NewCase(path, inline) ==
  [path |-> path, inline |-> inline, givens |-> <<>>, script |-> <<>>, expects |-> {}, tags |-> {},
   skip |-> FALSE, mode |-> "rl", maxIter |-> 25]

NothingRead ==
  [at |-> "top", path |-> None, inline |-> <<>>, block |-> <<>>, case |-> NewCase(None, <<>>), cases |-> <<>>]

\* _parse_inline_block: everything up to the next `end` belongs to it.
InBlock(file, line) ==
  IF line.kw # "end" THEN [file EXCEPT !.block = Append(@, line.rl)]
  ELSE IF file.at = "top block" THEN [file EXCEPT !.at = "top", !.inline = file.block]
  ELSE [file EXCEPT !.at = "case", !.case.inline = file.block, !.case.path = None]

\* _parse_file.  An inline block stays when a path is declared after it.
AtTop(file, line) ==
  IF line.kw = "workflow" /\ line.of = None THEN [file EXCEPT !.at = "top block", !.block = <<>>]
  ELSE IF line.kw = "workflow" /\ line.of # "end" THEN [file EXCEPT !.path = line.of]
  ELSE IF line.kw = "test" THEN [file EXCEPT !.at = "case", !.case = NewCase(file.path, file.inline)]
  ELSE [file EXCEPT !.at = "raised"]

\* Mutant: a case's own path leaves it the file's inline block.
OwnPathOnly(file, name) == [file EXCEPT !.case.path = name]

\* A case's own path replaces the workflow it inherited.
OwnPath(file, name) == [file EXCEPT !.case.path = name, !.case.inline = <<>>]

\* _parse_test_case.
InCase(file, line) ==
  CASE line.kw = "end" -> [file EXCEPT !.at = "top", !.cases = Append(@, file.case)]
    [] line.kw = "workflow" -> IF line.of = None THEN [file EXCEPT !.at = "case block", !.block = <<>>]
                               ELSE OwnPath(file, line.of)
    [] line.kw = "tags" -> [file EXCEPT !.case.tags = line.of]
    [] line.kw = "skip" -> [file EXCEPT !.case.skip = TRUE]
    [] line.kw = "output_mode" -> [file EXCEPT !.case.mode = line.of]
    [] line.kw = "max_iter" -> [file EXCEPT !.case.maxIter = line.of]
    [] line.kw = "given" -> [file EXCEPT !.case.givens = Append(@, line.of)]
    [] line.kw = "respond" -> [file EXCEPT !.case.script = Append(@, line.of)]
    [] line.kw = "expect" -> [file EXCEPT !.case.expects = @ \cup {Expectation(line.of)}]
    [] OTHER -> [file EXCEPT !.at = "raised"]

Read(file, line) ==
  CASE file.at = "raised" -> file
    [] file.at \in {"top block", "case block"} -> InBlock(file, line)
    [] file.at = "top" -> IF Readable(line) THEN AtTop(file, line) ELSE [file EXCEPT !.at = "raised"]
    [] file.at = "case" -> IF Readable(line) THEN InCase(file, line) ELSE [file EXCEPT !.at = "raised"]

\* TestFileParser.parse.  A case needs no `end` at the end of the file, a block does.
ParsedFile(lines) ==
  LET file == FoldLeft(Read, NothingRead, lines)
  IN [broken |-> file.at \in {"raised", "top block", "case block"},
      cases |-> IF file.at = "case" THEN Append(file.cases, file.case) ELSE file.cases]

-----------------------------------------------------------------------------
(* What a case names is looked up when it is run.                          *)

\* _resolve_path: the working directory before the file's own and those above it.
Resolved(name, dir) ==
  LET places == <<Cwd, dir>> \o Above[dir]
      i == SelectInSeq(places, LAMBDA d : <<d, name>> \in DOMAIN Placed)
  IN IF i = 0 THEN None ELSE Placed[<<places[i], name>>]

\* _resolve_rl_source: a pipeline's file before an inline block, a block before a path.
Workflow(case, dir) ==
  IF case.path \notin Pipelines /\ case.inline # <<>> THEN case.inline
  ELSE IF case.path = None THEN None ELSE Resolved(case.path, dir)

\* _build_mock_provider.
Script(case, dir) ==
  [i \in DOMAIN case.script |->
     IF case.script[i].file THEN Resolved(case.script[i].of, dir) ELSE case.script[i].of]

\* The case as it is run; `mode` overrides its own.
Loaded(case, dir, mode) ==
  LET text == Workflow(case, dir)
      script == Script(case, dir)
  IN [raises |-> text = None \/ None \in Range(script), text |-> text, script |-> script,
      pipeline |-> case.path \in Pipelines, givens |-> case.givens, expects |-> case.expects,
      skip |-> case.skip, maxIter |-> case.maxIter, mode |-> IF mode = None THEN case.mode ELSE mode]

-----------------------------------------------------------------------------
(* A file as its author means it: declarations of a workflow and cases, and *)
(* in a case declarations and other lines.  A declaration is [is, of], "a   *)
(* path" or "a block".                                                      *)

At(kw, of) == [kw |-> kw, of |-> of, ok |-> TRUE, rl |-> Line(<<Key(kw)>>)]

TextLine(line) == [kw |-> "rl", of |-> None, ok |-> TRUE, rl |-> line]

Printed1(item) ==
  CASE item.is = "path" -> <<At("workflow", item.of)>>
    [] item.is = "block" -> <<At("workflow", None)>>
                            \o [i \in DOMAIN item.of |-> TextLine(item.of[i])] \o <<At("end", None)>>
    [] item.is = "line" -> <<item.of>>

Printed(decl) ==
  FlattenSeq([i \in DOMAIN decl |->
    IF decl[i].is # "case" THEN Printed1(decl[i])
    ELSE <<At("test", None)>> \o FlattenSeq([j \in DOMAIN decl[i].of |-> Printed1(decl[i].of[j])])
         \o <<At("end", None)>>])

\* The workflow a case is meant to test, as the item that declares it: the case's
\* own last declaration, else the file's last one above it.
Declarations(items) == SelectSeq(items, LAMBDA item : item.is \in {"path", "block"})
OwnOf(decl, i) == Declarations(decl[i].of)
Shared(decl, i) == Declarations(SubSeq(decl, 1, i))

Meant(decl, i) ==
  LET declared == IF OwnOf(decl, i) # <<>> THEN OwnOf(decl, i) ELSE Shared(decl, i)
  IN IF declared = <<>> THEN [is |-> "path", of |-> None] ELSE Last(declared)

\* The file declares both a path and a block for the case.
IsAmbiguous(decl, i) ==
  OwnOf(decl, i) = <<>> /\ {"path", "block"} \subseteq {Shared(decl, i)[k].is : k \in DOMAIN Shared(decl, i)}

\* Then the path of a pipeline comes first, and a block before any other path,
\* whichever was declared last (_resolve_rl_source's docstring, run_case).
Preferred(decl, i) ==
  LET LastOf(is) == Last(SelectSeq(Shared(decl, i), LAMBDA item : item.is = is))
  IN IF LastOf("path").of \in Pipelines \/ LastOf("block").of = <<>> THEN LastOf("path") ELSE LastOf("block")

\* An empty block declares no workflow.
TextOf(item, dir) ==
  CASE item.is = "path" -> IF item.of = None THEN None ELSE Resolved(item.of, dir)
    [] item.is = "block" -> IF item.of = <<>> THEN None ELSE item.of

\* The texts that the cases of a file have to be run with, in order.
MeantTexts(decl, dir) ==
  LET cases == SelectSeq([i \in DOMAIN decl |-> i], LAMBDA i : decl[i].is = "case")
      Item(i) == IF IsAmbiguous(decl, i) THEN Preferred(decl, i) ELSE Meant(decl, i)
  IN [k \in DOMAIN cases |-> TextOf(Item(cases[k]), dir)]
=============================================================================
