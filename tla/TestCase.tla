------------------------------- MODULE TestCase -------------------------------
(***************************************************************************)
(* One case of a .rl.test file: the workflow seeded with the given facts,  *)
(* run against a scripted provider, and the expectations evaluated on the  *)
(* snapshot it ends with.                                                  *)
(*                                                                         *)
(* Of a value this also needs rank, its place in the order of strings,     *)
(* fold, what lower() makes of it, and point, whether it has a point in    *)
(* it.  An attribute is a pair of an entity and a name, a predicate one of *)
(* an entity and a word.  A reply says its values as the model's answer is *)
(* parsed: what reads as a number is one.                                  *)
(***************************************************************************)
EXTENDS Integers, RLParser

CONSTANTS
  Attributes, Words, Values, Exprs,
  Fold,    \* a word or an expression -> what lower() makes of it
  Inside   \* pairs of lower-case expressions, the first a substring of the second

ASSUME TestCaseAssumption ==
  /\ Words \cup Exprs \subseteq DOMAIN Fold /\ Words \subseteq DOMAIN Escaped
  /\ \A v \in Values :
       /\ v.num \in Int \cup {None} /\ v.rank \in Nat /\ v.marks \in Nat /\ v.cut \in BOOLEAN
       /\ v.type \in {"number", "text", "bool"} /\ (v.type = "number" => v.num # None)

-----------------------------------------------------------------------------
(* The run.                                                                *)

\* What a list of statements says: the last value of an attribute stands.
\* `sets` is a sequence of pairs of an attribute and a value.
Set(attrs, sets) ==
  FoldLeft(LAMBDA f, s : [a \in DOMAIN f \cup {s[1]} |-> IF a = s[1] THEN s[2] ELSE f[a]],
           attrs, sets)

NoAttrs == [a \in {} |-> None]


\* _build_seeded_source: the given facts come after the workflow's source, each
\* new entity with a definition.
Seeded(text, givens) ==
  LET Defines(line) == Len(line.words) > 2 /\ line.words[1].kw = "define" /\ line.words[3].kw = "as"
      defined == {line.words[2].of : line \in {l \in Range(text) : Defines(l)}}
      Of(i) == givens[i].words[1].of
      Definition(i) == IF Of(i) \in defined \cup {Of(j) : j \in 1..(i - 1)} THEN <<>>
                       ELSE <<Line(<<Key("define"), Word(Of(i)), Key("as"), Quoted(Of(i))>>)>>
  IN text \o FlattenSeq([i \in DOMAIN givens |-> Definition(i) \o <<givens[i]>>])

NewRun(attrs, words, defined) ==
  [attrs |-> attrs, words |-> words, defined |-> defined, calls |-> 0, goals |-> <<>>, error |-> FALSE]

\* The state a parsed workflow begins with.
Begun(ast) == NewRun(Set(NoAttrs, ast.static), ast.words, Range(ast.defs))

\* _coerce_value: a given true or false is a bool, which no parser of a workflow makes of it.
Coerced(sets) ==
  [i \in DOMAIN sets |-> <<sets[i][1], IF sets[i][2].fold \in {"true", "false"}
                                      THEN [sets[i][2] EXCEPT !.type = "bool"] ELSE sets[i][2]>>]

\* _givens_to_snapshot: what it does not read itself it has parsed.
SeedSnapshot(givens) ==
  FoldLeft(LAMBDA seed, line :
             LET s == line.words
                 says == IF Fits("has", s) THEN [Added(NoStatements, "has", s) EXCEPT !.static = Coerced(@)]
                         ELSE IF Fits("is", s) THEN Added(NoStatements, "is", s) ELSE Parsed(<<line>>)
             IN [attrs |-> Set(seed.attrs, says.static), words |-> seed.words \cup says.words],
           [attrs |-> NoAttrs, words |-> {}], givens)

\* _maybe_wrap_json: in json mode the statements it recognizes become a JSON
\* object; a value with a point in it is not recognized.  When there is nothing
\* to recognize the text stays as it is.
Wrapped(reply, mode) ==
  LET known == [reply EXCEPT !.sets = SelectSeq(@, LAMBDA s : ~s[2].point)]
  IN IF mode = "json" /\ (known.sets # <<>> \/ known.words # {}) THEN known ELSE reply

Silence == [sets |-> <<>>, words |-> {}]

\* _resolve_from_list: one reply after the other, the last one again and again.
\* Without any the reply is prose.
Reply(script, call) ==
  IF script = <<>> THEN Silence
  ELSE script[IF call <= Len(script) THEN call ELSE Len(script)]

\* A goal gets its reply.  In rl mode a reply that says nothing fails it.
Replied(run, expr, reply, mode) ==
  LET says == reply.sets # <<>> \/ reply.words # {}
  IN [run EXCEPT !.attrs = Set(@, reply.sets), !.words = @ \cup reply.words,
                 !.calls = @ + 1,
                 !.goals = Append(@, [expr |-> expr,
                                      status |-> IF says \/ mode = "json" THEN "ACHIEVED"
                                                 ELSE "FAILED"])]

\* One goal after the other; past the limit of iterations they stay pending.
Goal(case, run, expr) ==
  IF run.calls >= case.maxIter
  THEN [run EXCEPT !.goals = Append(@, [expr |-> expr, status |-> "PENDING"])]
  ELSE Replied(run, expr, Wrapped(Reply(case.script, run.calls + 1), case.mode), case.mode)

Success(run) == ~run.error /\ \A i \in DOMAIN run.goals : run.goals[i].status = "ACHIEVED"

\* One goal after the other, from the first.
Executed(case, ast) ==
  FoldLeft(LAMBDA run, expr : Goal(case, run, expr), Begun(ast), ast.goals)

\* _run_pipeline_case: the seed stands in front of the stage's source.  A stage
\* that fails leaves nothing in the snapshot of its pipeline.  The case's limit of
\* iterations is not handed on.
Staged(case) ==
  LET seed == SeedSnapshot(case.givens)
      ast == Parsed(ToRL(seed.attrs, seed.words) \o case.text)
      ran == Executed([case EXCEPT !.maxIter = 25], ast)
  IN IF ast.broken \/ ~Success(ran) THEN [NewRun(seed.attrs, seed.words, {}) EXCEPT !.error = TRUE]
     ELSE ran

\* run_case up to the evaluation.
RunOf(case) ==
  LET ast == Parsed(Seeded(case.text, case.givens))
  IN IF case.raises THEN [NewRun(NoAttrs, {}, {}) EXCEPT !.error = TRUE]
     ELSE IF case.pipeline THEN Staged(case)
     ELSE IF ast.broken THEN [NewRun(NoAttrs, {}, {}) EXCEPT !.error = TRUE]
     ELSE Executed(case, ast)

Known(run) == run.defined \cup {a[1] : a \in DOMAIN run.attrs} \cup {w[1] : w \in run.words}

-----------------------------------------------------------------------------
(* The expectations: [kind, of, op, value], where `of` is an entity, an     *)
(* attribute, a predicate or the expression of a goal.                     *)

\* float(): a bool is one or zero.
Float(v) == IF v.type = "bool" THEN IF v.fold = "true" THEN 1 ELSE 0 ELSE v.num

Numeric(v, w) == Float(v) # None /\ Float(w) # None

\* _values_equal: as numbers when both are, else without regard to case.
ValuesEqual(v, w) ==
  v = w \/ (IF Numeric(v, w) THEN Float(v) = Float(w) ELSE v.fold = w.fold /\ v.marks = w.marks)

\* _coerce_for_compare: as numbers when both are, else as strings.
Compare(op, v, w) ==
  LET a == IF Numeric(v, w) THEN Float(v) ELSE v.rank
      b == IF Numeric(v, w) THEN Float(w) ELSE w.rank
  IN CASE op = "!=" -> a # b \/ (~Numeric(v, w) /\ v.marks # w.marks) [] op = ">" -> a > b [] op = ">=" -> a >= b
       [] op = "<" -> a < b [] op = "<=" -> a <= b

HasWord(run, pair) == \E w \in run.words : w[1] = pair[1] /\ Fold[w[2]] = Fold[pair[2]]

NotHasWord(run, pair) == pair[1] \notin Known(run) \/ ~HasWord(run, pair)

\* _find_goal: by its expression, without regard to case, or by a part of it.
FindGoal(goals, expr) ==
  LET exact == SelectInSeq(goals, LAMBDA g : g.expr = expr)
      folded == SelectInSeq(goals, LAMBDA g : Fold[g.expr] = Fold[expr])
      part == SelectInSeq(goals, LAMBDA g : {<<Fold[expr], Fold[g.expr]>>,
                                            <<Fold[g.expr], Fold[expr]>>} \cap Inside # {})
  IN IF exact # 0 THEN exact ELSE IF folded # 0 THEN folded ELSE part

GoalIs(run, expr, status) ==
  LET i == FindGoal(run.goals, expr) IN i # 0 /\ run.goals[i].status = status

\* AssertionEvaluator.evaluate.
Holds(e, run) ==
  CASE e.kind = "run succeeds" -> Success(run)
    [] e.kind = "run fails" -> ~Success(run)
    [] e.kind = "entity exists" -> e.of \in Known(run)
    [] e.kind = "entity does not exist" -> e.of \notin Known(run)
    [] e.kind = "is" -> HasWord(run, e.of)
    [] e.kind = "is not" -> NotHasWord(run, e.of)
    [] e.kind = "attribute exists" -> e.of \in DOMAIN run.attrs
    [] e.kind = "equals" -> e.of \in DOMAIN run.attrs /\ ValuesEqual(run.attrs[e.of], e.value)
    [] e.kind = "compare" -> e.of \in DOMAIN run.attrs /\ Compare(e.op, run.attrs[e.of], e.value)
    [] e.kind = "goal exists" -> FindGoal(run.goals, e.of) # 0
    [] e.kind = "goal is achieved" -> GoalIs(run, e.of, "ACHIEVED")
    [] e.kind = "goal is failed" -> GoalIs(run, e.of, "FAILED")

\* run_case: SKIP, ERROR where a file is missing or the workflow does not parse,
\* else the verdict.
Verdict(case, run) ==
  IF case.skip THEN "skip"
  ELSE IF case.raises \/ (run.error /\ ~case.pipeline) THEN "error"
  ELSE IF \A e \in case.expects : Holds(e, run) THEN "pass" ELSE "fail"

-----------------------------------------------------------------------------
\* A given fact no reply contradicts is what the workflow ends with, whatever
\* its source says: givens "override values already present".  (A workflow whose
\* last statement has no period swallows the first of them, and a given bool is
\* the text true or false in the run.)
KeptIn(case, run) ==
  LET replied == {s[1] : s \in UNION {Range(case.script[i].sets) : i \in DOMAIN case.script}}
      given == SeedSnapshot(case.givens).attrs
  IN Statements(case.text).buffer = <<>> =>
       \A a \in DOMAIN given \ replied : run.attrs[a] = AsRead(given[a])
=============================================================================
