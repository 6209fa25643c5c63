----------------------------- MODULE CommandLine -----------------------------
(***************************************************************************)
(* The rof command: one process after the other in the same directory,     *)
(* which shares a workflow file and a snapshot file between them.          *)
(*                                                                         *)
(* A workflow is a text of RelateLang, see RLParser.  A pipeline has one   *)
(* stage, whose source is that file.                                       *)
(***************************************************************************)
EXTENDS TestFile

CONSTANTS
  Sources,     \* workflows a user or a model may write
  Replies,     \* replies of the model to a goal
  Commands,    \* a sequence of command lines, see Command
  MaxCommands, \* bound: commands of a behaviour
  MaxLost,     \* bound: events that a command's audit loses
  Mentions,    \* expression -> the entities it names
  Vague, Mute  \* goals with a discouraged verb, without an output modality

Debugging == {"debug", "pipelineDebug"}
Runs == {"run", "pipelineRun"} \cup Debugging

\* Every flag the commands read from their arguments, and the limit of iterations
\* that run and debug read; test also has paths, tags and a mode.
Command == [name : Runs \cup {"lint", "inspect", "generate", "test", "version"},
            audit : BOOLEAN, seed : BOOLEAN, save : BOOLEAN, strict : BOOLEAN,
            output : BOOLEAN, noLint : BOOLEAN, failFast : BOOLEAN, step : BOOLEAN, maxIter : Int]

OfTest == {"paths", "tags", "mode"}

\* argparse's default, and that of OrchestratorConfig, which the stages of a pipeline have.
DefaultMaxIter == 25
StageIterations == 50

\* The flags that the parser of each command accepts.
Accepted(name) ==
  CASE name = "run" -> {"audit", "seed", "save", "maxIter"}
    [] name = "debug" -> {"step", "maxIter"}
    [] name = "pipelineRun" -> {"audit", "seed"}
    [] name = "pipelineDebug" -> {"seed", "step"}
    [] name = "lint" -> {"strict"}
    [] name = "generate" -> {"output", "noLint"}
    [] name = "test" -> {"failFast"}
    [] OTHER -> {}

ASSUME CommandLineAssumption ==
  /\ MaxCommands \in Nat /\ MaxLost \in Nat
  /\ \A i \in DOMAIN Commands :
       LET c == Commands[i]
           flags == DOMAIN c \ OfTest
       IN /\ [f \in flags |-> c[f]] \in Command
          /\ \A f \in flags \ {"name", "maxIter"} : c[f] => f \in Accepted(c.name)
          /\ c.maxIter # DefaultMaxIter => "maxIter" \in Accepted(c.name)

VARIABLES
  workflow,  \* on disk: the workflow file, None when it is not there
  snapshot,  \* on disk: the snapshot file, with its facts: "missing", "broken" (no JSON),
             \* "uneven" (an entity in it is no object) or "whole"
  command,   \* the latest command
  count,     \* how many there were
  phase,     \* what it does next
  source,    \* the text it has read, was given by the model, or runs
  seeded,    \* its snapshot: not read yet ("no"), "whole", or in "part" only
  run,       \* the workflow's facts and goals so far
  published, \* events of the command
  audit,     \* its subscriber: "none", "skipped", "open", "closed", "late" (gave up waiting)
  handled,   \* how many of the events it is done with
  missed,    \* how many of them it missed
  log,       \* the lines of the audit log that are the command's
  files,     \* test: the files to run, of the one being run the cases left
  results,   \* test: the verdicts, file by file
  exit       \* its exit code, None until then

commandsVars ==
  <<workflow, snapshot, command, count, phase, source, seeded, run, published, audit, handled, missed, log,
    files, results, exit>>

directory == <<workflow, snapshot>>
writer == <<handled, missed, log>>
trail == <<published, audit, writer>>
given == <<source, seeded>>
suite == <<files, results>>

-----------------------------------------------------------------------------
(* The linter.                                                             *)

Code(code, entities) == {<<code, e>> : e \in entities}

Twice(s) == {e \in Range(s.defs) : \E i, j \in DOMAIN s.defs : i # j /\ {s.defs[i], s.defs[j]} = {e}}

Named(exprs) == UNION {Mentions[x] : x \in exprs}

Stated(s) == {set[1][1] : set \in Range(s.static)}

DefinedIn(s) == Range(s.defs)
Tests(s) == Named({c[1] : c \in s.conds})
Acts(s) == Named({c[2] : c \in s.conds})

\* What is named anywhere but in a definition.
Used(s) ==
  Stated(s) \cup {w[1] : w \in s.words} \cup s.related \cup Tests(s) \cup Acts(s) \cup Named(Range(s.goals))

\* W003: a definition that nothing refers to.
Orphans(s) == Code("W003", DefinedIn(s) \ Used(s))

\* E004, W005, W006, or W001 when there is no goal at all.
GoalIssues(s) ==
  LET goals == Range(s.goals)
  IN IF goals = {} THEN {<<"W001", None>>}
     ELSE Code("E004", Named(goals) \ DefinedIn(s)) \cup Code("W005", goals \cap Vague) \cup Code("W006", goals \cap Mute)

Lint(text) ==
  LET s == Parsed(text)
  IN IF s.broken THEN {<<"E001", None>>}
     ELSE IF Used(s) \cup DefinedIn(s) \cup Range(s.goals) \cup s.conds = {} THEN {<<"W004", None>>}
     ELSE Code("E002", Twice(s)) \cup Code("I001", Stated(s) \ DefinedIn(s))
          \cup Code("E003", Tests(s) \ DefinedIn(s)) \cup Code("W002", Acts(s) \ DefinedIn(s))
          \cup GoalIssues(s) \cup Orphans(s)

Errors(text) == {i \in Lint(text) : i[1] \in {"E001", "E002", "E003", "E004"}}

Warnings(text) == {i \in Lint(text) : i[1] \in {"W001", "W002", "W003", "W004", "W005", "W006"}}

-----------------------------------------------------------------------------
(* A command goes through its phases; any of them may end it.              *)

RunPhases == <<"file", "lint", "provider", "audit", "seed", "execute", "close", "save", "report">>
DebugPhases == <<"file", "lint", "provider", "execute", "report">>
PipelineRunPhases == <<"config", "provider", "audit", "seed", "execute", "close", "report">>
PipelineDebugPhases == <<"config", "provider", "seed", "execute", "report">>

Route(name) ==
  CASE name = "run" -> RunPhases
    [] name = "debug" -> DebugPhases
    [] name = "pipelineRun" -> PipelineRunPhases
    [] name = "pipelineDebug" -> PipelineDebugPhases
    [] name = "lint" -> <<"file", "issues">>
    [] name = "inspect" -> <<"file", "parse">>
    [] name = "generate" -> <<"provider", "complete", "write", "verdict">>
    [] name = "test" -> <<"paths", "cases">>
    [] name = "version" -> <<"versions">>

Proceed ==
  LET route == Route(command.name)
      at == CHOOSE i \in DOMAIN route : route[i] = phase
  IN phase' = route[at + 1] /\ UNCHANGED exit

Exit(code) == phase' = "done" /\ exit' = code

Idle == phase \in {"idle", "done"}

NoSnapshot == [is |-> "missing", attrs |-> NoAttrs, words |-> {}]

CommandsInit ==
  /\ workflow \in Sources \cup {None} /\ snapshot = NoSnapshot
  /\ command = None /\ count = 0 /\ phase = "idle" /\ source = None /\ seeded = "no"
  /\ run = NewRun(NoAttrs, {}, {})
  /\ published = <<>> /\ audit = "none" /\ handled = 0 /\ missed = 0 /\ log = <<>>
  /\ files = <<>> /\ results = <<>> /\ exit = None

\* No process runs yet, and nothing is left of the one before.
Fresh ==
  /\ exit' = None /\ source' = None /\ seeded' = "no" /\ run' = NewRun(NoAttrs, {}, {})
  /\ published' = <<>> /\ audit' = "none" /\ handled' = 0 /\ missed' = 0 /\ log' = <<>>
  /\ files' = <<>> /\ results' = <<>>

\* main: the arguments are parsed and the command's handler called.
Start ==
  /\ Idle /\ count < MaxCommands
  /\ \E i \in DOMAIN Commands : command' = Commands[i] /\ phase' = Head(Route(Commands[i].name))
  /\ count' = count + 1
  /\ Fresh
  /\ UNCHANGED directory

\* The user rewrites or deletes the workflow between two commands, or spoils the snapshot.
Edit ==
  /\ Idle /\ count < MaxCommands
  /\ \/ workflow' \in Sources \cup {None} /\ UNCHANGED snapshot
     \/ snapshot.is = "whole" /\ snapshot' = [snapshot EXCEPT !.is = "uneven"] /\ UNCHANGED workflow
  /\ phase' = "idle" /\ command' = None
  /\ Fresh
  /\ UNCHANGED count

\* A file that is not there; what it has is read at once.
ReadFile ==
  /\ phase = "file"
  /\ source' = workflow
  /\ IF workflow = None THEN Exit(2) ELSE Proceed
  /\ UNCHANGED <<directory, command, count, seeded, run, trail, suite>>

\* cmd_run, cmd_debug: errors end the command; so the source parses.
LintFirst ==
  /\ phase = "lint"
  /\ IF Errors(source) # {} THEN Exit(1) ELSE Proceed
  /\ UNCHANGED <<directory, command, count, given, run, trail, suite>>

\* cmd_lint.
Issues ==
  /\ phase = "issues"
  /\ Exit(IF Errors(source) = {} /\ (command.strict => Warnings(source) = {}) THEN 0 ELSE 1)
  /\ UNCHANGED <<directory, command, count, given, run, trail, suite>>

\* cmd_inspect.
Inspect ==
  /\ phase = "parse"
  /\ Exit(IF Parsed(source).broken THEN 1 ELSE 0)
  /\ UNCHANGED <<directory, command, count, given, run, trail, suite>>

\* cmd_version: a package that is not installed is reported as such.
Version ==
  /\ phase = "versions"
  /\ Exit(0)
  /\ UNCHANGED <<directory, command, count, given, run, trail, suite>>

\* The YAML file: missing, no mapping, without stages, a stage without a source.
\* Its stages name the workflow file, which is opened when the stage runs.
ReadConfig ==
  /\ phase = "config"
  /\ Exit(2) \/ Proceed
  /\ UNCHANGED <<directory, command, count, given, run, trail, suite>>

\* _make_provider: an unknown name, no key, no SDK.
MakeProvider ==
  /\ phase = "provider"
  /\ Exit(2) \/ Proceed
  /\ UNCHANGED <<directory, command, count, given, run, trail, suite>>

\* _setup_audit_subscriber: without its package there is a warning and no audit;
\* the sink may fail to make its directory.
OpenAudit ==
  /\ phase = "audit"
  /\ \/ Proceed /\ audit' \in IF command.audit THEN {"open", "skipped"} ELSE {"none"}
     \/ command.audit /\ Exit(2) /\ UNCHANGED audit
  /\ UNCHANGED <<directory, command, count, given, run, published, writer, suite>>

-----------------------------------------------------------------------------
(* Executing a workflow.                                                   *)

Overridden(attrs, by) ==
  [a \in DOMAIN attrs \cup DOMAIN by |-> IF a \in DOMAIN by THEN by[a] ELSE attrs[a]]

\* cmd_run: each attribute of the snapshot takes the place of the first statement
\* of it, or is added; the snapshot's predicates and goals are not read.
SeededRun(text, seed) ==
  LET ast == Parsed(text)
      IsFirst(i) == \A j \in 1..(i - 1) : ast.static[j][1] # ast.static[i][1]
      static == [i \in DOMAIN ast.static |->
                   LET a == ast.static[i][1]
                   IN IF IsFirst(i) /\ a \in DOMAIN seed.attrs THEN <<a, seed.attrs[a]>> ELSE ast.static[i]]
  IN [Begun(ast) EXCEPT !.attrs = Overridden(seed.attrs, Set(NoAttrs, static))]

\* An entity of the snapshot that is no object ends the seeding with a warning:
\* those before it are in the run.
Seeds(attrs) ==
  LET Of(entities) == [a \in {b \in DOMAIN attrs : b[1] \in entities} |-> attrs[a]]
  IN IF seeded = "part" THEN {Of(entities) : entities \in SUBSET Entities} ELSE {attrs}

\* A snapshot that is not there or no JSON ends the command, with the audit open.
LoadSeed ==
  /\ phase = "seed"
  /\ \/ ~command.seed /\ Proceed /\ UNCHANGED <<run, seeded>>
     \/ command.seed /\ snapshot.is \in {"missing", "broken"} /\ Exit(2) /\ UNCHANGED <<run, seeded>>
     \/ /\ command.seed /\ snapshot.is \in {"whole", "uneven"} /\ Proceed
        /\ run' = [run EXCEPT !.attrs = snapshot.attrs, !.words = snapshot.words]
        /\ seeded' = IF snapshot.is = "whole" THEN "whole" ELSE "part"
  /\ UNCHANGED <<directory, command, count, source, trail, suite>>

InPipeline == command.name \in {"pipelineRun", "pipelineDebug"}

EventsBefore == IF InPipeline THEN <<"pipeline.started", "stage.started", "run.started">> ELSE <<"run.started">>

EventsAfter(ok) ==
  IF ~InPipeline THEN <<"run.completed">>
  ELSE IF ok THEN <<"run.completed", "stage.completed", "pipeline.completed">>
  ELSE <<"run.completed", "stage.failed", "pipeline.failed">>

EventsStopped == IF InPipeline THEN <<"run.failed", "stage.failed", "pipeline.failed">> ELSE <<"run.failed">>

Unparsed == <<"pipeline.started", "stage.started", "stage.failed", "pipeline.failed">>

\* Pipeline._execute_stage: the snapshot stands in front of the stage's source.
StageText == ToRL(run.attrs, run.words) \o workflow

\* The stage's file is there, its snapshot can be written as text, and the text parses.
StageReads == workflow # None /\ seeded # "part" /\ ~Parsed(StageText).broken

\* Orchestrator.run and Pipeline.run begin.
Begin ==
  /\ phase = "execute"
  /\ \/ /\ ~InPipeline
        /\ \E attrs \in Seeds(run.attrs) : run' = SeededRun(source, [attrs |-> attrs, words |-> run.words])
        /\ source' = source
        /\ published' = EventsBefore /\ phase' = "nextGoal" /\ UNCHANGED exit
     \/ /\ InPipeline /\ StageReads
        /\ source' = StageText /\ run' = Begun(Parsed(StageText))
        /\ published' = EventsBefore /\ phase' = "nextGoal" /\ UNCHANGED exit
     \/ /\ InPipeline /\ ~StageReads
        /\ run' = [NewRun(run.attrs, run.words, {}) EXCEPT !.error = TRUE]
        /\ source' = workflow
        /\ published' = Unparsed /\ Proceed
  /\ UNCHANGED <<directory, command, count, seeded, audit, writer, suite>>

Goals == Parsed(source).goals

Limit == IF InPipeline THEN StageIterations ELSE command.maxIter

StepStarts ==
  /\ phase = "nextGoal" /\ Len(run.goals) < Len(Goals) /\ Len(run.goals) < Limit
  /\ published' = Append(published, "step.started")
  /\ phase' = "goal"
  /\ UNCHANGED <<directory, command, count, given, run, audit, writer, suite, exit>>

\* The model answers, or its provider raises: the goal fails, the run goes on.
StepEnds ==
  /\ phase = "goal"
  /\ LET expr == Goals[Len(run.goals) + 1]
     IN \/ \E reply \in Replies : run' = Replied(run, expr, reply, "rl")
        \/ run' = Replied(run, expr, Silence, "rl")
  /\ published' = Append(published, IF Last(run'.goals).status = "ACHIEVED" THEN "step.completed"
                                    ELSE "step.failed")
  /\ phase' = IF command.step /\ Last(run'.goals).status = "ACHIEVED" THEN "pause" ELSE "nextGoal"
  /\ UNCHANGED <<directory, command, count, given, audit, writer, suite, exit>>

\* --step: a goal that was achieved is waited after.  Any answer goes on, the end
\* of the input and Ctrl-C too.
Press ==
  /\ phase = "pause" /\ phase' = "nextGoal"
  /\ UNCHANGED <<directory, command, count, given, run, trail, suite, exit>>

\* What follows the run, whatever became of it.
AfterRun == phase' = IF command.name \in Debugging THEN "report" ELSE "close"

RunEnds ==
  /\ phase = "nextGoal" /\ Len(run.goals) = Len(Goals)
  /\ published' = published \o EventsAfter(Success(run))
  /\ AfterRun
  /\ UNCHANGED <<directory, command, count, given, run, audit, writer, suite, exit>>

\* Mutant: a run that reaches its limit just ends.
RunStopsQuietly ==
  /\ phase = "nextGoal" /\ Len(run.goals) < Len(Goals) /\ Len(run.goals) >= Limit
  /\ published' = published \o EventsAfter(Success(run))
  /\ AfterRun
  /\ UNCHANGED <<directory, command, count, given, run, audit, writer, suite, exit>>

\* The limit of iterations is reached with goals left: they stay pending.
RunStops ==
  /\ phase = "nextGoal" /\ Len(run.goals) < Len(Goals) /\ Len(run.goals) >= Limit
  /\ published' = published \o EventsStopped
  /\ run' = [run EXCEPT !.error = TRUE]
  /\ AfterRun
  /\ UNCHANGED <<directory, command, count, given, audit, writer, suite, exit>>

\* The subscriber and its sink, while the process lives, are done with the next
\* event: its line is in the log, or is not, for a full queue, a file that cannot be
\* opened or a write or a flush that fails.  A closed subscriber is off the bus,
\* but its threads go on with the queues.
LogLine ==
  /\ ~Idle /\ audit \in {"open", "late"} /\ handled < Len(published)
  /\ handled' = handled + 1
  /\ \/ log' = Append(log, published[handled + 1]) /\ UNCHANGED missed
     \/ missed < MaxLost /\ missed' = missed + 1 /\ UNCHANGED log
  /\ UNCHANGED <<directory, command, count, phase, given, run, published, audit, suite, exit>>

\* Mutant: the audit is closed without waiting for its writer.
CloseAuditAtOnce ==
  /\ phase = "close"
  /\ audit' = IF audit = "open" THEN "closed" ELSE audit
  /\ Proceed
  /\ UNCHANGED <<directory, command, count, given, run, published, writer, suite>>

\* close: waits for the queues to drain, but not for ever.  That nothing was missed on
\* the way is not known here.
CloseAudit ==
  /\ phase = "close"
  /\ audit' = IF audit # "open" THEN audit ELSE IF handled = Len(published) THEN "closed" ELSE "late"
  /\ Proceed
  /\ UNCHANGED <<directory, command, count, given, run, published, writer, suite>>

\* The result is made into JSON first; a write that fails may have truncated the file.
SaveSnapshot ==
  /\ phase = "save"
  /\ \/ ~command.save /\ Proceed /\ UNCHANGED snapshot
     \/ /\ command.save /\ Proceed
        /\ snapshot' = [is |-> "whole", attrs |-> run.attrs, words |-> run.words]
     \/ command.save /\ Exit(2) /\ snapshot' \in {snapshot, [NoSnapshot EXCEPT !.is = "broken"]}
  /\ UNCHANGED <<workflow, command, count, given, run, trail, suite>>

Report ==
  /\ phase = "report"
  /\ Exit(IF Success(run) THEN 0 ELSE 1)
  /\ UNCHANGED <<directory, command, count, given, run, trail, suite>>

\* Ctrl-C or an exception nobody catches; the writer thread is a daemon.
Abort ==
  /\ ~Idle /\ phase # "pause"
  /\ Exit(2)
  /\ UNCHANGED <<directory, command, count, given, run, trail, suite>>

-----------------------------------------------------------------------------
(* generate.                                                               *)

Complete ==
  /\ phase = "complete"
  /\ \/ Exit(1) /\ UNCHANGED source
     \/ Proceed /\ source' \in Sources
  /\ UNCHANGED <<directory, command, count, seeded, run, trail, suite>>

\* What the linter says does not keep the file from being written.
WriteWorkflow ==
  /\ phase = "write"
  /\ Proceed
  /\ workflow' = IF command.output THEN source ELSE workflow
  /\ UNCHANGED <<snapshot, command, count, given, run, trail, suite>>

GenerateVerdict ==
  /\ phase = "verdict"
  /\ Exit(IF command.noLint \/ Errors(source) = {} THEN 0 ELSE 1)
  /\ UNCHANGED <<directory, command, count, given, run, trail, suite>>

-----------------------------------------------------------------------------
(* test.  A path is [kind, files]: a directory has the files found in it,  *)
(* a file itself; a file is [dir, decl, lines]: where it lies, what its    *)
(* author means, <<>> where that is not said, and its lines.               *)

\* The first path that is missing or a workflow ends the command.
ResolvePaths ==
  /\ phase = "paths"
  /\ LET found == FlattenSeq([i \in DOMAIN command.paths |-> command.paths[i].files])
         bad == \E i \in DOMAIN command.paths : command.paths[i].kind \notin {"directory", "file"}
     IN /\ IF bad THEN Exit(2) ELSE IF found = <<>> THEN Exit(3) ELSE Proceed
        /\ files' = IF bad THEN <<>> ELSE found
  /\ results' = <<>>
  /\ UNCHANGED <<directory, command, count, given, run, trail>>

\* run_file: a file that does not parse ends the command, with no report of the
\* files before it.
OpenSuite ==
  /\ phase = "cases" /\ files # <<>>
  /\ LET read == ParsedFile(Head(files).lines)
     IN IF read.broken THEN Exit(2) /\ UNCHANGED suite
        ELSE /\ files' = [files EXCEPT ![1] = [dir |-> @.dir, decl |-> @.decl, cases |-> read.cases]]
             /\ results' = Append(results, <<>>)
             /\ phase' = "inFile" /\ UNCHANGED exit
  /\ UNCHANGED <<directory, command, count, given, run, trail>>

Selected(case) == command.tags = {} \/ case.tags \cap command.tags # {}

\* The case that is up, with the rest of the file.
Case == Head(Head(files).cases)
Ready == Loaded(Case, Head(files).dir, command.mode)
Rest == [files EXCEPT ![1].cases = Tail(@)]

FileIsDone == /\ phase' = "cases" /\ files' = Tail(files)

RunCase ==
  /\ phase = "inFile" /\ Head(files).cases # <<>> /\ Selected(Case)
  /\ run' = RunOf(Ready)
  /\ LET verdict == Verdict(Ready, run')
     IN /\ results' = [results EXCEPT ![Len(results)] = Append(@, verdict)]
        /\ IF command.failFast /\ verdict \in {"fail", "error"} THEN FileIsDone
           ELSE files' = Rest /\ UNCHANGED phase
  /\ UNCHANGED <<directory, command, count, given, trail, exit>>

PassOver ==
  /\ phase = "inFile" /\ Head(files).cases # <<>> /\ ~Selected(Case)
  /\ files' = Rest
  /\ UNCHANGED <<directory, command, count, phase, given, run, trail, results, exit>>

CloseSuite ==
  /\ phase = "inFile" /\ Head(files).cases = <<>>
  /\ FileIsDone
  /\ UNCHANGED <<directory, command, count, given, run, trail, results, exit>>

Failing(verdicts) == Range(verdicts) \cap {"fail", "error"} # {}

\* Mutant: a file nothing was run of has nothing that failed.
AllPassedEmpty(verdicts) == ~Failing(verdicts)

AllPassed(verdicts) == ~Failing(verdicts) /\ verdicts # <<>>

TestReport ==
  /\ phase = "cases" /\ files = <<>>
  /\ Exit(IF \A i \in DOMAIN results : AllPassed(results[i]) THEN 0 ELSE 1)
  /\ UNCHANGED <<directory, command, count, given, run, trail, suite>>

-----------------------------------------------------------------------------
CommandsNext ==
  \/ Start \/ Edit \/ ReadFile \/ LintFirst \/ Issues \/ Inspect \/ Version \/ ReadConfig \/ MakeProvider
  \/ OpenAudit \/ LoadSeed \/ Begin \/ StepStarts \/ StepEnds \/ Press \/ RunEnds \/ RunStops \/ LogLine
  \/ CloseAudit \/ SaveSnapshot \/ Report \/ Abort
  \/ Complete \/ WriteWorkflow \/ GenerateVerdict
  \/ ResolvePaths \/ OpenSuite \/ RunCase \/ PassOver \/ CloseSuite \/ TestReport

CommandsSpec == CommandsInit /\ [][CommandsNext]_commandsVars

-----------------------------------------------------------------------------
(* Properties.                                                             *)

Saved == [is |-> "whole", attrs |-> run.attrs, words |-> run.words]

GoalFailed == \E g \in Range(run.goals) : g.status # "ACHIEVED"
Stopped == run.error /\ Len(run.goals) < Len(Goals) /\ Len(run.goals) >= Limit

\* What the exit code says is true.  0: all was done that was asked for, or a warning
\* was given that there is no audit or only a part of the snapshot.  1: nothing but
\* that the workflow has lint errors, that a goal failed or was left at the limit of
\* iterations, that the stage could not be read, or that a test case did not pass.
ExitTruth ==
  LET name == command.name
      executed == Len(published) > 0
      judged == \A i \in DOMAIN results : results[i] # <<>> /\ Range(results[i]) \subseteq {"pass", "skip"}
  IN /\ phase = "done" /\ exit = 0 =>
          /\ name \in Runs => executed /\ ~run.error /\ ~GoalFailed /\ Len(run.goals) = Len(Goals)
          /\ command.save => snapshot = Saved
          /\ command.audit => audit \in {"closed", "late", "skipped"}
          /\ command.seed => seeded = "whole" \/ (seeded = "part" /\ name = "run")
          /\ name \in Runs \cup {"lint"} => ~Parsed(source).broken
          /\ name = "generate" /\ command.output => workflow = source
          /\ name = "generate" /\ ~command.noLint => ~Parsed(source).broken
          /\ name = "test" => files = <<>> /\ results # <<>> /\ judged
     /\ phase = "done" /\ exit = 1 =>
          /\ name \in Runs =>
               \/ ~executed /\ Errors(source) # {}
               \/ executed /\ (GoalFailed \/ (InPipeline /\ published = Unparsed) \/ Stopped)
          /\ name = "test" => files = <<>> /\ ~judged
     /\ phase = "done" /\ exit = 3 => name = "test" /\ results = <<>>

Failures == {"step.failed", "run.failed", "stage.failed", "pipeline.failed"}

LastOfAll == IF InPipeline THEN "pipeline.completed" ELSE "run.completed"

\* What an auditor may conclude from the log.  A failure in it means that the command
\* did not exit with 0.  One that was closed in time without a loss has the completion
\* as its last line if the command exited with 0, and a failure in it if with 1.
AuditTells ==
  LET failed == Failures \cap Range(log) # {}
  IN /\ phase = "done" /\ failed => exit # 0
     /\ phase = "done" /\ published # <<>> /\ audit = "closed" /\ missed = 0 =>
          /\ exit = 0 => Last(log) = LastOfAll
          /\ exit = 1 => failed

\* The cases of a test file are run with the workflow that its author declared for
\* them: in the case, or else last above it in the file; where the file declares both
\* a path and a block, with the one that the runner prefers.
CasesAsMeant ==
  phase = "inFile" /\ Head(files).decl # <<>> =>
    LET cases == Head(files).cases
        texts == MeantTexts(Head(files).decl, Head(files).dir)
        done == Len(texts) - Len(cases)
    IN done >= 0 /\ \A i \in DOMAIN cases : Workflow(cases[i], Head(files).dir) = texts[done + i]


\* The value of an attribute of the snapshot comes back: a text without marks as
\* itself, or as the number it reads as; a bool as the text true or false.
ComesBack(v, read) ==
  v.marks = 0 =>
    /\ ValuesEqual(v, read)
    /\ v.type = "number" \/ (v.type = "text" /\ v.num = None) => read = v

\* What is seeded reaches the run.  A run begins with every attribute of the snapshot as
\* it is, but for one that its workflow states twice and for the warning that an
\* entity of the snapshot is uneven.  A stage begins with every fact that
\* its workflow does not restate and that its text can carry, and it begins if its
\* workflow parses: unless the snapshot has a comment sign in it, a predicate of
\* an entity whose name starts with a keyword, or an uneven entity.
SeedReaches ==
  [][phase = "execute" /\ phase' \in {"nextGoal", "close", "report"} /\ command.seed =>
       LET cut == (\E w \in snapshot.words : w[2] \in Noted) \/ \E a \in DOMAIN snapshot.attrs : snapshot.attrs[a].cut
           awkward == {w \in snapshot.words : Begins[w[1]] # ""}
           marked == {w \in snapshot.words : Escaped[w[2]] # w[2]}
           own == Parsed(workflow)
           twice == {own.static[i][1] : i \in {j \in DOMAIN own.static :
                       \E k \in 1..(j - 1) : own.static[k][1] = own.static[j][1]}}
           carried == DOMAIN snapshot.attrs \ {s[1] : s \in Range(own.static)}
       IN CASE ~InPipeline ->
                 snapshot.is = "whole" => \A a \in DOMAIN snapshot.attrs \ twice : run'.attrs[a] = snapshot.attrs[a]
            [] InPipeline /\ run'.error ->
                 workflow = None \/ own.broken \/ cut \/ awkward # {} \/ snapshot.is = "uneven"
            [] OTHER ->
                 cut \/ /\ snapshot.words \ (awkward \cup marked) \subseteq run'.words
                        /\ \A a \in carried : ComesBack(snapshot.attrs[a], run'.attrs[a])]_commandsVars
=============================================================================
