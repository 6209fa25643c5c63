---------------------------- MODULE Orchestrator ----------------------------
(***************************************************************************)
(* Orchestrator.run: the execution engine of ROF Core, with the            *)
(* WorkflowGraph it mutates, the ConditionEvaluator it runs after every    *)
(* step, the StateManager it checkpoints to and the events it publishes.   *)
(*                                                                         *)
(* The goals of a workflow are taken in declaration order.  A goal goes to *)
(* the tool whose trigger keyword matches best, and to the LLM when none   *)
(* matches.  The text of a reply is abstracted to the graph writes the     *)
(* code extracts from it; what a tool, a provider, a context provider or a *)
(* state adapter does is chosen by the environment.                        *)
(***************************************************************************)
EXTENDS Integers, Sequences, FiniteSets

CONSTANTS
  NGoals,         \* goals of the workflow, in declaration order
  NTools,         \* tools in registration order
  Hits,           \* Hits[g][t]: lengths of t's keywords that occur in goal g
  Salvageable,    \* goals worded as natural-language or synthesis goals
  ProseCell,      \* the attribute a salvaged reply is stored in, per goal
  Prose,          \* the value of a salvaged reply
  Attrs, Vals,    \* attribute cells of the entities, and their values
  Preds,          \* predicates of the entities
  InitAttrs,      \* attributes declared in the workflow
  InitPreds,      \* predicates declared in the workflow
  Rules,          \* the if/then conditions, in declaration order
  Replies,        \* the LLM replies considered
  ToolOutputs,    \* the tool responses considered
  Configs,        \* the OrchestratorConfigs considered
  AdapterFaults,  \* may the state adapter raise on its own?
  ProviderFaults, \* may a context provider of the injector raise?
  Absent, NoTool, NoSnapshot

Goals == 1..NGoals
Tools == 1..NTools
Status == {"PENDING", "RUNNING", "ACHIEVED", "FAILED"}
Final == {"ACHIEVED", "FAILED"}

(***************************************************************************)
(* A write a reply asks for: an attribute, a predicate, a value that looks *)
(* like prose and is skipped, or an entry on which the JSON path raises.   *)
(***************************************************************************)
Writes == [kind : {"attr"}, attr : Attrs, val : Vals]
            \cup [kind : {"pred"}, pred : Preds]
            \cup {[kind |-> "junk"], [kind |-> "bad"]}

RuleRecords == [tests : SUBSET [attr : Attrs, ok : SUBSET Vals],
                needs : SUBSET Preds,
                adds  : SUBSET Preds]

AttrMaps == [Attrs -> Vals \cup {Absent}]
Snapshots == [status : [Goals -> Status], attrs : AttrMaps, preds : SUBSET Preds]

ASSUME OrchestratorAssumption ==
  /\ NGoals \in Nat /\ NTools \in Nat
  /\ Configs \subseteq [mode : {"json", "rl"}, maxIterations : Nat,
                        pauseOnError : BOOLEAN, autoSave : BOOLEAN]
  /\ Hits \in [Goals -> [Tools -> SUBSET (Nat \ {0})]]
  /\ Salvageable \subseteq Goals /\ ProseCell \in [Salvageable -> Attrs]
  /\ Prose \in Vals
  /\ Absent \notin Vals
  /\ InitAttrs \in AttrMaps /\ InitPreds \subseteq Preds
  /\ Rules \in Seq(RuleRecords)
  /\ \A r \in Replies : r.writes \in Seq(Writes) /\ r.text \in BOOLEAN
  /\ \A o \in ToolOutputs :
       /\ o.success \in BOOLEAN /\ o.dumps \in BOOLEAN
       /\ o.writes \in Seq([kind : {"attr"}, attr : Attrs, val : Vals])
  /\ {AdapterFaults, ProviderFaults} \subseteq BOOLEAN
  /\ NoTool \notin Tools
  /\ NoSnapshot \notin Snapshots

VARIABLES
  cfg,         \* OrchestratorConfig; its output_mode is the resolved one
  pc,          \* where run() is
  status,      \* GoalState.status
  attrs,       \* EntityState.attributes
  preds,       \* EntityState.predicates
  unjson,      \* a tool put something in the graph that json.dumps refuses
  steps,       \* the StepResults so far
  rule,        \* the condition that evaluate() looks at next
  saved,       \* what the state adapter holds for this run
  events,      \* run, step and tool events published so far
  outcome      \* "running", or RunResult.success

vars == <<cfg, pc, status, attrs, preds, unjson, steps, rule, saved, events, outcome>>
graph == <<status, attrs, preds, unjson>>

iterations == Len(steps)
Pending == {g \in Goals : status[g] = "PENDING"}
First(S) == CHOOSE g \in S : \A h \in S : g <= h
Running == CHOOSE g \in Goals : status[g] = "RUNNING"
Event(n, g) == [name |-> n, goal |-> g]
Publish(n, g) == events' = Append(events, Event(n, g))
Snapshot == [status |-> status, attrs |-> attrs, preds |-> preds]

-----------------------------------------------------------------------------
(* Routing: the tool with the longest matching keyword, the first          *)
(* registered among equals.                                                *)
Longest(g, t) == IF Hits[g][t] = {} THEN 0
                 ELSE CHOOSE n \in Hits[g][t] : \A m \in Hits[g][t] : m <= n

RouteTool(g) ==
  IF \A t \in Tools : Longest(g, t) = 0 THEN NoTool
  ELSE CHOOSE t \in Tools : /\ Longest(g, t) > 0
                            /\ \A u \in Tools : /\ Longest(g, u) <= Longest(g, t)
                                                /\ u < t => Longest(g, u) < Longest(g, t)

-----------------------------------------------------------------------------
(* Integrating a reply: the writes before the first malformed entry.       *)
Applied(ws) ==
  {i \in 1..Len(ws) : \A j \in 1..i : ws[j].kind # "bad"}

Raises(ws) == \E i \in 1..Len(ws) : ws[i].kind = "bad"

\* The number of updates _integrate_response reports.
Updates(ws) == Cardinality({i \in Applied(ws) : ws[i].kind # "junk"})

AttrWrites(ws, a) == {i \in Applied(ws) : ws[i].kind = "attr" /\ ws[i].attr = a}

WriteAttrs(ws) ==
  [a \in Attrs |->
     IF AttrWrites(ws, a) = {} THEN attrs[a]
     ELSE ws[CHOOSE i \in AttrWrites(ws, a) :
               \A j \in AttrWrites(ws, a) : j <= i].val]

WritePreds(ws) ==
  preds \cup {ws[i].pred : i \in {j \in Applied(ws) : ws[j].kind = "pred"}}

-----------------------------------------------------------------------------
Init ==
  /\ cfg \in Configs
  /\ pc = "start"
  /\ status = [g \in Goals |-> "PENDING"]
  /\ attrs = InitAttrs
  /\ preds = InitPreds
  /\ unjson = FALSE
  /\ steps = <<>>
  /\ rule = 1
  /\ saved = NoSnapshot
  /\ events = <<>>
  /\ outcome = "running"

\* run.started, then the first pass over the conditions.
Start ==
  /\ pc = "start"
  /\ Publish("run.started", 0)
  /\ pc' = "evaluate"
  /\ rule' = 1
  /\ UNCHANGED <<cfg, graph, steps, saved, outcome>>

\* An exception that reaches run(): run.failed and an unsuccessful result.
RunFails ==
  /\ Publish("run.failed", 0)
  /\ outcome' = "failure"
  /\ pc' = "done"

BeginStep ==
  /\ pc = "loop"
  /\ Pending # {}
  /\ iterations < cfg.maxIterations
  /\ LET g == First(Pending) IN
       /\ Publish("step.started", g)
       /\ status' = [status EXCEPT ![g] = "RUNNING"]
       /\ pc' = IF RouteTool(g) = NoTool THEN "build" ELSE "tool"
  /\ UNCHANGED <<cfg, attrs, preds, unjson, steps, rule, saved, outcome>>

IterationGuard ==
  /\ pc = "loop"
  /\ Pending # {}
  /\ iterations >= cfg.maxIterations
  /\ RunFails
  /\ UNCHANGED <<cfg, graph, steps, rule, saved>>

\* ContextInjector.build runs before the try of _execute_llm_step.
BuildContext ==
  /\ pc = "build"
  /\ pc' = "llm"
  /\ UNCHANGED <<cfg, graph, steps, rule, saved, events, outcome>>

BuildRaises ==
  /\ pc = "build"
  /\ ProviderFaults
  /\ RunFails
  /\ UNCHANGED <<cfg, graph, steps, rule, saved>>

-----------------------------------------------------------------------------
\* mark_goal, the event of the step if it has one, and its StepResult; then
\* run() re-evaluates the conditions.
EndStep(verdict, event) ==
  /\ status' = [status EXCEPT ![Running] = verdict]
  /\ steps' = Append(steps, [goal |-> Running, status |-> verdict])
  /\ events' = IF event = "none" THEN events
               ELSE Append(events, Event(event, Running))
  /\ pc' = "evaluate"
  /\ rule' = 1

\* Mutant: the except branch of an LLM step forgets step.failed.
LLMRaisesSilently ==
  /\ pc = "llm"
  /\ EndStep("FAILED", "none")
  /\ UNCHANGED <<cfg, attrs, preds, unjson, saved, outcome>>

LLMRaises ==
  /\ pc = "llm"
  /\ EndStep("FAILED", "step.failed")
  /\ UNCHANGED <<cfg, attrs, preds, unjson, saved, outcome>>

\* In RL mode a reply without updates is either stored as prose, when the
\* goal is worded for it, or refused.
Salvages(r) ==
  cfg.mode = "rl" /\ Updates(r.writes) = 0 /\ r.text /\ Running \in Salvageable

Accepted(r) ==
  /\ ~Raises(r.writes)
  /\ cfg.mode = "json" \/ Updates(r.writes) > 0 \/ Salvages(r)

LLMAnswers(r) ==
  /\ pc = "llm"
  /\ cfg.mode = "rl" => ~Raises(r.writes)
  /\ attrs' = IF Salvages(r)
              THEN [WriteAttrs(r.writes) EXCEPT ![ProseCell[Running]] = Prose]
              ELSE WriteAttrs(r.writes)
  /\ preds' = WritePreds(r.writes)
  /\ IF Accepted(r) THEN EndStep("ACHIEVED", "step.completed")
                    ELSE EndStep("FAILED", "step.failed")
  /\ UNCHANGED <<cfg, unjson, saved, outcome>>

\* A response with success = FALSE writes nothing, yet its output becomes the
\* result of the goal.
ToolReturns(o) ==
  /\ pc = "tool"
  /\ attrs' = IF o.success THEN WriteAttrs(o.writes) ELSE attrs
  /\ unjson' = (unjson \/ ~o.dumps)
  /\ EndStep(IF o.success THEN "ACHIEVED" ELSE "FAILED", "tool.executed")
  /\ UNCHANGED <<cfg, preds, saved, outcome>>

\* The except branch marks the goal and publishes no event of the step.
ToolRaises ==
  /\ pc = "tool"
  /\ EndStep("FAILED", "none")
  /\ UNCHANGED <<cfg, attrs, preds, unjson, saved, outcome>>

-----------------------------------------------------------------------------
(* ConditionEvaluator.evaluate: one pass over the conditions in order.     *)
Fires(r) ==
  /\ \A t \in r.tests : attrs[t.attr] \in t.ok
  /\ r.needs \subseteq preds

\* Mutant: the pass ends at the first condition that fires.
EvaluateFirstOnly ==
  /\ pc = "evaluate"
  /\ rule <= Len(Rules)
  /\ preds' = IF Fires(Rules[rule]) THEN preds \cup Rules[rule].adds ELSE preds
  /\ rule' = IF Fires(Rules[rule]) THEN Len(Rules) + 1 ELSE rule + 1
  /\ UNCHANGED <<cfg, pc, status, attrs, unjson, steps, saved, events, outcome>>

EvaluateRule ==
  /\ pc = "evaluate"
  /\ rule <= Len(Rules)
  /\ preds' = IF Fires(Rules[rule]) THEN preds \cup Rules[rule].adds ELSE preds
  /\ rule' = rule + 1
  /\ UNCHANGED <<cfg, pc, status, attrs, unjson, steps, saved, events, outcome>>

Broken == /\ steps # <<>>
          /\ steps[Len(steps)].status = "FAILED"
          /\ cfg.pauseOnError

\* Mutant: only an achieved step is checkpointed.
EndEvaluateSavesAchieved ==
  /\ pc = "evaluate"
  /\ rule > Len(Rules)
  /\ pc' = IF Broken THEN "leave"
           ELSE IF /\ cfg.autoSave /\ steps # <<>>
                   /\ steps[Len(steps)].status = "ACHIEVED" THEN "save" ELSE "loop"
  /\ UNCHANGED <<cfg, graph, steps, rule, saved, events, outcome>>

\* What run() does after a pass: leave the loop, checkpoint, or go round.
EndEvaluate ==
  /\ pc = "evaluate"
  /\ rule > Len(Rules)
  /\ pc' = IF Broken THEN "leave"
           ELSE IF cfg.autoSave /\ steps # <<>> THEN "save" ELSE "loop"
  /\ UNCHANGED <<cfg, graph, steps, rule, saved, events, outcome>>

SaveState ==
  /\ pc = "save"
  /\ ~unjson
  /\ saved' = Snapshot
  /\ pc' = "loop"
  /\ UNCHANGED <<cfg, graph, steps, rule, events, outcome>>

\* Mutant: an error of the checkpoint is logged and the run goes on.
SaveErrorSwallowed ==
  /\ pc = "save"
  /\ unjson \/ AdapterFaults
  /\ pc' = "loop"
  /\ UNCHANGED <<cfg, graph, steps, rule, saved, events, outcome>>

\* json.dumps refuses the snapshot, or the adapter fails: the old entry stays.
SaveRaises ==
  /\ pc = "save"
  /\ unjson \/ AdapterFaults
  /\ RunFails
  /\ UNCHANGED <<cfg, graph, steps, rule, saved>>

\* Mutant: a run that got through its loop is a success.
CompleteAlwaysSucceeds ==
  /\ \/ pc = "loop" /\ Pending = {}
     \/ pc = "leave"
  /\ Publish("run.completed", 0)
  /\ outcome' = "success"
  /\ pc' = "done"
  /\ UNCHANGED <<cfg, graph, steps, rule, saved>>

\* run.completed is published before success is computed.
Complete ==
  /\ \/ pc = "loop" /\ Pending = {}
     \/ pc = "leave"
  /\ Publish("run.completed", 0)
  /\ outcome' = IF \A g \in Goals : status[g] = "ACHIEVED"
                THEN "success" ELSE "failure"
  /\ pc' = "done"
  /\ UNCHANGED <<cfg, graph, steps, rule, saved>>

Next ==
  \/ Start \/ BeginStep \/ IterationGuard
  \/ BuildContext \/ BuildRaises
  \/ LLMRaises \/ \E r \in Replies : LLMAnswers(r)
  \/ ToolRaises \/ \E o \in ToolOutputs : ToolReturns(o)
  \/ EvaluateRule \/ EndEvaluate
  \/ SaveState \/ SaveRaises
  \/ Complete

Spec == Init /\ [][Next]_vars

-----------------------------------------------------------------------------
PCs == {"start", "loop", "build", "llm", "tool", "evaluate", "leave", "save", "done"}
EventNames == {"run.started", "run.completed", "run.failed", "step.started",
               "step.completed", "step.failed", "tool.executed"}

TypeOK ==
  /\ cfg \in Configs
  /\ pc \in PCs
  /\ status \in [Goals -> Status]
  /\ attrs \in AttrMaps
  /\ preds \in SUBSET Preds
  /\ unjson \in BOOLEAN
  /\ steps \in Seq([goal : Goals, status : Final])
  /\ rule \in 1..(Len(Rules) + 1)
  /\ saved \in Snapshots \cup {NoSnapshot}
  /\ events \in Seq([name : EventNames, goal : Goals \cup {0}])
  /\ outcome \in {"running", "success", "failure"}

\* Goals are decided one at a time in declaration order: the decided goals
\* are a prefix, RunResult.steps reports exactly them with their verdicts, and
\* at most the goal after them is RUNNING, only while its step is executing or
\* after the run died inside it.
OrderedProgress ==
  /\ Len(steps) <= NGoals
  /\ \A g \in Goals : status[g] \in Final <=> g <= Len(steps)
  /\ \A g \in 1..Len(steps) : steps[g] = [goal |-> g, status |-> status[g]]
  /\ \A g \in Goals : status[g] = "RUNNING" =>
       /\ g = Len(steps) + 1
       /\ pc \in {"build", "llm", "tool", "done"}

\* A successful RunResult means that every goal was achieved and, with
\* auto_save_state, that the stored snapshot is the final graph.
SuccessIsDurable ==
  outcome = "success" =>
    /\ \A g \in Goals : status[g] = "ACHIEVED"
    /\ cfg.autoSave /\ NGoals > 0 => saved = Snapshot

\* A checkpoint never contradicts the graph: no goal in it is half done, its
\* verdicts are still the graph's, no predicate of it was lost since, and with
\* auto_save_state it is at most one step behind and is up to date whenever
\* the next goal is about to be picked.
DecidedIn(s) == {g \in Goals : s[g] \in Final}

CheckpointConsistent ==
  /\ saved # NoSnapshot =>
       /\ \A g \in Goals : saved.status[g] # "RUNNING"
       /\ \A g \in DecidedIn(saved.status) : status[g] = saved.status[g]
       /\ saved.preds \subseteq preds
  /\ cfg.autoSave =>
       LET behind == IF saved = NoSnapshot THEN DecidedIn(status)
                     ELSE DecidedIn(status) \ DecidedIn(saved.status)
       IN /\ \A g, h \in behind : g = h
          /\ pc = "loop" => behind = {}

\* What a subscriber can conclude from the events of a goal.  An LLM goal has
\* step.completed or step.failed for its verdict; a tool goal has
\* tool.executed, or nothing at all when the tool raised; a goal whose prompt
\* could not be built stays open.  The events of a goal are contiguous and the
\* run is closed by exactly one event, its last.
EventsOf(g) == {i \in 1..Len(events) : events[i].goal = g}

Spells(g, names) ==
  \E k \in 0..Len(events) :
    /\ EventsOf(g) = (k + 1)..(k + Len(names))
    /\ \A i \in 1..Len(names) : events[k + i].name = names[i]

Told(g) ==
  LET tool == RouteTool(g) # NoTool
  IN \/ status[g] = "PENDING" /\ Spells(g, <<>>)
     \/ status[g] = "RUNNING" /\ Spells(g, <<"step.started">>)
     \/ status[g] \in Final /\ tool /\ Spells(g, <<"step.started", "tool.executed">>)
     \/ status[g] = "FAILED" /\ tool /\ Spells(g, <<"step.started">>)
     \/ status[g] = "ACHIEVED" /\ ~tool /\ Spells(g, <<"step.started", "step.completed">>)
     \/ status[g] = "FAILED" /\ ~tool /\ Spells(g, <<"step.started", "step.failed">>)

InTurn ==
  \A i, j \in 1..Len(events) :
    i < j /\ events[j].goal # 0 => events[i].goal <= events[j].goal

Closing == {"run.completed", "run.failed"}

ClosedOnce ==
  /\ \A i \in 1..Len(events) :
       events[i].name \in Closing => i = Len(events) /\ pc = "done"
  /\ pc = "done" => events # <<>> /\ events[Len(events)].name \in Closing

EventTrail == (\A g \in Goals : Told(g)) /\ InTurn /\ ClosedOnce

\* Conditions declared so that none feeds an earlier one (or itself) are all
\* settled by the single pass of evaluate(): afterwards no condition that
\* holds has its conclusion missing, until the next step writes to the graph.
ForwardRules ==
  \A i, j \in 1..Len(Rules) : i <= j => Rules[j].adds \cap Rules[i].needs = {}

Settled == \A i \in 1..Len(Rules) : Fires(Rules[i]) => Rules[i].adds \subseteq preds

PassSettlesRules ==
  ForwardRules /\ pc \notin {"start", "evaluate"} => Settled

\* With pause_on_error no step is executed after one that failed: a FAILED
\* verdict in RunResult.steps is the last, whichever path produced it.
FirstErrorIsLast ==
  cfg.pauseOnError => \A i \in 1..Len(steps) :
                    steps[i].status = "FAILED" => i = Len(steps) /\ pc # "loop"

\* At most max_iterations steps are executed, and a run cut short by the
\* guard with goals still pending is reported as a failure.
IterationBound ==
  /\ Len(steps) <= cfg.maxIterations
  /\ pc = "done" /\ Pending # {} => outcome = "failure"

\* Nothing is taken back: a verdict is final, a predicate is never retracted,
\* and what was reported or published stays as it was.
Irrevocable ==
  [][ /\ \A g \in Goals : status[g] \in Final => status'[g] = status[g]
      /\ preds \subseteq preds'
      /\ \A i \in 1..Len(steps) : steps'[i] = steps[i]
      /\ \A i \in 1..Len(events) : events'[i] = events[i] ]_vars

\* The engine implements the abstract run: a RUNNING goal is undecided.
Abstract == INSTANCE WorkflowRun WITH
  verdict <- [g \in Goals |-> IF status[g] \in Final THEN status[g] ELSE "UNDECIDED"]

Implements == Abstract!Spec
=============================================================================
