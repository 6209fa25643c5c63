------------------------------ MODULE Pipeline ------------------------------
(***************************************************************************)
(* Pipeline.run: workflows chained through a snapshot.  A step is a stage  *)
(* or a fan-out group whose stages run in a thread pool; every stage is a  *)
(* run of the Orchestrator on the stage's source with the entities of the  *)
(* accumulated snapshot written in front of it as RelateLang text, parsed  *)
(* again, and retried as the configuration says.  What an attempt does to  *)
(* the graph is chosen by the environment; see Orchestrator for its inside.*)
(*                                                                         *)
(* A snapshot is abstracted to one attribute and the predicates of each    *)
(* entity, and the status of each stage's goal.                            *)
(***************************************************************************)
EXTENDS Naturals, Sequences, FiniteSets, SequencesExt

CONSTANTS
  Steps,       \* the steps: a stage, or a group of stages and its workers
  Stages,      \* the stages; each stands for its one goal as well
  Entities,
  Vals, Preds, \* attribute values and predicates
  Carry,       \* what a value becomes when to_rl writes it and parse reads it
  Cut,         \* values with "//": the tokenizer cuts their statement there
  Writes,      \* Writes[s]: what a successful attempt of s may write
  Guarded,     \* stages with a condition
  Filtered,    \* stages with a context_filter
  Inject,      \* stages with inject_context, when inject_prior_context is on
  MaxEntities, \* PipelineConfig.max_snapshot_entities
  RetryCount,  \* PipelineConfig.retry_count
  Configs,     \* the PipelineConfigs considered: on_failure, snapshot_merge
  PoolFaults,  \* may the thread pool of a group refuse to start a thread?
  Seeds,       \* the seed snapshots considered
  Absent, None

StepRecords == [fan : BOOLEAN, stages : Seq(Stages), workers : Nat]

WriteRecords == [attr : [Entities -> Vals \cup {Absent}], preds : [Entities -> SUBSET Preds]]
Snapshots == [attr  : [Entities -> Vals \cup {Absent}],
              preds : [Entities -> SUBSET Preds],
              goals : [Stages -> {Absent, "FAILED", "ACHIEVED"}]]

ASSUME PipelineAssumption ==
  /\ Carry \in [Vals -> Vals] /\ Cut \subseteq Vals /\ Absent \notin Vals
  /\ Absent \notin {"FAILED", "ACHIEVED"}
  /\ Entities \cap Stages = {} /\ IsFiniteSet(Entities)
  /\ Writes \in [Stages -> SUBSET WriteRecords]
  /\ Guarded \subseteq Stages /\ Filtered \subseteq Stages /\ Inject \subseteq Stages
  /\ MaxEntities \in Nat /\ RetryCount \in Nat
  /\ Configs \subseteq [onFailure : {"halt", "continue", "retry"},
                        merge : {"accumulate", "replace"}]
  /\ Steps \in Seq(StepRecords)
  /\ \A i \in DOMAIN Steps : Steps[i].fan \/ Len(Steps[i].stages) = 1
  /\ \A i, j \in DOMAIN Steps :
       \A m \in DOMAIN Steps[i].stages, n \in DOMAIN Steps[j].stages :
         Steps[i].stages[m] = Steps[j].stages[n] => i = j /\ m = n
  /\ PoolFaults \in BOOLEAN
  /\ Seeds \subseteq Snapshots

VARIABLES
  cfg,       \* the configuration
  acc,       \* accumulated
  open,      \* a step is being executed
  at,        \* where _run_stage is, for each stage
  tries,     \* attempts begun, for each stage
  res,       \* the StageResult of each stage
  merged,    \* merged, while the outputs of a group are merged
  next,      \* the stage whose output is merged next
  verdicts,  \* success of the steps executed so far
  trail,     \* events published for each stage
  log,       \* events of the pipeline and of its groups
  outcome    \* "running", or PipelineResult.success

branch == <<at, tries, res, trail>>
group == <<merged, next>>
vars == <<cfg, acc, open, branch, group, verdicts, log, outcome>>

Step == Steps[Len(verdicts) + 1]
MaxAttempts == IF cfg.onFailure = "retry" THEN RetryCount + 1 ELSE 1

Nothing == [attr |-> [e \in Entities |-> Absent], preds |-> [e \in Entities |-> {}]]
Empty == [attr |-> Nothing.attr, preds |-> Nothing.preds, goals |-> [g \in Stages |-> Absent]]
Ents(sn) == {e \in Entities : sn.attr[e] # Absent \/ sn.preds[e] # {}}

Results == [kind : {"ok", "skipped", "failed"}, out : Snapshots, wrote : SUBSET Entities]

-----------------------------------------------------------------------------
(* SnapshotSerializer.merge: an attribute of the update wins, predicates   *)
(* are united, and a goal the base has keeps the base's status.            *)
Override(b, u) == IF u = Absent THEN b ELSE u

Merge(b, u) ==
  [attr  |-> [e \in Entities |-> Override(b.attr[e], u.attr[e])],
   preds |-> [e \in Entities |-> b.preds[e] \cup u.preds[e]],
   goals |-> [g \in Stages |-> Override(u.goals[g], b.goals[g])]]

-----------------------------------------------------------------------------
(* _execute_stage: the graph of a stage at the end of a successful run.    *)

\* The entities to_rl writes: at most max_entities of what the filter leaves.
\* The order of the entities, which decides who is cut off, is left open.
Room(k) == IF Cardinality(k) < MaxEntities THEN Cardinality(k) ELSE MaxEntities

Kept(s) ==
  IF s \notin Inject \/ Ents(acc) = {} THEN {{}}
  ELSE {k \in SUBSET Ents(acc) :
          \/ Cardinality(k) = Room(Ents(acc))
          \/ s \in Filtered /\ Cardinality(k) < MaxEntities}

\* A statement cut at "//" has lost its period, so that it swallows the next
\* one: the attribute of another entity, or the goal of the stage.
Swallowed(s, kept) ==
  LET cut == {e \in kept : acc.attr[e] \in Cut}
  IN {g \in SUBSET (kept \cup {s}) : Cardinality(g) <= Cardinality(cut \ g)}

Injected(kept, gone) ==
  [attr  |-> [e \in Entities |->
                IF e \in kept \ gone /\ acc.attr[e] # Absent THEN Carry[acc.attr[e]]
                ELSE Absent],
   preds |-> [e \in Entities |-> IF e \in kept THEN acc.preds[e] ELSE {}]]

\* A stage whose goal was swallowed succeeds without doing anything.
Output(s, kept, gone, w) ==
  LET g == Injected(kept, gone)
      own == IF s \in gone THEN Nothing ELSE w
  IN [attr  |-> [e \in Entities |-> Override(g.attr[e], own.attr[e])],
      preds |-> [e \in Entities |-> g.preds[e] \cup own.preds[e]],
      goals |-> [h \in Stages |-> IF h = s /\ s \notin gone THEN "ACHIEVED" ELSE Absent]]

Wrote(s, gone, w) == IF s \in gone THEN {} ELSE {e \in Entities : w.attr[e] # Absent}

-----------------------------------------------------------------------------
Init ==
  /\ cfg \in Configs
  /\ acc \in Seeds
  /\ open = FALSE
  /\ at = [s \in Stages |-> "waiting"]
  /\ tries = [s \in Stages |-> 0]
  /\ res = [s \in Stages |-> None]
  /\ merged = Empty /\ next = 1
  /\ verdicts = <<>>
  /\ trail = [s \in Stages |-> <<>>]
  /\ log = <<"pipeline.started">>
  /\ outcome = "running"

Halting == cfg.onFailure = "halt" /\ verdicts # <<>> /\ ~Last(verdicts)

BeginStep ==
  /\ outcome = "running" /\ ~open /\ ~Halting
  /\ Len(verdicts) < Len(Steps)
  /\ open' = TRUE
  /\ merged' = Empty /\ next' = 1
  /\ log' = IF Step.fan THEN Append(log, "fanout.started") ELSE log
  /\ UNCHANGED <<cfg, acc, branch, verdicts, outcome>>

Current == IF open THEN {Step.stages[i] : i \in DOMAIN Step.stages} ELSE {}
Workers == IF Step.workers = 0 THEN Len(Step.stages) ELSE Step.workers
Active == {s \in Current : at[s] \in {"attempt", "sleep"}}

\* The exception of a group leaves run(): max_workers is 0 without stages, or
\* the pool cannot start a thread.  The stages already running are waited for.
GroupRaises ==
  /\ open /\ Step.fan
  /\ \/ Step.stages = <<>>
     \/ PoolFaults /\ \E s \in Current : at[s] = "waiting"
  /\ Active = {}
  /\ open' = FALSE
  /\ outcome' = "failure"
  /\ log' = Append(log, "pipeline.failed")
  /\ UNCHANGED <<cfg, acc, branch, group, verdicts>>

\* A worker of the pool takes the next stage of the group.
MayStart(s) ==
  /\ s \in Current
  /\ at[s] = "waiting"
  /\ Cardinality(Active) < Workers
  /\ \E i \in DOMAIN Step.stages :
       /\ Step.stages[i] = s
       /\ \A j \in 1..(i - 1) : at[Step.stages[j]] # "waiting"

Tell(s, names) == trail' = [trail EXCEPT ![s] = @ \o names]

Return(s, kind, out, wrote) ==
  /\ at' = [at EXCEPT ![s] = "done"]
  /\ res' = [res EXCEPT ![s] = [kind |-> kind, out |-> out, wrote |-> wrote]]

\* The condition is false, or raises.
Skip(s) ==
  /\ MayStart(s)
  /\ s \in Guarded
  /\ Return(s, "skipped", acc, {})
  /\ Tell(s, <<"stage.skipped">>)
  /\ UNCHANGED <<cfg, acc, open, tries, group, verdicts, log, outcome>>

Attempt(s) ==
  /\ MayStart(s)
  /\ at' = [at EXCEPT ![s] = "attempt"]
  /\ tries' = [tries EXCEPT ![s] = 1]
  /\ Tell(s, <<"stage.started">>)
  /\ UNCHANGED <<cfg, acc, open, res, group, verdicts, log, outcome>>

AttemptSucceeds(s, kept, gone, w) ==
  /\ at[s] = "attempt"
  /\ Return(s, "ok", Output(s, kept, gone, w), Wrote(s, gone, w))
  /\ Tell(s, <<"stage.completed">>)
  /\ UNCHANGED <<cfg, acc, open, tries, group, verdicts, log, outcome>>

\* Mutant: the snapshot of the last failed attempt is taken for a result.
AttemptFailsTaken(s) ==
  /\ at[s] = "attempt"
  /\ Tell(s, <<"stage.failed">>)
  /\ IF tries[s] < MaxAttempts
     THEN at' = [at EXCEPT ![s] = "sleep"] /\ UNCHANGED res
     ELSE \E w \in Writes[s] : Return(s, "ok", Output(s, {}, {}, w), {})
  /\ UNCHANGED <<cfg, acc, open, tries, group, verdicts, log, outcome>>

\* The run is unsuccessful, or the source, the template variables or the
\* parser raise.
AttemptFails(s) ==
  /\ at[s] = "attempt"
  /\ Tell(s, <<"stage.failed">>)
  /\ IF tries[s] < MaxAttempts
     THEN at' = [at EXCEPT ![s] = "sleep"] /\ UNCHANGED res
     ELSE Return(s, "failed", acc, {})
  /\ UNCHANGED <<cfg, acc, open, tries, group, verdicts, log, outcome>>

Retry(s) ==
  /\ at[s] = "sleep"
  /\ at' = [at EXCEPT ![s] = "attempt"]
  /\ tries' = [tries EXCEPT ![s] = @ + 1]
  /\ Tell(s, <<"stage.retrying", "stage.started">>)
  /\ UNCHANGED <<cfg, acc, open, res, group, verdicts, log, outcome>>

-----------------------------------------------------------------------------
Returned == open /\ Step.stages # <<>> /\ \A s \in Current : at[s] = "done"

\* Mutant: what is merged already wins over the next output.
MergeNextLosing ==
  /\ Returned /\ Step.fan /\ next <= Len(Step.stages)
  /\ LET r == res[Step.stages[next]] IN
       merged' = IF r.kind # "failed" THEN Merge(r.out, merged) ELSE merged
  /\ next' = next + 1
  /\ UNCHANGED <<cfg, acc, open, branch, verdicts, log, outcome>>

\* _run_fan_out merges the outputs in the order of the group.
MergeNext ==
  /\ Returned /\ Step.fan /\ next <= Len(Step.stages)
  /\ LET r == res[Step.stages[next]] IN
       merged' = IF r.kind # "failed" THEN Merge(merged, r.out) ELSE merged
  /\ next' = next + 1
  /\ UNCHANGED <<cfg, acc, open, branch, verdicts, log, outcome>>

\* What a successful step hands on.
Handed == IF Step.fan THEN merged ELSE res[Step.stages[1]].out

StepOk == \A s \in Current : res[s].kind # "failed"

\* The step has its result: merge it, or keep what was accumulated.
EndStep ==
  /\ Returned
  /\ Step.fan => next > Len(Step.stages)
  /\ open' = FALSE
  /\ verdicts' = Append(verdicts, StepOk)
  /\ acc' = IF ~StepOk THEN acc
            ELSE IF cfg.merge = "replace" THEN Handed ELSE Merge(acc, Handed)
  /\ log' = IF Step.fan THEN Append(log, "fanout.completed") ELSE log
  /\ UNCHANGED <<cfg, branch, group, outcome>>

\* The RuntimeError raised after a failed step under HALT.
Halt ==
  /\ outcome = "running" /\ ~open /\ Halting
  /\ outcome' = "failure"
  /\ log' = Append(log, "pipeline.failed")
  /\ UNCHANGED <<cfg, acc, open, branch, group, verdicts>>

\* Mutant: success is that of the last step.
CompleteByLast ==
  /\ outcome = "running" /\ ~open /\ ~Halting
  /\ Len(verdicts) = Len(Steps)
  /\ outcome' = IF verdicts = <<>> \/ verdicts[Len(verdicts)] THEN "success" ELSE "failure"
  /\ log' = Append(log, "pipeline.completed")
  /\ UNCHANGED <<cfg, acc, open, branch, group, verdicts>>

Complete ==
  /\ outcome = "running" /\ ~open /\ ~Halting
  /\ Len(verdicts) = Len(Steps)
  /\ outcome' = IF \A i \in DOMAIN verdicts : verdicts[i] THEN "success" ELSE "failure"
  /\ log' = Append(log, "pipeline.completed")
  /\ UNCHANGED <<cfg, acc, open, branch, group, verdicts>>

Main == BeginStep \/ GroupRaises \/ MergeNext \/ EndStep \/ Halt \/ Complete

RunStage(s) ==
  \/ Skip(s) \/ Attempt(s) \/ AttemptFails(s) \/ Retry(s)
  \/ \E kept \in Kept(s) : \E gone \in Swallowed(s, kept), w \in Writes[s] :
       AttemptSucceeds(s, kept, gone, w)

Next == Main \/ \E s \in Stages : RunStage(s)

Spec == Init /\ [][Next]_vars

-----------------------------------------------------------------------------
TypeOK ==
  /\ cfg \in Configs
  /\ acc \in Snapshots
  /\ open \in BOOLEAN
  /\ at \in [Stages -> {"waiting", "attempt", "sleep", "done"}]
  /\ tries \in [Stages -> 0..(RetryCount + 1)]
  /\ res \in [Stages -> Results \cup {None}]
  /\ merged \in Snapshots /\ next \in Nat \ {0}
  /\ verdicts \in Seq(BOOLEAN)
  /\ trail \in [Stages -> Seq({"stage.skipped", "stage.started", "stage.failed",
                               "stage.retrying", "stage.completed"})]
  /\ log \in Seq({"pipeline.started", "pipeline.completed", "pipeline.failed",
                  "fanout.started", "fanout.completed"})
  /\ outcome \in {"running", "success", "failure"}

LastEvent(s) == IF trail[s] = <<>> THEN "none" ELSE Last(trail[s])
StepEnds == verdicts' # verdicts
Ok == {s \in Current : LastEvent(s) = "stage.completed"}

\* What the accumulated snapshot gains, a stage that told of its completion
\* put into its output: a step with a failed stage leaves no trace, whatever
\* its attempts and its other stages did to their own graphs.
OnlyCompletedContribute ==
  [][ acc' # acc =>
        /\ \A s \in Current : LastEvent(s) \in {"stage.completed", "stage.skipped"}
        /\ \A e \in Entities :
             /\ acc'.attr[e] # acc.attr[e] =>
                  \E s \in Ok : acc'.attr[e] = res[s].out.attr[e]
             /\ acc'.preds[e] \subseteq acc.preds[e] \cup UNION {res[s].out.preds[e] : s \in Ok}
    ]_vars

\* The order in which the threads of a group finish is not visible: of the
\* outputs that have an attribute, the last in the list of the group decides.
LastListedDecides ==
  [][ StepEnds /\ (\A s \in Current : res[s].kind # "failed") =>
        \A e \in Entities : \A i \in DOMAIN Step.stages :
          LET v(j) == res[Step.stages[j]].out.attr[e]
          IN v(i) # Absent /\ (\A j \in DOMAIN Step.stages : j > i => v(j) = Absent)
               => acc'.attr[e] = v(i)
    ]_vars

\* "Entities only grow" (SnapshotMerge.ACCUMULATE): no attribute, predicate or
\* goal of the accumulated snapshot disappears, whatever was truncated,
\* filtered or swallowed on the way into a stage.
OnlyGrows ==
  [][ cfg.merge = "accumulate" =>
        /\ \A e \in Entities :
             /\ acc.attr[e] # Absent => acc'.attr[e] # Absent
             /\ acc.preds[e] \subseteq acc'.preds[e]
        /\ \A g \in Stages : acc.goals[g] # Absent => acc'.goals[g] = acc.goals[g]
    ]_vars

\* Under HALT nothing follows a failure but pipeline.failed: no stage of a
\* later step is started or skipped.
LaterStages(n) ==
  UNION {{Steps[i].stages[j] : j \in DOMAIN Steps[i].stages} : i \in (n + 1)..Len(Steps)}

HaltStops ==
  cfg.onFailure = "halt" =>
    \A i \in DOMAIN verdicts : ~verdicts[i] =>
      /\ i = Len(verdicts) /\ ~open
      /\ outcome # "running" => outcome = "failure" /\ Last(log) = "pipeline.failed"
      /\ \A s \in LaterStages(i) : trail[s] = <<>>

\* A pipeline decides its steps as a workflow decides its goals: in order,
\* each once, with success only when each succeeded.
Abstract == INSTANCE WorkflowRun WITH
  NGoals <- Len(Steps),
  verdict <- [i \in 1..Len(Steps) |->
                IF i > Len(verdicts) THEN "UNDECIDED"
                ELSE IF verdicts[i] THEN "ACHIEVED" ELSE "FAILED"]

Implements == Abstract!Spec

-----------------------------------------------------------------------------
\* A stage that succeeds has done its goals (PipelineStage: "wraps exactly one
\* .rl workflow spec"; to_rl escapes what would "break the RL tokenizer"): the
\* text injected in front of its source does not do away with them.
SuccessAchieves ==
  outcome = "success" =>
    \A s \in Stages : LastEvent(s) = "stage.completed" => res[s].out.goals[s] = "ACHIEVED"
=============================================================================
