------------------------------ MODULE BotCycle ------------------------------
(***************************************************************************)
(* What a cycle of the bot service does: the pipeline of the workflows,    *)
(* seeded with the snapshot of the last successful cycle; the tools its    *)
(* goals are routed to, with the systems behind them; and what is recorded *)
(* and broadcast at its end (see BotFeed).  Who may run a cycle, and when, *)
(* is BotService; one runs at a time.                                      *)
(*                                                                         *)
(* A snapshot is abstracted to which cycle last wrote an entity and, for a *)
(* decision or an action, what it says.  Which tool a goal is routed to is *)
(* part of the workflows (RlGoals).                                        *)
(* What a tool returns as rl_context is dropped by the orchestrator; only  *)
(* its nested dictionaries become entities (raw, state, features).         *)
(***************************************************************************)
EXTENDS BotFeed

CONSTANTS
  Files,       \* pipeline.yaml each time the pipeline is built
  RlGoals,     \* the goals of the workflow file of each stage
  Says,        \* the actions that replies name
  MaxRetries,  \* retry_count
  Ttl,         \* signal_cache_ttl_seconds
  HardTimeout, \* how long a request for a signal may take
  Limits       \* bounds: cycles, faults, the clock, emergency stops, clients, the
               \* pipeline built first and last, whether there is a shutdown; and
               \* the settings: bot_dry_run, and what rof_provider names

Entities == {"Subject", "Context", "Analysis", "Constraints", "ResourceBudget", "BotState",
             "raw", "features", "state", "Decision", "Action"}
Actions == {"proceed", "escalate", "defer", "skip"}
Policies == {"continue", "retry", "halt"}
ToolKinds == {"llm", "source", "enrich", "signal", "analyse", "read", "write", "act"}
StageNames == {"collect", "analyse", "validate", "decide", "execute"}

\* inject_context and context_filter of a stage; rl: it names a workflow file.
Stages == [name : StageNames, rl : BOOLEAN, inject : BOOLEAN, keeps : SUBSET Entities]

ASSUME BotCycleAssumption ==
  /\ MaxRetries \in Nat /\ Ttl \in Nat /\ HardTimeout \in Nat /\ Says \subseteq Actions
  /\ RlGoals \in [StageNames -> Seq([tool : ToolKinds, writes : Entities])]
  /\ \A i \in DOMAIN Files : Files[i].stages \in Seq(Stages)
  /\ \A l \in Limits : l.first \in Nat \ {0} /\ l.dry \in BOOLEAN

\* _FALLBACK_STAGES and _FALLBACK_CONFIG.
Fallback ==
  LET Stg(name, inject, keeps) == [name |-> name, rl |-> TRUE, inject |-> inject, keeps |-> keeps]
  IN [readable |-> TRUE, policy |-> "continue", stages |-> <<
       Stg("collect", FALSE, {}),
       Stg("analyse", TRUE, {"Subject", "Context"}),
       Stg("validate", TRUE, {"Subject", "Analysis", "BotState"}),
       Stg("decide", TRUE, {"Subject", "Analysis", "Constraints", "ResourceBudget"}),
       Stg("execute", TRUE, {"Decision", "Subject", "ResourceBudget", "BotState"})>>]

\* _load_pipeline_yaml: a file that is missing, cannot be parsed or has no stages.
Loaded(file) == IF file.readable /\ file.stages # <<>> THEN file ELSE Fallback

\* build_pipeline: a stage without a workflow file is left out, and a policy that
\* is not known means to continue.
BuiltStages(stages) == SelectSeq(stages, LAMBDA s : s.rl)

BuildPipeline(file) ==
  [policy |-> IF Loaded(file).policy \in Policies THEN Loaded(file).policy ELSE "continue",
   stages |-> BuiltStages(Loaded(file).stages)]

Plans == [i \in DOMAIN Files |-> BuildPipeline(Files[i])]

VARIABLES
  lim,      \* the bounds of this behaviour
  now,      \* the clock of the signal cache
  tools,    \* the registry of each pipeline built so far: is it dry, and the
            \* cache of its signal tool
  seed,     \* app.state.last_snapshot
  run,      \* the cycle, see Idle
  acc,      \* the snapshot the pipeline accumulates
  graph,    \* the graph of the attempt at a stage
  table,    \* last_action_type and last_action_status in the store
  effects,  \* what the external system was asked to do and did
  books,    \* the metrics, the table of runs and what was broadcast, see NoBooks
  good,     \* the cycles that succeeded
  faults    \* failures so far

vars == <<feedVars, lim, now, tools, seed, run, acc, graph, table, effects, books, good, faults>>
data == <<acc, graph, table, effects>>

Never == [by |-> 0, says |-> "-"]
Blank == [e \in Entities |-> Never]
NoSignal == [asked |-> 0, expires |-> 0, is |-> "none"]

\* build_tool_registry makes every tool anew, but for the state tool it is given.
ToolRegistry == [dry |-> lim.dry, signal |-> NoSignal]

\* create_provider: a stub replies with prose when the one that is named is not
\* installed, cannot be made, or is not known.
CreateProvider(name) == IF name \in {"missing", "failing", "unknown"} THEN "stub" ELSE name

\* at: where the task is; n: the number of the cycle; plan: the pipeline it uses;
\* stage, try, goal: where the pipeline is; ok, allOk: no goal of the attempt, no
\* stage has failed; asks: since when a request for a signal is under way; asked,
\* served: when the signal that was served last was asked for, and served.
Idle == [at |-> "idle", n |-> 0, plan |-> 1, stage |-> 1, try |-> 1, goal |-> 1,
         ok |-> TRUE, allOk |-> TRUE, asks |-> 0, asked |-> 0, served |-> 0]

\* active: the gauge of running pipelines; labels: pipeline_runs_total, the label of
\* each run it counted; rows, lost: the rows of the table, with what they say of their
\* cycle, and the cycles whose row could not be saved; rate, rated: the error rate of
\* the day, and whether it could be read at the latest cycle; said: the success that
\* each broadcast names; policies: what each cycle does when a stage fails.
NoBooks == [active |-> 0, labels |-> <<>>, rows |-> {}, lost |-> {}, rate |-> <<0, 0>>, rated |-> TRUE,
            said |-> <<>>, policies |-> <<>>]

Init ==
  /\ lim \in Limits
  /\ FeedInit(lim.clients)
  /\ now = 0 /\ tools = [i \in 1..lim.first |-> ToolRegistry]
  /\ seed = Blank /\ run = Idle /\ acc = Blank /\ graph = Blank
  /\ table = "-" /\ effects = {}
  /\ books = NoBooks
  /\ good = {} /\ faults = 0

-----------------------------------------------------------------------------
Plan == Plans[run.plan]
Stage == Plan.stages[run.stage]
StageGoals == RlGoals[Stage.name]
Goal == StageGoals[run.goal]
Tools == tools[run.plan]
Provider == CreateProvider(lim.provider)

\* A goal is settled, and the orchestrator turns to the next.
Settled(ok) ==
  /\ run' = [run EXCEPT !.at = "goal", !.goal = @ + 1, !.ok = @ /\ ok]
  /\ faults' = IF ok THEN faults ELSE faults + 1

MayFail == faults < lim.faults
Verdict == IF MayFail THEN BOOLEAN ELSE {TRUE}

\* set_attribute on an entity; what others wrote of it stays.
Wrote(e, says) == graph' = [graph EXCEPT ![e] = [by |-> run.n, says |-> says]]

AtGoal(kinds) ==
  /\ run.at = "goal" /\ run.goal <= Len(StageGoals) /\ Goal.tool \in kinds

-----------------------------------------------------------------------------
(* The pipeline.                                                           *)

\* filter_entities, as the context_filter of a stage; BotState always passes.
Filtered(snap, keeps) ==
  IF keeps = {} THEN snap
  ELSE [e \in Entities |-> IF e \in keeps \cup {"BotState"} THEN snap[e] ELSE Never]

Injected(s) == IF s.inject THEN Filtered(acc, s.keeps) ELSE Blank

\* The metrics follow the events of the pipeline.  pipeline.completed is published for
\* a run with failed stages, too: its field success is not looked at.
PipelineStarted(b, policy) == [b EXCEPT !.active = @ + 1, !.policies = Append(@, policy)]
PipelineCompleted(b) == [b EXCEPT !.active = @ - 1, !.labels = Append(@, "success")]
PipelineFailed(b) == [b EXCEPT !.active = @ - 1, !.labels = Append(@, "failed")]

\* _execute_cycle calls pipeline.run with the last snapshot as the seed.
StartCycle ==
  /\ run.at = "idle" /\ run.n < lim.cycles
  /\ run' = [Idle EXCEPT !.at = "stage", !.n = run.n + 1, !.plan = Len(tools)]
  /\ acc' = seed
  /\ books' = PipelineStarted(books, Plans[Len(tools)].policy)
  /\ UNCHANGED <<feedVars, lim, now, tools, seed, graph, table, effects, good, faults>>

\* _run_stage, an attempt: the graph starts from what is injected.
BeginAttempt ==
  /\ run.at = "stage" /\ run.stage <= Len(Plan.stages)
  /\ graph' = Injected(Stage)
  /\ run' = [run EXCEPT !.at = "goal", !.goal = 1, !.ok = TRUE]
  /\ UNCHANGED <<feedVars, lim, now, tools, seed, acc, table, effects, books, good, faults>>

Attempts == IF Plan.policy = "retry" THEN MaxRetries + 1 ELSE 1

\* SnapshotSerializer.merge: the stage's entities over the accumulated ones.
Merged(old, new) == [e \in Entities |-> IF new[e] = Never THEN old[e] ELSE new[e]]

NextStage(allOk) == [run EXCEPT !.at = "stage", !.stage = @ + 1, !.try = 1, !.allOk = allOk]

\* The attempt succeeded, is repeated, halts the pipeline, or leaves the
\* accumulated snapshot as it was.
EndAttempt ==
  /\ run.at = "goal" /\ run.goal > Len(StageGoals)
  /\ graph' = Blank
  /\ IF run.ok THEN acc' = Merged(acc, graph) /\ run' = NextStage(run.allOk)
     ELSE /\ UNCHANGED acc
          /\ run' = IF run.try < Attempts THEN [run EXCEPT !.at = "stage", !.try = @ + 1]
                    ELSE IF Plan.policy = "halt" THEN [run EXCEPT !.at = "raised", !.allOk = FALSE]
                    ELSE NextStage(FALSE)
  /\ UNCHANGED <<feedVars, lim, now, tools, seed, table, effects, books, good, faults>>

Counted(raised) == IF raised THEN PipelineFailed(books) ELSE PipelineCompleted(books)

\* The pipeline raised or is through; a successful cycle leaves the next seed.
Ended == run.at = "raised" \/ (run.at = "stage" /\ run.stage > Len(Plan.stages))

\* Mutant: every cycle leaves the next seed.
EndPipelineAny ==
  /\ Ended
  /\ books' = Counted(run.at = "raised")
  /\ seed' = acc /\ good' = IF run.allOk THEN good \cup {run.n} ELSE good
  /\ run' = [run EXCEPT !.at = "save"]
  /\ UNCHANGED <<feedVars, lim, now, tools, acc, graph, table, effects, faults>>

\* Mutant: pipeline.failed is not subscribed to.
EndPipelineQuiet ==
  /\ Ended
  /\ books' = IF run.at = "raised" THEN books ELSE Counted(FALSE)
  /\ IF run.allOk THEN seed' = acc /\ good' = good \cup {run.n} ELSE UNCHANGED <<seed, good>>
  /\ run' = [run EXCEPT !.at = "save"]
  /\ UNCHANGED <<feedVars, lim, now, tools, acc, graph, table, effects, faults>>

EndPipeline ==
  /\ Ended
  /\ books' = Counted(run.at = "raised")
  /\ IF run.allOk THEN seed' = acc /\ good' = good \cup {run.n} ELSE UNCHANGED <<seed, good>>
  /\ run' = [run EXCEPT !.at = "save"]
  /\ UNCHANGED <<feedVars, lim, now, tools, acc, graph, table, effects, faults>>

-----------------------------------------------------------------------------
(* The tools.                                                              *)

ToolLeaves == UNCHANGED <<feedVars, lim, now, seed, acc, books, good>>

\* A goal without a tool: the reply writes the entity the goal is about or, though
\* the goal counts as achieved, another one; or it writes nothing or raises, as
\* the prose of the stub does.
LLMGoal ==
  /\ AtGoal({"llm"})
  /\ \E e \in {Goal.writes, "Subject"}, ok \in (IF Provider = "stub" THEN {FALSE} ELSE Verdict) :
       /\ Settled(ok)
       /\ IF ok THEN \E says \in (IF e \in {"Decision", "Action"} THEN Says ELSE {"-"}) : Wrote(e, says)
          ELSE UNCHANGED graph
  /\ ToolLeaves /\ UNCHANGED <<tools, table, effects>>

\* What a system behind a tool answers; a dry tool has its stub answer.
Answers(kinds) == IF Tools.dry \/ ~MayFail THEN {"data"} ELSE {"data"} \cup kinds

\* DataSourceTool: a subject that is not found and a source that cannot be reached
\* are successes without data; an answer of another shape fails.
CallExternalApi == Answers({"not found", "unavailable", "odd"})

SourceGoal ==
  /\ AtGoal({"source"})
  /\ \E answer \in CallExternalApi :
       /\ Settled(answer # "odd")
       /\ IF answer = "data" THEN Wrote("raw", "-") ELSE UNCHANGED graph
  /\ ToolLeaves /\ UNCHANGED <<tools, table, effects>>

\* ContextEnrichmentTool: a subject that is not found has no history, which is data.
FetchEnrichment == Answers({"unavailable", "odd"})

EnrichGoal ==
  /\ AtGoal({"enrich"})
  /\ \E answer \in FetchEnrichment :
       /\ Settled(answer # "odd")
       /\ IF answer = "data" THEN Wrote("raw", "-") ELSE UNCHANGED graph
  /\ ToolLeaves /\ UNCHANGED <<tools, table, effects>>

Cache == Tools.signal

\* _SignalCache.get: an entry is served until it has expired.
Cached == Cache.is # "none" /\ now <= Cache.expires

Served(asked) == [run EXCEPT !.at = "goal", !.goal = @ + 1, !.asked = asked, !.served = now]

\* Mutant: serving an entry keeps it for another while.
SignalHitRenews ==
  /\ AtGoal({"signal"}) /\ Cached
  /\ run' = Served(Cache.asked) /\ Wrote("raw", "-")
  /\ tools' = [tools EXCEPT ![run.plan].signal.expires = now + Ttl]
  /\ ToolLeaves /\ UNCHANGED <<table, effects, faults>>

SignalHit ==
  /\ AtGoal({"signal"}) /\ Cached
  /\ run' = Served(Cache.asked) /\ Wrote("raw", "-")
  /\ ToolLeaves /\ UNCHANGED <<tools, table, effects, faults>>

\* The request is sent; an entry that has expired is dropped.
SignalAsk ==
  /\ AtGoal({"signal"}) /\ ~Cached
  /\ run' = [run EXCEPT !.at = "fetch", !.asks = now]
  /\ tools' = [tools EXCEPT ![run.plan].signal = NoSignal]
  /\ ToolLeaves /\ UNCHANGED <<graph, table, effects, faults>>

\* _SignalCache.set.
Remembered(asked) ==
  IF Ttl = 0 THEN NoSignal ELSE [asked |-> asked, expires |-> now + Ttl, is |-> "signal"]

\* A signal, "none" for a subject without one, or the stub.
SignalArrives ==
  /\ run.at = "fetch"
  /\ run' = Served(run.asks) /\ Wrote("raw", "-")
  /\ tools' = [tools EXCEPT ![run.plan].signal = Remembered(run.asks)]
  /\ ToolLeaves /\ UNCHANGED <<table, effects, faults>>

\* "Pipeline always continues": a failed request is a success without data.
SignalFails ==
  /\ run.at = "fetch" /\ ~Tools.dry /\ MayFail
  /\ Settled(TRUE)
  /\ UNCHANGED graph
  /\ ToolLeaves /\ UNCHANGED <<tools, table, effects>>

\* AnalysisTool: scores what it finds of Subject, with defaults for the rest.
AnalyseGoal ==
  /\ AtGoal({"analyse"})
  /\ Settled(TRUE) /\ Wrote("features", "-")
  /\ ToolLeaves /\ UNCHANGED <<tools, table, effects>>

\* BotStateManagerTool, by the words of the goal: a read, or the record of what
\* the Action entity says, which is a skip when nothing wrote it.
Recorded == IF graph["Action"] = Never THEN "skip" ELSE graph["Action"].says

ReadState ==
  /\ AtGoal({"read"})
  /\ Settled(TRUE) /\ Wrote("state", "-")
  /\ ToolLeaves /\ UNCHANGED <<tools, table, effects>>

WriteState ==
  /\ AtGoal({"write"})
  /\ Settled(TRUE) /\ Wrote("state", "-")
  /\ table' = Recorded
  /\ ToolLeaves /\ UNCHANGED <<tools, effects>>

\* ActionExecutorTool: what the external system did, and how the call ended.  A
\* request that timed out may have been carried out; a defer that does not come
\* through is a success, unless it could not be sent at all.
Outcome == [sent : BOOLEAN, ok : Verdict]
PrimaryEnds == {o \in Outcome : o.ok => o.sent}
EscalateEnds == {o \in Outcome : o.ok => o.sent}
DeferEnds == {o \in Outcome : o.sent => o.ok}
NothingSent == {o \in Outcome : ~o.sent}

\* A skip, and an action that is not known, ask the external system for nothing.
DispatchLive(action) ==
  CASE action = "proceed" -> PrimaryEnds
    [] action = "escalate" -> EscalateEnds
    [] action = "defer" -> DeferEnds
    [] OTHER -> NothingSent

\* A confidence that is no number fails before the dry-run gate.
ActGoal ==
  /\ AtGoal({"act"})
  /\ LET decision == graph["Decision"] IN
     \E o \in IF Tools.dry THEN NothingSent ELSE DispatchLive(decision.says) :
       /\ Settled(o.ok)
       /\ effects' = IF ~o.sent THEN effects
                     ELSE effects \cup {[cycle |-> run.n, stage |-> run.stage, try |-> run.try,
                                         goal |-> run.goal, by |-> decision.by]}
  /\ ToolLeaves /\ UNCHANGED <<graph, tools, table>>

-----------------------------------------------------------------------------
(* The end of the cycle, and what happens around it.                       *)

\* The row of the cycle: db.save_pipeline_run, which may fail.
SavedRow(b) == [b EXCEPT !.rows = @ \cup {[cycle |-> run.n, success |-> run.allOk]}]

SaveRun ==
  /\ run.at = "save"
  /\ run' = [run EXCEPT !.at = "rate"]
  /\ \/ books' = SavedRow(books) /\ UNCHANGED faults
     \/ MayFail /\ faults' = faults + 1 /\ books' = [books EXCEPT !.lost = @ \cup {run.n}]
  /\ UNCHANGED <<feedVars, lim, now, tools, seed, acc, graph, table, effects, good>>

\* db.get_daily_error_rate, as a fraction; all rows are of one day.
DailyErrorRate(b) == <<Cardinality({row \in b.rows : ~row.success}), Cardinality(b.rows)>>

\* _update_daily_error_rate: a rate that cannot be read stays what it was.  Then the
\* broadcast begins, which names the result of the pipeline.
UpdateRate ==
  /\ run.at = "rate"
  /\ run' = [run EXCEPT !.at = "cast"]
  /\ \/ /\ books' = [books EXCEPT !.rate = DailyErrorRate(books), !.rated = TRUE, !.said = Append(@, run.allOk)]
        /\ UNCHANGED faults
     \/ /\ MayFail /\ faults' = faults + 1
        /\ books' = [books EXCEPT !.rated = FALSE, !.said = Append(@, run.allOk)]
  /\ BeginCast("cycle")
  /\ UNCHANGED <<lim, now, tools, seed, acc, graph, table, effects, good>>

\* What the cycle held is gone.
EndCycle ==
  /\ run.at = "cast" /\ ~cast["cycle"].on
  /\ run' = [Idle EXCEPT !.n = run.n]
  /\ acc' = Blank
  /\ UNCHANGED <<feedVars, lim, now, tools, seed, graph, table, effects, books, good, faults>>

\* The broadcast of execute_abort_procedure.
Halt ==
  /\ cast["halt"].no < lim.halts
  /\ BeginCast("halt")
  /\ UNCHANGED <<lim, now, tools, seed, run, data, books, good, faults>>

\* POST /control/reload: the next cycle uses new tools and an empty cache.
Reload ==
  /\ Len(tools) < lim.last /\ tools' = Append(tools, ToolRegistry)
  /\ UNCHANGED <<feedVars, lim, now, seed, run, data, books, good, faults>>

Tick ==
  /\ now < lim.now /\ (run.at = "fetch" => now - run.asks < HardTimeout)
  /\ now' = now + 1
  /\ UNCHANGED <<feedVars, lim, tools, seed, run, data, books, good, faults>>

Feed ==
  /\ FeedStep \/ (lim.shuts /\ CloseAll)
  /\ UNCHANGED <<lim, now, tools, seed, run, data, books, good, faults>>

Next ==
  \/ StartCycle \/ BeginAttempt \/ EndAttempt \/ EndPipeline
  \/ LLMGoal \/ SourceGoal \/ EnrichGoal \/ SignalHit \/ SignalAsk \/ SignalArrives \/ SignalFails
  \/ AnalyseGoal \/ ReadState \/ WriteState \/ ActGoal
  \/ SaveRun \/ UpdateRate \/ EndCycle
  \/ Halt \/ Reload \/ Tick \/ Feed

Spec == Init /\ [][Next]_vars

-----------------------------------------------------------------------------
Entry == [by : Nat, says : Actions \cup {"-"}]

TypeOK ==
  /\ FeedTypeOK
  /\ lim \in Limits /\ now \in Nat /\ faults \in Nat /\ good \subseteq 1..run.n
  /\ {seed, acc, graph} \subseteq [Entities -> Entry]
  /\ run.at \in {"idle", "stage", "goal", "fetch", "raised", "save", "rate", "cast"}
  /\ table \in Actions \cup {"-"}

\* What the external system did goes back to a decision: of the cycle that asked
\* for it, or of an earlier cycle that succeeded.  A decision of a cycle that
\* failed is never carried out later, however cycles fail and the pipeline is
\* rebuilt.
EffectsDecided == \A e \in effects : e.by # 0 /\ (e.by = e.cycle \/ e.by \in good)

\* The signal that a cycle is served was asked for no longer ago than the time to
\* live of an entry and the time that a request may take.
SignalFresh == run.served - run.asked <= Ttl + HardTimeout

InPipeline == run.at \in {"stage", "goal", "fetch", "raised"}

\* How many cycles are through with their pipeline, the save and the broadcast.
Through == run.n - (IF InPipeline THEN 1 ELSE 0)
SavedTo == run.n - (IF InPipeline \/ run.at = "save" THEN 1 ELSE 0)
SaidTo == run.n - (IF InPipeline \/ run.at \in {"save", "rate"} THEN 1 ELSE 0)

\* What is told of each cycle in three places.  Its row, unless it was lost, and its
\* broadcast say whether all its stages succeeded; and so does the error rate of
\* all rows, as of the latest time it could be read.  The metrics count each cycle once, but
\* agree with that only where the policy is to halt: else a cycle with failed
\* stages is labelled a success (METRICS.md has success|failed).
Accounts ==
  /\ books.active = run.n - Through
  /\ Len(books.labels) = Through
  /\ \A n \in 1..Through :
       books.labels[n] = IF n \notin good /\ books.policies[n] = "halt" THEN "failed" ELSE "success"
  /\ {row.cycle : row \in books.rows} = (1..SavedTo) \ books.lost
  /\ \A row \in books.rows : row.success <=> row.cycle \in good
  /\ Len(books.said) = SaidTo /\ \A n \in 1..SaidTo : books.said[n] <=> n \in good
  /\ books.rated /\ run.at # "rate" => books.rate = DailyErrorRate(books)

-----------------------------------------------------------------------------
\* Violated, see the README.  pipeline.yaml has entities "accumulate across stages
\* within a run", and scheduler.py has those of the last run available "for routing
\* memory and observability": an action would follow from a decision of its own
\* cycle.  But the pipeline accumulates on the seed.
FreshDecision == \A e \in effects : e.by = e.cycle
=============================================================================
