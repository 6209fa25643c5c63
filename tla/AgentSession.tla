---------------------------- MODULE AgentSession ----------------------------
(***************************************************************************)
(* ROFSession of the demo agent: a command is planned by the LLM, its plan *)
(* is run by an orchestrator, the goals that failed are run again one by   *)
(* one over the merged snapshot, and the LLM answers what no retry could.  *)
(*                                                                         *)
(* An entity attribute is abstracted to what the MCP validation tells      *)
(* apart: an integer, a string of digits, another string.                  *)
(***************************************************************************)
EXTENDS Naturals, Sequences, Functions, FiniteSets

CONSTANTS
  Commands,
  Plans,          \* command -> the plans the LLM may give that parse: goals, attrs
  About,          \* goal -> what there is to know of it
  Synthesis,      \* the goal appended when nothing consumes the RAG result
  Discovered,     \* attributes in the inputSchema of a discovered MCP tool
  Scripts,        \* attribute that names a .py file -> the tool in the file
  Pages,          \* attribute that holds a link -> the UrlContent attribute
  PlanRetries, StepRetries, LLMFallback, MaxIterations,
  None

Goals == DOMAIN About
Values == {"int", "digits", "word"}
GoalAttributes == UNION {DOMAIN About[g].writes \cup DOMAIN About[g].needs : g \in Goals}
PlanAttributes == UNION {DOMAIN p.attrs : p \in UNION {Plans[c] : c \in Commands}}
Attributes == GoalAttributes \cup PlanAttributes \cup {Pages[a] : a \in DOMAIN Pages}

\* About[g] has tokens: its capitalised words; mentions: the tokens found anywhere
\* in it; writes: attribute -> value; needs: parameter -> type, which the server
\* checks; llm: the goal without its trigger phrases; and whether it is for the
\* rag tool, for any tool, and an analysis.
ASSUME AgentSessionAssumption ==
  /\ {PlanRetries, StepRetries, MaxIterations} \subseteq Nat
  /\ LLMFallback \in BOOLEAN /\ Synthesis \in Goals
  /\ \A c \in Commands : \A p \in Plans[c] :
       p.goals \in Seq(Goals) /\ p.attrs \in [DOMAIN p.attrs -> Values]
  /\ \A g \in Goals :
       /\ About[g].tokens \subseteq About[g].mentions /\ About[g].llm \in Goals
       /\ About[g].writes \in [DOMAIN About[g].writes -> Values]
       /\ About[g].needs \in [DOMAIN About[g].needs -> {"integer", "string"}]

VARIABLES
  run,     \* the run in progress, see Fresh
  last,    \* the attributes of _last_snapshot
  tools    \* _generated_tools, which are also in _tools

sessionVars == <<run, last, tools>>

Empty == [a \in {} |-> None]
NoFault == [missing |-> {}, wrong |-> {}]

\* failed: failed_steps; todo: those from the current one on; seed of a step: what
\* its graph held.
Fresh(c) ==
  [at |-> "plan", command |-> c, tries |-> 0, plan |-> <<>>, steps |-> <<>>, snap |-> Empty,
   failed |-> <<>>, todo |-> <<>>, blocked |-> {}, attempt |-> 0, fault |-> NoFault,
   pages |-> {}, ok |-> FALSE]

Idle == [Fresh(None) EXCEPT !.at = "idle"]

SessionInit == run = Idle /\ last = {} /\ tools = {}

-----------------------------------------------------------------------------
(* Planning.                                                               *)

\* run() appends a goal for the LLM when the RAG tool has a goal and every goal
\* is some tool's.
Synthesised(plan) ==
  IF /\ \E i \in DOMAIN plan : About[plan[i]].rag
     /\ \A i \in DOMAIN plan : About[plan[i]].tool
  THEN Append(plan, Synthesis) ELSE plan

\* run() forgets the last snapshot before it plans.
StartRun(c) == run' = Fresh(c) /\ last' = {} /\ UNCHANGED tools

\* _save_fallback writes a reply without goals to a file, or raises; a plan with
\* goals needs no file.  TRUE: the run goes on.
FallbackSaved(plan) == IF plan = <<>> THEN BOOLEAN ELSE {TRUE}

\* Planner.plan: a reply that does not parse is given back to the LLM with the
\* error, PlanRetries times.
PlanOnce ==
  /\ run.at = "plan"
  /\ \/ \E p \in Plans[run.command] : \E saved \in FallbackSaved(p.goals) :
          run' = [run EXCEPT !.at = IF saved THEN "execute" ELSE "raised",
                             !.plan = Synthesised(p.goals), !.snap = p.attrs]
     \/ run' = IF run.tries < PlanRetries THEN [run EXCEPT !.tries = @ + 1]
               ELSE [run EXCEPT !.at = "raised"]
     \/ run' = [run EXCEPT !.at = "raised"]    \* the provider failed
  /\ UNCHANGED <<last, tools>>

-----------------------------------------------------------------------------
(* Snapshots.                                                              *)

\* _deep_merge_snapshots: the overlay's attributes win, none is dropped.
Merged(base, overlay) ==
  [a \in DOMAIN base \cup DOMAIN overlay |-> IF a \in DOMAIN overlay THEN overlay[a] ELSE base[a]]

\* A string of digits passes for an integer.
Fits(value, type) == value # (IF type = "integer" THEN "word" ELSE "int")

Faults(g, seed) ==
  LET needs == About[g].needs
  IN [missing |-> DOMAIN needs \ DOMAIN seed,
      wrong |-> {a \in DOMAIN needs \cap DOMAIN seed : ~Fits(seed[a], needs[a])}]

\* A value of the wrong type is converted to the type of the message, or
\* replaced by a default of that type.
Repaired(seed, a, type) ==
  IF type = "integer" THEN "int"
  ELSE IF a \in DOMAIN seed /\ seed[a] = "int" THEN "digits" ELSE "word"

\* _inject_missing_mcp_params: a missing parameter gets a default, an integer
\* when no discovered schema tells its type; then the wrong values are repaired.
Injected(g, seed, fault) ==
  LET type(a) == About[g].needs[a]
      absent == fault.missing \ DOMAIN seed
      assumed(a) == IF a \in Discovered THEN type(a) ELSE "integer"
      defaults == [a \in absent |-> IF assumed(a) = "integer" THEN "int" ELSE "word"]
  IN Merged(Merged(seed, defaults), [a \in fault.wrong |-> Repaired(seed, a, type(a))])

\* Mutant: a retry is the bare goal.
SeededBare(snap) == Empty

\* _build_seeded_ast, from the snapshot and the pages that were fetched.
Seeded(snap) == Merged(snap, [a \in run.pages |-> "word"])

\* _goals_are_dependent: a token of the failed goal occurs in the later one.
Dependent(later, failed) == About[failed].tokens \cap About[later].mentions # {}

-----------------------------------------------------------------------------
(* Execution.                                                              *)

\* What an orchestrator makes of goal g when the tool or the LLM is up to it
\* (able): its step, and the snapshot after it.
Ran(g, seed, able, by, for) ==
  LET fault == Faults(g, seed)
      ok == able /\ fault = NoFault
  IN [step |-> [goal |-> g, ok |-> ok, fault |-> fault, by |-> by, for |-> for, seed |-> DOMAIN seed],
      snap |-> IF ok THEN Merged(seed, About[g].writes) ELSE seed]

\* _try_register_generated_tools imports the scripts a run saved; an import may
\* fail, and a file or a name already registered is left alone.
Register(snap) ==
  \E new \in SUBSET {Scripts[a] : a \in DOMAIN Scripts \cap DOMAIN snap} : tools' = tools \cup new

\* _fetch_url_text: what a link yields, which on any error is nothing.
PageText(link) == {{}, {Pages[link]}}

\* _fetch_url_contents of the links in the snapshot, each once.
Fetched(snap) ==
  LET links == DOMAIN Pages \cap DOMAIN snap
  IN {UNION Range(texts) : texts \in {f \in [links -> {{}} \cup UNION {PageText(l) : l \in links}] :
                                        \A l \in links : f[l] \in PageText(l)}}

\* The pages for the retries: fetched once, and only if an analysis is to be redone.
Enriched(failed, snap) ==
  IF \E i \in DOMAIN failed : About[failed[i].goal].analysis THEN Fetched(snap) ELSE {{}}

\* orch.run of the plan takes the goals one after another, MaxIterations at most.
Exhausted == Len(run.steps) = Len(run.plan) \/ Len(run.steps) = MaxIterations

ExecuteGoal ==
  /\ run.at = "execute" /\ ~Exhausted
  /\ \E able \in BOOLEAN :
       LET g == run.plan[Len(run.steps) + 1]
           r == Ran(g, run.snap, able, "run", g)
       IN run' = [run EXCEPT !.steps = Append(@, r.step), !.snap = r.snap,
                             !.failed = IF r.step.ok THEN @ ELSE Append(@, r.step)]
  /\ UNCHANGED <<last, tools>>

\* What run() makes of the plan's run: what failed is tried again.
EndPlan ==
  /\ run.at = "execute" /\ Exhausted
  /\ Register(run.snap)
  /\ IF run.failed = <<>>
     THEN run' = [run EXCEPT !.at = "save", !.ok = Len(run.steps) = Len(run.plan)]
     ELSE \E pages \in Enriched(run.failed, run.snap) :
            run' = [run EXCEPT !.at = "next", !.todo = run.failed, !.pages = pages]
  /\ UNCHANGED last

\* The set `achieved`: by the run, by a retry or by the fallback for the goal.
Achieved(g) == \E i \in DOMAIN run.steps : run.steps[i].for = g /\ run.steps[i].ok

\* The dependency guard looks at every failed goal, whatever their order.
Blocked(g) ==
  \/ g \in run.blocked
  \/ \E i \in DOMAIN run.failed :
       LET other == run.failed[i].goal
       IN other # g /\ ~Achieved(other) /\ Dependent(g, other)

\* Only the last step of each goal text decides.
FinalSuccess(steps) ==
  \A i \in DOMAIN steps :
    (\A j \in DOMAIN steps : j > i => steps[j].goal # steps[i].goal) => steps[i].ok

TakeFailed ==
  /\ run.at = "next"
  /\ run' = IF run.todo = <<>>
            THEN [run EXCEPT !.at = "save", !.ok = FinalSuccess(run.steps)]
            ELSE IF Blocked(Head(run.todo).goal) THEN [run EXCEPT !.todo = Tail(@), !.blocked = @ \cup {Head(run.todo).goal}]
            ELSE [run EXCEPT !.at = "retry", !.attempt = 0, !.fault = Head(run.todo).fault]
  /\ UNCHANGED <<last, tools>>

\* What follows a step of a retry or of the fallback.  A failure is not merged.
Took(r, onSuccess, onFailure) ==
  LET seen == [run EXCEPT !.steps = Append(@, r.step), !.attempt = @ + 1]
  IN /\ Register(r.snap)
     /\ run' = IF r.step.ok THEN [seen EXCEPT !.at = onSuccess, !.todo = Tail(@),
                                              !.snap = Merged(@, r.snap)]
               ELSE [seen EXCEPT !.at = onFailure, !.fault = r.step.fault,
                                 !.todo = IF onFailure = "next" THEN Tail(@) ELSE @]
     /\ UNCHANGED last

Retry ==
  /\ run.at = "retry" /\ run.attempt < StepRetries
  /\ \E able \in BOOLEAN :
       LET g == Head(run.todo).goal
           snap == IF run.fault = NoFault THEN run.snap ELSE Injected(g, run.snap, run.fault)
       IN Took(Ran(g, Seeded(snap), able, "retry", g), "next", "retry")

\* _build_fallback_ast: the goal without its triggers, and a description of the
\* failure; nothing of the snapshot.
AskedOfLLM(g, able) == Ran(About[g].llm, Empty, able, "llm", g)

\* The fallback, when the retries are used up: one step of the LLM for the goal.
FallBack ==
  /\ run.at = "retry" /\ run.attempt = StepRetries
  /\ IF LLMFallback
     THEN \E able \in BOOLEAN : Took(AskedOfLLM(Head(run.todo).goal, able), "next", "next")
     ELSE run' = [run EXCEPT !.at = "next", !.todo = Tail(@)] /\ UNCHANGED <<last, tools>>

\* _save_run_artifacts may raise, after all was done.
SaveArtifacts ==
  /\ run.at = "save"
  /\ \/ run' = [run EXCEPT !.at = "returned"] /\ last' = DOMAIN run.snap
     \/ run' = [run EXCEPT !.at = "raised"] /\ UNCHANGED last
  /\ UNCHANGED tools

\* run(), after its start: plan, execute, retry what failed, save.
SessionStep ==
  PlanOnce \/ ExecuteGoal \/ EndPlan \/ TakeFailed \/ Retry \/ FallBack \/ SaveArtifacts

-----------------------------------------------------------------------------
(* Properties.                                                             *)

FaultRecords == [missing : SUBSET Attributes, wrong : SUBSET Attributes]
StepRecords ==
  [goal : Goals, ok : BOOLEAN, fault : FaultRecords, by : {"run", "retry", "llm"}, for : Goals,
   seed : SUBSET Attributes]

IsSnapshot(s) == DOMAIN s \subseteq Attributes /\ s \in [DOMAIN s -> Values]

\* A run that is at the retries has a goal to retry.
SessionTypeOK ==
  /\ DOMAIN run = DOMAIN Idle
  /\ run.at \in {"idle", "plan", "execute", "next", "retry", "save", "returned", "raised"}
  /\ run.at # "idle" => run.command \in Commands
  /\ run.at = "retry" => run.todo # <<>>
  /\ run.plan \in Seq(Goals) /\ run.steps \in Seq(StepRecords)
  /\ run.failed \in Seq(StepRecords) /\ run.todo \in Seq(StepRecords)
  /\ IsSnapshot(run.snap)
  /\ run.tries \in Nat /\ run.attempt \in Nat /\ run.ok \in BOOLEAN
  /\ run.blocked \subseteq Goals /\ run.pages \subseteq Attributes /\ run.fault \in FaultRecords
  /\ last \subseteq Attributes /\ tools \subseteq {Scripts[a] : a \in DOMAIN Scripts}

\* A retry has before it every attribute that an achieved step of the same run
\* wrote, and so can find the script that a goal before it saved: what
\* accumulated_snapshot is for.
RetrySeesAll ==
  \A i, j \in DOMAIN run.steps :
    (i < j /\ run.steps[i].ok /\ run.steps[j].by = "retry")
      => DOMAIN About[run.steps[i].goal].writes \subseteq run.steps[j].seed

\* A run whose every failed goal a retry or the LLM recovered is a success
\* ("A goal that originally FAILED but was later recovered by a retry or LLM
\* fallback must not count against final_success", session.py:1219).
RecoveredCounts ==
  (run.at \in {"save", "returned"} /\ Len(run.plan) <= MaxIterations
     /\ \A i \in DOMAIN run.failed : Achieved(run.failed[i].goal))
    => run.ok
=============================================================================
