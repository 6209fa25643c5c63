------------------------- MODULE OrchestratorProofs -------------------------
(***************************************************************************)
(* Proofs about Orchestrator for every workflow, every set of replies and  *)
(* every configuration: type correctness, the order in which goals are     *)
(* decided, the durability of success, and that the engine implements the  *)
(* abstract run of WorkflowRun.                                            *)
(***************************************************************************)
EXTENDS Orchestrator, SequenceTheorems, WellFoundedInduction, TLAPS

\* A non-empty set of indices of a sequence has a greatest element: the last
\* write to a cell exists.
LEMMA LastIndex ==
  ASSUME NEW n \in Nat, NEW T \in SUBSET (1..n), T # {}
  PROVE  \E i \in T : \A j \in T : j <= i
<1> DEFINE D == {n - i : i \in T}
<1>1. D \subseteq Nat /\ D # {}
  <2>1. \A i \in T : n - i \in Nat
    OBVIOUS
  <2>2. PICK i \in T : TRUE
    OBVIOUS
  <2>3. n - i \in D
    BY <2>2
  <2> QED BY <2>1, <2>3
<1>2. \E x \in D : \A y \in D : ~ (<<y, x>> \in OpToRel(<, Nat))
  BY <1>1, NatLessThanWellFounded, WFMin, Zenon
<1>3. PICK x \in D : \A y \in D : ~ (<<y, x>> \in OpToRel(<, Nat))
  BY <1>2
<1>4. PICK i \in T : x = n - i
  OBVIOUS
<1>5. \A j \in T : ~ (n - j < n - i)
  BY <1>1, <1>3, <1>4 DEF OpToRel
<1>6. \A j \in T : j <= i
  BY <1>5, SMT
<1> QED BY <1>6

\* Integrating a reply keeps the attributes and the predicates in their types.
LEMMA WriteTypes ==
  ASSUME NEW ws \in Seq(Writes), attrs \in AttrMaps, preds \in SUBSET Preds
  PROVE  WriteAttrs(ws) \in AttrMaps /\ WritePreds(ws) \in SUBSET Preds
<1>1. Applied(ws) \in SUBSET (1..Len(ws)) /\ Len(ws) \in Nat
  BY DEF Applied
<1>2. ASSUME NEW a \in Attrs, AttrWrites(ws, a) # {}
      PROVE  ws[CHOOSE i \in AttrWrites(ws, a) :
                  \A j \in AttrWrites(ws, a) : j <= i].val \in Vals
  <2> DEFINE W == AttrWrites(ws, a)
             i == CHOOSE k \in W : \A j \in W : j <= k
  <2>1. W \in SUBSET (1..Len(ws))
    BY <1>1 DEF AttrWrites
  <2>2. i \in W
    <3>1. \E k \in W : \A j \in W : j <= k
      BY <1>1, <1>2, <2>1, LastIndex, Zenon
    <3> QED BY <3>1
  <2>3. ws[i] \in Writes /\ ws[i].kind = "attr"
    BY <2>1, <2>2 DEF AttrWrites
  <2>4. ws[i].val \in Vals
    BY <2>3 DEF Writes
  <2> QED BY <2>4
<1>3. WriteAttrs(ws) \in AttrMaps
  BY <1>2 DEF WriteAttrs, AttrMaps
<1>4. WritePreds(ws) \in SUBSET Preds
  <2>1. \A i \in Applied(ws) : ws[i] \in Writes
    BY <1>1
  <2>2. \A i \in Applied(ws) : ws[i].kind = "pred" => ws[i].pred \in Preds
    BY <2>1 DEF Writes
  <2> QED BY <2>2 DEF WritePreds
<1> QED BY <1>3, <1>4

-----------------------------------------------------------------------------
(***************************************************************************)
(* The inductive invariant.  OrderedProgress alone is not inductive: that  *)
(* the goal picked next is the one after the decided prefix, and that the  *)
(* goal a step marks is the one that runs, depend on where run() is.       *)
(***************************************************************************)
AtStep == pc \in {"build", "llm", "tool"}

Control ==
  /\ AtStep => Len(steps) < NGoals /\ status[Len(steps) + 1] = "RUNNING"
  /\ pc = "leave" => steps # <<>> /\ steps[Len(steps)].status = "FAILED"
  /\ pc = "save" => cfg.autoSave
  /\ outcome = "running" <=> pc # "done"

ProgressInv == TypeOK /\ OrderedProgress /\ Control

\* While a step executes, the running goal is the one after the prefix.
LEMMA RunningGoal ==
  ASSUME ProgressInv, AtStep
  PROVE  /\ Running = Len(steps) + 1
         /\ Running \in Goals
         /\ status[Running] = "RUNNING"
<1>1. Len(steps) \in Nat
  BY DEF ProgressInv, TypeOK
<1>2. /\ Len(steps) + 1 \in Goals
      /\ status[Len(steps) + 1] = "RUNNING"
  BY <1>1, OrchestratorAssumption DEF ProgressInv, Control, Goals
<1>3. \A g \in Goals : status[g] = "RUNNING" => g = Len(steps) + 1
  BY DEF ProgressInv, OrderedProgress
<1> QED BY <1>2, <1>3 DEF Running

\* Between steps, the first pending goal is the one after the prefix.
LEMMA FirstPending ==
  ASSUME ProgressInv, pc = "loop", Pending # {}
  PROVE  /\ First(Pending) = Len(steps) + 1
         /\ Len(steps) < NGoals
<1>1. Len(steps) \in Nat /\ NGoals \in Nat
  BY OrchestratorAssumption DEF ProgressInv, TypeOK
<1>2. \A g \in Goals : g \in Pending <=> g > Len(steps)
  BY <1>1 DEF ProgressInv, TypeOK, OrderedProgress, Pending, Goals, Status, Final
<1>3. Pending \subseteq Goals
  BY DEF Pending
<1>4. Len(steps) + 1 \in Pending /\ Len(steps) < NGoals
  <2>1. PICK g \in Pending : TRUE
    OBVIOUS
  <2>2. g \in Nat /\ g <= NGoals /\ Len(steps) < g
    BY <1>1, <1>2, <1>3, <2>1 DEF Goals
  <2>3. Len(steps) + 1 \in Goals /\ Len(steps) < NGoals
    BY <1>1, <2>2 DEF Goals
  <2> QED BY <1>1, <1>2, <2>3
<1>5. \A g \in Pending : Len(steps) + 1 <= g
  BY <1>1, <1>2, <1>3 DEF Goals
<1>6. \A g \in Pending : (\A h \in Pending : g <= h) => g = Len(steps) + 1
  BY <1>1, <1>3, <1>4, <1>5 DEF Goals
<1> QED BY <1>4, <1>5, <1>6 DEF First

\* The end of a step extends the decided prefix by one goal.
LEMMA EndStepProgress ==
  ASSUME ProgressInv, AtStep,
         NEW v \in Final, NEW e \in EventNames \cup {"none"},
         EndStep(v, e), outcome' = outcome
  PROVE  /\ status' \in [Goals -> Status]
         /\ steps' \in Seq([goal : Goals, status : Final])
         /\ events' \in Seq([name : EventNames, goal : Goals \cup {0}])
         /\ rule' = 1 /\ pc' = "evaluate"
         /\ OrderedProgress' /\ Control'
<1>1. /\ Running = Len(steps) + 1
      /\ Running \in Goals
      /\ Len(steps) \in Nat /\ NGoals \in Nat
  BY RunningGoal, OrchestratorAssumption DEF ProgressInv, TypeOK
<1>2. /\ status' \in [Goals -> Status]
      /\ status'[Running] = v
      /\ \A g \in Goals : g # Running => status'[g] = status[g]
  BY <1>1 DEF EndStep, ProgressInv, TypeOK, Status, Final
<1>3. /\ steps' \in Seq([goal : Goals, status : Final])
      /\ Len(steps') = Len(steps) + 1
      /\ \A i \in 1..Len(steps) : steps'[i] = steps[i]
      /\ steps'[Len(steps) + 1] = [goal |-> Running, status |-> v]
  <2>1. [goal |-> Running, status |-> v] \in [goal : Goals, status : Final]
    BY <1>1
  <2>2. steps \in Seq([goal : Goals, status : Final])
    BY DEF ProgressInv, TypeOK
  <2>3. steps' = Append(steps, [goal |-> Running, status |-> v])
    BY DEF EndStep
  <2> QED BY <2>1, <2>2, <2>3, AppendProperties
<1>4. events' \in Seq([name : EventNames, goal : Goals \cup {0}])
  <2>1. CASE e = "none"
    BY <2>1 DEF EndStep, ProgressInv, TypeOK
  <2>2. CASE e \in EventNames
    <3>1. Event(e, Running) \in [name : EventNames, goal : Goals \cup {0}]
      BY <1>1, <2>2 DEF Event
    <3>2. e # "none"
      BY <2>2 DEF EventNames
    <3> QED BY <3>1, <3>2 DEF EndStep, ProgressInv, TypeOK
  <2> QED BY <2>1, <2>2
<1>5. OrderedProgress'
  <2>1. \A g \in Goals : status'[g] \in Final <=> g <= Len(steps')
    BY <1>1, <1>2, <1>3 DEF ProgressInv, OrderedProgress, Goals
  <2>2. \A g \in 1..Len(steps') : steps'[g] = [goal |-> g, status |-> status'[g]]
    <3>1. ASSUME NEW g \in 1..Len(steps)
          PROVE  steps'[g] = [goal |-> g, status |-> status'[g]]
      <4>1. g \in Goals /\ g # Running
        BY <1>1, <3>1 DEF ProgressInv, OrderedProgress, Goals
      <4> QED BY <1>2, <1>3, <4>1 DEF ProgressInv, OrderedProgress
    <3>2. \A g \in 1..Len(steps') : g \in 1..Len(steps) \/ g = Running
      BY <1>1, <1>3
    <3> QED BY <1>1, <1>2, <1>3, <3>1, <3>2
  <2>3. \A g \in Goals : status'[g] # "RUNNING"
    BY <1>1, <1>2 DEF ProgressInv, OrderedProgress, Final
  <2>4. Len(steps') <= NGoals
    BY <1>1, <1>3 DEF Goals
  <2> QED BY <2>1, <2>2, <2>3, <2>4 DEF OrderedProgress
<1>6. rule' = 1 /\ pc' = "evaluate"
  BY DEF EndStep
<1>7. Control'
  BY <1>6 DEF Control, AtStep, ProgressInv
<1> QED BY <1>2, <1>3, <1>4, <1>5, <1>6, <1>7

\* The inductive invariant ProgressInv of run() holds before the first event.
LEMMA ProgressInit == Init => ProgressInv
<1> SUFFICES ASSUME Init PROVE ProgressInv
  OBVIOUS
<1>1. Len(Rules) \in Nat /\ NGoals \in Nat
  BY OrchestratorAssumption
<1>2. TypeOK
  <2>1. status \in [Goals -> Status] /\ pc \in PCs
    BY DEF Init, PCs, Status
  <2>2. attrs \in AttrMaps /\ preds \in SUBSET Preds
    BY OrchestratorAssumption DEF Init
  <2>3. rule \in 1..(Len(Rules) + 1)
    BY <1>1 DEF Init
  <2>4. steps \in Seq([goal : Goals, status : Final])
    BY EmptySeq DEF Init
  <2>5. events \in Seq([name : EventNames, goal : Goals \cup {0}])
    BY EmptySeq DEF Init
  <2> QED BY <2>1, <2>2, <2>3, <2>4, <2>5 DEF Init, TypeOK
<1>3. OrderedProgress
  BY <1>1 DEF Init, OrderedProgress, Goals, Final
<1>4. Control
  BY DEF Init, Control, AtStep
<1> QED BY <1>2, <1>3, <1>4 DEF ProgressInv

\* Every step of run(), of a tool, of the LLM and of the evaluator keeps
\* ProgressInv.
LEMMA ProgressStep == ProgressInv /\ [Next]_vars => ProgressInv'
<1> SUFFICES ASSUME ProgressInv, [Next]_vars PROVE ProgressInv'
  OBVIOUS
<1> USE DEF ProgressInv
<1>0. /\ Len(Rules) \in Nat /\ NGoals \in Nat /\ Len(steps) \in Nat
      /\ 1 \in 1..(Len(Rules) + 1)
  BY OrchestratorAssumption DEF TypeOK
<1>p. ASSUME NEW n \in EventNames, NEW g \in Goals \cup {0}, Publish(n, g)
      PROVE  events' \in Seq([name : EventNames, goal : Goals \cup {0}])
  BY <1>p DEF Publish, Event, TypeOK
<1>1. CASE Start
  <2>1. TypeOK'
    BY <1>0, <1>1, <1>p DEF Start, TypeOK, graph, PCs, EventNames
  <2>2. OrderedProgress'
    BY <1>1 DEF Start, OrderedProgress, graph
  <2>3. Control'
    BY <1>1 DEF Start, Control, AtStep, graph
  <2> QED BY <2>1, <2>2, <2>3
<1>2. CASE BeginStep
  <2> DEFINE g == First(Pending)
  <2>1. g = Len(steps) + 1 /\ Len(steps) < NGoals /\ g \in Goals
    BY <1>0, <1>2, FirstPending DEF BeginStep, Goals
  <2>2. /\ status' = [status EXCEPT ![g] = "RUNNING"]
        /\ pc' \in {"build", "tool"}
        /\ Publish("step.started", g)
        /\ UNCHANGED <<cfg, attrs, preds, unjson, steps, rule, saved, outcome>>
    BY <1>2 DEF BeginStep
  <2>3. TypeOK'
    BY <1>p, <2>1, <2>2 DEF TypeOK, PCs, EventNames, Status
  <2>4. OrderedProgress'
    BY <1>0, <2>1, <2>2 DEF OrderedProgress, TypeOK, Final
  <2>5. Control'
    BY <1>2, <2>1, <2>2 DEF BeginStep, Control, AtStep, TypeOK
  <2> QED BY <2>3, <2>4, <2>5
<1>3. CASE IterationGuard \/ BuildRaises \/ SaveRaises
  <2>1. RunFails /\ UNCHANGED <<cfg, graph, steps, rule, saved>>
    BY <1>3 DEF IterationGuard, BuildRaises, SaveRaises
  <2>2. TypeOK'
    BY <1>p, <2>1 DEF RunFails, TypeOK, graph, PCs, EventNames
  <2>3. OrderedProgress'
    BY <2>1 DEF RunFails, OrderedProgress, graph
  <2>4. Control'
    BY <2>1 DEF RunFails, Control, AtStep, graph
  <2> QED BY <2>2, <2>3, <2>4
<1>4. CASE BuildContext
  <2>1. TypeOK'
    BY <1>4 DEF BuildContext, TypeOK, graph, PCs
  <2>2. OrderedProgress'
    BY <1>4 DEF BuildContext, OrderedProgress, graph
  <2>3. Control'
    BY <1>4 DEF BuildContext, Control, AtStep, graph
  <2> QED BY <2>1, <2>2, <2>3
<1>5. CASE LLMRaises
  <2>1. AtStep /\ EndStep("FAILED", "step.failed")
        /\ UNCHANGED <<cfg, attrs, preds, unjson, saved, outcome>>
    BY <1>5 DEF LLMRaises, AtStep
  <2>2. "FAILED" \in Final /\ "step.failed" \in EventNames \cup {"none"}
    BY DEF Final, EventNames
  <2> QED BY <1>0, <2>1, <2>2, EndStepProgress DEF TypeOK, PCs
<1>6. ASSUME NEW r \in Replies, LLMAnswers(r)
      PROVE  ProgressInv'
  <2>1. /\ AtStep
        /\ \/ EndStep("ACHIEVED", "step.completed")
           \/ EndStep("FAILED", "step.failed")
        /\ UNCHANGED <<cfg, unjson, saved, outcome>>
    BY <1>6 DEF LLMAnswers, AtStep
  <2>2. "FAILED" \in Final /\ "step.failed" \in EventNames \cup {"none"}
        /\ "ACHIEVED" \in Final /\ "step.completed" \in EventNames \cup {"none"}
    BY DEF Final, EventNames
  <2>3. r.writes \in Seq(Writes)
    BY OrchestratorAssumption
  <2>4. WriteAttrs(r.writes) \in AttrMaps /\ WritePreds(r.writes) \in SUBSET Preds
    BY <2>3, WriteTypes DEF TypeOK
  <2>5. attrs' \in AttrMaps
    BY <1>6, <2>4, OrchestratorAssumption DEF LLMAnswers, AttrMaps
  <2>6. preds' \in SUBSET Preds
    BY <1>6, <2>4 DEF LLMAnswers
  <2> QED BY <1>0, <2>1, <2>2, <2>5, <2>6, EndStepProgress DEF TypeOK, PCs
<1>7. CASE ToolRaises
  <2>1. AtStep /\ EndStep("FAILED", "none")
        /\ UNCHANGED <<cfg, attrs, preds, unjson, saved, outcome>>
    BY <1>7 DEF ToolRaises, AtStep
  <2>2. "FAILED" \in Final /\ "none" \in EventNames \cup {"none"}
    BY DEF Final, EventNames
  <2> QED BY <1>0, <2>1, <2>2, EndStepProgress DEF TypeOK, PCs
<1>8. ASSUME NEW o \in ToolOutputs, ToolReturns(o)
      PROVE  ProgressInv'
  <2> DEFINE v == IF o.success THEN "ACHIEVED" ELSE "FAILED"
  <2>1. AtStep /\ EndStep(v, "tool.executed") /\ UNCHANGED <<cfg, preds, saved, outcome>>
    BY <1>8 DEF ToolReturns, AtStep
  <2>2. v \in Final /\ "tool.executed" \in EventNames \cup {"none"}
    BY DEF Final, EventNames
  <2>3. o.writes \in Seq(Writes) /\ o.dumps \in BOOLEAN
    <3>1. [kind : {"attr"}, attr : Attrs, val : Vals] \subseteq Writes
      BY DEF Writes
    <3> QED BY <3>1, SeqMonotonic, OrchestratorAssumption
  <2>4. attrs' \in AttrMaps
    BY <1>8, <2>3, WriteTypes DEF ToolReturns, TypeOK
  <2>5. unjson' \in BOOLEAN
    BY <1>8, <2>3 DEF ToolReturns, TypeOK
  <2> HIDE DEF v
  <2> QED BY <1>0, <2>1, <2>2, <2>4, <2>5, EndStepProgress DEF TypeOK, PCs
<1>9. CASE EvaluateRule
  <2>1. rule \in 1..Len(Rules) /\ Rules[rule].adds \subseteq Preds
    <3>1. rule \in 1..Len(Rules)
      BY <1>0, <1>9 DEF EvaluateRule, TypeOK
    <3>2. Rules[rule] \in RuleRecords
      BY <3>1, OrchestratorAssumption
    <3> QED BY <3>1, <3>2 DEF RuleRecords
  <2>2. TypeOK'
    BY <1>0, <1>9, <2>1 DEF EvaluateRule, TypeOK
  <2>3. OrderedProgress'
    BY <1>9 DEF EvaluateRule, OrderedProgress
  <2>4. Control'
    BY <1>9 DEF EvaluateRule, Control, AtStep
  <2> QED BY <2>2, <2>3, <2>4
<1>10. CASE EndEvaluate
  <2>1. TypeOK'
    BY <1>10 DEF EndEvaluate, TypeOK, graph, PCs
  <2>2. OrderedProgress'
    BY <1>10 DEF EndEvaluate, OrderedProgress, graph
  <2>3. Control'
    BY <1>10, OrchestratorAssumption DEF EndEvaluate, Control, AtStep, graph, Broken
  <2> QED BY <2>1, <2>2, <2>3
<1>11. CASE SaveState
  <2>1. TypeOK'
    BY <1>11 DEF SaveState, TypeOK, graph, PCs, Snapshot, Snapshots
  <2>2. OrderedProgress'
    BY <1>11 DEF SaveState, OrderedProgress, graph
  <2>3. Control'
    BY <1>11 DEF SaveState, Control, AtStep, graph
  <2> QED BY <2>1, <2>2, <2>3
<1>12. CASE Complete
  <2>1. TypeOK'
    BY <1>12, <1>p DEF Complete, TypeOK, graph, PCs, EventNames
  <2>2. OrderedProgress'
    BY <1>12 DEF Complete, OrderedProgress, graph
  <2>3. Control'
    BY <1>12 DEF Complete, Control, AtStep, graph
  <2> QED BY <2>1, <2>2, <2>3
<1>13. CASE UNCHANGED vars
  BY <1>13 DEF vars, TypeOK, OrderedProgress, Control, AtStep
<1> QED
  BY <1>1, <1>2, <1>3, <1>4, <1>5, <1>6, <1>7, <1>8, <1>9, <1>10, <1>11, <1>12,
     <1>13 DEF Next

\* ProgressInv holds throughout run(): it ties pc, the statuses, the StepResults
\* and what was stored, and the theorems below are read off it.
THEOREM ProgressInvariant == Spec => []ProgressInv
<1> QED BY ProgressInit, ProgressStep, PTL DEF Spec

\* The types of the variables of run() and of the graph, for every workflow.
THEOREM TypeCorrect == Spec => []TypeOK
<1>1. ProgressInv => TypeOK
  BY DEF ProgressInv
<1> QED BY <1>1, ProgressInvariant, PTL

\* Goals are decided one at a time in declaration order, and RunResult.steps
\* reports exactly the decided ones.
THEOREM DecidedInOrder == Spec => []OrderedProgress
<1>1. ProgressInv => OrderedProgress
  BY DEF ProgressInv
<1> QED BY <1>1, ProgressInvariant, PTL

-----------------------------------------------------------------------------
(***************************************************************************)
(* Checkpoints.  The stored snapshot trails the graph by at most the step  *)
(* that has just ended, and has caught up whenever run() is about to pick  *)
(* a goal; with ProgressInv this is inductive.                             *)
(***************************************************************************)
CaughtUp == \A g \in Goals : g <= Len(steps) =>
              saved # NoSnapshot /\ saved.status[g] \in Final
OneBehind == \A g \in Goals : g < Len(steps) =>
              saved # NoSnapshot /\ saved.status[g] \in Final

Faithful ==
  saved # NoSnapshot =>
    /\ \A g \in Goals : saved.status[g] # "RUNNING"
    /\ \A g \in DecidedIn(saved.status) : status[g] = saved.status[g]
    /\ saved.preds \subseteq preds

CheckpointInv ==
  /\ Faithful
  /\ cfg.autoSave => OneBehind
  /\ cfg.autoSave /\ pc \in {"start", "loop", "build", "llm", "tool"} => CaughtUp
  /\ cfg.autoSave /\ pc = "loop" /\ steps # <<>> => saved = Snapshot
  /\ SuccessIsDurable

\* Nothing is stored when run() begins.
LEMMA CheckpointInit == Init => CheckpointInv
BY DEF Init, CheckpointInv, Faithful, OneBehind, CaughtUp, SuccessIsDurable, Goals

\* A step that only decides the running goal and adds predicates.
LEMMA EndStepCheckpoint ==
  ASSUME ProgressInv, CheckpointInv, AtStep,
         NEW v \in Final, NEW e \in EventNames \cup {"none"},
         EndStep(v, e), UNCHANGED <<cfg, saved, outcome>>, preds \subseteq preds'
  PROVE  CheckpointInv'
<1>1. /\ Running = Len(steps) + 1
      /\ Running \in Goals
      /\ status[Running] = "RUNNING"
      /\ Len(steps) \in Nat
  BY RunningGoal DEF ProgressInv, TypeOK
<1>2. \A g \in Goals : g # Running => status'[g] = status[g]
  BY <1>1 DEF EndStep, ProgressInv, TypeOK
<1>3. Len(steps') = Len(steps) + 1
  BY <1>1, AppendProperties DEF EndStep, ProgressInv, TypeOK
<1>4. Faithful'
  BY <1>1, <1>2 DEF CheckpointInv, Faithful, DecidedIn, Final
<1>5. cfg.autoSave => OneBehind'
  BY <1>1, <1>3 DEF CheckpointInv, AtStep, CaughtUp, OneBehind, Goals
<1>6. pc' = "evaluate" /\ outcome' # "success"
  BY DEF EndStep, ProgressInv, Control, AtStep
<1> QED BY <1>4, <1>5, <1>6 DEF CheckpointInv, SuccessIsDurable

\* A verdict, a conclusion, a save and a failed save each keep the stored
\* snapshot consistent with the graph.
LEMMA CheckpointStep == ProgressInv /\ CheckpointInv /\ [Next]_vars => CheckpointInv'
<1> SUFFICES ASSUME ProgressInv, CheckpointInv, [Next]_vars PROVE CheckpointInv'
  OBVIOUS
<1>0. Len(steps) \in Nat /\ NGoals \in Nat
  BY OrchestratorAssumption DEF ProgressInv, TypeOK
\* The actions that leave the graph, the steps and the snapshot alone.
<1>s. ASSUME UNCHANGED <<cfg, graph, steps, saved>>,
             cfg.autoSave /\ pc' \in {"start", "loop", "build", "llm", "tool"} => CaughtUp,
             cfg.autoSave /\ pc' = "loop" /\ steps # <<>> => saved = Snapshot,
             outcome' # "success"
      PROVE  CheckpointInv'
  BY <1>s DEF CheckpointInv, Faithful, OneBehind, CaughtUp, SuccessIsDurable,
              graph, Snapshot, DecidedIn
<1>1. CASE Start
  BY <1>1, <1>s DEF Start, ProgressInv, Control
<1>2. CASE BeginStep
  <2> DEFINE g == First(Pending)
  <2>1. /\ g = Len(steps) + 1 /\ g \in Goals
        /\ status' = [status EXCEPT ![g] = "RUNNING"]
        /\ pc' \in {"build", "tool"}
        /\ UNCHANGED <<cfg, attrs, preds, unjson, steps, rule, saved, outcome>>
    BY <1>0, <1>2, FirstPending DEF BeginStep, Goals
  <2>2. status[g] \notin Final
    BY <1>0, <2>1 DEF ProgressInv, OrderedProgress
  <2>3. Faithful'
    BY <2>1, <2>2 DEF CheckpointInv, Faithful, DecidedIn, ProgressInv, TypeOK
  <2>4. pc = "loop" /\ outcome' # "success"
    BY <1>2, <2>1 DEF BeginStep, ProgressInv, Control
  <2>5. cfg.autoSave => OneBehind' /\ CaughtUp'
    BY <2>1, <2>4 DEF CheckpointInv, OneBehind, CaughtUp
  <2> QED BY <2>1, <2>3, <2>4, <2>5 DEF CheckpointInv, SuccessIsDurable
<1>3. CASE IterationGuard \/ BuildRaises \/ SaveRaises
  BY <1>3, <1>s DEF IterationGuard, BuildRaises, SaveRaises, RunFails
<1>4. CASE BuildContext
  BY <1>4, <1>s DEF BuildContext, ProgressInv, Control, CheckpointInv
<1>5. CASE LLMRaises
  BY <1>5, EndStepCheckpoint DEF LLMRaises, AtStep, Final, EventNames
<1>6. ASSUME NEW r \in Replies, LLMAnswers(r) PROVE CheckpointInv'
  <2>1. /\ AtStep
        /\ EndStep("ACHIEVED", "step.completed") \/ EndStep("FAILED", "step.failed")
        /\ UNCHANGED <<cfg, saved, outcome>>
        /\ preds \subseteq preds'
    BY <1>6 DEF LLMAnswers, AtStep, WritePreds
  <2> QED BY <2>1, EndStepCheckpoint DEF Final, EventNames
<1>7. CASE ToolRaises
  BY <1>7, EndStepCheckpoint DEF ToolRaises, AtStep, Final, EventNames
<1>8. ASSUME NEW o \in ToolOutputs, ToolReturns(o) PROVE CheckpointInv'
  <2>1. /\ AtStep
        /\ EndStep("ACHIEVED", "tool.executed") \/ EndStep("FAILED", "tool.executed")
        /\ UNCHANGED <<cfg, saved, outcome, preds>>
    BY <1>8 DEF ToolReturns, AtStep
  <2> QED BY <2>1, EndStepCheckpoint DEF Final, EventNames
<1>9. CASE EvaluateRule
  <2>1. /\ pc = "evaluate" /\ preds \subseteq preds' /\ outcome' # "success"
        /\ UNCHANGED <<cfg, pc, status, attrs, unjson, steps, saved, outcome>>
    BY <1>9 DEF EvaluateRule, ProgressInv, Control
  <2>2. Faithful' /\ (cfg.autoSave => OneBehind')
    BY <2>1 DEF CheckpointInv, Faithful, OneBehind, DecidedIn
  <2> QED BY <2>1, <2>2 DEF CheckpointInv, SuccessIsDurable
<1>10. CASE EndEvaluate
  <2>1. /\ pc' = "loop" => ~cfg.autoSave \/ steps = <<>>
        /\ pc' \in {"leave", "save", "loop"}
        /\ UNCHANGED <<cfg, graph, steps, saved, outcome>>
        /\ outcome' # "success"
    BY <1>10 DEF EndEvaluate, ProgressInv, Control
  <2>2. steps = <<>> => CaughtUp
    BY <1>0 DEF CaughtUp, Goals
  <2> QED BY <2>1, <2>2, <1>s
<1>11. CASE SaveState
  <2>1. /\ pc = "save" /\ pc' = "loop" /\ outcome' # "success"
        /\ saved' = Snapshot /\ UNCHANGED <<cfg, graph, steps, outcome>>
    BY <1>11 DEF SaveState, ProgressInv, Control
  <2>2. Snapshot \in Snapshots /\ Snapshot # NoSnapshot /\ Snapshot' = Snapshot
    BY <2>1, OrchestratorAssumption DEF Snapshot, Snapshots, ProgressInv, TypeOK, graph
  <2>3. \A g \in Goals : status[g] # "RUNNING"
    BY <2>1 DEF ProgressInv, OrderedProgress
  <2>4. \A g \in Goals : g <= Len(steps) => status[g] \in Final
    BY DEF ProgressInv, OrderedProgress
  <2>5. Faithful'
    BY <2>1, <2>2, <2>3 DEF Faithful, Snapshot, DecidedIn, graph
  <2>6. CaughtUp' /\ OneBehind'
    BY <1>0, <2>1, <2>2, <2>4 DEF CaughtUp, OneBehind, Snapshot, Goals
  <2> QED BY <2>1, <2>2, <2>5, <2>6 DEF CheckpointInv, SuccessIsDurable
<1>12. CASE Complete
  <2>1. /\ UNCHANGED <<cfg, graph, steps, rule, saved>> /\ pc' = "done"
        /\ outcome' = "success" => \A g \in Goals : status[g] = "ACHIEVED"
    BY <1>12 DEF Complete
  <2>2. ASSUME outcome' = "success", cfg.autoSave, NGoals > 0 PROVE saved = Snapshot
    <3>1. 1 \in Goals /\ status[1] = "ACHIEVED"
      BY <1>0, <2>1, <2>2 DEF Goals
    <3>2. 1 <= Len(steps)
      BY <3>1 DEF ProgressInv, OrderedProgress, Final
    <3>3. steps # <<>>
      BY <3>2
    <3>4. pc # "leave"
      <4>1. Len(steps) \in Goals
        BY <1>0, <3>2 DEF ProgressInv, OrderedProgress, Goals
      <4>2. Len(steps) \in 1..Len(steps)
        BY <1>0, <3>2
      <4>3. steps[Len(steps)] = [goal |-> Len(steps), status |-> status[Len(steps)]]
        BY <4>2 DEF ProgressInv, OrderedProgress
      <4>4. steps[Len(steps)].status = status[Len(steps)]
        BY <4>3
      <4> QED BY <2>1, <2>2, <4>1, <4>4 DEF ProgressInv, Control
    <3>5. pc = "loop"
      BY <1>12, <3>4 DEF Complete
    <3> QED BY <2>2, <3>3, <3>5 DEF CheckpointInv
  <2>3. SuccessIsDurable'
    BY <2>1, <2>2 DEF SuccessIsDurable, Snapshot, graph
  <2>4. Faithful' /\ (cfg.autoSave => OneBehind')
    BY <2>1 DEF CheckpointInv, Faithful, OneBehind, DecidedIn, graph
  <2> QED BY <2>1, <2>3, <2>4 DEF CheckpointInv
<1>13. CASE UNCHANGED vars
  BY <1>13 DEF vars, CheckpointInv, Faithful, OneBehind, CaughtUp, SuccessIsDurable,
               Snapshot, DecidedIn
<1> QED
  BY <1>1, <1>2, <1>3, <1>4, <1>5, <1>6, <1>7, <1>8, <1>9, <1>10, <1>11, <1>12,
     <1>13 DEF Next

\* The strengthened form of CheckpointConsistent holds throughout run().
LEMMA CheckpointInvariant == Spec => [](ProgressInv /\ CheckpointInv)
<1> QED BY ProgressInit, ProgressStep, CheckpointInit, CheckpointStep, PTL DEF Spec

\* A successful result means that all goals were achieved and that the state
\* adapter holds the final graph.
THEOREM DurableSuccess == Spec => []SuccessIsDurable
<1>1. CheckpointInv => SuccessIsDurable
  BY DEF CheckpointInv
<1> QED BY <1>1, CheckpointInvariant, PTL

\* The checkpoint agrees with the graph and trails it by at most one step.
THEOREM CheckpointsConsistent == Spec => []CheckpointConsistent
<1>1. ASSUME ProgressInv, CheckpointInv PROVE CheckpointConsistent
  <2> DEFINE behind == IF saved = NoSnapshot THEN DecidedIn(status)
                       ELSE DecidedIn(status) \ DecidedIn(saved.status)
  <2>0. Len(steps) \in Nat /\ \A g \in Goals : g \in Nat
    BY <1>1 DEF ProgressInv, TypeOK, Goals
  <2>1. \A g \in DecidedIn(status) : g \in Goals /\ g <= Len(steps)
    BY <1>1 DEF ProgressInv, OrderedProgress, DecidedIn
  <2>2. ASSUME cfg.autoSave, NEW g \in behind PROVE g = Len(steps)
    <3>1. g \in Goals /\ g <= Len(steps)
      BY <2>1, <2>2
    <3>2. ~ (saved # NoSnapshot /\ saved.status[g] \in Final)
      BY <2>2, <3>1 DEF DecidedIn
    <3> QED BY <1>1, <2>0, <2>2, <3>1, <3>2 DEF CheckpointInv, OneBehind
  <2>3. ASSUME cfg.autoSave, pc = "loop" PROVE behind = {}
    BY <1>1, <2>1, <2>3 DEF CheckpointInv, CaughtUp, DecidedIn
  <2>4. cfg.autoSave => /\ \A g, h \in behind : g = h
                        /\ pc = "loop" => behind = {}
    BY <2>2, <2>3
  <2>5. Faithful
    BY <1>1 DEF CheckpointInv
  <2> QED BY <2>4, <2>5, Zenon DEF CheckpointConsistent, Faithful
<1> QED BY <1>1, CheckpointInvariant, PTL

-----------------------------------------------------------------------------
(***************************************************************************)
(* The engine implements the abstract run.                                 *)
(***************************************************************************)
Verdict == [g \in Goals |-> IF status[g] \in Final THEN status[g] ELSE "UNDECIDED"]

\* The end of a step is the abstract decision of the running goal.
LEMMA EndStepDecides ==
  ASSUME ProgressInv, AtStep,
         NEW v \in Final, NEW e \in EventNames \cup {"none"},
         EndStep(v, e), UNCHANGED outcome
  PROVE  Abstract!Next
<1>1. /\ Running = Len(steps) + 1
      /\ Running \in Goals
      /\ status[Running] = "RUNNING"
      /\ Len(steps) \in Nat
  BY RunningGoal DEF ProgressInv, TypeOK
<1>2. outcome = "running"
  BY DEF ProgressInv, Control, AtStep
<1>3. Verdict[Running] = "UNDECIDED"
  BY <1>1 DEF Verdict, Final
<1>4. \A h \in Goals : h < Running => Verdict[h] # "UNDECIDED"
  <2>1. ASSUME NEW h \in Goals, h < Running PROVE status[h] \in Final
    BY <1>1, <2>1 DEF ProgressInv, OrderedProgress, Goals
  <2> QED BY <2>1 DEF Verdict, Final
<1>5. Verdict' = [Verdict EXCEPT ![Running] = v]
  BY <1>1 DEF EndStep, Verdict, ProgressInv, TypeOK, Final
<1>6. Abstract!Decide(Running, v)
  BY <1>1, <1>2, <1>3, <1>4, <1>5 DEF Abstract!Decide, Abstract!Goals, Goals, Verdict
<1>7. Running \in Abstract!Goals /\ v \in Abstract!Verdicts \ {"UNDECIDED"}
  BY <1>1 DEF Abstract!Goals, Goals, Abstract!Verdicts, Final
<1> QED BY <1>6, <1>7 DEF Abstract!Next

\* Every step of the engine is a step of the abstract run, or leaves it alone.
LEMMA StepImplements == ProgressInv /\ [Next]_vars => [Abstract!Next]_Abstract!vars
<1> SUFFICES ASSUME ProgressInv, [Next]_vars PROVE [Abstract!Next]_Abstract!vars
  OBVIOUS
<1>s. ASSUME UNCHANGED <<status, outcome>> PROVE UNCHANGED Abstract!vars
  BY <1>s DEF Abstract!vars
<1>1. CASE Start \/ BuildContext \/ EvaluateRule \/ EndEvaluate \/ SaveState
           \/ UNCHANGED vars
  BY <1>1, <1>s DEF Start, BuildContext, EvaluateRule, EndEvaluate, SaveState,
                    graph, vars
<1>2. CASE BeginStep
  <2> DEFINE g == First(Pending)
  <2>1. /\ g = Len(steps) + 1 /\ Len(steps) \in Nat
        /\ status' = [status EXCEPT ![g] = "RUNNING"] /\ UNCHANGED outcome
    BY <1>2, FirstPending DEF BeginStep, ProgressInv, TypeOK
  <2>2. g \in Goals => status[g] \notin Final
    BY <2>1 DEF ProgressInv, OrderedProgress
  <2>3. Verdict' = Verdict
    BY <2>1, <2>2 DEF Verdict, Final, ProgressInv, TypeOK
  <2> QED BY <2>1, <2>3 DEF Abstract!vars, Verdict
<1>3. CASE IterationGuard \/ BuildRaises \/ SaveRaises
  <2>1. outcome = "running" /\ outcome' = "failure" /\ UNCHANGED status
    BY <1>3 DEF IterationGuard, BuildRaises, SaveRaises, RunFails, graph,
                ProgressInv, Control
  <2>2. Abstract!Fail
    BY <2>1 DEF Abstract!Fail
  <2> QED BY <2>2 DEF Abstract!Next
<1>4. CASE LLMRaises
  BY <1>4, EndStepDecides DEF LLMRaises, AtStep, Final, EventNames
<1>5. ASSUME NEW r \in Replies, LLMAnswers(r) PROVE Abstract!Next
  <2>1. /\ AtStep /\ UNCHANGED outcome
        /\ EndStep("ACHIEVED", "step.completed") \/ EndStep("FAILED", "step.failed")
    BY <1>5 DEF LLMAnswers, AtStep
  <2> QED BY <2>1, EndStepDecides DEF Final, EventNames
<1>6. CASE ToolRaises
  BY <1>6, EndStepDecides DEF ToolRaises, AtStep, Final, EventNames
<1>7. ASSUME NEW o \in ToolOutputs, ToolReturns(o) PROVE Abstract!Next
  <2>1. /\ AtStep /\ UNCHANGED outcome
        /\ EndStep("ACHIEVED", "tool.executed") \/ EndStep("FAILED", "tool.executed")
    BY <1>7 DEF ToolReturns, AtStep
  <2> QED BY <2>1, EndStepDecides DEF Final, EventNames
<1>8. CASE Complete
  <2>1. outcome = "running" /\ UNCHANGED status
    BY <1>8 DEF Complete, graph, ProgressInv, Control
  <2>2. CASE outcome' = "failure"
    BY <2>1, <2>2 DEF Abstract!Fail, Abstract!Next
  <2>3. CASE outcome' = "success"
    <3>1. \A g \in Goals : status[g] = "ACHIEVED"
      BY <1>8, <2>3 DEF Complete
    <3>2. Abstract!AllAchieved
      BY <3>1 DEF Abstract!AllAchieved, Abstract!Goals, Goals, Final
    <3> QED BY <2>1, <2>3, <3>2 DEF Abstract!Succeed, Abstract!Next
  <2> QED BY <1>8, <2>2, <2>3 DEF Complete
<1> QED
  BY <1>1, <1>2, <1>3, <1>4, <1>5, <1>6, <1>7, <1>8 DEF Next

\* Orchestrator.run decides its goals as WorkflowRun promises.
THEOREM Refinement == Spec => Implements
<1>1. Init => Abstract!Init
  BY DEF Init, Abstract!Init, Abstract!Goals, Goals, Final
<1> QED
  BY <1>1, ProgressInvariant, StepImplements, PTL DEF Spec, Implements, Abstract!Spec

-----------------------------------------------------------------------------
(***************************************************************************)
(* The conditions.  A condition already visited stays settled while the    *)
(* pass goes on, because no later one adds what it needs.                  *)
(***************************************************************************)
SettledBefore(n) ==
  \A i \in 1..Len(Rules) : i < n /\ Fires(Rules[i]) => Rules[i].adds \subseteq preds

RulesInv ==
  ForwardRules =>
    /\ pc = "evaluate" => SettledBefore(rule)
    /\ pc \notin {"start", "evaluate"} => Settled

\* A pass over forward-declared conditions settles them one after the other,
\* and what it has settled stays so until the next reply is integrated.
LEMMA RulesStep == TypeOK /\ RulesInv /\ [Next]_vars => RulesInv'
<1> SUFFICES ASSUME TypeOK, RulesInv, [Next]_vars, ForwardRules
             PROVE  /\ pc' = "evaluate" => SettledBefore(rule)'
                    /\ pc' \notin {"start", "evaluate"} => Settled'
  BY DEF RulesInv, ForwardRules
<1>0. Len(Rules) \in Nat /\ rule \in Nat
  BY OrchestratorAssumption DEF TypeOK
\* A new pass has visited nothing yet.
<1>n. ASSUME pc' = "evaluate", rule' = 1
      PROVE  SettledBefore(rule)'
  BY <1>0, <1>n DEF SettledBefore
<1>s. ASSUME UNCHANGED <<attrs, preds>>, Settled PROVE Settled'
  BY <1>s DEF Settled, Fires
<1>1. CASE Start
  BY <1>1, <1>n DEF Start
<1>2. CASE BeginStep \/ IterationGuard \/ BuildContext \/ BuildRaises
           \/ SaveState \/ SaveRaises \/ Complete
  <2>1. /\ pc \notin {"start", "evaluate"} /\ pc' \notin {"start", "evaluate"}
        /\ UNCHANGED <<attrs, preds>>
    BY <1>2 DEF BeginStep, IterationGuard, BuildContext, BuildRaises, SaveState,
                SaveRaises, Complete, RunFails, graph
  <2> QED BY <1>s, <2>1 DEF RulesInv
<1>3. CASE LLMRaises \/ (\E r \in Replies : LLMAnswers(r))
           \/ ToolRaises \/ (\E o \in ToolOutputs : ToolReturns(o))
  <2>1. pc' = "evaluate" /\ rule' = 1
    BY <1>3 DEF LLMRaises, LLMAnswers, ToolRaises, ToolReturns, EndStep
  <2> QED BY <1>n, <2>1
<1>4. CASE EvaluateRule
  <2>1. /\ pc' = "evaluate" /\ SettledBefore(rule) /\ rule' = rule + 1
        /\ rule \in 1..Len(Rules) /\ attrs' = attrs
        /\ preds' = IF Fires(Rules[rule]) THEN preds \cup Rules[rule].adds ELSE preds
    BY <1>0, <1>4 DEF EvaluateRule, RulesInv, TypeOK
  <2>2. ASSUME NEW i \in 1..Len(Rules), i < rule + 1, Fires(Rules[i])'
        PROVE  Rules[i].adds \subseteq preds'
    <3>1. Rules[rule].adds \cap Rules[i].needs = {}
      BY <1>0, <2>1, <2>2 DEF ForwardRules
    <3>2. Fires(Rules[i])
      BY <2>1, <2>2, <3>1 DEF Fires
    <3>3. CASE i = rule
      BY <2>1, <3>2, <3>3
    <3>4. CASE i < rule
      BY <2>1, <3>2, <3>4 DEF SettledBefore
    <3> QED BY <1>0, <2>2, <3>3, <3>4
  <2> QED BY <2>1, <2>2 DEF SettledBefore, Fires
<1>5. CASE EndEvaluate
  <2>1. SettledBefore(rule) /\ rule > Len(Rules) /\ UNCHANGED <<attrs, preds>>
        /\ pc' \notin {"start", "evaluate"}
    BY <1>5 DEF EndEvaluate, RulesInv, graph
  <2>2. Settled
    BY <1>0, <2>1 DEF SettledBefore, Settled
  <2> QED BY <1>s, <2>1, <2>2
<1>6. CASE UNCHANGED vars
  BY <1>6 DEF vars, RulesInv, SettledBefore, Settled, Fires
<1> QED
  BY <1>1, <1>2, <1>3, <1>4, <1>5, <1>6 DEF Next

\* One pass settles conditions that feed only later ones, for every set of
\* conditions and every reply.
THEOREM OnePassSuffices == Spec => []PassSettlesRules
<1>1. Init => RulesInv
  BY DEF Init, RulesInv
<1>2. RulesInv => PassSettlesRules
  BY DEF RulesInv, PassSettlesRules
<1> QED BY <1>1, <1>2, RulesStep, TypeCorrect, PTL DEF Spec

-----------------------------------------------------------------------------
\* No single step of run() takes back a verdict, a predicate or an event.
LEMMA StepIsIrrevocable ==
  ProgressInv /\ [Next]_vars =>
    [ /\ \A g \in Goals : status[g] \in Final => status'[g] = status[g]
      /\ preds \subseteq preds'
      /\ \A i \in 1..Len(steps) : steps'[i] = steps[i]
      /\ \A i \in 1..Len(events) : events'[i] = events[i] ]_vars
<1> DEFINE E == [name : EventNames, goal : Goals \cup {0}]
           Kept == /\ \A g \in Goals : status[g] \in Final => status'[g] = status[g]
                   /\ preds \subseteq preds'
                   /\ \A i \in 1..Len(steps) : steps'[i] = steps[i]
                   /\ \A i \in 1..Len(events) : events'[i] = events[i]
<1> SUFFICES ASSUME ProgressInv, Next PROVE Kept
  OBVIOUS
<1>0. events \in Seq(E) /\ steps \in Seq([goal : Goals, status : Final])
  BY DEF ProgressInv, TypeOK
<1>p. ASSUME NEW n \in EventNames, NEW g \in Goals \cup {0}, Publish(n, g)
      PROVE  \A i \in 1..Len(events) : events'[i] = events[i]
  BY <1>0, <1>p, AppendProperties DEF Publish, Event
<1>e. ASSUME AtStep, preds \subseteq preds',
             NEW v \in Final, NEW e \in EventNames \cup {"none"}, EndStep(v, e)
      PROVE  Kept
  <2>1. Running \in Goals /\ status[Running] = "RUNNING"
    BY <1>e, RunningGoal
  <2>2. \A g \in Goals : status[g] \in Final => status'[g] = status[g]
    BY <1>e, <2>1 DEF EndStep, ProgressInv, TypeOK, Final
  <2>3. \A i \in 1..Len(steps) : steps'[i] = steps[i]
    BY <1>0, <1>e, <2>1, AppendProperties DEF EndStep
  <2>4. \A i \in 1..Len(events) : events'[i] = events[i]
    <3>1. CASE e = "none"
      BY <1>e, <3>1 DEF EndStep
    <3>2. CASE e \in EventNames
      <4>1. Event(e, Running) \in E
        BY <2>1, <3>2 DEF Event
      <4>2. events' = Append(events, Event(e, Running))
        BY <1>e, <3>2 DEF EndStep, EventNames
      <4> QED BY <1>0, <4>1, <4>2, AppendProperties
    <3> QED BY <1>e, <3>1, <3>2
  <2> QED BY <1>e, <2>2, <2>3, <2>4
<1>1. CASE Start \/ IterationGuard \/ BuildRaises \/ SaveRaises \/ Complete
  <2>1. /\ UNCHANGED <<graph, steps>>
        /\ \E n \in {"run.started", "run.failed", "run.completed"} : Publish(n, 0)
    BY <1>1 DEF Start, IterationGuard, BuildRaises, SaveRaises, Complete, RunFails
  <2> QED BY <1>p, <2>1 DEF graph, EventNames
<1>2. CASE BeginStep
  <2>1. /\ First(Pending) = Len(steps) + 1 /\ First(Pending) \in Goals
        /\ Len(steps) \in Nat
    BY <1>2, FirstPending, OrchestratorAssumption
       DEF BeginStep, ProgressInv, TypeOK, Goals
  <2>2. status[First(Pending)] \notin Final
    BY <2>1 DEF ProgressInv, OrderedProgress
  <2>3. \A g \in Goals : status[g] \in Final => status'[g] = status[g]
    BY <1>2, <2>1, <2>2 DEF BeginStep, ProgressInv, TypeOK
  <2>4. \A i \in 1..Len(events) : events'[i] = events[i]
    BY <1>2, <1>p, <2>1 DEF BeginStep, EventNames
  <2> QED BY <1>2, <2>3, <2>4 DEF BeginStep
<1>3. CASE BuildContext \/ EndEvaluate \/ SaveState \/ EvaluateRule
  BY <1>3 DEF BuildContext, EndEvaluate, SaveState, EvaluateRule, graph
<1>4. CASE LLMRaises \/ ToolRaises
  BY <1>4, <1>e DEF LLMRaises, ToolRaises, AtStep, Final, EventNames
<1>5. ASSUME NEW r \in Replies, LLMAnswers(r) PROVE Kept
  <2>1. /\ AtStep /\ preds \subseteq preds'
        /\ EndStep("ACHIEVED", "step.completed") \/ EndStep("FAILED", "step.failed")
    BY <1>5 DEF LLMAnswers, AtStep, WritePreds
  <2> QED BY <1>e, <2>1 DEF Final, EventNames
<1>6. ASSUME NEW o \in ToolOutputs, ToolReturns(o) PROVE Kept
  <2>1. /\ AtStep /\ preds \subseteq preds'
        /\ EndStep("ACHIEVED", "tool.executed") \/ EndStep("FAILED", "tool.executed")
    BY <1>6 DEF ToolReturns, AtStep
  <2> QED BY <1>e, <2>1 DEF Final, EventNames
<1> QED BY <1>1, <1>2, <1>3, <1>4, <1>5, <1>6 DEF Next

\* No verdict, predicate, reported step or published event is taken back.
THEOREM NothingTakenBack == Spec => Irrevocable
<1> QED BY ProgressInvariant, StepIsIrrevocable, PTL DEF Spec, Irrevocable

-----------------------------------------------------------------------------
(***************************************************************************)
(* The two ways of cutting a run short.  A step is only open below the     *)
(* limit, and after a failed step run() is on its way out of the loop.     *)
(***************************************************************************)
Failed(i) == steps[i].status = "FAILED"

LimitInv ==
  /\ Len(steps) <= cfg.maxIterations
  /\ AtStep => Len(steps) < cfg.maxIterations
  /\ cfg.pauseOnError =>
       \A i \in 1..Len(steps) : Failed(i) => i = Len(steps) /\ pc \in {"evaluate", "leave", "done"}

\* The end of a step uses up one iteration and adds the last StepResult.
LEMMA EndStepLimits ==
  ASSUME ProgressInv, LimitInv, AtStep, UNCHANGED cfg,
         NEW v \in Final, NEW e \in EventNames \cup {"none"}, EndStep(v, e)
  PROVE  LimitInv'
<1>1. /\ Len(steps) \in Nat /\ cfg.maxIterations \in Nat
      /\ steps \in Seq([goal : Goals, status : Final]) /\ Running \in Goals
  BY RunningGoal, OrchestratorAssumption DEF ProgressInv, TypeOK
<1>2. /\ steps' = Append(steps, [goal |-> Running, status |-> v]) /\ pc' = "evaluate"
  BY DEF EndStep
<1>3. /\ Len(steps') = Len(steps) + 1
      /\ \A i \in 1..Len(steps) : steps'[i] = steps[i]
  BY <1>1, <1>2
<1>4. cfg.pauseOnError => \A i \in 1..Len(steps) : ~Failed(i)
  BY DEF LimitInv, AtStep
<1>5. cfg.pauseOnError => \A i \in 1..Len(steps') : Failed(i)' => i = Len(steps')
  BY <1>1, <1>3, <1>4 DEF Failed
<1> QED
  BY <1>1, <1>2, <1>3, <1>5 DEF LimitInv, AtStep

\* Neither limit is passed by a step of run().
LEMMA LimitStep ==
  ASSUME ProgressInv, LimitInv, [Next]_vars
  PROVE  LimitInv'
<1>0. Len(steps) \in Nat /\ cfg.maxIterations \in Nat
  BY OrchestratorAssumption DEF ProgressInv, TypeOK
<1>1. CASE Start \/ IterationGuard \/ BuildContext \/ BuildRaises \/ EvaluateRule
           \/ SaveState \/ SaveRaises \/ Complete \/ UNCHANGED vars
  <2>1. /\ UNCHANGED <<cfg, steps>>
        /\ AtStep' => AtStep
        /\ pc \in {"evaluate", "leave", "done"} => pc' \in {"evaluate", "leave", "done"}
    BY <1>1 DEF Start, IterationGuard, BuildContext, BuildRaises, EvaluateRule, SaveState,
                SaveRaises, Complete, RunFails, graph, vars, AtStep
  <2> QED
    BY <2>1 DEF LimitInv, Failed
<1>2. CASE BeginStep
  <2>1. UNCHANGED <<cfg, steps>> /\ Len(steps) < cfg.maxIterations /\ pc = "loop"
    BY <1>2 DEF BeginStep, iterations
  <2> QED
    BY <2>1 DEF LimitInv, Failed
<1>3. CASE EndEvaluate
  <2>1. /\ UNCHANGED <<cfg, steps>> /\ pc' \in {"leave", "save", "loop"}
        /\ cfg.pauseOnError /\ steps # <<>> /\ Failed(Len(steps)) => pc' = "leave"
    BY <1>3 DEF EndEvaluate, Broken, graph, Failed
  <2>2. ASSUME cfg.pauseOnError, NEW i \in 1..Len(steps), Failed(i)
        PROVE  i = Len(steps) /\ pc' = "leave"
    BY <1>0, <2>1, <2>2 DEF LimitInv
  <2> QED
    BY <2>1, <2>2 DEF LimitInv, Failed, AtStep
<1>4. CASE LLMRaises \/ ToolRaises
  BY <1>4, EndStepLimits DEF LLMRaises, ToolRaises, AtStep, Final, EventNames
<1>5. ASSUME NEW r \in Replies, LLMAnswers(r) PROVE LimitInv'
  <2>1. /\ AtStep /\ UNCHANGED cfg
        /\ EndStep("ACHIEVED", "step.completed") \/ EndStep("FAILED", "step.failed")
    BY <1>5 DEF LLMAnswers, AtStep
  <2> QED BY <2>1, EndStepLimits DEF Final, EventNames
<1>6. ASSUME NEW o \in ToolOutputs, ToolReturns(o) PROVE LimitInv'
  <2>1. /\ AtStep /\ UNCHANGED cfg
        /\ EndStep("ACHIEVED", "tool.executed") \/ EndStep("FAILED", "tool.executed")
    BY <1>6 DEF ToolReturns, AtStep
  <2> QED BY <2>1, EndStepLimits DEF Final, EventNames
<1> QED BY <1>1, <1>2, <1>3, <1>4, <1>5, <1>6 DEF Next

\* Run() never executes more steps than allowed, nor one after a failure that
\* should have stopped it.
THEOREM LimitsKept == Spec => []LimitInv
<1>1. Init => LimitInv
  BY OrchestratorAssumption DEF Init, LimitInv, AtStep
<1> QED BY <1>1, ProgressInvariant, LimitStep, PTL DEF Spec

\* With pause_on_error a failed step is the last one, for every workflow.
THEOREM StopsAtFirstError == Spec => []FirstErrorIsLast
<1>1. LimitInv => FirstErrorIsLast
  BY DEF LimitInv, FirstErrorIsLast, Failed
<1> QED BY <1>1, LimitsKept, PTL

\* At most max_iterations steps, and no success for a run that left goals
\* pending.
THEOREM BoundedIterations == Spec => []IterationBound
<1>1. ProgressInv /\ LimitInv /\ SuccessIsDurable => IterationBound
  <2> SUFFICES ASSUME ProgressInv, LimitInv, SuccessIsDurable, pc = "done", Pending # {}
               PROVE  outcome = "failure"
    BY DEF LimitInv, IterationBound
  <2>1. outcome \in {"success", "failure"}
    BY DEF ProgressInv, TypeOK, Control
  <2> QED BY <2>1 DEF SuccessIsDurable, Pending
<1> QED BY <1>1, ProgressInvariant, LimitsKept, DurableSuccess, PTL

-----------------------------------------------------------------------------
(***************************************************************************)
(* Events.  EventTrail says nothing of where a goal's events are; with the *)
(* event that a step in progress published last it is inductive.           *)
(***************************************************************************)
Underway ==
  AtStep => /\ events # <<>> /\ events[Len(events)] = Event("step.started", Running)
            /\ pc = "tool" <=> RouteTool(Running) # NoTool

EventInv == EventTrail /\ Underway

\* One more event spells one more name of its goal and changes nothing for the
\* others.
LEMMA OneMore ==
  ASSUME TypeOK, NEW n \in EventNames, NEW h \in Goals \cup {0}, events' = Append(events, Event(n, h))
  PROVE  /\ Len(events) \in Nat /\ Len(events') = Len(events) + 1
         /\ events'[Len(events')] = Event(n, h)
         /\ \A i \in 1..Len(events) : events'[i] = events[i]
         /\ \A g \in Goals : EventsOf(g)' = IF g = h THEN EventsOf(g) \cup {Len(events')} ELSE EventsOf(g)
<1>1. /\ Len(events) \in Nat /\ Len(events') = Len(events) + 1
      /\ events'[Len(events')] = Event(n, h)
      /\ \A i \in 1..Len(events) : events'[i] = events[i]
  <2>1. events \in Seq([name : EventNames, goal : Goals \cup {0}])
        /\ Event(n, h) \in [name : EventNames, goal : Goals \cup {0}]
    BY DEF TypeOK, Event
  <2> QED BY <2>1, AppendProperties
<1>2. ASSUME NEW g \in Goals
      PROVE  EventsOf(g)' = IF g = h THEN EventsOf(g) \cup {Len(events')} ELSE EventsOf(g)
  BY <1>1 DEF EventsOf, Event
<1> QED BY <1>1, <1>2

\* So what was spelt, and told, of another goal stays as it was.
LEMMA StillSpelt ==
  ASSUME TypeOK, NEW n \in EventNames, NEW h \in Goals \cup {0}, events' = Append(events, Event(n, h)),
         NEW g \in Goals, g # h, NEW names, Len(names) \in Nat, Spells(g, names)
  PROVE  Spells(g, names)'
<1>1. PICK k \in 0..Len(events) : /\ EventsOf(g) = (k + 1)..(k + Len(names))
                                  /\ \A i \in 1..Len(names) : events[k + i].name = names[i]
  BY DEF Spells
<1>2. EventsOf(g)' = (k + 1)..(k + Len(names)) /\ k \in 0..Len(events')
  BY <1>1, OneMore
<1>3. ASSUME NEW i \in 1..Len(names) PROVE events'[k + i].name = names[i]
  <2>1. k + i \in EventsOf(g)
    BY <1>1
  <2>2. k + i \in 1..Len(events)
    BY <2>1 DEF EventsOf
  <2> QED BY <1>1, <2>2, OneMore
<1> QED BY <1>2, <1>3 DEF Spells

LEMMA StillTold ==
  ASSUME TypeOK, NEW n \in EventNames, NEW h \in Goals \cup {0}, events' = Append(events, Event(n, h)),
         NEW g \in Goals, g # h, Told(g), status'[g] = status[g]
  PROVE  Told(g)'
<1>1. \A m \in EventNames : Len(<<m>>) \in Nat /\ \A l \in EventNames : Len(<<m, l>>) \in Nat
  OBVIOUS
<1>2. Spells(g, <<>>) => Spells(g, <<>>)'
  BY StillSpelt
<1>3. ASSUME NEW m \in EventNames
      PROVE  /\ Spells(g, <<m>>) => Spells(g, <<m>>)'
             /\ \A l \in EventNames : Spells(g, <<m, l>>) => Spells(g, <<m, l>>)'
  <2>1. Spells(g, <<m>>) => Spells(g, <<m>>)'
    BY <1>1, StillSpelt
  <2>2. ASSUME NEW l \in EventNames, Spells(g, <<m, l>>) PROVE Spells(g, <<m, l>>)'
    BY <1>1, <2>2, StillSpelt
  <2> QED BY <2>1, <2>2
<1> QED BY <1>2, <1>3 DEF Told, EventNames

\* A step that publishes nothing leaves the events of a goal as they are.
LEMMA LeftTold ==
  ASSUME UNCHANGED events, NEW g, Told(g), status'[g] = status[g]
  PROVE  Told(g)'
<1>1. EventsOf(g)' = EventsOf(g)
  BY DEF EventsOf
<1>2. ASSUME NEW names, Spells(g, names) PROVE Spells(g, names)'
  BY <1>1, <1>2 DEF Spells
<1>3. /\ Spells(g, <<>>) => Spells(g, <<>>)'
      /\ Spells(g, <<"step.started">>) => Spells(g, <<"step.started">>)'
      /\ Spells(g, <<"step.started", "tool.executed">>) => Spells(g, <<"step.started", "tool.executed">>)'
      /\ Spells(g, <<"step.started", "step.completed">>) => Spells(g, <<"step.started", "step.completed">>)'
      /\ Spells(g, <<"step.started", "step.failed">>) => Spells(g, <<"step.started", "step.failed">>)'
  BY <1>2
<1> QED BY <1>3 DEF Told

\* The first event of a goal, and the one that follows it at once.
LEMMA FirstTold ==
  ASSUME TypeOK, NEW n \in EventNames, NEW g \in Goals, events' = Append(events, Event(n, g)),
         EventsOf(g) = {}
  PROVE  Spells(g, <<n>>)'
<1>1. EventsOf(g)' = (Len(events) + 1)..(Len(events) + 1) /\ Len(events) \in 0..Len(events')
  BY OneMore
<1>2. events'[Len(events) + 1].name = n
  BY OneMore DEF Event
<1>3. Len(<<n>>) = 1 /\ <<n>>[1] = n
  OBVIOUS
<1> QED BY <1>1, <1>2, <1>3 DEF Spells

LEMMA SecondTold ==
  ASSUME TypeOK, NEW n \in EventNames, NEW g \in Goals, events' = Append(events, Event(n, g)),
         NEW m, Spells(g, <<m>>), events # <<>>, events[Len(events)].goal = g
  PROVE  Spells(g, <<m, n>>)'
<1>1. PICK k \in 0..Len(events) : /\ EventsOf(g) = (k + 1)..(k + Len(<<m>>))
                                  /\ \A i \in 1..Len(<<m>>) : events[k + i].name = <<m>>[i]
  BY DEF Spells
<1>2. Len(<<m>>) = 1 /\ <<m>>[1] = m /\ Len(<<m, n>>) = 2 /\ <<m, n>>[1] = m /\ <<m, n>>[2] = n
  OBVIOUS
<1>3. Len(events) \in Nat /\ Len(events) > 0
  BY DEF TypeOK
<1>4. Len(events) = k + 1 /\ events[k + 1].name = m
  <2>1. Len(events) \in EventsOf(g)
    BY <1>3 DEF EventsOf
  <2> QED BY <1>1, <1>2, <1>3, <2>1
<1>5. EventsOf(g)' = (k + 1)..(k + 2) /\ k \in 0..Len(events')
  <2>1. k \in Nat /\ Len(events') = k + 2 /\ EventsOf(g) = (k + 1)..(k + 1)
    BY <1>1, <1>2, <1>3, <1>4, OneMore
  <2>2. EventsOf(g)' = ((k + 1)..(k + 1)) \cup {k + 2}
    BY <2>1, OneMore
  <2> QED BY <2>1, <2>2
<1>6. events'[k + 1].name = m /\ events'[k + 2].name = n
  BY <1>4, OneMore DEF Event
<1>7. \A i \in 1..2 : events'[k + i].name = <<m, n>>[i]
  <2>1. \A i \in 1..2 : i = 1 \/ i = 2
    OBVIOUS
  <2> QED BY <1>2, <1>6, <2>1
<1> QED BY <1>2, <1>5, <1>7 DEF Spells

\* The turn of the goals passes on, and only the end closes the run.
LEMMA TurnKept ==
  ASSUME TypeOK, NEW n \in EventNames, NEW h \in Goals \cup {0}, events' = Append(events, Event(n, h)),
         InTurn, h # 0 => \A i \in 1..Len(events) : events[i].goal <= h
  PROVE  InTurn'
<1> SUFFICES ASSUME NEW i \in 1..Len(events'), NEW j \in 1..Len(events'),
                    i < j, events'[j].goal # 0
             PROVE  events'[i].goal <= events'[j].goal
  BY DEF InTurn
<1>1. i \in 1..Len(events)
  BY OneMore
<1>2. CASE j \in 1..Len(events)
  BY <1>1, <1>2, OneMore DEF InTurn
<1>3. CASE j = Len(events')
  BY <1>1, <1>3, OneMore DEF Event
<1> QED BY <1>2, <1>3, OneMore

LEMMA NotClosed ==
  ASSUME TypeOK, NEW n \in EventNames \ Closing, NEW h \in Goals \cup {0},
         events' = Append(events, Event(n, h)), ClosedOnce, pc # "done", pc' # "done"
  PROVE  ClosedOnce'
<1>1. \A i \in 1..Len(events') : events'[i].name \notin Closing
  <2> SUFFICES ASSUME NEW i \in 1..Len(events') PROVE events'[i].name \notin Closing
    OBVIOUS
  <2>1. CASE i \in 1..Len(events)
    BY <2>1, OneMore DEF ClosedOnce
  <2>2. CASE i = Len(events')
    BY <2>2, OneMore DEF Event
  <2> QED BY <2>1, <2>2, OneMore
<1> QED BY <1>1 DEF ClosedOnce

LEMMA NowClosed ==
  ASSUME TypeOK, NEW n \in Closing, events' = Append(events, Event(n, 0)),
         ClosedOnce, pc # "done", pc' = "done"
  PROVE  ClosedOnce'
<1>1. n \in EventNames
  BY DEF Closing, EventNames
<1>2. \A i \in 1..Len(events') : events'[i].name \in Closing => i = Len(events')
  BY <1>1, OneMore DEF ClosedOnce
<1>3. events' # <<>> /\ events'[Len(events')].name \in Closing
  BY <1>1, OneMore DEF Event
<1> QED BY <1>2, <1>3 DEF ClosedOnce

LEMMA EventInit == Init => EventInv
<1> SUFFICES ASSUME Init PROVE EventInv
  OBVIOUS
<1>1. Len(events) = 0 /\ pc = "start"
  BY DEF Init
<1>2. ASSUME NEW g \in Goals PROVE Told(g)
  <2>1. status[g] = "PENDING"
    BY DEF Init
  <2>2. EventsOf(g) = (0 + 1)..0
    BY <1>1 DEF EventsOf
  <2>3. Spells(g, <<>>)
    BY <1>1, <2>2 DEF Spells
  <2> QED BY <2>1, <2>3 DEF Told
<1>3. InTurn /\ ClosedOnce /\ Underway
  BY <1>1 DEF InTurn, ClosedOnce, Underway, AtStep
<1> QED BY <1>2, <1>3 DEF EventInv, EventTrail

\* A pending goal has no event.
LEMMA NothingYet ==
  ASSUME TypeOK, EventInv, NEW g \in Goals, status[g] = "PENDING" PROVE EventsOf(g) = {}
<1>1. Spells(g, <<>>)
  BY DEF EventInv, EventTrail, Told, Final
<1>2. PICK k \in 0..Len(events) : EventsOf(g) = (k + 1)..(k + Len(<<>>))
  BY <1>1 DEF Spells
<1> QED BY <1>2 DEF TypeOK

\* The end of a step, with the event that it has or has not.
LEMMA EndStepTold ==
  ASSUME ProgressInv, EventInv, AtStep, NEW v \in Final, NEW e \in EventNames \cup {"none"},
         EndStep(v, e), e \notin Closing,
         IF RouteTool(Running) # NoTool
         THEN e = "tool.executed" \/ (e = "none" /\ v = "FAILED")
         ELSE e = IF v = "ACHIEVED" THEN "step.completed" ELSE "step.failed"
  PROVE  EventInv'
<1> DEFINE h == Running
<1>1. h = Len(steps) + 1 /\ h \in Goals /\ status[h] = "RUNNING" /\ TypeOK
  BY RunningGoal DEF ProgressInv
<1>2. /\ events # <<>> /\ events[Len(events)].goal = h /\ pc # "done" /\ pc' = "evaluate"
      /\ Len(events) \in Nat
  BY <1>1 DEF EventInv, Underway, Event, AtStep, EndStep, TypeOK
<1>3. status'[h] = v /\ \A g \in Goals : g # h => status'[g] = status[g]
  BY <1>1 DEF EndStep, TypeOK
<1>4. Spells(h, <<"step.started">>)
  BY <1>1 DEF EventInv, EventTrail, Told, Final
<1>5. Underway'
  BY <1>2 DEF Underway, AtStep
<1> HIDE DEF h
<1>6. CASE e = "none"
  <2>1. events' = events
    BY <1>6 DEF EndStep
  <2>2. ASSUME NEW g \in Goals PROVE Told(g)'
    <3>1. CASE g = h
      <4>1. Spells(g, <<"step.started">>)'
        BY <1>4, <2>1, <3>1 DEF Spells, EventsOf
      <4> QED BY <1>1, <1>3, <1>6, <3>1, <4>1 DEF Told, h, EventNames
    <3>2. CASE g # h
      BY <1>3, <2>1, <3>2, LeftTold DEF EventInv, EventTrail
    <3> QED BY <3>1, <3>2
  <2>3. InTurn' /\ ClosedOnce'
    BY <1>2, <2>1 DEF EventInv, EventTrail, InTurn, ClosedOnce
  <2> QED BY <1>5, <2>2, <2>3 DEF EventInv, EventTrail
<1>7. CASE e # "none"
  <2>1. events' = Append(events, Event(e, h)) /\ e \in EventNames \ Closing
    BY <1>7 DEF EndStep, h
  <2>2. ASSUME NEW g \in Goals PROVE Told(g)'
    <3>1. CASE g = h
      <4>1. Spells(g, <<"step.started", e>>)'
        BY <1>1, <1>2, <1>4, <2>1, <3>1, SecondTold
      <4>2. status'[g] = v /\ v \in {"ACHIEVED", "FAILED"}
        BY <1>3, <3>1 DEF Final
      <4> QED BY <1>7, <3>1, <4>1, <4>2 DEF Told, h, Final
    <3>2. CASE g # h
      BY <1>1, <1>3, <2>1, <3>2, StillTold DEF EventInv, EventTrail
    <3> QED BY <3>1, <3>2
  <2>3. \A i \in 1..Len(events) : events[i].goal <= h
    <3> SUFFICES ASSUME NEW i \in 1..Len(events) PROVE events[i].goal <= h
      OBVIOUS
    <3>1. h \in Nat /\ h # 0 /\ Len(events) \in 1..Len(events)
      BY <1>1, <1>2 DEF Goals
    <3>2. CASE i < Len(events)
      BY <1>2, <3>1, <3>2 DEF EventInv, EventTrail, InTurn
    <3>3. CASE i = Len(events)
      BY <1>2, <3>1, <3>3
    <3> QED BY <1>2, <3>2, <3>3
  <2>4. InTurn'
    BY <1>1, <2>1, <2>3, TurnKept DEF EventInv, EventTrail
  <2>5. ClosedOnce'
    BY <1>1, <1>2, <2>1, NotClosed DEF EventInv, EventTrail
  <2> QED BY <1>5, <2>2, <2>4, <2>5 DEF EventInv, EventTrail
<1> QED BY <1>6, <1>7

\* Every way out of run(): the event that closes it.
LEMMA EndTold ==
  ASSUME ProgressInv, EventInv, NEW n \in Closing, Publish(n, 0), pc # "done", pc' = "done",
         UNCHANGED status
  PROVE  EventInv'
<1>1. events' = Append(events, Event(n, 0)) /\ n \in EventNames /\ TypeOK
  BY DEF Publish, ProgressInv, Closing, EventNames
<1>2. \A g \in Goals : Told(g)'
  BY <1>1, StillTold DEF EventInv, EventTrail, Goals
<1>3. InTurn'
  BY <1>1, TurnKept DEF EventInv, EventTrail
<1>4. ClosedOnce'
  BY <1>1, NowClosed DEF EventInv, EventTrail
<1> QED BY <1>2, <1>3, <1>4 DEF EventInv, EventTrail, Underway, AtStep

LEMMA EventStep == ProgressInv /\ EventInv /\ [Next]_vars => EventInv'
<1> SUFFICES ASSUME ProgressInv, EventInv, [Next]_vars PROVE EventInv'
  OBVIOUS
<1>0. TypeOK /\ Len(steps) \in Nat /\ NGoals \in Nat
  BY OrchestratorAssumption DEF ProgressInv, TypeOK
\* The actions that publish nothing and begin or end no step.
<1>s. ASSUME UNCHANGED <<status, events>>, pc # "done", pc' # "done", ~AtStep' PROVE EventInv'
  <2>1. \A g \in Goals : Told(g)'
    BY <1>s, LeftTold DEF EventInv, EventTrail
  <2>2. InTurn' /\ ClosedOnce' /\ Underway'
    BY <1>s DEF EventInv, EventTrail, InTurn, ClosedOnce, Underway
  <2> QED BY <2>1, <2>2 DEF EventInv, EventTrail
<1>1. CASE Start
  <2>1. /\ events' = Append(events, Event("run.started", 0)) /\ UNCHANGED status
        /\ pc # "done" /\ pc' = "evaluate"
    BY <1>1 DEF Start, Publish, graph
  <2>2. "run.started" \in EventNames \ Closing
    BY DEF EventNames, Closing
  <2>3. \A g \in Goals : Told(g)'
    BY <1>0, <2>1, <2>2, StillTold DEF EventInv, EventTrail, Goals
  <2>4. InTurn'
    BY <1>0, <2>1, <2>2, TurnKept DEF EventInv, EventTrail
  <2>5. ClosedOnce'
    BY <1>0, <2>1, <2>2, NotClosed DEF EventInv, EventTrail
  <2> QED BY <2>1, <2>3, <2>4, <2>5 DEF EventInv, EventTrail, Underway, AtStep
<1>2. CASE BeginStep
  <2> DEFINE h == First(Pending)
  <2>1. h = Len(steps) + 1 /\ h \in Goals /\ status[h] = "PENDING"
    <3>1. h = Len(steps) + 1 /\ h \in Goals
      BY <1>0, <1>2, FirstPending DEF BeginStep, Goals
    <3> HIDE DEF h
    <3>2. status[h] \notin Final /\ status[h] # "RUNNING" /\ status[h] \in Status
      BY <1>0, <1>2, <3>1 DEF BeginStep, ProgressInv, OrderedProgress, TypeOK
    <3> QED BY <3>1, <3>2 DEF Status, Final
  <2>2. /\ events' = Append(events, Event("step.started", h))
        /\ status' = [status EXCEPT ![h] = "RUNNING"]
        /\ pc' = IF RouteTool(h) = NoTool THEN "build" ELSE "tool"
        /\ pc = "loop" /\ steps' = steps
    BY <1>2 DEF BeginStep, Publish
  <2> HIDE DEF h
  <2>3. "step.started" \in EventNames \ Closing
    BY DEF EventNames, Closing
  <2>4. status'[h] = "RUNNING" /\ \A g \in Goals : g # h => status'[g] = status[g]
    BY <1>0, <2>1, <2>2 DEF TypeOK
  <2>5. EventsOf(h) = {}
    BY <1>0, <2>1, NothingYet
  <2>6. ASSUME NEW g \in Goals PROVE Told(g)'
    <3>1. CASE g = h
      <4>1. Spells(g, <<"step.started">>)'
        BY <1>0, <2>2, <2>3, <2>5, <3>1, FirstTold
      <4> QED BY <2>4, <3>1, <4>1 DEF Told
    <3>2. CASE g # h
      BY <1>0, <2>1, <2>2, <2>3, <2>4, <3>2, StillTold DEF EventInv, EventTrail
    <3> QED BY <3>1, <3>2
  <2>7. \A i \in 1..Len(events) : events[i].goal <= h
    <3> SUFFICES ASSUME NEW i \in 1..Len(events) PROVE events[i].goal <= h
      OBVIOUS
    <3> DEFINE g == events[i].goal
    <3>0. g \in Goals \cup {0} /\ h \in Nat
      <4>1. events \in Seq([name : EventNames, goal : Goals \cup {0}])
        BY <1>0 DEF TypeOK
      <4>2. events[i] \in [name : EventNames, goal : Goals \cup {0}]
        BY <4>1, ElementOfSeq
      <4>3. h \in Nat
        BY <2>1, <1>0 DEF Goals
      <4> QED BY <4>2, <4>3
    <3>1. i \in EventsOf(g)
      BY DEF EventsOf
    <3> HIDE DEF g
    <3>2. ASSUME g \in Goals, g > Len(steps) PROVE FALSE
      <4>1. status[g] \notin Final /\ status[g] # "RUNNING" /\ status[g] \in Status
        BY <1>0, <2>2, <3>2 DEF ProgressInv, OrderedProgress, TypeOK, AtStep, Goals
      <4>2. status[g] = "PENDING"
        BY <4>1 DEF Status, Final
      <4> QED BY <1>0, <3>1, <3>2, <4>2, NothingYet
    <3> QED BY <1>0, <2>1, <3>0, <3>2 DEF Goals, g
  <2>8. InTurn'
    BY <1>0, <2>1, <2>2, <2>3, <2>7, TurnKept DEF EventInv, EventTrail
  <2>9. ClosedOnce'
    BY <1>0, <2>1, <2>2, <2>3, NotClosed DEF EventInv, EventTrail
  <2>10. Underway'
    <3>1. ProgressInv'
      BY ProgressStep
    <3>2. AtStep'
      BY <2>2 DEF AtStep
    <3>3. Running' = h
      <4>1. status'[h] = "RUNNING" /\ \A g \in Goals : status'[g] = "RUNNING" => g = h
        BY <2>1, <2>2, <2>4, <3>1 DEF ProgressInv, OrderedProgress
      <4> QED BY <2>1, <4>1 DEF Running
    <3>4. events' # <<>> /\ events'[Len(events')] = Event("step.started", h)
      BY <1>0, <2>1, <2>2, <2>3, OneMore
    <3>5. pc' = "tool" <=> RouteTool(h) # NoTool
      BY <2>2
    <3> QED BY <3>3, <3>4, <3>5 DEF Underway
  <2> QED BY <2>6, <2>8, <2>9, <2>10 DEF EventInv, EventTrail
<1>3. CASE IterationGuard \/ BuildRaises \/ SaveRaises
  BY <1>3, EndTold DEF IterationGuard, BuildRaises, SaveRaises, RunFails, Closing, graph
<1>4. CASE BuildContext
  <2>1. UNCHANGED <<status, events>> /\ pc = "build" /\ pc' = "llm"
    BY <1>4 DEF BuildContext, graph
  <2>2. \A g \in Goals : Told(g)'
    BY <2>1, LeftTold DEF EventInv, EventTrail
  <2>3. InTurn' /\ ClosedOnce' /\ Underway'
    BY <2>1 DEF EventInv, EventTrail, InTurn, ClosedOnce, Underway, AtStep, Running
  <2> QED BY <2>2, <2>3 DEF EventInv, EventTrail
<1>5. CASE LLMRaises
  <2>1. AtStep /\ RouteTool(Running) = NoTool
    BY <1>5 DEF LLMRaises, AtStep, EventInv, Underway
  <2> QED BY <1>5, <2>1, EndStepTold DEF LLMRaises, Final, EventNames, Closing
<1>6. ASSUME NEW r \in Replies, LLMAnswers(r) PROVE EventInv'
  <2>1. AtStep /\ RouteTool(Running) = NoTool
    BY <1>6 DEF LLMAnswers, AtStep, EventInv, Underway
  <2>2. EndStep("ACHIEVED", "step.completed") \/ EndStep("FAILED", "step.failed")
    BY <1>6 DEF LLMAnswers
  <2> QED BY <2>1, <2>2, EndStepTold DEF Final, EventNames, Closing
<1>7. CASE ToolRaises
  <2>1. AtStep /\ RouteTool(Running) # NoTool
    BY <1>7 DEF ToolRaises, AtStep, EventInv, Underway
  <2> QED BY <1>7, <2>1, EndStepTold DEF ToolRaises, Final, EventNames, Closing
<1>8. ASSUME NEW o \in ToolOutputs, ToolReturns(o) PROVE EventInv'
  <2>1. AtStep /\ RouteTool(Running) # NoTool
    BY <1>8 DEF ToolReturns, AtStep, EventInv, Underway
  <2>2. EndStep("ACHIEVED", "tool.executed") \/ EndStep("FAILED", "tool.executed")
    BY <1>8 DEF ToolReturns
  <2> QED BY <2>1, <2>2, EndStepTold DEF Final, EventNames, Closing
<1>9. CASE EvaluateRule
  BY <1>9, <1>s DEF EvaluateRule, AtStep
<1>10. CASE EndEvaluate
  BY <1>10, <1>s DEF EndEvaluate, AtStep, graph
<1>11. CASE SaveState
  BY <1>11, <1>s DEF SaveState, AtStep, graph
<1>12. CASE Complete
  BY <1>12, EndTold DEF Complete, Closing, graph
<1>13. CASE UNCHANGED vars
  <2>1. \A g \in Goals : Told(g)'
    BY <1>13, LeftTold DEF vars, EventInv, EventTrail
  <2> QED BY <1>13, <2>1 DEF vars, EventInv, EventTrail, InTurn, ClosedOnce, Underway, AtStep, Running
<1> QED
  BY <1>1, <1>2, <1>3, <1>4, <1>5, <1>6, <1>7, <1>8, <1>9, <1>10, <1>11, <1>12,
     <1>13 DEF Next

\* What a subscriber concludes from the events is right, for every workflow: the
\* events of a goal tell its verdict, goals follow each other, and one event
\* closes the run.
THEOREM EventsTell == Spec => []EventTrail
<1>1. EventInv => EventTrail
  BY DEF EventInv
<1> QED BY <1>1, ProgressInvariant, EventInit, EventStep, PTL DEF Spec
=============================================================================
