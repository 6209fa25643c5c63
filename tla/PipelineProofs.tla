--------------------------- MODULE PipelineProofs ---------------------------
(***************************************************************************)
(* Proofs about Pipeline, for every list of steps, every size of a group   *)
(* and of its pool, every behaviour of the stages and every configuration. *)
(***************************************************************************)
EXTENDS Pipeline, SequenceTheorems, TLAPS

StageEvents == {"stage.skipped", "stage.started", "stage.failed",
                "stage.retrying", "stage.completed"}

\* The number of the last step that was begun.
Reached == IF open THEN Len(verdicts) + 1 ELSE Len(verdicts)

\* The inductive invariant: types; a step is open only while steps are left
\* and the pipeline runs; a stage that waits for a retry has attempts left, a
\* stage that returned has a result, and one that does neither, but runs, is of
\* the current step; under HALT a failed step is the last
\* begun and closes the pipeline; the steps after the last begun one are
\* untouched.
IInv ==
  /\ TypeOK
  /\ Reached <= Len(Steps)
  /\ open => outcome = "running"
  /\ \A s \in Stages : /\ at[s] = "sleep" => tries[s] < MaxAttempts
                       /\ at[s] = "done" => res[s] \in Results
                       /\ at[s] \in {"attempt", "sleep"} => s \in Current
  /\ cfg.onFailure = "halt" =>
       \A i \in DOMAIN verdicts : ~verdicts[i] =>
         /\ i = Reached
         /\ outcome # "running" => outcome = "failure" /\ Last(log) = "pipeline.failed"
         /\ \A s \in LaterStages(i) : trail[s] = <<>>
  /\ outcome = "running" => \A s \in LaterStages(Reached) : trail[s] = <<>>

-----------------------------------------------------------------------------
\* merge keeps the shape of snapshots, and neither forgets what the base has.
LEMMA MergeKeeps ==
  ASSUME NEW b \in Snapshots, NEW u \in Snapshots
  PROVE  /\ Merge(b, u) \in Snapshots
         /\ \A e \in Entities :
              /\ b.attr[e] # Absent => Merge(b, u).attr[e] # Absent
              /\ Merge(b, u).attr[e] = IF u.attr[e] = Absent THEN b.attr[e] ELSE u.attr[e]
              /\ b.preds[e] \subseteq Merge(b, u).preds[e]
         /\ \A g \in Stages : b.goals[g] # Absent => Merge(b, u).goals[g] = b.goals[g]
  BY DEF Merge, Override, Snapshots

\* The graph a stage ends with is a snapshot, whatever was injected or lost.
LEMMA OutputType ==
  ASSUME PipelineAssumption, acc \in Snapshots, NEW s \in Stages, NEW kept, NEW gone,
         NEW w \in Writes[s]
  PROVE  Output(s, kept, gone, w) \in Snapshots
<1>1. w \in WriteRecords
  BY DEF PipelineAssumption
<1>2. Nothing \in WriteRecords
  BY DEF Nothing, WriteRecords
<1>3. Injected(kept, gone) \in WriteRecords
  <2>1. \A e \in Entities :
           (IF e \in kept \ gone /\ acc.attr[e] # Absent THEN Carry[acc.attr[e]] ELSE Absent)
             \in Vals \cup {Absent}
    BY DEF PipelineAssumption, Snapshots
  <2>2. \A e \in Entities : (IF e \in kept THEN acc.preds[e] ELSE {}) \in SUBSET Preds
    BY DEF Snapshots
  <2> QED
    BY <2>1, <2>2 DEF Injected, WriteRecords
<1>4. \A g, d \in WriteRecords :
        [attr  |-> [e \in Entities |-> Override(g.attr[e], d.attr[e])],
         preds |-> [e \in Entities |-> g.preds[e] \cup d.preds[e]],
         goals |-> [h \in Stages |-> IF h = s /\ s \notin gone THEN "ACHIEVED" ELSE Absent]]
          \in Snapshots
  BY DEF Snapshots, WriteRecords, Override
<1> QED
  BY <1>1, <1>2, <1>3, <1>4 DEF Output

\* The snapshot a pipeline starts a group with is a snapshot.
LEMMA EmptyType == Empty \in Snapshots
  BY DEF Empty, Nothing, Snapshots

\* The step being executed, its stages, and the stages of the later steps.
LEMMA StepFacts ==
  ASSUME PipelineAssumption, IInv, open
  PROVE  /\ Len(verdicts) + 1 \in DOMAIN Steps
         /\ Step \in StepRecords
         /\ Current \subseteq Stages
         /\ \A i \in DOMAIN Step.stages : Step.stages[i] \in Current
         /\ ~Step.fan => Len(Step.stages) = 1
<1>1. Len(verdicts) + 1 \in DOMAIN Steps
  BY DEF PipelineAssumption, IInv, Reached, TypeOK
<1>2. Step \in StepRecords
  BY <1>1 DEF PipelineAssumption, Step
<1>3. Step.stages \in Seq(Stages)
  BY <1>2 DEF StepRecords
<1>4. ~Step.fan => Len(Step.stages) = 1
  BY <1>1 DEF PipelineAssumption, Step
<1> QED
  BY <1>1, <1>2, <1>3, <1>4 DEF Current

\* The stages of the current step belong to no later one.
LEMMA CurrentIsNotLater ==
  ASSUME PipelineAssumption, IInv, open, NEW s \in Current
  PROVE  s \notin LaterStages(Reached)
<1>1. Reached \in DOMAIN Steps /\ Reached = Len(verdicts) + 1 /\ Reached \in Nat
  BY StepFacts DEF Reached, IInv, TypeOK
<1>2. PICK m \in DOMAIN Steps[Reached].stages : Steps[Reached].stages[m] = s
  BY <1>1 DEF Current, Step
<1>3. \A i \in (Reached + 1)..Len(Steps) : i \in DOMAIN Steps /\ i # Reached
  BY <1>1 DEF PipelineAssumption
<1>4. SUFFICES ASSUME NEW i \in (Reached + 1)..Len(Steps), NEW n \in DOMAIN Steps[i].stages,
                      Steps[i].stages[n] = s
               PROVE  FALSE
  BY DEF LaterStages
<1> QED
  BY <1>1, <1>2, <1>3, <1>4 DEF PipelineAssumption

\* A pipeline starts in the inductive invariant.
LEMMA InitInv ==
  ASSUME PipelineAssumption, Init
  PROVE  IInv
<1>1. TypeOK
  <2>1. /\ at \in [Stages -> {"waiting", "attempt", "sleep", "done"}]
        /\ tries \in [Stages -> 0..(RetryCount + 1)]
        /\ res \in [Stages -> Results \cup {None}]
    BY DEF PipelineAssumption, Init
  <2>2. trail \in [Stages -> Seq(StageEvents)]
    BY DEF Init
  <2>3. log \in Seq({"pipeline.started", "pipeline.completed", "pipeline.failed",
                     "fanout.started", "fanout.completed"})
    BY DEF Init
  <2>4. acc \in Snapshots /\ cfg \in Configs /\ merged \in Snapshots
    BY EmptyType DEF PipelineAssumption, Init
  <2>5. open \in BOOLEAN /\ outcome \in {"running", "success", "failure"}
    BY Zenon DEF Init
  <2>6. verdicts \in Seq(BOOLEAN) /\ next \in Nat \ {0}
    BY EmptySeq DEF Init
  <2> QED
    BY <2>1, <2>2, <2>3, <2>4, <2>5, <2>6, Zenon DEF TypeOK, StageEvents
<1>2. Len(Steps) \in Nat /\ Len(verdicts) = 0 /\ DOMAIN verdicts = {}
  BY DEF PipelineAssumption, Init
<1>3. \A s \in LaterStages(Reached) : s \in Stages
  <2>1. \A i \in 1..Len(Steps) : Steps[i].stages \in Seq(Stages)
    <3>1. \A i \in 1..Len(Steps) : Steps[i] \in StepRecords
      BY DEF PipelineAssumption
    <3> QED
      BY <3>1 DEF StepRecords
  <2> QED
    BY <2>1, <1>2 DEF LaterStages, Reached, Init
<1> QED
  BY <1>1, <1>2, <1>3 DEF IInv, Init, Reached

-----------------------------------------------------------------------------
\* A stage returns: its result has its type.
LEMMA ReturnKeeps ==
  ASSUME PipelineAssumption, IInv, NEW s \in Current, open,
         NEW kind \in {"ok", "skipped", "failed"}, NEW out \in Snapshots,
         NEW wrote \in SUBSET Entities, Return(s, kind, out, wrote)
  PROVE  /\ at' \in [Stages -> {"waiting", "attempt", "sleep", "done"}]
         /\ res' \in [Stages -> Results \cup {None}]
         /\ \A r \in Stages : at'[r] = "done" => res'[r] \in Results
         /\ \A r \in Stages : at'[r] = "sleep" => r # s /\ at[r] = "sleep"
<1>1. s \in Stages
  BY StepFacts
<1>2. [kind |-> kind, out |-> out, wrote |-> wrote] \in Results
  BY DEF Results
<1> QED
  BY <1>1, <1>2 DEF Return, IInv, TypeOK

\* What is told of a stage of the current step leaves the later ones alone.
LEMMA TellKeeps ==
  ASSUME PipelineAssumption, IInv, open, NEW s \in Current,
         NEW names \in Seq(StageEvents), Tell(s, names), open' = open,
         verdicts' = verdicts
  PROVE  /\ trail' \in [Stages -> Seq(StageEvents)]
         /\ \A r \in LaterStages(Reached') : trail'[r] = <<>>
<1>1. s \in Stages /\ trail[s] \in Seq(StageEvents)
  BY StepFacts DEF IInv, TypeOK, StageEvents
<1>2. trail[s] \o names \in Seq(StageEvents)
  BY <1>1, ConcatProperties
<1>3. trail' \in [Stages -> Seq(StageEvents)]
  BY <1>1, <1>2 DEF Tell, IInv, TypeOK, StageEvents
<1>4. Reached' = Reached
  BY DEF Reached
<1>5. \A r \in LaterStages(Reached) : r # s /\ trail'[r] = trail[r]
  <2>1. \A r \in LaterStages(Reached) : r # s
    BY CurrentIsNotLater
  <2>2. LaterStages(Reached) \subseteq Stages
    <3>1. \A i \in 1..Len(Steps) : Steps[i] \in StepRecords
      BY DEF PipelineAssumption
    <3>2. Reached \in Nat /\ Len(Steps) \in Nat
      BY DEF Reached, IInv, TypeOK, PipelineAssumption
    <3> QED
      BY <3>1, <3>2 DEF LaterStages, StepRecords
  <2> QED
    BY <2>1, <2>2 DEF Tell, IInv, TypeOK
<1> QED
  BY <1>3, <1>4, <1>5 DEF IInv

\* A step of one stage preserves the invariant if the stage keeps its own part.
LEMMA StageStep ==
  ASSUME PipelineAssumption, IInv, open,
         UNCHANGED <<cfg, acc, open, group, verdicts, log, outcome>>,
         at' \in [Stages -> {"waiting", "attempt", "sleep", "done"}],
         tries' \in [Stages -> 0..(RetryCount + 1)],
         res' \in [Stages -> Results \cup {None}],
         trail' \in [Stages -> Seq(StageEvents)],
         \A r \in LaterStages(Reached') : trail'[r] = <<>>,
         \A r \in Stages : /\ at'[r] = "sleep" => tries'[r] < MaxAttempts
                           /\ at'[r] = "done" => res'[r] \in Results
                           /\ at'[r] \in {"attempt", "sleep"} => r \in Current
  PROVE  IInv'
<1>1. Reached' = Reached /\ MaxAttempts' = MaxAttempts /\ Current' = Current
  BY DEF Reached, MaxAttempts, Current, Step
<1>2. TypeOK'
  BY Zenon DEF IInv, TypeOK, group, StageEvents
<1> QED
  <2>1. \A i \in DOMAIN verdicts : i # Reached
    BY DEF Reached, IInv, TypeOK
  <2> QED
    BY <1>1, <1>2, <2>1 DEF IInv

\* _run_stage tries a stage at most retry_count + 1 times.
LEMMA AttemptsLeft ==
  ASSUME PipelineAssumption, IInv
  PROVE  MaxAttempts \in 1..(RetryCount + 1)
  BY DEF PipelineAssumption, MaxAttempts

\* What a worker does to its stage keeps the invariant.
LEMMA RunStageKeeps ==
  ASSUME PipelineAssumption, IInv, NEW s \in Stages, RunStage(s)
  PROVE  IInv'
<1>1. s \in Current /\ open
  BY DEF IInv, RunStage, Skip, Attempt, AttemptFails, Retry, AttemptSucceeds, MayStart, Current
<1>2. MaxAttempts \in Nat /\ MaxAttempts <= RetryCount + 1 /\ RetryCount \in Nat
  BY AttemptsLeft DEF PipelineAssumption
<1>3. acc \in Snapshots /\ {} \in SUBSET Entities
  BY DEF IInv, TypeOK
<1>4. CASE Skip(s)
  <2>1. <<"stage.skipped">> \in Seq(StageEvents)
    BY DEF StageEvents
  <2>2. Return(s, "skipped", acc, {}) /\ Tell(s, <<"stage.skipped">>)
        /\ UNCHANGED <<cfg, acc, open, group, verdicts, log, outcome>> /\ tries' = tries
    BY <1>4 DEF Skip
  <2>3. \A r \in Stages : /\ at'[r] = "sleep" => tries'[r] < MaxAttempts
                          /\ at'[r] = "done" => res'[r] \in Results
                          /\ at'[r] \in {"attempt", "sleep"} => r \in Current
    <3>1. /\ \A r \in Stages : at'[r] = "done" => res'[r] \in Results
          /\ \A r \in Stages : at'[r] = "sleep" => r # s /\ at[r] = "sleep"
      BY <1>1, <1>3, <2>2, ReturnKeeps
    <3>2. at' = [at EXCEPT ![s] = "done"]
      BY <2>2 DEF Return
    <3> QED
      BY <1>1, <2>2, <3>1, <3>2 DEF IInv, TypeOK
  <2>4. trail' \in [Stages -> Seq(StageEvents)] /\ \A r \in LaterStages(Reached') : trail'[r] = <<>>
    BY <1>1, <2>1, <2>2, TellKeeps
  <2>5. /\ at' \in [Stages -> {"waiting", "attempt", "sleep", "done"}]
        /\ res' \in [Stages -> Results \cup {None}]
    BY <1>1, <1>3, <2>2, ReturnKeeps
  <2>6. tries' \in [Stages -> 0..(RetryCount + 1)]
    BY <2>2 DEF IInv, TypeOK
  <2> QED
    BY <1>1, <2>2, <2>3, <2>4, <2>5, <2>6, StageStep
<1>5. CASE Attempt(s)
  <2>1. <<"stage.started">> \in Seq(StageEvents)
    BY DEF StageEvents
  <2>2. /\ at' = [at EXCEPT ![s] = "attempt"] /\ tries' = [tries EXCEPT ![s] = 1]
        /\ Tell(s, <<"stage.started">>) /\ res' = res
        /\ UNCHANGED <<cfg, acc, open, group, verdicts, log, outcome>>
    BY <1>5 DEF Attempt
  <2>3. /\ at' \in [Stages -> {"waiting", "attempt", "sleep", "done"}]
        /\ tries' \in [Stages -> 0..(RetryCount + 1)]
        /\ res' \in [Stages -> Results \cup {None}]
    BY <1>2, <2>2 DEF IInv, TypeOK
  <2>4. \A r \in Stages : /\ at'[r] = "sleep" => tries'[r] < MaxAttempts
                          /\ at'[r] = "done" => res'[r] \in Results
                          /\ at'[r] \in {"attempt", "sleep"} => r \in Current
    BY <1>1, <2>2 DEF IInv, TypeOK
  <2>5. trail' \in [Stages -> Seq(StageEvents)] /\ \A r \in LaterStages(Reached') : trail'[r] = <<>>
    BY <1>1, <2>1, <2>2, TellKeeps
  <2> QED
    BY <1>1, <2>2, <2>3, <2>4, <2>5, StageStep
<1>6. CASE AttemptFails(s)
  <2>1. <<"stage.failed">> \in Seq(StageEvents)
    BY DEF StageEvents
  <2>2. /\ Tell(s, <<"stage.failed">>) /\ tries' = tries /\ at[s] = "attempt"
        /\ UNCHANGED <<cfg, acc, open, group, verdicts, log, outcome>>
    BY <1>6 DEF AttemptFails
  <2>3. trail' \in [Stages -> Seq(StageEvents)] /\ \A r \in LaterStages(Reached') : trail'[r] = <<>>
    BY <1>1, <2>1, <2>2, TellKeeps
  <2>4. CASE tries[s] < MaxAttempts
    <3>1. at' = [at EXCEPT ![s] = "sleep"] /\ res' = res
      BY <1>6, <2>4 DEF AttemptFails
    <3>2. /\ at' \in [Stages -> {"waiting", "attempt", "sleep", "done"}]
          /\ tries' \in [Stages -> 0..(RetryCount + 1)]
          /\ res' \in [Stages -> Results \cup {None}]
      BY <2>2, <3>1 DEF IInv, TypeOK
    <3>3. \A r \in Stages : /\ at'[r] = "sleep" => tries'[r] < MaxAttempts
                            /\ at'[r] = "done" => res'[r] \in Results
                            /\ at'[r] \in {"attempt", "sleep"} => r \in Current
      BY <1>1, <2>2, <2>4, <3>1 DEF IInv, TypeOK
    <3> QED
      BY <1>1, <2>2, <2>3, <3>2, <3>3, StageStep
  <2>5. CASE ~(tries[s] < MaxAttempts)
    <3>1. Return(s, "failed", acc, {})
      BY <1>6, <2>5 DEF AttemptFails
    <3>2. \A r \in Stages : /\ at'[r] = "sleep" => tries'[r] < MaxAttempts
                            /\ at'[r] = "done" => res'[r] \in Results
                            /\ at'[r] \in {"attempt", "sleep"} => r \in Current
      <4>1. /\ \A r \in Stages : at'[r] = "done" => res'[r] \in Results
            /\ \A r \in Stages : at'[r] = "sleep" => r # s /\ at[r] = "sleep"
        BY <1>1, <1>3, <3>1, ReturnKeeps
      <4>2. at' = [at EXCEPT ![s] = "done"]
        BY <3>1 DEF Return
      <4> QED
        BY <1>1, <2>2, <4>1, <4>2 DEF IInv, TypeOK
    <3>3. /\ at' \in [Stages -> {"waiting", "attempt", "sleep", "done"}]
          /\ res' \in [Stages -> Results \cup {None}]
      BY <1>1, <1>3, <3>1, ReturnKeeps
    <3>4. tries' \in [Stages -> 0..(RetryCount + 1)]
      BY <2>2 DEF IInv, TypeOK
    <3> QED
      BY <1>1, <2>2, <2>3, <3>2, <3>3, <3>4, StageStep
  <2> QED
    BY <2>4, <2>5
<1>7. CASE Retry(s)
  <2>1. <<"stage.retrying", "stage.started">> \in Seq(StageEvents)
    BY DEF StageEvents
  <2>2. /\ at' = [at EXCEPT ![s] = "attempt"] /\ tries' = [tries EXCEPT ![s] = @ + 1]
        /\ Tell(s, <<"stage.retrying", "stage.started">>) /\ res' = res
        /\ UNCHANGED <<cfg, acc, open, group, verdicts, log, outcome>>
    BY <1>7 DEF Retry
  <2>3. tries[s] < MaxAttempts /\ tries[s] \in 0..(RetryCount + 1)
    BY <1>7 DEF Retry, IInv, TypeOK
  <2>4. /\ at' \in [Stages -> {"waiting", "attempt", "sleep", "done"}]
        /\ tries' \in [Stages -> 0..(RetryCount + 1)]
        /\ res' \in [Stages -> Results \cup {None}]
    BY <1>2, <2>2, <2>3 DEF IInv, TypeOK
  <2>5. \A r \in Stages : /\ at'[r] = "sleep" => tries'[r] < MaxAttempts
                          /\ at'[r] = "done" => res'[r] \in Results
                          /\ at'[r] \in {"attempt", "sleep"} => r \in Current
    BY <1>1, <2>2 DEF IInv, TypeOK
  <2>6. trail' \in [Stages -> Seq(StageEvents)] /\ \A r \in LaterStages(Reached') : trail'[r] = <<>>
    BY <1>1, <2>1, <2>2, TellKeeps
  <2> QED
    BY <1>1, <2>2, <2>4, <2>5, <2>6, StageStep
<1>8. ASSUME NEW kept \in Kept(s), NEW gone \in Swallowed(s, kept), NEW w \in Writes[s],
             AttemptSucceeds(s, kept, gone, w)
      PROVE  IInv'
  <2>1. <<"stage.completed">> \in Seq(StageEvents)
    BY DEF StageEvents
  <2>2. Output(s, kept, gone, w) \in Snapshots /\ Wrote(s, gone, w) \in SUBSET Entities
    BY <1>3, OutputType DEF Wrote
  <2>3. /\ Return(s, "ok", Output(s, kept, gone, w), Wrote(s, gone, w))
        /\ Tell(s, <<"stage.completed">>) /\ tries' = tries
        /\ UNCHANGED <<cfg, acc, open, group, verdicts, log, outcome>>
    BY <1>8 DEF AttemptSucceeds
  <2>4. /\ at' \in [Stages -> {"waiting", "attempt", "sleep", "done"}]
        /\ res' \in [Stages -> Results \cup {None}]
        /\ \A r \in Stages : at'[r] = "done" => res'[r] \in Results
        /\ \A r \in Stages : at'[r] = "sleep" => r # s /\ at[r] = "sleep"
    BY <1>1, <2>2, <2>3, ReturnKeeps
  <2>5. \A r \in Stages : /\ at'[r] = "sleep" => tries'[r] < MaxAttempts
                          /\ at'[r] = "done" => res'[r] \in Results
                          /\ at'[r] \in {"attempt", "sleep"} => r \in Current
    BY <1>1, <2>3, <2>4 DEF IInv, TypeOK, Return
  <2>6. trail' \in [Stages -> Seq(StageEvents)] /\ \A r \in LaterStages(Reached') : trail'[r] = <<>>
    BY <1>1, <2>1, <2>3, TellKeeps
  <2>7. tries' \in [Stages -> 0..(RetryCount + 1)]
    BY <2>3 DEF IInv, TypeOK
  <2> QED
    BY <1>1, <2>3, <2>4, <2>5, <2>6, <2>7, StageStep
<1> QED
  BY <1>4, <1>5, <1>6, <1>7, <1>8 DEF RunStage

-----------------------------------------------------------------------------
\* The steps of the caller's thread.
LEMMA FewerLater ==
  ASSUME PipelineAssumption, NEW m \in Nat, NEW n \in Nat, m <= n
  PROVE  LaterStages(n) \subseteq LaterStages(m)
<1>1. \A i \in (n + 1)..Len(Steps) : i \in (m + 1)..Len(Steps)
  BY DEF PipelineAssumption
<1> QED
  BY <1>1 DEF LaterStages

\* When a step has its result, none of its stages is still running.
LEMMA NobodyRuns ==
  ASSUME PipelineAssumption, IInv, ~open \/ Active = {} \/ Returned
  PROVE  \A s \in Stages : at[s] \notin {"attempt", "sleep"}
  BY DEF IInv, Active, Returned, Current

\* Opening the next step keeps the invariant.
LEMMA BeginStepKeeps ==
  ASSUME PipelineAssumption, IInv, BeginStep
  PROVE  IInv'
<1> USE DEF BeginStep
<1>1. Len(verdicts) \in Nat /\ Len(Steps) \in Nat /\ verdicts \in Seq(BOOLEAN)
  BY DEF PipelineAssumption, IInv, TypeOK
<1>2. Reached' = Len(verdicts) + 1 /\ Reached = Len(verdicts) /\ MaxAttempts' = MaxAttempts
  BY DEF Reached, MaxAttempts
<1>3. TypeOK'
  <2>1. Append(log, "fanout.started") \in Seq({"pipeline.started", "pipeline.completed",
          "pipeline.failed", "fanout.started", "fanout.completed"})
    BY DEF IInv, TypeOK
  <2>2. next' \in Nat \ {0}
    BY SMT
  <2>3. log' \in Seq({"pipeline.started", "pipeline.completed",
          "pipeline.failed", "fanout.started", "fanout.completed"})
    BY <2>1 DEF IInv, TypeOK
  <2> QED
    BY <2>2, <2>3, EmptyType, Zenon DEF IInv, TypeOK, branch
<1>4. \A s \in Stages : at[s] \notin {"attempt", "sleep"}
  BY NobodyRuns
<1>5. cfg.onFailure = "halt" => \A i \in DOMAIN verdicts : verdicts[i]
  <2>1. \A i \in DOMAIN verdicts : i = Len(verdicts) => verdicts # <<>> /\ Last(verdicts) = verdicts[i]
    BY <1>1 DEF Last
  <2> QED
    BY <1>2, <2>1 DEF IInv, Halting
<1>6. \A s \in LaterStages(Reached') : trail[s] = <<>>
  BY <1>1, <1>2, FewerLater DEF IInv
<1>7. \A s \in Stages : at[s] = "done" => res[s] \in Results
  BY DEF IInv
<1> QED
  BY <1>1, <1>2, <1>3, <1>4, <1>5, <1>6, <1>7 DEF IInv, branch

\* A group whose pool raises ends the pipeline and keeps the invariant.
LEMMA GroupRaisesKeeps ==
  ASSUME PipelineAssumption, IInv, GroupRaises
  PROVE  IInv'
<1> USE DEF GroupRaises
<1>1. Len(verdicts) \in Nat /\ Len(Steps) \in Nat /\ verdicts \in Seq(BOOLEAN)
  BY DEF PipelineAssumption, IInv, TypeOK
<1>2. Reached' = Len(verdicts) /\ Reached = Len(verdicts) + 1 /\ MaxAttempts' = MaxAttempts
  BY DEF Reached, MaxAttempts
<1>3. TypeOK'
  <2>1. log' \in Seq({"pipeline.started", "pipeline.completed",
          "pipeline.failed", "fanout.started", "fanout.completed"})
    BY DEF IInv, TypeOK
  <2> QED
    BY <2>1, Zenon DEF IInv, TypeOK, branch, group
<1>4. \A s \in Stages : at[s] \notin {"attempt", "sleep"}
  BY NobodyRuns
<1>5. \A i \in DOMAIN verdicts : i # Reached
  BY <1>1, <1>2
<1>6. \A s \in Stages : at[s] = "done" => res[s] \in Results
  BY DEF IInv
<1> QED
  BY <1>1, <1>2, <1>3, <1>4, <1>5, <1>6 DEF IInv, branch

\* A stage of the group that returned has a result.
LEMMA ReturnedResults ==
  ASSUME PipelineAssumption, IInv, Returned
  PROVE  \A i \in DOMAIN Step.stages : res[Step.stages[i]] \in Results
  BY StepFacts DEF Returned, IInv

\* Merging one more output of a group keeps the invariant.
LEMMA MergeNextKeeps ==
  ASSUME PipelineAssumption, IInv, MergeNext
  PROVE  IInv'
<1> USE DEF MergeNext
<1>1. next \in DOMAIN Step.stages
  BY StepFacts DEF IInv, TypeOK, StepRecords, Returned
<1>2. res[Step.stages[next]].out \in Snapshots
  BY <1>1, ReturnedResults DEF Results
<1>3. merged' \in Snapshots /\ next' \in Nat \ {0}
  BY <1>2, MergeKeeps DEF IInv, TypeOK
<1>4. TypeOK'
  BY <1>3, Zenon DEF IInv, TypeOK, branch
<1>5. Reached' = Reached /\ MaxAttempts' = MaxAttempts /\ Current' = Current
  BY DEF Reached, MaxAttempts, Current, Step
<1> QED
  BY <1>4, <1>5 DEF IInv, branch

\* What a successful step hands on is a snapshot.
LEMMA HandedType ==
  ASSUME PipelineAssumption, IInv, Returned
  PROVE  Handed \in Snapshots
<1>1. CASE Step.fan
  BY <1>1 DEF Handed, IInv, TypeOK
<1>2. CASE ~Step.fan
  <2>1. 1 \in DOMAIN Step.stages
    BY <1>2, StepFacts DEF Returned, StepRecords
  <2> QED
    BY <1>2, <2>1, ReturnedResults DEF Handed, Results
<1> QED
  BY <1>1, <1>2

\* Recording the verdict of a step, and merging it or not, keeps the invariant.
LEMMA EndStepKeeps ==
  ASSUME PipelineAssumption, IInv, EndStep
  PROVE  IInv'
<1> USE DEF EndStep
<1>1. Len(verdicts) \in Nat /\ Len(Steps) \in Nat /\ verdicts \in Seq(BOOLEAN)
  BY DEF PipelineAssumption, IInv, TypeOK
<1>2. open /\ outcome = "running"
  BY DEF Returned, IInv
<1>3. StepOk \in BOOLEAN
  BY DEF StepOk
<1>4. /\ verdicts' \in Seq(BOOLEAN) /\ Len(verdicts') = Len(verdicts) + 1
      /\ \A i \in DOMAIN verdicts : verdicts'[i] = verdicts[i]
      /\ DOMAIN verdicts' = 1..(Len(verdicts) + 1) /\ DOMAIN verdicts = 1..Len(verdicts)
  BY <1>1, <1>3
<1>5. Reached' = Reached /\ Reached = Len(verdicts) + 1 /\ MaxAttempts' = MaxAttempts
  BY <1>2, <1>4 DEF Reached, MaxAttempts
<1>6. acc' \in Snapshots
  BY HandedType, MergeKeeps DEF IInv, TypeOK
<1>7. TypeOK'
  <2>1. log' \in Seq({"pipeline.started", "pipeline.completed",
          "pipeline.failed", "fanout.started", "fanout.completed"})
    BY DEF IInv, TypeOK
  <2>2. open' \in BOOLEAN
    BY Zenon
  <2> QED
    BY <1>4, <1>6, <2>1, <2>2, Zenon DEF IInv, TypeOK, branch, group
<1>8. \A s \in Stages : at[s] \notin {"attempt", "sleep"}
  BY NobodyRuns
<1>9. cfg.onFailure = "halt" => \A i \in DOMAIN verdicts : verdicts[i]
  BY <1>1, <1>5 DEF IInv
<1>10. \A s \in LaterStages(Reached) : trail[s] = <<>>
  BY <1>2 DEF IInv
<1>11. \A s \in Stages : at[s] = "done" => res[s] \in Results
  BY DEF IInv
<1>12. cfg.onFailure = "halt" =>
         \A i \in DOMAIN verdicts' : ~verdicts'[i] => i = Reached
  BY <1>1, <1>4, <1>5, <1>9
<1> QED
  BY <1>1, <1>2, <1>5, <1>7, <1>8, <1>10, <1>11, <1>12 DEF IInv, branch

\* Ending the pipeline, by HALT or after its last step, keeps the invariant.
LEMMA CloseKeeps ==
  ASSUME PipelineAssumption, IInv, Halt \/ Complete
  PROVE  IInv'
<1> USE DEF Halt, Complete
<1>1. Len(verdicts) \in Nat /\ Len(Steps) \in Nat /\ verdicts \in Seq(BOOLEAN)
  BY DEF PipelineAssumption, IInv, TypeOK
<1>2. Reached' = Len(verdicts) /\ Reached = Len(verdicts) /\ MaxAttempts' = MaxAttempts
      /\ ~open /\ UNCHANGED <<cfg, acc, open, at, tries, res, trail, group, verdicts>>
  BY DEF Reached, MaxAttempts, branch
<1>3. TypeOK'
  <2>1. log' \in Seq({"pipeline.started", "pipeline.completed",
          "pipeline.failed", "fanout.started", "fanout.completed"})
    <3>1. log' = Append(log, "pipeline.failed") \/ log' = Append(log, "pipeline.completed")
      OBVIOUS
    <3>2. log \in Seq({"pipeline.started", "pipeline.completed",
            "pipeline.failed", "fanout.started", "fanout.completed"})
      BY DEF IInv, TypeOK
    <3>3. CASE log' = Append(log, "pipeline.failed")
      BY <3>2, <3>3
    <3>4. CASE log' = Append(log, "pipeline.completed")
      BY <3>2, <3>4
    <3> QED
      BY <3>1, <3>3, <3>4
  <2>2. outcome' \in {"running", "success", "failure"}
    BY SMT
  <2> QED
    BY <1>2, <2>1, <2>2, Zenon DEF IInv, TypeOK, group
<1>4. \A s \in Stages : at[s] \notin {"attempt", "sleep"}
  BY NobodyRuns
<1>5. outcome' # "running"
  BY SMT
<1>6. CASE Halt
  <2>1. Last(log') = "pipeline.failed" /\ outcome' = "failure"
    BY <1>6 DEF Last, IInv, TypeOK
  <2> QED
    BY <1>1, <1>2, <1>3, <1>4, <1>5, <2>1 DEF IInv
<1>7. CASE Complete
  <2>1. cfg.onFailure = "halt" => \A i \in DOMAIN verdicts : verdicts[i]
    <3>1. \A i \in DOMAIN verdicts : i = Len(verdicts) => verdicts # <<>> /\ Last(verdicts) = verdicts[i]
      BY <1>1 DEF Last
    <3> QED
      BY <1>2, <1>7, <3>1 DEF IInv, Halting
  <2> QED
    BY <1>1, <1>2, <1>3, <1>4, <1>5, <2>1 DEF IInv
<1> QED
  BY <1>6, <1>7

-----------------------------------------------------------------------------
\* IInv is inductive, and so holds in every reachable state.
LEMMA InvStep ==
  ASSUME PipelineAssumption, IInv, [Next]_vars
  PROVE  IInv'
<1>1. CASE Main
  BY <1>1, BeginStepKeeps, GroupRaisesKeeps, MergeNextKeeps, EndStepKeeps, CloseKeeps DEF Main
<1>2. CASE \E s \in Stages : RunStage(s)
  BY <1>2, RunStageKeeps
<1>3. CASE UNCHANGED vars
  <2>1. UNCHANGED <<cfg, acc, open, at, tries, res, trail, merged, next, verdicts, log, outcome>>
    BY <1>3 DEF vars, branch, group
  <2>2. Reached' = Reached /\ MaxAttempts' = MaxAttempts /\ Current' = Current
    BY <2>1 DEF Reached, MaxAttempts, Current, Step
  <2>3. TypeOK'
    BY <2>1, Zenon DEF IInv, TypeOK
  <2> QED
    BY <2>1, <2>2, <2>3 DEF IInv
<1> QED
  BY <1>1, <1>2, <1>3 DEF Next

\* The inductive invariant of the pipeline holds throughout.
LEMMA Invariant == Spec => []IInv
<1>1. Init => IInv
  BY PipelineAssumption, InitInv
<1>2. IInv /\ [Next]_vars => IInv'
  BY PipelineAssumption, InvStep
<1> QED
  BY <1>1, <1>2, PTL DEF Spec

\* The types of the variables, for every pipeline.
THEOREM TypeCorrect == Spec => []TypeOK
<1>1. IInv => TypeOK
  BY DEF IInv
<1> QED
  BY <1>1, Invariant, PTL

\* Nothing follows a failed step under HALT but pipeline.failed.
THEOREM HaltIsFinal == Spec => []HaltStops
<1>1. IInv => HaltStops
  <2>1. IInv => \A i \in DOMAIN verdicts : i = Reached => i = Len(verdicts) /\ ~open
    BY DEF IInv, TypeOK, Reached
  <2> QED
    BY <2>1 DEF IInv, HaltStops
<1> QED
  BY <1>1, Invariant, PTL

\* What a step hands on is merged into a snapshot that forgets nothing.
LEMMA StepOnlyGrows ==
  ASSUME PipelineAssumption, IInv, [Next]_vars, cfg.merge = "accumulate"
  PROVE  /\ \A e \in Entities :
              /\ acc.attr[e] # Absent => acc'.attr[e] # Absent
              /\ acc.preds[e] \subseteq acc'.preds[e]
         /\ \A g \in Stages : acc.goals[g] # Absent => acc'.goals[g] = acc.goals[g]
<1>1. CASE EndStep
  <2>1. Handed \in Snapshots /\ acc \in Snapshots
    BY <1>1, HandedType DEF EndStep, IInv, TypeOK
  <2>2. acc' = acc \/ acc' = Merge(acc, Handed)
    BY <1>1 DEF EndStep
  <2> QED
    BY <2>1, <2>2, MergeKeeps
<1>2. CASE ~EndStep
  <2>1. acc' = acc
    BY <1>2 DEF Next, vars, Main, BeginStep, GroupRaises, MergeNext, Halt, Complete, RunStage,
                Skip, Attempt, AttemptFails, Retry, AttemptSucceeds
  <2> QED
    BY <2>1
<1> QED
  BY <1>1, <1>2

\* Under ACCUMULATE no attribute, predicate or goal disappears.
THEOREM NothingDisappears == Spec => OnlyGrows
<1>1. IInv /\ [Next]_vars =>
        [ cfg.merge = "accumulate" =>
            /\ \A e \in Entities :
                 /\ acc.attr[e] # Absent => acc'.attr[e] # Absent
                 /\ acc.preds[e] \subseteq acc'.preds[e]
            /\ \A g \in Stages : acc.goals[g] # Absent => acc'.goals[g] = acc.goals[g] ]_vars
  BY PipelineAssumption, StepOnlyGrows
<1> QED
  BY <1>1, Invariant, PTL DEF Spec, OnlyGrows

-----------------------------------------------------------------------------
\* The steps are decided as WorkflowRun decides goals: a step that returns is
\* the first undecided one.
Verdict == [i \in 1..Len(Steps) |-> IF i > Len(verdicts) THEN "UNDECIDED"
                                    ELSE IF verdicts[i] THEN "ACHIEVED" ELSE "FAILED"]

\* The end of a step decides the first undecided goal of the abstract run.
LEMMA EndStepDecides ==
  ASSUME PipelineAssumption, IInv, EndStep
  PROVE  Abstract!Next
<1> DEFINE n == Len(verdicts) + 1
           v == IF StepOk THEN "ACHIEVED" ELSE "FAILED"
<1>1. Len(verdicts) \in Nat /\ Len(Steps) \in Nat /\ verdicts \in Seq(BOOLEAN)
      /\ open /\ outcome = "running" /\ n <= Len(Steps)
  BY DEF PipelineAssumption, IInv, TypeOK, Reached, EndStep, Returned
<1>2. StepOk \in BOOLEAN /\ verdicts' = Append(verdicts, StepOk) /\ UNCHANGED outcome
  BY DEF StepOk, EndStep
<1>3. Verdict' = [Verdict EXCEPT ![n] = v]
  <2>1. /\ Len(verdicts') = n /\ verdicts'[n] = StepOk
        /\ \A i \in 1..Len(verdicts) : verdicts'[i] = verdicts[i]
    BY <1>1, <1>2
  <2>2. ASSUME NEW i \in 1..Len(Steps)
        PROVE  (IF i > Len(verdicts') THEN "UNDECIDED"
                ELSE IF verdicts'[i] THEN "ACHIEVED" ELSE "FAILED")
                  = IF i = n THEN v ELSE Verdict[i]
    <3>1. CASE i = n
      BY <1>1, <2>1, <3>1
    <3>2. CASE i < n
      BY <1>1, <2>1, <3>2 DEF Verdict
    <3>3. CASE i > n
      BY <1>1, <2>1, <3>3 DEF Verdict
    <3> QED
      BY <1>1, <3>1, <3>2, <3>3
  <2> QED
    BY <2>2 DEF Verdict
<1>4. Verdict[n] = "UNDECIDED" /\ \A h \in 1..Len(Steps) : h < n => Verdict[h] # "UNDECIDED"
  BY <1>1 DEF Verdict
<1>5. v \in Abstract!Verdicts \ {"UNDECIDED"} /\ n \in 1..Len(Steps)
  BY <1>1 DEF Abstract!Verdicts
<1> HIDE DEF n, v
<1> QED
  BY <1>1, <1>2, <1>3, <1>4, <1>5
  DEF Abstract!Next, Abstract!Decide, Abstract!Goals, Verdict

\* Every step of the pipeline is a step of the abstract run, or leaves it alone.
LEMMA StepImplements ==
  ASSUME PipelineAssumption, IInv, [Next]_vars
  PROVE  [Abstract!Next]_(Abstract!vars)
<1>1. CASE EndStep
  BY <1>1, EndStepDecides
<1>2. CASE GroupRaises \/ Halt
  <2>1. outcome = "running" /\ outcome' = "failure" /\ UNCHANGED verdicts
    BY <1>2 DEF GroupRaises, Halt, IInv
  <2> QED
    BY <2>1 DEF Abstract!Next, Abstract!Fail
<1>3. CASE Complete
  <2>1. Len(verdicts) = Len(Steps) /\ UNCHANGED verdicts /\ outcome = "running"
        /\ outcome' = IF \A i \in DOMAIN verdicts : verdicts[i] THEN "success" ELSE "failure"
    BY <1>3 DEF Complete
  <2>2. CASE \A i \in DOMAIN verdicts : verdicts[i]
    <3>1. verdicts \in Seq(BOOLEAN) /\ DOMAIN verdicts = 1..Len(Steps)
      BY <2>1 DEF IInv, TypeOK
    <3>2. Abstract!AllAchieved
      BY <2>2, <3>1 DEF Abstract!AllAchieved, Abstract!Goals
    <3> QED
      BY <2>1, <2>2, <3>2 DEF Abstract!Next, Abstract!Succeed
  <2>3. CASE ~ \A i \in DOMAIN verdicts : verdicts[i]
    BY <2>1, <2>3 DEF Abstract!Next, Abstract!Fail
  <2> QED
    BY <2>2, <2>3
<1>4. CASE ~EndStep /\ ~GroupRaises /\ ~Halt /\ ~Complete
  <2>1. UNCHANGED <<verdicts, outcome>>
    BY <1>4 DEF Next, vars, Main, BeginStep, MergeNext, RunStage,
                Skip, Attempt, AttemptFails, Retry, AttemptSucceeds
  <2> QED
    BY <2>1 DEF Abstract!vars
<1> QED
  BY <1>1, <1>2, <1>3, <1>4

\* A pipeline implements the abstract run, its steps for goals.
THEOREM Refinement == Spec => Implements
<1>1. Init => Abstract!Init
  BY PipelineAssumption DEF Init, Abstract!Init, Abstract!Goals
<1>2. IInv /\ [Next]_vars => [Abstract!Next]_(Abstract!vars)
  BY PipelineAssumption, StepImplements
<1> QED
  BY <1>1, <1>2, Invariant, PTL DEF Spec, Implements, Abstract!Spec

-----------------------------------------------------------------------------
\* While the outputs of a group are merged, its stages have returned, and what
\* is merged has of each entity the attribute of the last stage merged so far
\* that has one.
Val(i, e) == res[Step.stages[i]].out.attr[e]
Good(i) == res[Step.stages[i]].kind # "failed"

MergedSoFar ==
  open =>
    /\ next > 1 => Returned
    /\ \A e \in Entities, i \in DOMAIN Step.stages :
         /\ i < next /\ Good(i) /\ Val(i, e) # Absent
         /\ \A j \in DOMAIN Step.stages : i < j /\ j < next /\ Good(j) => Val(j, e) = Absent
         => merged.attr[e] = Val(i, e)

\* _run_fan_out has merged exactly the outputs before the next one, in the
\* order of the list, after every step of the pipeline.
LEMMA MergedStep ==
  ASSUME PipelineAssumption, IInv, MergedSoFar, [Next]_vars
  PROVE  MergedSoFar'
<1>1. CASE BeginStep
  <2>1. next' = 1 /\ Step' = Step
    BY <1>1 DEF BeginStep, Step
  <2>2. Step \in StepRecords
    <3>1. Len(verdicts) + 1 \in DOMAIN Steps
      BY <1>1 DEF BeginStep, PipelineAssumption, IInv, TypeOK
    <3> QED
      BY <3>1 DEF PipelineAssumption, Step
  <2>3. \A i \in DOMAIN Step.stages : ~(i < 1)
    BY <2>2 DEF StepRecords
  <2> QED
    BY <2>1, <2>3 DEF MergedSoFar
<1>2. CASE GroupRaises \/ EndStep \/ Halt \/ Complete
  BY <1>2 DEF GroupRaises, EndStep, Halt, Complete, MergedSoFar
<1>3. CASE MergeNext
  <2>1. /\ open /\ Returned /\ next <= Len(Step.stages) /\ next' = next + 1 /\ next \in Nat \ {0}
        /\ UNCHANGED <<cfg, acc, open, at, res, verdicts>>
        /\ merged' = IF Good(next) THEN Merge(merged, res[Step.stages[next]].out) ELSE merged
    BY <1>3 DEF MergeNext, Returned, branch, Good, IInv, TypeOK
  <2>2. Step' = Step /\ Returned'
    BY <2>1 DEF Step, Returned, Current
  <2>3. next \in DOMAIN Step.stages /\ DOMAIN Step.stages \subseteq Nat
    BY <2>1, StepFacts DEF StepRecords
  <2>4. res[Step.stages[next]].out \in Snapshots /\ merged \in Snapshots
    BY <2>1, <2>3, ReturnedResults DEF Results, IInv, TypeOK
  <2>5. \A e \in Entities :
          merged'.attr[e] = IF Good(next) /\ Val(next, e) # Absent THEN Val(next, e)
                            ELSE merged.attr[e]
    BY <2>1, <2>4, MergeKeeps DEF Val
  <2>6. ASSUME NEW e \in Entities, NEW i \in DOMAIN Step.stages,
               i < next', Good(i), Val(i, e) # Absent,
               \A j \in DOMAIN Step.stages : i < j /\ j < next' /\ Good(j) => Val(j, e) = Absent
        PROVE  merged'.attr[e] = Val(i, e)
    <3>1. CASE i = next
      BY <2>5, <2>6, <3>1
    <3>2. CASE i < next
      <4>1. ~Good(next) \/ Val(next, e) = Absent
        BY <2>1, <2>3, <2>6, <3>2
      <4>2. \A j \in DOMAIN Step.stages : i < j /\ j < next /\ Good(j) => Val(j, e) = Absent
        BY <2>1, <2>3, <2>6
      <4> QED
        BY <2>1, <2>5, <2>6, <3>2, <4>1, <4>2 DEF MergedSoFar
    <3> QED
      BY <2>1, <2>3, <2>6, <3>1, <3>2
  <2>7. res' = res
    BY <2>1
  <2>8. \A e \in Entities, i \in DOMAIN Step.stages :
          /\ i < next' /\ Good(i) /\ Val(i, e) # Absent
          /\ \A j \in DOMAIN Step.stages : i < j /\ j < next' /\ Good(j) => Val(j, e) = Absent
          => merged'.attr[e] = Val(i, e)
    BY <2>6
  <2>9. next' > 1 => Returned'
    BY <2>2
  <2> QED
    BY <2>2, <2>7, <2>8, <2>9, SMTT(20) DEF MergedSoFar, Good, Val
<1>4. ASSUME NEW s \in Stages, RunStage(s)
      PROVE  MergedSoFar'
  <2>1. s \in Current /\ open /\ at[s] # "done"
    BY <1>4 DEF IInv, RunStage, Skip, Attempt, AttemptFails, Retry, AttemptSucceeds,
                MayStart, Current
  <2>2. UNCHANGED <<open, verdicts, merged, next>>
    BY <1>4 DEF RunStage, Skip, Attempt, AttemptFails, Retry, AttemptSucceeds, group
  <2>3. ~(next > 1)
    BY <2>1 DEF MergedSoFar, Returned
  <2>4. Step' = Step /\ \A i \in DOMAIN Step.stages : ~(i < next)
    BY <2>1, <2>2, <2>3, StepFacts DEF Step, StepRecords, IInv, TypeOK
  <2> QED
    BY <2>2, <2>3, <2>4 DEF MergedSoFar
<1>5. CASE UNCHANGED vars
  <2>1. UNCHANGED <<open, at, res, merged, next, verdicts>>
    BY <1>5 DEF vars, branch, group
  <2>2. Step' = Step /\ Returned' = Returned /\ \A i, e : Good(i)' = Good(i) /\ Val(i, e)' = Val(i, e)
    BY <2>1 DEF Step, Returned, Current, Good, Val
  <2> QED
    BY <2>1, <2>2 DEF MergedSoFar
<1> QED
  BY <1>1, <1>2, <1>3, <1>4, <1>5 DEF Next, Main

\* A step that succeeds hands on, of each attribute, the last listed value.
LEMMA EndStepLast ==
  ASSUME PipelineAssumption, IInv, MergedSoFar, EndStep, StepOk,
         NEW e \in Entities, NEW i \in DOMAIN Step.stages, Val(i, e) # Absent,
         \A j \in DOMAIN Step.stages : j > i => Val(j, e) = Absent
  PROVE  acc'.attr[e] = Val(i, e)
<1>1. open /\ Returned /\ acc' = IF cfg.merge = "replace" THEN Handed ELSE Merge(acc, Handed)
  BY DEF EndStep, Returned
<1>2. Handed \in Snapshots /\ acc \in Snapshots
  BY <1>1, HandedType DEF IInv, TypeOK
<1>3. Good(i) /\ i \in Nat /\ i <= Len(Step.stages) /\ Len(Step.stages) \in Nat
  BY <1>1, StepFacts DEF StepOk, Good, StepRecords
<1>4. Handed.attr[e] = Val(i, e)
  <2>1. CASE Step.fan
    <3>1. next > Len(Step.stages) /\ next \in Nat
      BY <2>1 DEF EndStep, IInv, TypeOK
    <3>2. \A j \in DOMAIN Step.stages : j \in Nat
      BY <1>1, StepFacts DEF StepRecords
    <3> QED
      BY <1>1, <1>3, <2>1, <3>1, <3>2 DEF MergedSoFar, Handed
  <2>2. CASE ~Step.fan
    <3>1. i = 1
      BY <1>1, <1>3, <2>2, StepFacts, SMTT(20) DEF StepRecords
    <3> QED
      BY <2>2, <3>1 DEF Handed, Val
  <2> QED
    BY <2>1, <2>2
<1> QED
  BY <1>1, <1>2, <1>4, MergeKeeps

\* Of the outputs that have an attribute the last listed decides, in whatever
\* order the threads of the group finished.
THEOREM OrderOfThreadsInvisible == Spec => LastListedDecides
<1>1. Init => MergedSoFar
  BY DEF Init, MergedSoFar
<1>2. IInv /\ MergedSoFar /\ [Next]_vars => MergedSoFar'
  BY PipelineAssumption, MergedStep
<1>3. ASSUME IInv, MergedSoFar, [Next]_vars
      PROVE  [ StepEnds /\ (\A s \in Current : res[s].kind # "failed") =>
                 \A e \in Entities : \A i \in DOMAIN Step.stages :
                   LET v(j) == res[Step.stages[j]].out.attr[e]
                   IN v(i) # Absent /\ (\A j \in DOMAIN Step.stages : j > i => v(j) = Absent)
                        => acc'.attr[e] = v(i) ]_vars
  <2>1. StepEnds => EndStep
    BY <1>3 DEF StepEnds, Next, vars, Main, BeginStep, GroupRaises, MergeNext, Halt, Complete,
                RunStage, Skip, Attempt, AttemptFails, Retry, AttemptSucceeds
  <2>2. (\A s \in Current : res[s].kind # "failed") => StepOk
    BY DEF StepOk
  <2> QED
    BY <1>3, <2>1, <2>2, PipelineAssumption, EndStepLast DEF Val
<1> QED
  BY <1>1, <1>2, <1>3, Invariant, PTL DEF Spec, LastListedDecides

-----------------------------------------------------------------------------
\* A stage of the current step that returned a result told of it, and one that
\* was skipped hands the accumulated snapshot back as it is.
Told ==
  /\ \A s \in Stages : at[s] = "done" => trail[s] # <<>>
  /\ \A s \in Current : at[s] = "done" =>
       /\ res[s].kind = "ok" => LastEvent(s) = "stage.completed"
       /\ res[s].kind = "skipped" => LastEvent(s) = "stage.skipped" /\ res[s].out = acc

\* Everything merged so far comes from the output of a stage merged so far.
Origins ==
  open => \A e \in Entities :
    /\ merged.attr[e] = Absent =>
         \A i \in DOMAIN Step.stages : i < next /\ Good(i) => Val(i, e) = Absent
    /\ merged.attr[e] # Absent =>
         \E i \in DOMAIN Step.stages : i < next /\ Good(i) /\ merged.attr[e] = Val(i, e)
    /\ \A p \in merged.preds[e] :
         \E i \in DOMAIN Step.stages :
           i < next /\ Good(i) /\ p \in res[Step.stages[i]].out.preds[e]

\* The last event told of a stage is the last of those just published.
LEMMA LastTold ==
  ASSUME IInv, NEW s \in Stages, NEW n \in StageEvents, Tell(s, <<n>>)
  PROVE  LastEvent(s)' = n /\ trail'[s] # <<>>
<1>1. trail[s] \in Seq(StageEvents) /\ <<n>> \in Seq(StageEvents)
  BY DEF IInv, TypeOK, StageEvents
<1>2. trail'[s] = trail[s] \o <<n>>
  BY DEF Tell, IInv, TypeOK
<1>3. /\ Len(trail[s] \o <<n>>) = Len(trail[s]) + 1
      /\ (trail[s] \o <<n>>)[Len(trail[s]) + 1] = n
      /\ trail[s] \o <<n>> # <<>>
  BY <1>1
<1> QED
  BY <1>2, <1>3 DEF LastEvent, Last

\* _run_stage returns a StageResult that fits the event it published last.
LEMMA ToldByStage ==
  ASSUME PipelineAssumption, IInv, Told, NEW s \in Stages, RunStage(s)
  PROVE  Told'
<1>1. s \in Current /\ open
  BY DEF IInv, RunStage, Skip, Attempt, AttemptFails, Retry, AttemptSucceeds, MayStart, Current
<1>2. UNCHANGED <<acc, open, verdicts>>
  BY DEF RunStage, Skip, Attempt, AttemptFails, Retry, AttemptSucceeds
<1>3. Current' = Current /\ Current \subseteq Stages
  BY <1>1, <1>2, StepFacts DEF Current, Step
<1>4. /\ \A r \in Stages \ {s} : at'[r] = at[r] /\ res'[r] = res[r] /\ trail'[r] = trail[r]
      /\ at'[s] = "done" =>
           \/ res'[s].kind = "ok" /\ Tell(s, <<"stage.completed">>)
           \/ res'[s].kind = "skipped" /\ Tell(s, <<"stage.skipped">>) /\ res'[s].out = acc
           \/ res'[s].kind = "failed" /\ Tell(s, <<"stage.failed">>)
  <2>1. CASE Skip(s)
    BY <2>1 DEF Skip, Return, Tell, IInv, TypeOK
  <2>2. CASE Attempt(s) \/ Retry(s)
    BY <2>2 DEF Attempt, Retry, Tell, IInv, TypeOK
  <2>3. CASE AttemptFails(s)
    BY <2>3 DEF AttemptFails, Return, Tell, IInv, TypeOK
  <2>4. ASSUME NEW kept \in Kept(s), NEW gone \in Swallowed(s, kept), NEW w \in Writes[s],
               AttemptSucceeds(s, kept, gone, w)
        PROVE  /\ Return(s, "ok", Output(s, kept, gone, w), Wrote(s, gone, w))
               /\ Tell(s, <<"stage.completed">>)
    BY <2>4 DEF AttemptSucceeds
  <2>5. CASE \E out, wrote : Return(s, "ok", out, wrote) /\ Tell(s, <<"stage.completed">>)
    BY <2>5 DEF Return, Tell, IInv, TypeOK
  <2> QED
    BY <2>1, <2>2, <2>3, <2>4, <2>5 DEF RunStage
<1>5. at'[s] = "done" =>
        /\ trail'[s] # <<>>
        /\ res'[s].kind = "ok" => LastEvent(s)' = "stage.completed"
        /\ res'[s].kind = "skipped" => LastEvent(s)' = "stage.skipped" /\ res'[s].out = acc
  <2>1. {"stage.completed", "stage.skipped", "stage.failed"} \subseteq StageEvents
    BY DEF StageEvents
  <2> QED
    BY <1>4, <2>1, LastTold
<1>6. \A r \in Stages \ {s} : LastEvent(r)' = LastEvent(r)
  BY <1>4 DEF LastEvent
<1>7. \A r \in Stages : at'[r] = "done" => trail'[r] # <<>>
  BY <1>4, <1>5 DEF Told
<1>8. ASSUME NEW r \in Current, at'[r] = "done"
      PROVE  /\ res'[r].kind = "ok" => LastEvent(r)' = "stage.completed"
             /\ res'[r].kind = "skipped" => LastEvent(r)' = "stage.skipped" /\ res'[r].out = acc
  <2>1. CASE r = s
    BY <1>5, <1>8, <2>1
  <2>2. CASE r # s
    BY <1>3, <1>4, <1>6, <1>8, <2>2 DEF Told
  <2> QED
    BY <2>1, <2>2
<1> QED
  BY <1>2, <1>3, <1>7, <1>8 DEF Told, LastEvent

\* A step opens on stages nothing was told of: they have not returned.
LEMMA ToldStep ==
  ASSUME PipelineAssumption, IInv, Told, [Next]_vars
  PROVE  Told'
<1>1. CASE BeginStep
  <2>1. UNCHANGED <<at, res, trail, verdicts>> /\ outcome = "running" /\ ~open /\ open'
    BY <1>1 DEF BeginStep, branch
  <2>2. /\ Len(verdicts) + 1 \in 1..Len(Steps) /\ Reached = Len(verdicts) /\ Len(verdicts) \in Nat
        /\ Len(Steps) \in Nat
    BY <1>1 DEF BeginStep, PipelineAssumption, IInv, TypeOK, Reached
  <2>3. Current' = {Step.stages[i] : i \in DOMAIN Step.stages}
    BY <2>1 DEF Current, Step
  <2>4. Current' \subseteq LaterStages(Reached)
    BY <2>2, <2>3 DEF LaterStages, Step
  <2>5. Current' \subseteq Stages
    <3>1. Step \in StepRecords
      BY <2>2 DEF PipelineAssumption, Step
    <3> QED
      BY <2>3, <3>1 DEF StepRecords
  <2>6. \A s \in Current' : at[s] # "done"
    BY <2>1, <2>4, <2>5 DEF IInv, Told
  <2> QED
    BY <2>1, <2>6 DEF Told
<1>2. CASE GroupRaises \/ Halt \/ Complete \/ MergeNext \/ UNCHANGED vars
  <2>1. UNCHANGED <<acc, at, res, trail, verdicts>> /\ (open' = open \/ open' = FALSE)
    BY <1>2 DEF GroupRaises, Halt, Complete, MergeNext, vars, branch
  <2>2. Current' \subseteq Current
    BY <2>1 DEF Current, Step
  <2> QED
    BY <2>1, <2>2 DEF Told, LastEvent
<1>3. CASE EndStep
  <2>1. UNCHANGED <<at, trail>> /\ open' = FALSE
    BY <1>3 DEF EndStep, branch
  <2>2. Current' = {}
    BY <2>1 DEF Current
  <2> QED
    BY <2>1, <2>2 DEF Told
<1>4. CASE \E s \in Stages : RunStage(s)
  BY <1>4, ToldByStage
<1> QED
  BY <1>1, <1>2, <1>3, <1>4 DEF Next, Main

\* merge adds what one more output has, and nothing else.
LEMMA OriginsStep ==
  ASSUME PipelineAssumption, IInv, MergedSoFar, Origins, [Next]_vars
  PROVE  Origins'
<1>1. CASE BeginStep
  <2>1. merged' = Empty /\ next' = 1 /\ Step' = Step
    BY <1>1 DEF BeginStep, Step
  <2>2. Step \in StepRecords
    <3>1. Len(verdicts) + 1 \in DOMAIN Steps
      BY <1>1 DEF BeginStep, PipelineAssumption, IInv, TypeOK
    <3> QED
      BY <3>1 DEF PipelineAssumption, Step
  <2>3. \A i \in DOMAIN Step.stages : ~(i < 1)
    BY <2>2 DEF StepRecords
  <2> QED
    BY <2>1, <2>3 DEF Origins, Empty, Nothing
<1>2. CASE GroupRaises \/ EndStep \/ Halt \/ Complete
  BY <1>2 DEF GroupRaises, EndStep, Halt, Complete, Origins
<1>3. CASE MergeNext
  <2>1. /\ open /\ Returned /\ next <= Len(Step.stages) /\ next' = next + 1 /\ next \in Nat \ {0}
        /\ UNCHANGED <<open, res, verdicts>>
        /\ merged' = IF Good(next) THEN Merge(merged, res[Step.stages[next]].out) ELSE merged
    BY <1>3 DEF MergeNext, Returned, branch, Good, IInv, TypeOK
  <2>2. Step' = Step /\ \A i, e : Good(i)' = Good(i) /\ Val(i, e)' = Val(i, e)
    BY <2>1 DEF Step, Good, Val
  <2>3. next \in DOMAIN Step.stages /\ DOMAIN Step.stages \subseteq Nat
    BY <2>1, StepFacts DEF StepRecords
  <2>4. res[Step.stages[next]].out \in Snapshots /\ merged \in Snapshots
    BY <2>1, <2>3, ReturnedResults DEF Results, IInv, TypeOK
  <2>5. \A e \in Entities :
          /\ merged'.attr[e] = IF Good(next) /\ Val(next, e) # Absent THEN Val(next, e)
                               ELSE merged.attr[e]
          /\ merged'.preds[e] = IF Good(next)
                                THEN merged.preds[e] \cup res[Step.stages[next]].out.preds[e]
                                ELSE merged.preds[e]
    <3>1. CASE Good(next)
      <4>1. merged' = Merge(merged, res[Step.stages[next]].out)
        BY <2>1, <3>1
      <4>2. \A e \in Entities :
              merged'.preds[e] = merged.preds[e] \cup res[Step.stages[next]].out.preds[e]
        BY <4>1 DEF Merge
      <4>3. \A e \in Entities :
              merged'.attr[e] = IF Val(next, e) = Absent THEN merged.attr[e] ELSE Val(next, e)
        BY <2>4, <4>1, MergeKeeps DEF Val
      <4> QED
        BY <3>1, <4>2, <4>3
    <3>2. CASE ~Good(next)
      BY <2>1, <3>2
    <3> QED
      BY <3>1, <3>2
  <2>6. \A i \in DOMAIN Step.stages : i < next' <=> (i < next \/ i = next)
    BY <2>1, <2>3
  <2>7. ASSUME NEW e \in Entities
        PROVE  /\ merged'.attr[e] = Absent =>
                    \A i \in DOMAIN Step.stages : i < next' /\ Good(i) => Val(i, e) = Absent
               /\ merged'.attr[e] # Absent =>
                    \E i \in DOMAIN Step.stages : i < next' /\ Good(i) /\ merged'.attr[e] = Val(i, e)
               /\ \A p \in merged'.preds[e] :
                    \E i \in DOMAIN Step.stages :
                      i < next' /\ Good(i) /\ p \in res[Step.stages[i]].out.preds[e]
    <3>1. /\ merged.attr[e] = Absent =>
               \A i \in DOMAIN Step.stages : i < next /\ Good(i) => Val(i, e) = Absent
          /\ merged.attr[e] # Absent =>
               \E i \in DOMAIN Step.stages : i < next /\ Good(i) /\ merged.attr[e] = Val(i, e)
          /\ \A p \in merged.preds[e] :
               \E i \in DOMAIN Step.stages :
                 i < next /\ Good(i) /\ p \in res[Step.stages[i]].out.preds[e]
      BY <2>1 DEF Origins
    <3>2. merged'.attr[e] = Absent =>
            \A i \in DOMAIN Step.stages : i < next' /\ Good(i) => Val(i, e) = Absent
      BY <2>5, <2>6, <3>1
    <3>3. merged'.attr[e] # Absent =>
            \E i \in DOMAIN Step.stages : i < next' /\ Good(i) /\ merged'.attr[e] = Val(i, e)
      BY <2>3, <2>5, <2>6, <3>1
    <3>4. \A p \in merged'.preds[e] :
            \E i \in DOMAIN Step.stages :
              i < next' /\ Good(i) /\ p \in res[Step.stages[i]].out.preds[e]
      BY <2>3, <2>5, <2>6, <3>1
    <3> QED
      BY <3>2, <3>3, <3>4
  <2> QED
    BY <2>1, <2>2, <2>7 DEF Origins
<1>4. ASSUME NEW s \in Stages, RunStage(s)
      PROVE  Origins'
  <2>1. s \in Current /\ open /\ at[s] # "done"
    BY <1>4 DEF IInv, RunStage, Skip, Attempt, AttemptFails, Retry, AttemptSucceeds,
                MayStart, Current
  <2>2. UNCHANGED <<open, verdicts, merged, next>>
    BY <1>4 DEF RunStage, Skip, Attempt, AttemptFails, Retry, AttemptSucceeds, group
  <2>3. ~(next > 1)
    BY <2>1 DEF MergedSoFar, Returned
  <2>4. Step' = Step /\ \A i \in DOMAIN Step.stages : ~(i < next)
    BY <2>1, <2>2, <2>3, StepFacts DEF Step, StepRecords, IInv, TypeOK
  <2> QED
    BY <2>1, <2>2, <2>4 DEF Origins
<1>5. CASE UNCHANGED vars
  <2>1. UNCHANGED <<open, at, res, merged, next, verdicts>>
    BY <1>5 DEF vars, branch, group
  <2>2. Step' = Step /\ \A i, e : Good(i)' = Good(i) /\ Val(i, e)' = Val(i, e)
    BY <2>1 DEF Step, Good, Val
  <2> QED
    BY <2>1, <2>2 DEF Origins
<1> QED
  BY <1>1, <1>2, <1>3, <1>4, <1>5 DEF Next, Main

\* What a successful step hands on has of each entity an attribute and
\* predicates that some stage of the step has in its output, or no attribute
\* when none has one.
LEMMA HandedOrigins ==
  ASSUME PipelineAssumption, IInv, Origins, EndStep, StepOk, NEW e \in Entities
  PROVE  /\ \E s \in Current : Handed.attr[e] # Absent => Handed.attr[e] = res[s].out.attr[e]
         /\ Handed.attr[e] = Absent => \A s \in Current : res[s].out.attr[e] = Absent
         /\ \A p \in Handed.preds[e] : \E s \in Current : p \in res[s].out.preds[e]
<1>1. open /\ Returned /\ Step \in StepRecords /\ Step.stages # <<>>
  BY StepFacts DEF EndStep, Returned
<1>2. /\ \A i \in DOMAIN Step.stages : Step.stages[i] \in Current /\ Good(i)
      /\ \A s \in Current : \E i \in DOMAIN Step.stages : s = Step.stages[i]
  BY <1>1, StepFacts DEF StepOk, Good, Current
<1>3. 1 \in DOMAIN Step.stages /\ \A i \in DOMAIN Step.stages : i \in 1..Len(Step.stages)
  BY <1>1 DEF StepRecords
<1>4. CASE Step.fan
  <2>1. \A i \in DOMAIN Step.stages : i < next
    BY <1>1, <1>3, <1>4 DEF EndStep, IInv, TypeOK, StepRecords
  <2>2. Handed = merged
    BY <1>4 DEF Handed
  <2>3. /\ merged.attr[e] = Absent =>
             \A i \in DOMAIN Step.stages : i < next /\ Good(i) => Val(i, e) = Absent
        /\ merged.attr[e] # Absent =>
             \E i \in DOMAIN Step.stages : i < next /\ Good(i) /\ merged.attr[e] = Val(i, e)
        /\ \A p \in merged.preds[e] :
             \E i \in DOMAIN Step.stages :
               i < next /\ Good(i) /\ p \in res[Step.stages[i]].out.preds[e]
    BY <1>1 DEF Origins
  <2>4. \E s \in Current : merged.attr[e] # Absent => merged.attr[e] = res[s].out.attr[e]
    BY <1>2, <1>3, <2>3 DEF Val
  <2>5. merged.attr[e] = Absent => \A s \in Current : res[s].out.attr[e] = Absent
    BY <1>2, <2>1, <2>3 DEF Val
  <2>6. \A p \in merged.preds[e] : \E s \in Current : p \in res[s].out.preds[e]
    BY <1>2, <2>3
  <2> QED
    BY <2>2, <2>4, <2>5, <2>6
<1>5. CASE ~Step.fan
  <2>1. Handed = res[Step.stages[1]].out
    BY <1>5 DEF Handed
  <2>2. \A i \in DOMAIN Step.stages : i = 1
    BY <1>1, <1>3, <1>5, StepFacts
  <2> QED
    BY <1>2, <1>3, <2>1, <2>2
<1> QED
  BY <1>4, <1>5

\* The end of a step changes the accumulated snapshot only by what its
\* completed stages put into their outputs.
LEMMA EndStepContributes ==
  ASSUME PipelineAssumption, IInv, Told, Origins, EndStep, acc' # acc
  PROVE  /\ \A s \in Current : LastEvent(s) \in {"stage.completed", "stage.skipped"}
         /\ \A e \in Entities :
              /\ acc'.attr[e] # acc.attr[e] => \E s \in Ok : acc'.attr[e] = res[s].out.attr[e]
              /\ acc'.preds[e] \subseteq acc.preds[e] \cup UNION {res[s].out.preds[e] : s \in Ok}
<1>1. /\ StepOk /\ Returned /\ open
      /\ acc' = IF cfg.merge = "replace" THEN Handed ELSE Merge(acc, Handed)
  BY DEF EndStep, Returned
<1>2. Handed \in Snapshots /\ acc \in Snapshots
  BY <1>1, HandedType DEF IInv, TypeOK
<1>3. \A s \in Current : s \in Ok \/ (LastEvent(s) = "stage.skipped" /\ res[s].out = acc)
  <2>1. ASSUME NEW s \in Current
        PROVE  res[s].kind \in {"ok", "skipped"} /\ at[s] = "done"
    <3>1. at[s] = "done" /\ s \in Stages /\ res[s].kind # "failed"
      BY <1>1, StepFacts DEF Returned, StepOk
    <3>2. res[s] \in Results
      BY <3>1 DEF IInv
    <3> QED
      BY <3>1, <3>2 DEF Results
  <2> QED
    BY <2>1 DEF Told, Ok
<1>4. \A s \in Current : LastEvent(s) \in {"stage.completed", "stage.skipped"}
  BY <1>3 DEF Ok
<1>5. \E s \in Current : TRUE
  <2>1. Step.stages \in Seq(Stages) /\ Step.stages # <<>>
    BY <1>1, StepFacts DEF Returned, StepRecords
  <2>2. 1 \in DOMAIN Step.stages
    BY <2>1
  <2> QED
    BY <1>1, <2>2, StepFacts
<1>6. ASSUME NEW e \in Entities
      PROVE  /\ acc'.attr[e] # acc.attr[e] => \E s \in Ok : acc'.attr[e] = res[s].out.attr[e]
             /\ acc'.preds[e] \subseteq acc.preds[e] \cup UNION {res[s].out.preds[e] : s \in Ok}
  <2>1. /\ \E s \in Current : Handed.attr[e] # Absent => Handed.attr[e] = res[s].out.attr[e]
        /\ Handed.attr[e] = Absent => \A s \in Current : res[s].out.attr[e] = Absent
        /\ \A p \in Handed.preds[e] : \E s \in Current : p \in res[s].out.preds[e]
    BY <1>1, HandedOrigins
  <2>2. acc'.attr[e] # acc.attr[e] => \E s \in Current : acc'.attr[e] = res[s].out.attr[e]
    <3>1. acc'.attr[e] # acc.attr[e] => acc'.attr[e] = Handed.attr[e]
      BY <1>1, <1>2, MergeKeeps
    <3>2. \E s \in Current : Handed.attr[e] = res[s].out.attr[e]
      BY <1>5, <2>1
    <3> QED
      BY <3>1, <3>2
  <2>3. ASSUME NEW p \in acc'.preds[e], p \notin acc.preds[e]
        PROVE  \E s \in Ok : p \in res[s].out.preds[e]
    <3>1. p \in Handed.preds[e]
      BY <1>1, <2>3 DEF Merge
    <3> QED
      BY <1>3, <2>1, <2>3, <3>1
  <2> QED
    BY <1>3, <2>2, <2>3
<1> QED
  BY <1>4, <1>6

\* What the accumulated snapshot gains, a stage that told of its completion put
\* into its output; a step with a failed stage leaves no trace.
THEOREM OnlyTheCompletedAreHeard == Spec => OnlyCompletedContribute
<1>1. Init => Told /\ MergedSoFar /\ Origins
  BY DEF Init, Told, Current, MergedSoFar, Origins
<1>2. IInv /\ MergedSoFar /\ [Next]_vars => MergedSoFar'
  BY PipelineAssumption, MergedStep
<1>3. IInv /\ Told /\ [Next]_vars => Told'
  BY PipelineAssumption, ToldStep
<1>4. IInv /\ MergedSoFar /\ Origins /\ [Next]_vars => Origins'
  BY PipelineAssumption, OriginsStep
<1>5. ASSUME IInv, Told, Origins, [Next]_vars
      PROVE  [ acc' # acc =>
                 /\ \A s \in Current : LastEvent(s) \in {"stage.completed", "stage.skipped"}
                 /\ \A e \in Entities :
                      /\ acc'.attr[e] # acc.attr[e] =>
                           \E s \in Ok : acc'.attr[e] = res[s].out.attr[e]
                      /\ acc'.preds[e] \subseteq
                           acc.preds[e] \cup UNION {res[s].out.preds[e] : s \in Ok} ]_vars
  <2>1. acc' # acc => EndStep
    BY <1>5 DEF Next, vars, Main, BeginStep, GroupRaises, MergeNext, Halt, Complete,
                RunStage, Skip, Attempt, AttemptFails, Retry, AttemptSucceeds
  <2> QED
    BY <1>5, <2>1, PipelineAssumption, EndStepContributes
<1> QED
  BY <1>1, <1>2, <1>3, <1>4, <1>5, Invariant, PTL DEF Spec, OnlyCompletedContribute
=============================================================================
