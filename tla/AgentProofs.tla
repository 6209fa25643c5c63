---------------------------- MODULE AgentProofs ----------------------------
(***************************************************************************)
(* Proofs about the demo agent.  A retry has before it what the achieved   *)
(* steps wrote; the cycle numbers of the episode file increase; a process  *)
(* answers a command once.                                                 *)
(***************************************************************************)
EXTENDS Agent, SequenceTheorems, TLAPS

\* The attributes that the achieved steps wrote are in the snapshot.
Kept(steps, snap) ==
  \A i \in DOMAIN steps : steps[i].ok => DOMAIN About[steps[i].goal].writes \subseteq DOMAIN snap

\* RetrySeesAll of these steps.
Seen(steps) ==
  \A i, j \in DOMAIN steps :
    (i < j /\ steps[i].ok /\ steps[j].by = "retry")
      => DOMAIN About[steps[i].goal].writes \subseteq steps[j].seed

\* A retry looks at the snapshot of the run, where no achieved step's attribute
\* is ever lost.
SessionInv ==
  /\ SessionTypeOK
  /\ run.at = "plan" => run.steps = <<>>
  /\ run.at = "execute" => Len(run.steps) <= Len(run.plan)
  /\ Kept(run.steps, run.snap)
  /\ Seen(run.steps)

Messages == [text : Commands, from : Senders \cup {None}, ts : Nat, raw : BOOLEAN]

\* The number in memory, which the next line exceeds, is not below those of the
\* lines of this process, and not below any if it could read the file.
Below ==
  \A i \in DOMAIN disk.lines :
    (disk.lines[i].by = loop.start \/ loop.start \notin disk.unread)
      => disk.lines[i].cycle <= memory.cycle

CyclesInv ==
  /\ memory.cycle \in Nat /\ disk.lines \in Seq(Episodes) /\ loop.start \in Nat \ {0}
  /\ DOMAIN disk = {"lines", "torn", "garbled", "unread"}
  /\ HasTop(disk.lines)
  /\ \A i \in DOMAIN disk.lines : disk.lines[i].by <= loop.start
  /\ Below
  /\ CyclesIncrease

LoopFields ==
  {"at", "start", "seen", "stamps", "batch", "command", "before", "cycles", "done", "unread",
   "dropped", "closed", "code"}

\* The command in hand is one of the user's.
LoopInv ==
  /\ DOMAIN loop = LoopFields
  /\ mode = "signal" => loop.batch \in Seq(Messages)
  /\ loop.at = "scan" => mode = "signal"
  /\ loop.at \in {"read", "clear"} => mode = "file"
  /\ loop.at \in {"clear", "consider"} => loop.command.text \in Commands

BoxInv ==
  /\ sent \in Nat
  /\ mode = "signal" => box \in Seq(Messages)
  /\ mode = "file" =>
       /\ DOMAIN box = {"msg", "there", "fresh"}
       /\ box.msg.text \in Commands \cup {None}

\* What is being answered is remembered and was not answered.
AnswersInv ==
  /\ replies \in Seq(loop.seen)
  /\ loop.at = "prompt" => mode \notin {"file", "signal"}
  /\ loop.at \in {"saveState", "reply"} => mode \in {"file", "signal"}
  /\ (loop.at \in {"act", "saveState", "reply"} /\ mode \in {"file", "signal"})
       => run.command \in loop.seen /\ \A i \in DOMAIN replies : replies[i] # run.command
  /\ AnswersOnce

AgentInv == SessionInv /\ CyclesInv /\ LoopInv /\ BoxInv /\ AnswersInv

-----------------------------------------------------------------------------
(* Snapshots.                                                              *)

LEMMA GoalFacts ==
  ASSUME NEW g \in Goals
  PROVE  /\ IsSnapshot(About[g].writes)
         /\ DOMAIN About[g].needs \subseteq Attributes
         /\ About[g].llm \in Goals
<1>1. DOMAIN About[g].writes \cup DOMAIN About[g].needs \subseteq Attributes
  BY DEF Attributes, GoalAttributes
<1> QED
  BY <1>1, AgentSessionAssumption DEF IsSnapshot

LEMMA PlanFacts ==
  ASSUME NEW c \in Commands, NEW p \in Plans[c]
  PROVE  p.goals \in Seq(Goals) /\ IsSnapshot(p.attrs)
<1>1. p \in UNION {Plans[d] : d \in Commands}
  OBVIOUS
<1>2. DOMAIN p.attrs \subseteq PlanAttributes
  BY <1>1 DEF PlanAttributes
<1> QED
  BY <1>2, AgentSessionAssumption DEF IsSnapshot, Attributes

\* A merged snapshot has the attributes of both.
LEMMA MergedIsSnapshot ==
  ASSUME NEW s, NEW t, IsSnapshot(s), IsSnapshot(t)
  PROVE  IsSnapshot(Merged(s, t)) /\ DOMAIN Merged(s, t) = DOMAIN s \cup DOMAIN t
<1>1. DOMAIN Merged(s, t) = DOMAIN s \cup DOMAIN t
  BY DEF Merged
<1>2. \A a \in DOMAIN s \cup DOMAIN t : (IF a \in DOMAIN t THEN t[a] ELSE s[a]) \in Values
  BY DEF IsSnapshot
<1>3. Merged(s, t) \in [DOMAIN s \cup DOMAIN t -> Values]
  BY <1>2 DEF Merged
<1> QED
  BY <1>1, <1>3 DEF IsSnapshot

LEMMA EmptyIsSnapshot == IsSnapshot(Empty)
  BY DEF IsSnapshot, Empty

LEMMA SeededIsSnapshot ==
  ASSUME NEW s, IsSnapshot(s), run.pages \subseteq Attributes
  PROVE  IsSnapshot(Seeded(s)) /\ DOMAIN s \subseteq DOMAIN Seeded(s)
<1> DEFINE texts == [a \in run.pages |-> "word"]
<1>1. IsSnapshot(texts)
  BY DEF IsSnapshot, Values
<1> QED
  BY <1>1, MergedIsSnapshot DEF Seeded

LEMMA InjectedIsSnapshot ==
  ASSUME NEW g \in Goals, NEW s, IsSnapshot(s), NEW fault \in FaultRecords
  PROVE  IsSnapshot(Injected(g, s, fault)) /\ DOMAIN s \subseteq DOMAIN Injected(g, s, fault)
<1> DEFINE type(a) == About[g].needs[a]
           absent == fault.missing \ DOMAIN s
           assumed(a) == IF a \in Discovered THEN type(a) ELSE "integer"
           defaults == [a \in absent |-> IF assumed(a) = "integer" THEN "int" ELSE "word"]
           repairs == [a \in fault.wrong |-> Repaired(s, a, type(a))]
<1>1. fault.missing \subseteq Attributes /\ fault.wrong \subseteq Attributes
  BY DEF FaultRecords
<1>2. IsSnapshot(defaults)
  BY <1>1 DEF IsSnapshot, Values
<1>3. IsSnapshot(repairs)
  BY <1>1 DEF IsSnapshot, Values, Repaired
<1>4. IsSnapshot(Merged(s, defaults)) /\ DOMAIN s \subseteq DOMAIN Merged(s, defaults)
  BY <1>2, MergedIsSnapshot
<1> HIDE DEF defaults, repairs
<1>5. /\ IsSnapshot(Merged(Merged(s, defaults), repairs))
      /\ DOMAIN s \subseteq DOMAIN Merged(Merged(s, defaults), repairs)
  BY <1>3, <1>4, MergedIsSnapshot
<1> QED
  BY <1>5 DEF Injected, defaults, repairs

\* What is known of a step r for goal g over the snapshot s.
Sound(r, g, s, by) ==
  /\ r.step \in StepRecords /\ r.step.goal = g /\ r.step.by = by
  /\ r.step.seed = DOMAIN s
  /\ IsSnapshot(r.snap) /\ DOMAIN s \subseteq DOMAIN r.snap
  /\ r.step.ok => DOMAIN About[g].writes \subseteq DOMAIN r.snap

\* A step of an orchestrator loses no attribute, and adds the goal's if it is achieved.
LEMMA RanFacts ==
  ASSUME NEW g \in Goals, NEW s, IsSnapshot(s), NEW able \in BOOLEAN,
         NEW by \in {"run", "retry", "llm"}, NEW for \in Goals
  PROVE  Sound(Ran(g, s, able, by, for), g, s, by)
<1> DEFINE r == Ran(g, s, able, by, for)
           fault == Faults(g, s)
           ok == able /\ fault = NoFault
<1>1. DOMAIN s \subseteq Attributes /\ DOMAIN About[g].needs \subseteq Attributes
  BY GoalFacts DEF IsSnapshot
<1>2. fault \in FaultRecords
  BY <1>1 DEF Faults, FaultRecords
<1>3. ok \in BOOLEAN
  OBVIOUS
<1>4. r.step = [goal |-> g, ok |-> ok, fault |-> fault, by |-> by, for |-> for, seed |-> DOMAIN s]
  BY DEF Ran
<1>5. r.snap = IF ok THEN Merged(s, About[g].writes) ELSE s
  BY DEF Ran
<1> HIDE DEF r, fault, ok
<1>6. r.step \in StepRecords
  BY <1>1, <1>2, <1>3, <1>4 DEF StepRecords
<1>7. r.step.goal = g /\ r.step.by = by /\ r.step.seed = DOMAIN s /\ r.step.ok = ok
  BY <1>4
<1>8. /\ IsSnapshot(r.snap) /\ DOMAIN s \subseteq DOMAIN r.snap
      /\ ok => DOMAIN About[g].writes \subseteq DOMAIN r.snap
  <2>1. CASE ok
    <3>1. r.snap = Merged(s, About[g].writes)
      BY <1>5, <2>1
    <3>2. IsSnapshot(About[g].writes)
      BY GoalFacts
    <3>3. /\ IsSnapshot(Merged(s, About[g].writes))
          /\ DOMAIN Merged(s, About[g].writes) = DOMAIN s \cup DOMAIN About[g].writes
      BY <3>2, MergedIsSnapshot
    <3> QED
      BY <3>1, <3>3
  <2>2. CASE ~ok
    BY <1>5, <2>2
  <2> QED
    BY <2>1, <2>2, <1>3
<1> QED
  BY <1>6, <1>7, <1>8 DEF r, Sound

-----------------------------------------------------------------------------
(* The run.                                                                *)

RunFields ==
  {"at", "command", "tries", "plan", "steps", "snap", "failed", "todo", "blocked", "attempt",
   "fault", "pages", "ok"}

LEMMA IdleFields == DOMAIN Idle = RunFields
  BY DEF Idle, Fresh, RunFields

LEMMA NoFaultIsFault == NoFault \in FaultRecords
  BY DEF NoFault, FaultRecords

\* A run that starts, or none.
LEMMA FreshRun ==
  ASSUME NEW c, run' = Fresh(c), c \in Commands,
         last' \subseteq Attributes, tools' \subseteq {Scripts[a] : a \in DOMAIN Scripts}
  PROVE  SessionInv'
<1>1. /\ DOMAIN run' = DOMAIN Idle /\ run'.at = "plan" /\ run'.command = c /\ run'.tries = 0
      /\ run'.plan = <<>> /\ run'.steps = <<>> /\ run'.snap = Empty /\ run'.failed = <<>>
      /\ run'.todo = <<>> /\ run'.blocked = {} /\ run'.attempt = 0 /\ run'.fault = NoFault
      /\ run'.pages = {} /\ run'.ok = FALSE
  BY IdleFields DEF Fresh, RunFields
<1>2. /\ run'.plan \in Seq(Goals) /\ run'.steps \in Seq(StepRecords)
      /\ run'.failed \in Seq(StepRecords) /\ run'.todo \in Seq(StepRecords)
  BY <1>1
<1>3. IsSnapshot(run'.snap) /\ run'.fault \in FaultRecords
  BY <1>1, EmptyIsSnapshot, NoFaultIsFault
<1>4. run'.tries \in Nat /\ run'.attempt \in Nat
  BY <1>1
<1>5. run'.ok \in BOOLEAN /\ run'.blocked \subseteq Goals /\ run'.pages \subseteq Attributes
  BY <1>1
<1>6. SessionTypeOK'
  BY <1>1, <1>2, <1>3, <1>4, <1>5 DEF SessionTypeOK
<1> QED
  BY <1>1, <1>6 DEF SessionInv, Kept, Seen

LEMMA IdleRun ==
  ASSUME run' = Idle,
         last' \subseteq Attributes, tools' \subseteq {Scripts[a] : a \in DOMAIN Scripts}
  PROVE  SessionInv'
<1>1. /\ DOMAIN run' = DOMAIN Idle /\ run'.at = "idle" /\ run'.tries = 0
      /\ run'.plan = <<>> /\ run'.steps = <<>> /\ run'.snap = Empty /\ run'.failed = <<>>
      /\ run'.todo = <<>> /\ run'.blocked = {} /\ run'.attempt = 0 /\ run'.fault = NoFault
      /\ run'.pages = {} /\ run'.ok = FALSE
  BY DEF Idle, Fresh
<1>2. /\ run'.plan \in Seq(Goals) /\ run'.steps \in Seq(StepRecords)
      /\ run'.failed \in Seq(StepRecords) /\ run'.todo \in Seq(StepRecords)
  BY <1>1
<1>3. IsSnapshot(run'.snap) /\ run'.fault \in FaultRecords
  BY <1>1, EmptyIsSnapshot, NoFaultIsFault
<1>4. run'.tries \in Nat /\ run'.attempt \in Nat
  BY <1>1
<1>5. run'.ok \in BOOLEAN /\ run'.blocked \subseteq Goals /\ run'.pages \subseteq Attributes
  BY <1>1
<1>6. SessionTypeOK'
  BY <1>1, <1>2, <1>3, <1>4, <1>5 DEF SessionTypeOK
<1> QED
  BY <1>1, <1>6 DEF SessionInv, Kept, Seen

\* A step that loses no attribute and, as a retry, saw the snapshot.
LEMMA StepTaken ==
  ASSUME NEW steps \in Seq(StepRecords), NEW step \in StepRecords, NEW snap, NEW after,
         Kept(steps, snap), Seen(steps), DOMAIN snap \subseteq DOMAIN after,
         step.ok => DOMAIN About[step.goal].writes \subseteq DOMAIN after,
         step.by = "retry" => DOMAIN snap \subseteq step.seed
  PROVE  Kept(Append(steps, step), after) /\ Seen(Append(steps, step))
<1> DEFINE grown == Append(steps, step)
<1>1. /\ DOMAIN steps = 1..Len(steps) /\ DOMAIN grown = 1..(Len(steps) + 1) /\ Len(steps) \in Nat
      /\ \A i \in 1..Len(steps) : grown[i] = steps[i]
      /\ grown[Len(steps) + 1] = step
  OBVIOUS
<1> HIDE DEF grown
<1>2. Kept(grown, after)
  <2> SUFFICES ASSUME NEW i \in DOMAIN grown, grown[i].ok
               PROVE  DOMAIN About[grown[i].goal].writes \subseteq DOMAIN after
    BY DEF Kept
  <2>1. CASE i \in DOMAIN steps
    BY <1>1, <2>1 DEF Kept
  <2>2. CASE i = Len(steps) + 1
    BY <1>1, <2>2
  <2> QED
    BY <1>1, <2>1, <2>2
<1>3. Seen(grown)
  <2> SUFFICES ASSUME NEW i \in DOMAIN grown, NEW j \in DOMAIN grown, i < j,
                      grown[i].ok, grown[j].by = "retry"
               PROVE  DOMAIN About[grown[i].goal].writes \subseteq grown[j].seed
    BY DEF Seen
  <2>1. i \in DOMAIN steps /\ grown[i] = steps[i]
    BY <1>1
  <2>2. CASE j \in DOMAIN steps
    BY <1>1, <2>1, <2>2 DEF Seen
  <2>3. CASE j = Len(steps) + 1
    <3>1. DOMAIN About[steps[i].goal].writes \subseteq DOMAIN snap
      BY <2>1 DEF Kept
    <3> QED
      BY <1>1, <2>1, <2>3, <3>1
  <2> QED
    BY <1>1, <2>2, <2>3
<1> QED
  BY <1>2, <1>3 DEF grown

LEMMA PlanStep ==
  ASSUME SessionInv, PlanOnce
  PROVE  SessionInv'
<1>1. DOMAIN run = RunFields /\ run.at = "plan" /\ run.command \in Commands /\ run.steps = <<>>
  BY IdleFields DEF SessionInv, SessionTypeOK, PlanOnce
<1>2. UNCHANGED <<last, tools>>
  BY DEF PlanOnce
<1>3. ASSUME NEW p \in Plans[run.command], NEW saved \in BOOLEAN,
             run' = [run EXCEPT !.at = IF saved THEN "execute" ELSE "raised",
                                !.plan = Synthesised(p.goals), !.snap = p.attrs]
      PROVE  SessionInv'
  <2>1. Synthesised(p.goals) \in Seq(Goals) /\ IsSnapshot(p.attrs)
    BY <1>1, PlanFacts, AgentSessionAssumption DEF Synthesised
  <2>2. /\ DOMAIN run' = DOMAIN run /\ run'.at \in {"execute", "raised"}
        /\ run'.plan = Synthesised(p.goals) /\ run'.snap = p.attrs
        /\ run'.command = run.command /\ run'.tries = run.tries /\ run'.steps = run.steps
        /\ run'.failed = run.failed /\ run'.todo = run.todo /\ run'.blocked = run.blocked
        /\ run'.attempt = run.attempt /\ run'.fault = run.fault /\ run'.pages = run.pages
        /\ run'.ok = run.ok
    BY <1>1, <1>3 DEF RunFields
  <2> QED
    BY <1>1, <1>2, <2>1, <2>2 DEF SessionInv, SessionTypeOK, Kept, Seen
<1>4. ASSUME run' = [run EXCEPT !.tries = @ + 1] \/ run' = [run EXCEPT !.at = "raised"]
      PROVE  SessionInv'
  <2>1. /\ DOMAIN run' = DOMAIN run /\ run'.at \in {"plan", "raised"}
        /\ run'.tries \in {run.tries, run.tries + 1}
        /\ run'.command = run.command /\ run'.steps = run.steps /\ run'.plan = run.plan
        /\ run'.failed = run.failed /\ run'.todo = run.todo /\ run'.blocked = run.blocked
        /\ run'.attempt = run.attempt /\ run'.fault = run.fault /\ run'.pages = run.pages
        /\ run'.ok = run.ok /\ run'.snap = run.snap
    BY <1>1, <1>4 DEF RunFields
  <2> QED
    BY <1>1, <1>2, <2>1 DEF SessionInv, SessionTypeOK, Kept, Seen
<1> QED
  BY <1>3, <1>4 DEF PlanOnce, FallbackSaved

LEMMA Registers ==
  ASSUME NEW snap, Register(snap), tools \subseteq {Scripts[a] : a \in DOMAIN Scripts}
  PROVE  tools' \subseteq {Scripts[a] : a \in DOMAIN Scripts}
  BY DEF Register

LEMMA EnrichedFacts ==
  ASSUME NEW failed, NEW snap, NEW pages \in Enriched(failed, snap)
  PROVE  pages \subseteq Attributes
<1>1. CASE pages = {}
  BY <1>1
<1>2. CASE pages \in Fetched(snap)
  <2> DEFINE links == DOMAIN Pages \cap DOMAIN snap
  <2>1. PICK texts \in [links -> {{}} \cup UNION {PageText(l) : l \in links}] :
          pages = UNION Range(texts) /\ \A l \in links : texts[l] \in PageText(l)
    BY <1>2 DEF Fetched
  <2>2. \A l \in links : texts[l] \subseteq {Pages[a] : a \in DOMAIN Pages}
    BY <2>1 DEF PageText
  <2>3. pages \subseteq {Pages[a] : a \in DOMAIN Pages}
    BY <2>1, <2>2 DEF Range
  <2> QED
    BY <2>3 DEF Attributes
<1> QED
  BY <1>1, <1>2 DEF Enriched

LEMMA GoalStep ==
  ASSUME SessionInv, ExecuteGoal
  PROVE  SessionInv'
<1>1. /\ DOMAIN run = RunFields /\ run.at = "execute" /\ run.plan \in Seq(Goals)
      /\ run.steps \in Seq(StepRecords) /\ run.failed \in Seq(StepRecords) /\ IsSnapshot(run.snap)
  BY IdleFields DEF SessionInv, SessionTypeOK, ExecuteGoal
<1>2. PICK able \in BOOLEAN :
        LET g == run.plan[Len(run.steps) + 1]
            r == Ran(g, run.snap, able, "run", g)
        IN run' = [run EXCEPT !.steps = Append(@, r.step), !.snap = r.snap,
                              !.failed = IF r.step.ok THEN @ ELSE Append(@, r.step)]
  BY DEF ExecuteGoal
<1> DEFINE g == run.plan[Len(run.steps) + 1]
           r == Ran(g, run.snap, able, "run", g)
<1>3. UNCHANGED <<last, tools>>
  BY DEF ExecuteGoal
<1>4. ~Exhausted /\ MaxIterations \in Nat
  BY AgentSessionAssumption DEF ExecuteGoal
<1>5. g \in Goals /\ Len(run.steps) < Len(run.plan)
  <2>1. Len(run.steps) # Len(run.plan) /\ Len(run.steps) <= Len(run.plan)
    BY <1>1, <1>4 DEF Exhausted, SessionInv
  <2> QED
    BY <1>1, <2>1
<1>6. Sound(r, g, run.snap, "run")
  BY <1>1, <1>5, RanFacts
<1> HIDE DEF r, g
<1>7. run' = [run EXCEPT !.steps = Append(@, r.step), !.snap = r.snap,
                         !.failed = IF r.step.ok THEN @ ELSE Append(@, r.step)]
  BY <1>2 DEF r, g
<1>8. /\ DOMAIN run' = DOMAIN run /\ run'.at = "execute"
      /\ run'.steps = Append(run.steps, r.step) /\ run'.snap = r.snap
      /\ run'.failed \in {run.failed, Append(run.failed, r.step)}
      /\ run'.command = run.command /\ run'.tries = run.tries /\ run'.plan = run.plan
      /\ run'.todo = run.todo /\ run'.blocked = run.blocked
      /\ run'.attempt = run.attempt /\ run'.fault = run.fault /\ run'.pages = run.pages
      /\ run'.ok = run.ok
  BY <1>1, <1>7 DEF RunFields
<1>9. Kept(run.steps, run.snap) /\ Seen(run.steps)
  BY DEF SessionInv
<1>10. Kept(run'.steps, run'.snap) /\ Seen(run'.steps)
  <2>1. /\ r.step \in StepRecords /\ r.step.by # "retry" /\ r.step.goal = g
        /\ DOMAIN run.snap \subseteq DOMAIN r.snap
        /\ r.step.ok => DOMAIN About[r.step.goal].writes \subseteq DOMAIN r.snap
    BY <1>6 DEF Sound
  <2> QED
    BY <1>1, <1>8, <1>9, <2>1, StepTaken
<1>11. SessionTypeOK'
  <2>1. Append(run.failed, r.step) \in Seq(StepRecords) /\ Append(run.steps, r.step) \in Seq(StepRecords)
    BY <1>1, <1>6 DEF Sound
  <2>2. run'.failed \in Seq(StepRecords) /\ run'.steps \in Seq(StepRecords)
    BY <1>1, <1>8, <2>1
  <2>3. IsSnapshot(run'.snap)
    BY <1>6, <1>8 DEF Sound
  <2>4. /\ DOMAIN run' = DOMAIN run /\ run'.at = "execute"
        /\ run'.command = run.command /\ run'.tries = run.tries /\ run'.plan = run.plan
        /\ run'.todo = run.todo /\ run'.blocked = run.blocked
        /\ run'.attempt = run.attempt /\ run'.fault = run.fault /\ run'.pages = run.pages
        /\ run'.ok = run.ok
    BY <1>8
  <2>5. run.at = "execute" /\ SessionTypeOK
    BY <1>1 DEF SessionInv
  <2> QED
    BY <1>3, <2>2, <2>3, <2>4, <2>5 DEF SessionTypeOK
<1>12. Len(run'.steps) <= Len(run'.plan)
  BY <1>1, <1>5, <1>8
<1> QED
  BY <1>8, <1>10, <1>11, <1>12 DEF SessionInv

LEMMA EndPlanStep ==
  ASSUME SessionInv, EndPlan
  PROVE  SessionInv'
<1>1. /\ DOMAIN run = RunFields /\ run.at = "execute" /\ run.failed \in Seq(StepRecords)
      /\ tools \subseteq {Scripts[a] : a \in DOMAIN Scripts}
  BY IdleFields DEF SessionInv, SessionTypeOK, EndPlan
<1>2. tools' \subseteq {Scripts[a] : a \in DOMAIN Scripts} /\ last' = last
  BY <1>1, Registers DEF EndPlan
<1>3. CASE run.failed = <<>>
  <2>1. run' = [run EXCEPT !.at = "save", !.ok = Len(run.steps) = Len(run.plan)]
    BY <1>3 DEF EndPlan
  <2>2. /\ DOMAIN run' = DOMAIN run /\ run'.at = "save" /\ run'.ok \in BOOLEAN
        /\ run'.command = run.command /\ run'.tries = run.tries /\ run'.plan = run.plan
        /\ run'.steps = run.steps /\ run'.snap = run.snap /\ run'.failed = run.failed
        /\ run'.todo = run.todo /\ run'.blocked = run.blocked
        /\ run'.attempt = run.attempt /\ run'.fault = run.fault /\ run'.pages = run.pages
    BY <1>1, <2>1 DEF RunFields
  <2>3. /\ DOMAIN run' = DOMAIN Idle /\ run'.command \in Commands
        /\ run'.plan \in Seq(Goals) /\ run'.steps \in Seq(StepRecords)
        /\ run'.failed \in Seq(StepRecords) /\ run'.todo \in Seq(StepRecords)
        /\ IsSnapshot(run'.snap) /\ run'.tries \in Nat /\ run'.attempt \in Nat
        /\ run'.blocked \subseteq Goals /\ run'.pages \subseteq Attributes
        /\ run'.fault \in FaultRecords /\ last \subseteq Attributes
    BY <1>1, <2>2 DEF SessionInv, SessionTypeOK
  <2>4. SessionTypeOK'
    BY <1>2, <2>2, <2>3 DEF SessionTypeOK
  <2> QED
    BY <2>2, <2>4 DEF SessionInv
<1>4. CASE run.failed # <<>>
  <2>1. PICK pages \in Enriched(run.failed, run.snap) :
          run' = [run EXCEPT !.at = "next", !.todo = run.failed, !.pages = pages]
    BY <1>4 DEF EndPlan
  <2>2. pages \subseteq Attributes
    BY EnrichedFacts
  <2>3. /\ DOMAIN run' = DOMAIN run /\ run'.at = "next" /\ run'.ok = run.ok
        /\ run'.command = run.command /\ run'.tries = run.tries /\ run'.plan = run.plan
        /\ run'.steps = run.steps /\ run'.snap = run.snap /\ run'.failed = run.failed
        /\ run'.todo = run.failed /\ run'.blocked = run.blocked
        /\ run'.attempt = run.attempt /\ run'.fault = run.fault /\ run'.pages = pages
    BY <1>1, <2>1 DEF RunFields
  <2> QED
    BY <1>1, <1>2, <2>2, <2>3 DEF SessionInv, SessionTypeOK
<1> QED
  BY <1>3, <1>4

\* What stays as it is when a goal is taken or given up: all but at, todo, and a
\* few more.
Aside(r) == <<r.command, r.tries, r.plan, r.failed, r.pages>>

LEMMA TakeStep ==
  ASSUME SessionInv, TakeFailed
  PROVE  SessionInv'
<1>1. /\ DOMAIN run = RunFields /\ run.at = "next" /\ run.todo \in Seq(StepRecords)
      /\ run.blocked \subseteq Goals
  BY IdleFields DEF SessionInv, SessionTypeOK, TakeFailed
<1>2. UNCHANGED <<last, tools>>
  BY DEF TakeFailed
<1>3. CASE run.todo = <<>>
  <2>1. run' = [run EXCEPT !.at = "save", !.ok = FinalSuccess(run.steps)]
    BY <1>3 DEF TakeFailed
  <2>2. /\ DOMAIN run' = DOMAIN run /\ run'.at = "save" /\ run'.ok = FinalSuccess(run.steps)
        /\ Aside(run') = Aside(run) /\ run'.steps = run.steps /\ run'.snap = run.snap
        /\ run'.todo = run.todo /\ run'.blocked = run.blocked
        /\ run'.attempt = run.attempt /\ run'.fault = run.fault
    BY <1>1, <2>1 DEF RunFields, Aside
  <2>3. run'.ok \in BOOLEAN
    BY <2>2 DEF FinalSuccess
  <2>4. /\ DOMAIN run' = DOMAIN Idle /\ run'.command \in Commands
        /\ run'.plan \in Seq(Goals) /\ run'.steps \in Seq(StepRecords)
        /\ run'.failed \in Seq(StepRecords) /\ run'.todo \in Seq(StepRecords)
        /\ IsSnapshot(run'.snap) /\ run'.tries \in Nat /\ run'.attempt \in Nat
        /\ run'.blocked \subseteq Goals /\ run'.pages \subseteq Attributes
        /\ run'.fault \in FaultRecords
        /\ last \subseteq Attributes /\ tools \subseteq {Scripts[a] : a \in DOMAIN Scripts}
    BY <1>1, <2>2 DEF SessionInv, SessionTypeOK, Aside
  <2>5. SessionTypeOK'
    BY <1>2, <2>2, <2>3, <2>4 DEF SessionTypeOK
  <2> QED
    BY <2>2, <2>5 DEF SessionInv
<1>4. CASE run.todo # <<>>
  <2>1. PICK n \in {"next", "retry"}, todo \in {run.todo, Tail(run.todo)},
             blocked \in {run.blocked, run.blocked \cup {Head(run.todo).goal}},
             attempt \in {0, run.attempt}, fault \in {Head(run.todo).fault, run.fault} :
          /\ n = "retry" => todo = run.todo
          /\ run' = [run EXCEPT !.at = n, !.todo = todo, !.blocked = blocked,
                                !.attempt = attempt, !.fault = fault]
    <3>1. CASE Blocked(Head(run.todo).goal)
      <4>1. run' = [run EXCEPT !.todo = Tail(@), !.blocked = @ \cup {Head(run.todo).goal}]
        BY <1>4, <3>1 DEF TakeFailed
      <4>2. run' = [run EXCEPT !.at = "next", !.todo = Tail(run.todo),
                               !.blocked = run.blocked \cup {Head(run.todo).goal},
                               !.attempt = run.attempt, !.fault = run.fault]
        BY <1>1, <4>1 DEF RunFields
      <4> QED
        BY <4>2
    <3>2. CASE ~Blocked(Head(run.todo).goal)
      <4>1. run' = [run EXCEPT !.at = "retry", !.attempt = 0, !.fault = Head(run.todo).fault]
        BY <1>4, <3>2 DEF TakeFailed
      <4>2. run' = [run EXCEPT !.at = "retry", !.todo = run.todo, !.blocked = run.blocked,
                               !.attempt = 0, !.fault = Head(run.todo).fault]
        BY <1>1, <4>1 DEF RunFields
      <4> QED
        BY <4>2
    <3> QED
      BY <3>1, <3>2
  <2>2. /\ DOMAIN run' = DOMAIN run /\ run'.at = n /\ run'.ok = run.ok
        /\ Aside(run') = Aside(run) /\ run'.steps = run.steps /\ run'.snap = run.snap
        /\ run'.todo = todo /\ run'.blocked = blocked
        /\ run'.attempt = attempt /\ run'.fault = fault
    BY <1>1, <2>1 DEF RunFields, Aside
  <2>3. Head(run.todo) \in StepRecords /\ Tail(run.todo) \in Seq(StepRecords)
    BY <1>1, <1>4
  <2>4. Head(run.todo).goal \in Goals /\ Head(run.todo).fault \in FaultRecords
    BY <2>3 DEF StepRecords
  <2>5. /\ todo \in Seq(StepRecords) /\ blocked \subseteq Goals
        /\ n = "retry" => todo # <<>>
    BY <1>1, <1>4, <2>1, <2>3, <2>4
  <2>6. attempt \in Nat /\ fault \in FaultRecords
    BY <2>1, <2>4 DEF SessionInv, SessionTypeOK
  <2>7. /\ DOMAIN run' = DOMAIN Idle /\ run'.command \in Commands
        /\ run'.plan \in Seq(Goals) /\ run'.steps \in Seq(StepRecords)
        /\ run'.failed \in Seq(StepRecords) /\ IsSnapshot(run'.snap) /\ run'.tries \in Nat
        /\ run'.pages \subseteq Attributes
        /\ last \subseteq Attributes /\ tools \subseteq {Scripts[a] : a \in DOMAIN Scripts}
    BY <1>1, <2>2 DEF SessionInv, SessionTypeOK, Aside
  <2>8. run'.ok \in BOOLEAN
    BY <2>2 DEF SessionInv, SessionTypeOK
  <2>9. /\ run'.at \in {"next", "retry"} /\ run'.todo \in Seq(StepRecords)
        /\ run'.at = "retry" => run'.todo # <<>>
        /\ run'.blocked \subseteq Goals /\ run'.attempt \in Nat /\ run'.fault \in FaultRecords
    BY <2>2, <2>5, <2>6
  <2>10. SessionTypeOK'
    BY <1>2, <2>7, <2>8, <2>9 DEF SessionTypeOK
  <2> QED
    BY <2>2, <2>9, <2>10 DEF SessionInv
<1> QED
  BY <1>3, <1>4

LEMMA TookStep ==
  ASSUME NEW r, NEW g, NEW s, NEW by, NEW n \in {"next", "retry"},
         SessionInv, run.at = "retry", Sound(r, g, s, by), Took(r, "next", n),
         by = "retry" => DOMAIN run.snap \subseteq DOMAIN s
  PROVE  SessionInv'
<1> DEFINE snap == IF r.step.ok THEN Merged(run.snap, r.snap) ELSE run.snap
           todo == IF r.step.ok \/ n = "next" THEN Tail(run.todo) ELSE run.todo
           fault == IF r.step.ok THEN run.fault ELSE r.step.fault
           at == IF r.step.ok THEN "next" ELSE n
<1>1. /\ DOMAIN run = RunFields /\ run.steps \in Seq(StepRecords) /\ run.todo \in Seq(StepRecords)
      /\ run.todo # <<>> /\ IsSnapshot(run.snap) /\ run.attempt \in Nat
      /\ run.fault \in FaultRecords /\ run.ok \in BOOLEAN
      /\ tools \subseteq {Scripts[a] : a \in DOMAIN Scripts}
  BY IdleFields DEF SessionInv, SessionTypeOK
<1>2. tools' \subseteq {Scripts[a] : a \in DOMAIN Scripts} /\ last' = last
  BY <1>1, Registers DEF Took
<1>3. run' = [run EXCEPT !.steps = Append(run.steps, r.step), !.attempt = run.attempt + 1,
                         !.at = at, !.todo = todo, !.snap = snap, !.fault = fault]
  <2>1. CASE r.step.ok
    <3>1. run' = [[run EXCEPT !.steps = Append(@, r.step), !.attempt = @ + 1]
                    EXCEPT !.at = "next", !.todo = Tail(@), !.snap = Merged(@, r.snap)]
      BY <2>1 DEF Took
    <3>2. at = "next" /\ todo = Tail(run.todo) /\ snap = Merged(run.snap, r.snap) /\ fault = run.fault
      BY <2>1
    <3> QED
      BY <1>1, <3>1, <3>2 DEF RunFields
  <2>2. CASE ~r.step.ok
    <3>1. run' = [[run EXCEPT !.steps = Append(@, r.step), !.attempt = @ + 1]
                    EXCEPT !.at = n, !.fault = r.step.fault,
                           !.todo = IF n = "next" THEN Tail(@) ELSE @]
      BY <2>2 DEF Took
    <3>2. at = n /\ todo = (IF n = "next" THEN Tail(run.todo) ELSE run.todo)
          /\ snap = run.snap /\ fault = r.step.fault
      BY <2>2
    <3> QED
      BY <1>1, <3>1, <3>2 DEF RunFields
  <2> QED
    BY <2>1, <2>2
<1>4. /\ r.step \in StepRecords /\ r.step.goal = g /\ r.step.by = by /\ r.step.seed = DOMAIN s
      /\ IsSnapshot(r.snap)
      /\ r.step.ok => DOMAIN About[r.step.goal].writes \subseteq DOMAIN r.snap
  BY DEF Sound
<1>5. /\ IsSnapshot(snap) /\ DOMAIN run.snap \subseteq DOMAIN snap
      /\ r.step.ok => DOMAIN r.snap \subseteq DOMAIN snap
  <2>1. CASE r.step.ok
    <3>1. snap = Merged(run.snap, r.snap)
      BY <2>1
    <3>2. /\ IsSnapshot(Merged(run.snap, r.snap))
          /\ DOMAIN Merged(run.snap, r.snap) = DOMAIN run.snap \cup DOMAIN r.snap
      BY <1>1, <1>4, MergedIsSnapshot
    <3> HIDE DEF snap
    <3> QED
      BY <3>1, <3>2
  <2>2. CASE ~r.step.ok
    BY <1>1, <2>2
  <2> QED
    BY <2>1, <2>2
<1>6. /\ todo \in Seq(StepRecords)
      /\ at = "retry" => todo # <<>>
      /\ at \in {"next", "retry"}
  BY <1>1
<1>7. fault \in FaultRecords
  BY <1>1, <1>4 DEF StepRecords
<1> HIDE DEF snap, todo, fault, at
<1>8. /\ DOMAIN run' = DOMAIN run /\ run'.at = at /\ run'.ok = run.ok
      /\ Aside(run') = Aside(run) /\ run'.steps = Append(run.steps, r.step) /\ run'.snap = snap
      /\ run'.todo = todo /\ run'.blocked = run.blocked
      /\ run'.attempt = run.attempt + 1 /\ run'.fault = fault
  BY <1>1, <1>3 DEF RunFields, Aside
<1>9. Kept(run'.steps, run'.snap) /\ Seen(run'.steps)
  <2>1. Kept(run.steps, run.snap) /\ Seen(run.steps)
    BY DEF SessionInv
  <2>2. r.step.ok => DOMAIN About[r.step.goal].writes \subseteq DOMAIN snap
    BY <1>4, <1>5
  <2>3. r.step.by = "retry" => DOMAIN run.snap \subseteq r.step.seed
    BY <1>4
  <2> QED
    BY <1>1, <1>4, <1>5, <1>8, <2>1, <2>2, <2>3, StepTaken
<1>10. /\ DOMAIN run' = DOMAIN Idle /\ run'.command \in Commands
       /\ run'.plan \in Seq(Goals)
       /\ run'.failed \in Seq(StepRecords) /\ run'.tries \in Nat
       /\ run'.pages \subseteq Attributes /\ run'.blocked \subseteq Goals
       /\ last \subseteq Attributes
  BY <1>1, <1>8 DEF SessionInv, SessionTypeOK, Aside
<1>11. run'.ok \in BOOLEAN
  BY <1>1, <1>8
<1>12. /\ run'.at \in {"next", "retry"} /\ run'.todo \in Seq(StepRecords)
       /\ run'.at = "retry" => run'.todo # <<>>
       /\ IsSnapshot(run'.snap) /\ run'.attempt \in Nat /\ run'.fault \in FaultRecords
  BY <1>1, <1>5, <1>6, <1>7, <1>8
<1>13. run'.steps \in Seq(StepRecords)
  BY <1>1, <1>4, <1>8
<1>14. SessionTypeOK'
  BY <1>2, <1>10, <1>11, <1>12, <1>13 DEF SessionTypeOK
<1> QED
  BY <1>9, <1>12, <1>14 DEF SessionInv

LEMMA RetryStep ==
  ASSUME SessionInv, Retry
  PROVE  SessionInv'
<1> DEFINE g == Head(run.todo).goal
           snap == IF run.fault = NoFault THEN run.snap ELSE Injected(g, run.snap, run.fault)
           ran(able) == Ran(g, Seeded(snap), able, "retry", g)
<1>1. /\ run.at = "retry" /\ run.todo \in Seq(StepRecords) /\ run.todo # <<>>
      /\ IsSnapshot(run.snap) /\ run.fault \in FaultRecords /\ run.pages \subseteq Attributes
  BY DEF SessionInv, SessionTypeOK, Retry
<1>2. g \in Goals
  <2>1. Head(run.todo) \in StepRecords
    BY <1>1
  <2> QED
    BY <2>1 DEF StepRecords
<1>3. PICK able \in BOOLEAN : Took(ran(able), "next", "retry")
  BY DEF Retry
<1> HIDE DEF g
<1>4. IsSnapshot(snap) /\ DOMAIN run.snap \subseteq DOMAIN snap
  BY <1>1, <1>2, InjectedIsSnapshot
<1> HIDE DEF snap
<1>5. IsSnapshot(Seeded(snap)) /\ DOMAIN run.snap \subseteq DOMAIN Seeded(snap)
  BY <1>1, <1>4, SeededIsSnapshot
<1>6. Sound(ran(able), g, Seeded(snap), "retry")
  BY <1>2, <1>5, RanFacts
<1> HIDE DEF ran
<1> QED
  BY <1>1, <1>3, <1>5, <1>6, TookStep

LEMMA FallBackStep ==
  ASSUME SessionInv, FallBack
  PROVE  SessionInv'
<1>1. /\ run.at = "retry" /\ run.todo \in Seq(StepRecords) /\ run.todo # <<>>
      /\ DOMAIN run = RunFields
  BY IdleFields DEF SessionInv, SessionTypeOK, FallBack
<1>2. CASE LLMFallback
  <2> DEFINE g == Head(run.todo).goal
  <2>1. g \in Goals
    <3>1. Head(run.todo) \in StepRecords
      BY <1>1
    <3> QED
      BY <3>1 DEF StepRecords
  <2>2. PICK able \in BOOLEAN : Took(AskedOfLLM(g, able), "next", "next")
    BY <1>2 DEF FallBack
  <2> HIDE DEF g
  <2>3. About[g].llm \in Goals
    BY <2>1, GoalFacts
  <2>4. Sound(AskedOfLLM(g, able), About[g].llm, Empty, "llm")
    BY <2>1, <2>3, EmptyIsSnapshot, RanFacts DEF AskedOfLLM
  <2> QED
    BY <1>1, <2>2, <2>4, TookStep
<1>3. CASE ~LLMFallback
  <2>1. run' = [run EXCEPT !.at = "next", !.todo = Tail(@)] /\ UNCHANGED <<last, tools>>
    BY <1>3 DEF FallBack
  <2>2. /\ DOMAIN run' = DOMAIN run /\ run'.at = "next" /\ run'.ok = run.ok
        /\ Aside(run') = Aside(run) /\ run'.steps = run.steps /\ run'.snap = run.snap
        /\ run'.todo = Tail(run.todo) /\ run'.blocked = run.blocked
        /\ run'.attempt = run.attempt /\ run'.fault = run.fault
    BY <1>1, <2>1 DEF RunFields, Aside
  <2>3. Tail(run.todo) \in Seq(StepRecords)
    BY <1>1
  <2>4. SessionTypeOK'
    BY <1>1, <2>1, <2>2, <2>3 DEF SessionInv, SessionTypeOK, Aside
  <2> QED
    BY <2>2, <2>4 DEF SessionInv
<1> QED
  BY <1>2, <1>3

LEMMA SaveStep ==
  ASSUME SessionInv, SaveArtifacts
  PROVE  SessionInv'
<1>1. DOMAIN run = RunFields /\ run.at = "save" /\ DOMAIN run.snap \subseteq Attributes
  BY IdleFields DEF SessionInv, SessionTypeOK, SaveArtifacts, IsSnapshot
<1>2. PICK n \in {"returned", "raised"} : run' = [run EXCEPT !.at = n]
  BY DEF SaveArtifacts
<1>3. last' \in {last, DOMAIN run.snap} /\ tools' = tools
  BY DEF SaveArtifacts
<1>4. /\ DOMAIN run' = DOMAIN run /\ run'.at = n /\ run'.ok = run.ok
      /\ Aside(run') = Aside(run) /\ run'.steps = run.steps /\ run'.snap = run.snap
      /\ run'.todo = run.todo /\ run'.blocked = run.blocked
      /\ run'.attempt = run.attempt /\ run'.fault = run.fault
  BY <1>1, <1>2 DEF RunFields, Aside
<1>5. last' \subseteq Attributes
  BY <1>1, <1>3 DEF SessionInv, SessionTypeOK
<1>6. SessionTypeOK'
  BY <1>1, <1>3, <1>4, <1>5 DEF SessionInv, SessionTypeOK, Aside
<1> QED
  BY <1>4, <1>6 DEF SessionInv

LEMMA SessionStepKeeps ==
  ASSUME SessionInv, SessionStep
  PROVE  SessionInv'
  BY PlanStep, GoalStep, EndPlanStep, TakeStep, RetryStep, FallBackStep, SaveStep DEF SessionStep

\* A session works on the command it was started with.
LEMMA CommandKept ==
  ASSUME SessionInv, SessionStep
  PROVE  run'.command = run.command
<1>1. DOMAIN run = RunFields
  BY IdleFields DEF SessionInv, SessionTypeOK
<1>2. CASE PlanOnce
  BY <1>1, <1>2 DEF PlanOnce, RunFields
<1>3. CASE ExecuteGoal
  BY <1>1, <1>3 DEF ExecuteGoal, RunFields
<1>4. CASE EndPlan
  BY <1>1, <1>4 DEF EndPlan, RunFields
<1>5. CASE TakeFailed
  BY <1>1, <1>5 DEF TakeFailed, RunFields
<1>6. ASSUME NEW r, NEW n, Took(r, "next", n)
      PROVE  run'.command = run.command
  BY <1>1, <1>6 DEF Took, RunFields
<1>7. CASE Retry
  BY <1>6, <1>7 DEF Retry
<1>8. CASE FallBack
  <2>1. CASE LLMFallback
    BY <1>6, <1>8, <2>1 DEF FallBack
  <2>2. CASE ~LLMFallback
    BY <1>1, <1>8, <2>2 DEF FallBack, RunFields
  <2> QED
    BY <2>1, <2>2
<1>9. CASE SaveArtifacts
  BY <1>1, <1>9 DEF SaveArtifacts, RunFields
<1> QED
  BY <1>2, <1>3, <1>4, <1>5, <1>7, <1>8, <1>9 DEF SessionStep

-----------------------------------------------------------------------------
(* The agent.                                                              *)

LEMMA OrFaultFacts ==
  ASSUME NEW well, NEW wrong, NEW x \in OrFault(well, wrong)
  PROVE  x.is \in {well} \cup wrong
  BY DEF OrFault

LEMMA StartedFacts ==
  ASSUME NEW n
  PROVE  /\ DOMAIN Started(n) = LoopFields
         /\ Started(n).at = IF mode \in {"file", "signal"} THEN "sleep" ELSE "prompt"
         /\ Started(n).seen = {} /\ Started(n).batch = <<>> /\ Started(n).start = n
  BY DEF Started, LoopFields

LEMMA SessionInitIsSound == SessionInit => SessionInv
<1> SUFFICES ASSUME SessionInit PROVE SessionInv
  OBVIOUS
<1>1. run = Idle /\ last = {} /\ tools = {}
  BY DEF SessionInit
<1>2. /\ DOMAIN run = DOMAIN Idle /\ run.at = "idle" /\ run.tries = 0
      /\ run.plan = <<>> /\ run.steps = <<>> /\ run.snap = Empty /\ run.failed = <<>>
      /\ run.todo = <<>> /\ run.blocked = {} /\ run.attempt = 0 /\ run.fault = NoFault
      /\ run.pages = {} /\ run.ok = FALSE
  BY <1>1 DEF Idle, Fresh
<1>3. /\ run.plan \in Seq(Goals) /\ run.steps \in Seq(StepRecords)
      /\ run.failed \in Seq(StepRecords) /\ run.todo \in Seq(StepRecords)
  BY <1>2
<1>4. IsSnapshot(run.snap) /\ run.fault \in FaultRecords
  BY <1>2, EmptyIsSnapshot, NoFaultIsFault
<1>5. run.tries \in Nat /\ run.attempt \in Nat
  BY <1>2
<1>6. run.ok \in BOOLEAN /\ run.blocked \subseteq Goals /\ run.pages \subseteq Attributes
  BY <1>2
<1>7. SessionTypeOK
  BY <1>1, <1>2, <1>3, <1>4, <1>5, <1>6 DEF SessionTypeOK
<1> QED
  BY <1>2, <1>7 DEF SessionInv, Kept, Seen

LEMMA SessionInvKept ==
  ASSUME SessionInv, LoopInv, [Next]_vars
  PROVE  SessionInv'
<1>1. CASE UNCHANGED sessionVars
  BY <1>1 DEF sessionVars, SessionInv, SessionTypeOK, Kept, Seen
<1>2. last \subseteq Attributes /\ tools \subseteq {Scripts[a] : a \in DOMAIN Scripts}
  BY DEF SessionInv, SessionTypeOK
<1>3. ASSUME NEW c \in Commands, StartRun(c)
      PROVE  SessionInv'
  BY <1>2, <1>3, FreshRun DEF StartRun
<1>4. ASSUME run' = Idle, last' \in {last, {}}, tools' \in {tools, {}}
      PROVE  SessionInv'
  BY <1>2, <1>4, IdleRun
<1>5. CASE Consider
  <2>1. loop.command.text \in Commands
    BY <1>5 DEF LoopInv, Consider
  <2> QED
    BY <1>1, <1>3, <1>5, <2>1 DEF Consider
<1>6. CASE Prompt
  BY <1>3, <1>6 DEF Prompt
<1>7. CASE SessionStep
  BY <1>7, SessionStepKeeps
<1>8. CASE PromptDone \/ Reply \/ Final \/ Interrupt \/ Kill \/ Restart
  BY <1>4, <1>8 DEF PromptDone, Reply, Final, Interrupt, Kill, Restart
<1>9. CASE \/ Wake \/ ObservePending \/ ObserveAll \/ PollStat \/ PollRead \/ PollClear
           \/ PollSignal \/ Scan \/ Learn \/ SaveState \/ Quit \/ WriteFile \/ RemoveFile
           \/ SendSignal \/ StartFails
  BY <1>1, <1>9 DEF sessionVars, Wake, ObservePending, ObserveAll, PollStat, PollRead, PollClear,
     PollSignal, Scan, Learn, SaveState, Quit, WriteFile, RemoveFile, SendSignal, StartFails
<1>10. CASE UNCHANGED vars
  BY <1>1, <1>10 DEF vars, sessionVars
<1> QED
  BY <1>5, <1>6, <1>7, <1>8, <1>9, <1>10 DEF Next, AgentStep

-----------------------------------------------------------------------------
(* The cycle numbers.                                                      *)

LEMMA LinesAreEpisodes ==
  ASSUME NEW lines \in Seq(Episodes), NEW i \in DOMAIN lines
  PROVE  lines[i].cycle \in Nat /\ lines[i].by \in Nat
<1>1. lines[i] \in Episodes
  OBVIOUS
<1> QED
  BY <1>1 DEF Episodes

\* The number taken from the lines of a file is not below any of them.
LEMMA LoadedFacts ==
  ASSUME NEW lines \in Seq(Episodes), HasTop(lines)
  PROVE  Loaded(lines).cycle \in Nat /\ \A i \in DOMAIN lines : lines[i].cycle <= Loaded(lines).cycle
<1> DEFINE numbers == {lines[i].cycle : i \in DOMAIN lines}
<1>1. \A i \in DOMAIN lines : lines[i].cycle \in Nat
  BY LinesAreEpisodes
<1>2. CASE lines = <<>>
  BY <1>2 DEF Loaded
<1>3. CASE lines # <<>>
  <2> DEFINE highest(n) == \A i \in DOMAIN lines : lines[i].cycle <= n
  <2>1. PICK k \in DOMAIN lines : highest(lines[k].cycle)
    BY <1>3 DEF HasTop
  <2>2. lines[k].cycle \in numbers
    OBVIOUS
  <2>3. Loaded(lines).cycle = CHOOSE n \in numbers : highest(n)
    BY <1>3 DEF Loaded
  <2> HIDE DEF numbers, highest
  <2>4. Loaded(lines).cycle \in numbers /\ highest(Loaded(lines).cycle)
    BY <2>1, <2>2, <2>3
  <2> QED
    BY <1>1, <2>4 DEF numbers, highest
<1> QED
  BY <1>2, <1>3

\* A process that could not read the file starts with 0.
LEMMA KnownFacts ==
  ASSUME NEW file, NEW n, file.lines \in Seq(Episodes), HasTop(file.lines)
  PROVE  /\ Known(file, n).cycle \in Nat
         /\ n \notin file.unread =>
              \A i \in DOMAIN file.lines : file.lines[i].cycle <= Known(file, n).cycle
<1>1. CASE n \in file.unread
  <2>1. Known(file, n) = Loaded(<<>>)
    BY <1>1 DEF Known
  <2> QED
    BY <1>1, <2>1 DEF Loaded
<1>2. CASE n \notin file.unread
  <2>1. Known(file, n) = Loaded(file.lines)
    BY <1>2 DEF Known
  <2> QED
    BY <2>1, LoadedFacts
<1> QED
  BY <1>1, <1>2

\* Only a restart makes another process of it.
LEMMA StartKept ==
  ASSUME LoopInv, [Next]_vars
  PROVE  loop'.start = loop.start \/ Restart
<1>1. DOMAIN loop = LoopFields
  BY DEF LoopInv
<1>2. CASE Wake \/ ObserveAll \/ Prompt \/ PromptDone \/ SaveState \/ Reply
  BY <1>1, <1>2 DEF Wake, ObserveAll, Prompt, PromptDone, SaveState, Reply, LoopFields
<1>3. CASE ObservePending \/ Learn \/ Final \/ Quit \/ Interrupt \/ Kill \/ StartFails
  BY <1>1, <1>3 DEF ObservePending, Learn, Final, Quit, Interrupt, Kill, StartFails, LoopFields
<1>4. CASE Consider \/ PollStat \/ PollClear \/ PollSignal
  BY <1>1, <1>4 DEF Consider, PollStat, PollClear, PollSignal, LoopFields
<1>5. CASE PollRead
  <2> DEFINE taken == IF Pending = None THEN [loop EXCEPT !.at = "sleep"]
                      ELSE [loop EXCEPT !.at = "clear", !.command = box.msg]
             failed == [loop EXCEPT !.at = "sleep", !.unread = TRUE]
  <2>1. PICK l \in OrFault(taken, {failed}) : loop' = l.is
    BY <1>5 DEF PollRead
  <2> HIDE DEF taken, failed
  <2>2. loop' \in {taken, failed}
    BY <2>1, OrFaultFacts
  <2> QED
    BY <1>1, <2>2 DEF taken, failed, LoopFields
<1>6. CASE Scan \/ WriteFile \/ RemoveFile
  BY <1>1, <1>6 DEF Scan, WriteFile, RemoveFile, LoopFields
<1>7. CASE SendSignal \/ (SessionStep /\ UNCHANGED agentVars) \/ UNCHANGED vars
  BY <1>7 DEF SendSignal, agentVars, vars
<1> QED
  BY <1>2, <1>3, <1>4, <1>5, <1>6, <1>7 DEF Next, AgentStep

LEMMA EpisodeFacts ==
  ASSUME NEW k, SessionInv, CyclesInv, run.at = "returned"
  PROVE  /\ Episode(k) \in Episodes /\ Episode(k).cycle = memory.cycle + 1
         /\ Episode(k).by = loop.start
<1>1. run.command \in Commands /\ run.ok \in BOOLEAN
  BY DEF SessionInv, SessionTypeOK
<1>2. Pattern[run.command] \in Range(Pattern)
  BY <1>1, AgentAssumption DEF Range
<1>3. (Quality(k) >= 700) \in BOOLEAN
  OBVIOUS
<1>4. memory.cycle + 1 \in Nat /\ loop.start \in Nat
  BY DEF CyclesInv
<1> DEFINE good == Quality(k) >= 700
<1>5. Episode(k) = [cycle |-> memory.cycle + 1, pattern |-> Pattern[run.command],
                    ok |-> run.ok, good |-> good, by |-> loop.start]
  BY DEF Episode
<1> HIDE DEF good
<1>6. good \in BOOLEAN
  BY <1>3 DEF good
<1> QED
  BY <1>1, <1>2, <1>4, <1>5, <1>6 DEF Episodes

\* A process that goes on as it is, with the same lines and a number not lower.
LEMMA SameLines ==
  ASSUME CyclesInv, loop'.start = loop.start, memory'.cycle \in Nat, memory'.cycle >= memory.cycle,
         DOMAIN disk' = DOMAIN disk, disk'.lines = disk.lines, disk'.unread = disk.unread
  PROVE  CyclesInv'
<1>1. memory.cycle \in Nat /\ disk.lines \in Seq(Episodes)
  BY DEF CyclesInv
<1>2. \A i \in DOMAIN disk.lines : disk.lines[i].cycle \in Nat
  BY <1>1, LinesAreEpisodes
<1>3. Below'
  <2> SUFFICES ASSUME NEW i \in DOMAIN disk.lines,
                      disk.lines[i].by = loop.start \/ loop.start \notin disk.unread
               PROVE  disk.lines[i].cycle <= memory'.cycle
    BY DEF Below
  <2>1. disk.lines[i].cycle <= memory.cycle
    BY DEF CyclesInv, Below
  <2> QED
    BY <1>1, <1>2, <2>1
<1>4. CyclesIncrease'
  BY DEF CyclesInv, CyclesIncrease
<1>5. HasTop(disk'.lines) /\ \A i \in DOMAIN disk'.lines : disk'.lines[i].by <= loop'.start
  BY DEF CyclesInv
<1> QED
  BY <1>3, <1>4, <1>5 DEF CyclesInv

\* A line with the next number.
LEMMA NextLine ==
  ASSUME CyclesInv, loop'.start = loop.start, NEW record \in Episodes,
         record.cycle = memory.cycle + 1, record.by = loop.start,
         memory'.cycle = memory.cycle + 1,
         DOMAIN disk' = DOMAIN disk, disk'.lines = Append(disk.lines, record),
         disk'.unread = disk.unread
  PROVE  CyclesInv'
<1> DEFINE n == Len(disk.lines)
<1>1. memory.cycle \in Nat /\ disk.lines \in Seq(Episodes) /\ loop.start \in Nat \ {0}
  BY DEF CyclesInv
<1>2. /\ n \in Nat /\ DOMAIN disk.lines = 1..n
      /\ disk'.lines \in Seq(Episodes) /\ DOMAIN disk'.lines = 1..(n + 1)
      /\ \A i \in 1..n : disk'.lines[i] = disk.lines[i]
      /\ disk'.lines[n + 1] = record
  BY <1>1
<1>3. \A i \in 1..n : disk.lines[i].cycle \in Nat /\ disk.lines[i].by \in Nat
  BY <1>1, <1>2, LinesAreEpisodes
<1>4. \A i \in 1..n : disk.lines[i].by = loop.start \/ loop.start \notin disk.unread
        => disk.lines[i].cycle <= memory.cycle
  BY <1>2 DEF CyclesInv, Below
<1>5. \A i \in DOMAIN disk'.lines : i \in 1..n \/ i = n + 1
  BY <1>2
<1> HIDE DEF n
<1>6. Below'
  <2> SUFFICES ASSUME NEW i \in DOMAIN disk'.lines,
                      disk'.lines[i].by = loop.start \/ loop.start \notin disk.unread
               PROVE  disk'.lines[i].cycle <= memory.cycle + 1
    BY DEF Below
  <2>1. CASE i \in 1..n
    <3>1. disk'.lines[i] = disk.lines[i]
      BY <1>2, <2>1
    <3>2. disk.lines[i].cycle \in Nat /\ disk.lines[i].cycle <= memory.cycle
      BY <1>3, <1>4, <2>1, <3>1
    <3> QED
      BY <1>1, <3>1, <3>2
  <2>2. CASE i = n + 1
    BY <1>1, <1>2, <2>2
  <2> QED
    BY <1>5, <2>1, <2>2
<1>7. CyclesIncrease'
  <2> SUFFICES ASSUME NEW j \in DOMAIN disk'.lines, NEW i \in 1..(j - 1),
                      disk'.lines[j].by > 0,
                      disk'.lines[j].by \notin disk.unread \/ disk'.lines[i].by = disk'.lines[j].by
               PROVE  disk'.lines[i].cycle < disk'.lines[j].cycle
    BY DEF CyclesIncrease
  <2>1. i \in 1..n /\ disk'.lines[i] = disk.lines[i]
    BY <1>2
  <2>2. CASE j \in 1..n
    <3>1. disk'.lines[j] = disk.lines[j]
      BY <1>2, <2>2
    <3>2. j \in DOMAIN disk.lines
      BY <1>2, <2>2
    <3> QED
      BY <2>1, <3>1, <3>2 DEF CyclesInv, CyclesIncrease
  <2>3. CASE j = n + 1
    <3>1. disk'.lines[j] = record
      BY <1>2, <2>3
    <3>2. disk.lines[i].cycle \in Nat /\ disk.lines[i].cycle <= memory.cycle
      BY <1>3, <1>4, <2>1, <3>1
    <3> QED
      BY <1>1, <2>1, <3>1, <3>2
  <2> QED
    BY <1>5, <2>2, <2>3
<1>8. HasTop(disk'.lines)
  <2> DEFINE top(k) == \A i \in DOMAIN disk'.lines : disk'.lines[i].cycle <= disk'.lines[k].cycle
  <2> SUFFICES \E k \in DOMAIN disk'.lines : top(k)
    BY DEF HasTop
  <2>1. CASE disk.lines = <<>>
    <3>1. n = 0
      BY <2>1 DEF n
    <3>2. n + 1 \in DOMAIN disk'.lines /\ \A i \in DOMAIN disk'.lines : i = n + 1
      BY <1>2, <3>1
    <3>3. top(n + 1)
      BY <1>1, <1>2, <3>2
    <3> QED
      BY <3>2, <3>3
  <2>2. CASE disk.lines # <<>>
    <3>1. PICK k \in 1..n : \A i \in 1..n : disk.lines[i].cycle <= disk.lines[k].cycle
      BY <1>2, <2>2 DEF CyclesInv, HasTop
    <3>2. k \in DOMAIN disk'.lines /\ n + 1 \in DOMAIN disk'.lines /\ disk'.lines[k] = disk.lines[k]
      BY <1>2
    <3>3. disk.lines[k].cycle \in Nat
      BY <1>3
    <3>4. CASE disk.lines[k].cycle <= record.cycle
      <4>1. ASSUME NEW i \in DOMAIN disk'.lines PROVE disk'.lines[i].cycle <= record.cycle
        <5>1. CASE i \in 1..n
          <6>1. disk'.lines[i] = disk.lines[i] /\ disk.lines[i].cycle \in Nat
                /\ disk.lines[i].cycle <= disk.lines[k].cycle
            BY <1>2, <1>3, <3>1, <5>1
          <6> QED
            BY <1>1, <3>3, <3>4, <6>1
        <5>2. CASE i = n + 1
          BY <1>1, <1>2, <5>2
        <5> QED
          BY <1>5, <5>1, <5>2
      <4> QED
        BY <1>2, <3>2, <4>1
    <3>5. CASE ~(disk.lines[k].cycle <= record.cycle)
      <4>1. ASSUME NEW i \in DOMAIN disk'.lines PROVE disk'.lines[i].cycle <= disk.lines[k].cycle
        <5>1. CASE i \in 1..n
          BY <1>2, <3>1, <5>1
        <5>2. CASE i = n + 1
          BY <1>1, <1>2, <3>3, <3>5, <5>2
        <5> QED
          BY <1>5, <5>1, <5>2
      <4> QED
        BY <3>2, <4>1
    <3> QED
      BY <3>4, <3>5
  <2> QED
    BY <2>1, <2>2
<1>9. \A i \in DOMAIN disk'.lines : disk'.lines[i].by <= loop'.start
  <2> SUFFICES ASSUME NEW i \in DOMAIN disk'.lines PROVE disk'.lines[i].by <= loop.start
    OBVIOUS
  <2>1. CASE i \in 1..n
    BY <1>2, <2>1 DEF CyclesInv
  <2>2. CASE i = n + 1
    BY <1>1, <1>2, <2>2
  <2> QED
    BY <1>5, <2>1, <2>2
<1> QED
  BY <1>1, <1>2, <1>6, <1>7, <1>8, <1>9 DEF CyclesInv

LEMMA CyclesInvKept ==
  ASSUME SessionInv, LoopInv, CyclesInv, [Next]_vars
  PROVE  CyclesInv'
<1>1. memory.cycle \in Nat /\ disk.lines \in Seq(Episodes) /\ loop.start \in Nat \ {0}
      /\ DOMAIN disk = {"lines", "torn", "garbled", "unread"}
  BY DEF CyclesInv
<1>2. CASE UNCHANGED <<memory, disk>> /\ ~Restart
  BY <1>1, <1>2, StartKept, SameLines
<1>3. CASE Learn /\ ~Restart
  <2>1. loop'.start = loop.start
    BY <1>3, StartKept
  <2>2. CASE run.at = "returned"
    <3>1. PICK k \in KeywordShares :
            /\ memory' = [records |-> LastOf(Append(memory.records, Episode(k)), MaxRecent),
                          cycle |-> Episode(k).cycle]
            /\ \E d \in Stored(Episode(k)) : disk' = d.is
      BY <1>3, <2>2 DEF Learn
    <3> DEFINE record == Episode(k)
    <3>2. record \in Episodes /\ record.cycle = memory.cycle + 1 /\ record.by = loop.start
      BY <2>2, EpisodeFacts
    <3>3. memory'.cycle = memory.cycle + 1
      BY <3>1, <3>2
    <3> HIDE DEF record
    <3>4. disk' \in {IF disk.torn THEN [disk EXCEPT !.torn = FALSE]
                     ELSE [disk EXCEPT !.lines = Append(@, record)]}
                      \cup {disk, [disk EXCEPT !.torn = TRUE],
                            [disk EXCEPT !.torn = TRUE, !.garbled = TRUE]}
      BY <3>1, OrFaultFacts DEF Stored, record
    <3>5. /\ DOMAIN disk' = DOMAIN disk /\ disk'.unread = disk.unread
          /\ disk'.lines \in {disk.lines, Append(disk.lines, record)}
      BY <1>1, <3>4
    <3>6. CASE disk'.lines = disk.lines
      <4>1. memory'.cycle \in Nat /\ memory'.cycle >= memory.cycle
        BY <1>1, <3>3
      <4> QED
        BY <2>1, <3>5, <3>6, <4>1, SameLines
    <3>7. CASE disk'.lines = Append(disk.lines, record)
      BY <2>1, <3>2, <3>3, <3>5, <3>7, NextLine
    <3> QED
      BY <3>5, <3>6, <3>7
  <2>3. CASE run.at # "returned"
    BY <1>2, <1>3, <2>3 DEF Learn
  <2> QED
    BY <2>2, <2>3
<1>4. CASE Restart
  <2>1. PICK u \in OrFault({}, {{loop.start + 1}}) :
          disk' = [disk EXCEPT !.unread = @ \cup u.is]
    BY <1>4 DEF Restart
  <2>2. /\ memory' = Known(disk', loop.start + 1) /\ loop' = Started(loop.start + 1)
    BY <1>4 DEF Restart
  <2>3. DOMAIN disk' = DOMAIN disk /\ disk'.lines = disk.lines /\ disk.unread \subseteq disk'.unread
    BY <1>1, <2>1
  <2>4. loop'.start = loop.start + 1 /\ loop.start + 1 \in Nat \ {0}
    BY <1>1, <2>2, StartedFacts
  <2>5. HasTop(disk'.lines) /\ disk'.lines \in Seq(Episodes)
    BY <2>3 DEF CyclesInv
  <2>6. /\ memory'.cycle \in Nat
        /\ loop'.start \notin disk'.unread =>
             \A i \in DOMAIN disk'.lines : disk'.lines[i].cycle <= memory'.cycle
    BY <2>2, <2>4, <2>5, KnownFacts
  <2>7. \A i \in DOMAIN disk'.lines :
          disk'.lines[i].by <= loop'.start /\ disk'.lines[i].by # loop'.start
    <3> SUFFICES ASSUME NEW i \in DOMAIN disk.lines
                 PROVE  disk.lines[i].by <= loop.start + 1 /\ disk.lines[i].by # loop.start + 1
      BY <2>3, <2>4
    <3>1. disk.lines[i].by \in Nat /\ disk.lines[i].by <= loop.start
      BY <1>1, LinesAreEpisodes DEF CyclesInv
    <3> QED
      BY <1>1, <3>1
  <2>8. Below'
    BY <2>6, <2>7 DEF Below
  <2>9. CyclesIncrease'
    BY <2>3 DEF CyclesInv, CyclesIncrease
  <2> QED
    BY <1>1, <2>3, <2>4, <2>5, <2>6, <2>7, <2>8, <2>9 DEF CyclesInv
<1>5. CASE \/ Wake \/ ObservePending \/ ObserveAll \/ PollStat \/ PollRead \/ PollClear
           \/ PollSignal \/ Scan \/ Consider \/ Prompt \/ PromptDone \/ SaveState \/ Reply \/ Final
           \/ (SessionStep /\ UNCHANGED agentVars)
           \/ Quit \/ WriteFile \/ RemoveFile \/ SendSignal \/ Interrupt \/ Kill \/ StartFails
           \/ UNCHANGED vars
  <2>1. UNCHANGED <<memory, disk>>
    BY <1>5 DEF Wake, ObservePending, ObserveAll, PollStat, PollRead, PollClear, PollSignal,
       Scan, Consider, Prompt, PromptDone, SaveState, Reply, Final, Quit, WriteFile, RemoveFile,
       SendSignal, Interrupt, Kill, StartFails, vars, agentVars
  <2> QED
    BY <1>2, <1>4, <2>1
<1> QED
  BY <1>3, <1>4, <1>5 DEF Next, AgentStep

-----------------------------------------------------------------------------
(* The texts, and the places of the loop.                                  *)

LEMMA NoMessages == <<>> \in Seq(Messages)
  OBVIOUS

LEMMA ModeKept ==
  ASSUME [Next]_vars
  PROVE  mode' = mode
<1>1. CASE \/ Wake \/ ObservePending \/ ObserveAll \/ PollStat \/ PollRead \/ PollClear
           \/ PollSignal \/ Scan \/ Consider \/ Prompt \/ PromptDone
  BY <1>1 DEF Wake, ObservePending, ObserveAll, PollStat, PollRead, PollClear, PollSignal, Scan,
     Consider, Prompt, PromptDone
<1>2. CASE \/ Learn \/ SaveState \/ Reply \/ Final \/ Quit \/ WriteFile \/ RemoveFile \/ SendSignal
           \/ Interrupt \/ Kill \/ Restart \/ StartFails
           \/ (SessionStep /\ UNCHANGED agentVars) \/ UNCHANGED vars
  BY <1>2 DEF Learn, SaveState, Reply, Final, Quit, WriteFile, RemoveFile, SendSignal, Interrupt,
     Kill, Restart, StartFails, agentVars, vars
<1> QED
  BY <1>1, <1>2 DEF Next, AgentStep

LEMMA BoxInvKept ==
  ASSUME LoopInv, BoxInv, [Next]_vars
  PROVE  BoxInv'
<1>1. mode' = mode
  BY ModeKept
<1>2. CASE UNCHANGED <<box, sent>>
  BY <1>1, <1>2 DEF BoxInv
<1>3. CASE Prompt
  BY <1>1, <1>3 DEF BoxInv, Prompt
<1>4. CASE PollStat
  <2>1. box' \in {box, [box EXCEPT !.fresh = FALSE], [box EXCEPT !.there = TRUE, !.fresh = TRUE]}
    <3>1. CASE box.there
      BY <1>4, <3>1 DEF PollStat
    <3>2. CASE ~box.there
      BY <1>4, <3>2, OrFaultFacts DEF PollStat
    <3> QED
      BY <3>1, <3>2
  <2>2. mode = "file" /\ sent' = sent
    BY <1>4 DEF PollStat
  <2>3. DOMAIN box' = DOMAIN box /\ box'.msg = box.msg
    BY <2>1, <2>2 DEF BoxInv
  <2> QED
    BY <1>1, <2>2, <2>3 DEF BoxInv
<1>5. CASE PollClear
  <2> DEFINE emptied == [box |-> [msg |-> NoMessage, there |-> TRUE, fresh |-> TRUE],
                         dropped |-> Unseen]
             kept == [box |-> box, dropped |-> {}]
  <2>0. PICK b \in OrFault(emptied, {kept}) : box' = b.is.box
    BY <1>5 DEF PollClear
  <2> HIDE DEF emptied, kept
  <2>4. b.is \in {emptied, kept}
    BY <2>0, OrFaultFacts
  <2>1. box' \in {box, [msg |-> NoMessage, there |-> TRUE, fresh |-> TRUE]}
    BY <2>0, <2>4 DEF emptied, kept
  <2>2. CASE box' = box
    BY <1>1, <1>2, <1>5, <2>2 DEF PollClear
  <2>3. CASE box' = [msg |-> NoMessage, there |-> TRUE, fresh |-> TRUE]
    <3>1. DOMAIN box' = {"msg", "there", "fresh"} /\ box'.msg.text = None
      BY <2>3 DEF NoMessage
    <3>2. mode = "file" /\ sent' = sent
      BY <1>5 DEF PollClear, LoopInv
    <3> QED
      BY <1>1, <3>1, <3>2 DEF BoxInv
  <2> QED
    BY <2>1, <2>2, <2>3
<1>6. CASE PollSignal
  <2>1. PICK got \in OrFault([rest |-> <<>>, batch |-> box],
                            {[rest |-> <<>>, batch |-> <<>>], [rest |-> box, batch |-> <<>>],
                             [rest |-> box, batch |-> box]}) :
          box' = got.is.rest
    BY <1>6 DEF PollSignal
  <2>2. box' \in {box, <<>>}
    BY <2>1, OrFaultFacts
  <2>3. mode = "signal" /\ sent' = sent
    BY <1>6 DEF PollSignal
  <2>4. box' \in Seq(Messages)
    BY <2>2, <2>3, NoMessages DEF BoxInv
  <2> QED
    BY <1>1, <2>3, <2>4 DEF BoxInv
<1>7. CASE WriteFile
  <2>1. PICK text \in Commands, raw \in OrFault(FALSE, {TRUE}) :
          box' = [msg |-> [NoMessage EXCEPT !.text = text, !.raw = raw.is],
                  there |-> TRUE, fresh |-> TRUE]
    BY <1>7 DEF WriteFile
  <2>2. DOMAIN box' = {"msg", "there", "fresh"} /\ box'.msg.text = text
    BY <2>1 DEF NoMessage
  <2>3. mode = "file" /\ sent' = sent + 1
    BY <1>7 DEF WriteFile
  <2> QED
    BY <1>1, <2>2, <2>3 DEF BoxInv
<1>8. CASE RemoveFile
  <2>1. mode = "file" /\ sent' = sent /\ box' = [box EXCEPT !.msg = NoMessage, !.there = FALSE]
    BY <1>8 DEF RemoveFile
  <2>2. DOMAIN box' = DOMAIN box /\ box'.msg = NoMessage
    BY <2>1 DEF BoxInv
  <2> QED
    BY <1>1, <2>1, <2>2 DEF BoxInv, NoMessage
<1>9. CASE SendSignal
  <2>1. mode = "signal" /\ sent' = sent + 1
    BY <1>9 DEF SendSignal
  <2>2. PICK text \in Commands, from \in Senders, ts \in {sent, sent + 1} \ {0} :
          box' = Append(box, [text |-> text, from |-> from, ts |-> ts, raw |-> FALSE])
    BY <1>9 DEF SendSignal
  <2> DEFINE m == [text |-> text, from |-> from, ts |-> ts, raw |-> FALSE]
  <2>3. m \in Messages
    <3>1. ts \in Nat
      BY DEF BoxInv
    <3> QED
      BY <3>1 DEF Messages
  <2> HIDE DEF m
  <2>4. box' = Append(box, m)
    BY <2>2 DEF m
  <2> QED
    BY <1>1, <2>1, <2>3, <2>4 DEF BoxInv
<1>10. CASE Restart
  <2>1. sent' = sent /\ box' = IF mode = "signal" THEN box ELSE [box EXCEPT !.fresh = TRUE]
    BY <1>10 DEF Restart
  <2>2. CASE mode = "signal"
    BY <1>1, <2>1, <2>2 DEF BoxInv
  <2>3. CASE mode # "signal"
    <3>1. mode = "file" => DOMAIN box' = DOMAIN box /\ box'.msg = box.msg
      BY <2>1, <2>3 DEF BoxInv
    <3> QED
      BY <1>1, <2>1, <2>3, <3>1 DEF BoxInv
  <2> QED
    BY <2>2, <2>3
<1>11. CASE \/ Wake \/ ObservePending \/ ObserveAll \/ PollRead \/ Scan \/ Consider \/ PromptDone
            \/ Learn \/ SaveState \/ Reply \/ Final \/ Quit \/ Interrupt \/ Kill \/ StartFails
            \/ (SessionStep /\ UNCHANGED agentVars) \/ UNCHANGED vars
  BY <1>2, <1>11 DEF Wake, ObservePending, ObserveAll, PollRead, Scan, Consider, PromptDone,
     Learn, SaveState, Reply, Final, Quit, Interrupt, Kill, StartFails, agentVars, vars
<1> QED
  BY <1>3, <1>4, <1>5, <1>6, <1>7, <1>8, <1>9, <1>10, <1>11 DEF Next, AgentStep

\* A loop that received nothing, and is not about to read or take up a command.
LEMMA LoopMoves ==
  ASSUME LoopInv, mode' = mode, DOMAIN loop' = DOMAIN loop, loop'.batch = loop.batch,
         loop'.at \notin {"scan", "read", "clear", "consider"}
  PROVE  LoopInv'
  BY DEF LoopInv

LEMMA LoopInvKept ==
  ASSUME LoopInv, BoxInv, [Next]_vars
  PROVE  LoopInv'
<1>1. DOMAIN loop = LoopFields /\ mode' = mode
  BY ModeKept DEF LoopInv
<1>2. ASSUME NEW at \in {"observe", "poll", "final", "sleep", "act", "prompt", "saveState", "reply",
                         "stopped", "dead"},
             DOMAIN loop' = LoopFields, loop'.at = at, loop'.batch = loop.batch
      PROVE  LoopInv'
  BY <1>1, <1>2, LoopMoves
<1>3. CASE Wake \/ ObserveAll \/ Prompt \/ PromptDone \/ SaveState \/ Reply
  BY <1>1, <1>2, <1>3 DEF Wake, ObserveAll, Prompt, PromptDone, SaveState, Reply, LoopFields
<1>4. CASE ObservePending
  BY <1>1, <1>2, <1>4 DEF ObservePending, LoopFields
<1>5. CASE Learn \/ Final \/ Quit \/ Interrupt \/ Kill \/ StartFails
  BY <1>1, <1>2, <1>5 DEF Learn, Final, Quit, Interrupt, Kill, StartFails, LoopFields
<1>6. CASE Consider
  BY <1>1, <1>2, <1>6 DEF Consider, LoopFields
<1>7. CASE PollStat
  <2>1. mode = "file" /\ DOMAIN loop' = DOMAIN loop /\ loop'.at \in {"read", "sleep"}
    BY <1>1, <1>7 DEF PollStat, LoopFields
  <2> QED
    BY <1>1, <2>1 DEF LoopInv
<1>8. CASE PollRead
  <2> DEFINE taken == IF Pending = None THEN [loop EXCEPT !.at = "sleep"]
                      ELSE [loop EXCEPT !.at = "clear", !.command = box.msg]
             failed == [loop EXCEPT !.at = "sleep", !.unread = TRUE]
  <2>1. PICK l \in OrFault(taken, {failed}) : loop' = l.is
    BY <1>8 DEF PollRead
  <2> HIDE DEF taken, failed
  <2>2. loop' \in {taken, failed}
    BY <2>1, OrFaultFacts
  <2> USE DEF taken, failed
  <2>3. CASE loop' = failed \/ (loop' = taken /\ Pending = None)
    BY <1>1, <1>2, <2>3 DEF LoopFields
  <2>4. CASE loop' = taken /\ Pending # None
    <3>1. /\ DOMAIN loop' = DOMAIN loop /\ loop'.batch = loop.batch /\ loop'.at = "clear"
          /\ loop'.command = box.msg
      BY <1>1, <2>4 DEF LoopFields
    <3>2. mode = "file" /\ box.msg.text \in Commands
      BY <2>4 DEF BoxInv, Pending
    <3> QED
      BY <1>1, <3>1, <3>2 DEF LoopInv
  <2> QED
    BY <2>1, <2>2, <2>3, <2>4
<1>9. CASE PollClear
  <2>1. /\ DOMAIN loop' = DOMAIN loop /\ loop'.batch = loop.batch /\ loop'.at = "consider"
        /\ loop'.command = loop.command /\ loop.at = "clear"
    BY <1>1, <1>9 DEF PollClear, LoopFields
  <2> QED
    BY <1>1, <2>1 DEF LoopInv
<1>10. CASE PollSignal
  <2>1. PICK got \in OrFault([rest |-> <<>>, batch |-> box],
                            {[rest |-> <<>>, batch |-> <<>>], [rest |-> box, batch |-> <<>>],
                             [rest |-> box, batch |-> box]}) :
          loop' = [loop EXCEPT !.at = "scan", !.batch = got.is.batch]
    BY <1>10 DEF PollSignal
  <2>2. got.is.batch \in {box, <<>>}
    BY <2>1, OrFaultFacts
  <2>3. DOMAIN loop' = DOMAIN loop /\ loop'.at = "scan" /\ loop'.batch = got.is.batch
    BY <1>1, <2>1 DEF LoopFields
  <2>4. mode = "signal" /\ box \in Seq(Messages)
    BY <1>10 DEF PollSignal, BoxInv
  <2>5. loop'.batch \in Seq(Messages)
    BY <2>2, <2>3, <2>4, NoMessages
  <2> QED
    BY <1>1, <2>3, <2>4, <2>5 DEF LoopInv
<1>11. CASE Scan
  <2>1. loop.at = "scan" /\ mode = "signal" /\ loop.batch \in Seq(Messages)
    BY <1>11 DEF Scan, LoopInv
  <2>2. CASE loop.batch = <<>>
    BY <1>1, <1>2, <1>11, <2>2 DEF Scan, LoopFields
  <2>3. CASE loop.batch # <<>>
    <3> DEFINE m == Head(loop.batch)
    <3>1. m \in Messages /\ Tail(loop.batch) \in Seq(Messages)
      BY <2>1, <2>3
    <3>2. m.text \in Commands
      BY <3>1 DEF Messages
    <3>3. \/ loop' = [loop EXCEPT !.batch = Tail(@)]
          \/ loop' = [loop EXCEPT !.at = "consider", !.batch = <<>>, !.command = m,
                                  !.stamps = Tracked(@, m.ts)]
          \/ loop' = [loop EXCEPT !.batch = Tail(@), !.stamps = Tracked(@, m.ts)]
      BY <1>11, <2>3 DEF Scan
    <3> HIDE DEF m
    <3>4. /\ DOMAIN loop' = DOMAIN loop
          /\ loop'.batch \in {<<>>, Tail(loop.batch)}
          /\ loop'.at = "scan" \/ (loop'.at = "consider" /\ loop'.command = m)
      BY <1>1, <2>1, <3>3 DEF LoopFields
    <3>5. loop'.batch \in Seq(Messages)
      BY <3>1, <3>4, NoMessages
    <3> QED
      BY <1>1, <2>1, <3>2, <3>4, <3>5 DEF LoopInv
  <2> QED
    BY <2>2, <2>3
<1>12. CASE WriteFile \/ RemoveFile
  <2>1. /\ DOMAIN loop' = DOMAIN loop /\ loop'.at = loop.at /\ loop'.batch = loop.batch
        /\ loop'.command = loop.command
    BY <1>1, <1>12 DEF WriteFile, RemoveFile, LoopFields
  <2> QED
    BY <1>1, <2>1 DEF LoopInv
<1>13. CASE Restart
  <2>1. loop' = Started(loop.start + 1)
    BY <1>13 DEF Restart
  <2>2. DOMAIN loop' = LoopFields /\ loop'.at \in {"sleep", "prompt"} /\ loop'.batch = <<>>
    BY <2>1, StartedFacts
  <2> QED
    BY <1>1, <2>2 DEF LoopInv
<1>14. CASE SendSignal \/ (SessionStep /\ UNCHANGED agentVars) \/ UNCHANGED vars
  BY <1>14 DEF SendSignal, agentVars, vars, LoopInv
<1> QED
  BY <1>3, <1>4, <1>5, <1>6, <1>7, <1>8, <1>9, <1>10, <1>11, <1>12, <1>13, <1>14
     DEF Next, AgentStep

-----------------------------------------------------------------------------
(* The answers.                                                            *)

\* A loop that is not at a command.
LEMMA LoopAside ==
  ASSUME AnswersInv, mode' = mode, replies' = replies, loop'.seen = loop.seen,
         loop'.at \notin {"act", "saveState", "reply"},
         loop'.at = "prompt" => mode \notin {"file", "signal"}
  PROVE  AnswersInv'
  BY DEF AnswersInv, AnswersOnce

LEMMA AnswersInvKept ==
  ASSUME SessionInv, LoopInv, AnswersInv, [Next]_vars
  PROVE  AnswersInv'
<1>1. DOMAIN loop = LoopFields /\ mode' = mode
  BY ModeKept DEF LoopInv
<1>2. replies \in Seq(loop.seen)
  BY DEF AnswersInv
<1>3. CASE Wake \/ ObserveAll \/ Quit \/ Kill \/ StartFails
  <2>1. replies' = replies /\ loop'.seen = loop.seen
        /\ loop'.at \in {"observe", "poll", "final", "dead"}
    BY <1>1, <1>3 DEF Wake, ObserveAll, Quit, Kill, StartFails, LoopFields
  <2> QED
    BY <1>1, <2>1, LoopAside
<1>4. CASE ObservePending \/ PollStat \/ PollClear \/ Final
  <2>1. replies' = replies /\ loop'.seen = loop.seen
        /\ loop'.at \in {"final", "poll", "read", "sleep", "consider", "stopped"}
    BY <1>1, <1>4 DEF ObservePending, PollStat, PollClear, Final, LoopFields
  <2> QED
    BY <1>1, <2>1, LoopAside
<1>5. CASE PollRead
  <2> DEFINE taken == IF Pending = None THEN [loop EXCEPT !.at = "sleep"]
                      ELSE [loop EXCEPT !.at = "clear", !.command = box.msg]
             failed == [loop EXCEPT !.at = "sleep", !.unread = TRUE]
  <2>1. PICK l \in OrFault(taken, {failed}) : loop' = l.is
    BY <1>5 DEF PollRead
  <2> HIDE DEF taken, failed
  <2>2. loop' \in {taken, failed}
    BY <2>1, OrFaultFacts
  <2>3. loop'.seen = loop.seen /\ loop'.at \in {"sleep", "clear"}
    BY <1>1, <2>2 DEF taken, failed, LoopFields
  <2>4. replies' = replies
    BY <1>5 DEF PollRead
  <2> QED
    BY <1>1, <2>3, <2>4, LoopAside
<1>6. CASE PollSignal
  <2>1. replies' = replies /\ loop'.seen = loop.seen /\ loop'.at = "scan"
    BY <1>1, <1>6 DEF PollSignal, LoopFields
  <2> QED
    BY <1>1, <2>1, LoopAside
<1>7. CASE Scan
  <2>1. replies' = replies /\ loop'.seen = loop.seen /\ loop'.at \in {"sleep", "scan", "consider"}
    BY <1>1, <1>7 DEF Scan, LoopFields
  <2> QED
    BY <1>1, <2>1, LoopAside
<1>8. CASE PromptDone \/ Interrupt
  <2>1. /\ replies' = replies /\ loop'.seen = loop.seen
        /\ loop'.at \in {"prompt", "final"}
        /\ loop'.at = "prompt" => mode = "repl"
    BY <1>1, <1>8 DEF PromptDone, Interrupt, LoopFields
  <2> QED
    BY <1>1, <2>1, LoopAside
<1>9. CASE Consider
  <2> DEFINE c == loop.command.text
  <2>1. CASE c \in loop.seen
    <3>1. replies' = replies /\ loop'.seen = loop.seen /\ loop'.at = "sleep"
      BY <1>1, <1>9, <2>1 DEF Consider, LoopFields
    <3> QED
      BY <1>1, <3>1, LoopAside
  <2>2. CASE c \notin loop.seen
    <3>1. /\ replies' = replies /\ loop'.at = "act" /\ loop'.seen = loop.seen \cup {c}
          /\ run' = Fresh(c)
      BY <1>1, <1>9, <2>2 DEF Consider, StartRun, LoopFields
    <3>2. run'.command = c
      BY <3>1 DEF Fresh
    <3>3. \A i \in DOMAIN replies : replies[i] # c
      BY <1>2, <2>2
    <3>4. replies' \in Seq(loop'.seen)
      BY <1>2, <3>1
    <3> HIDE DEF c
    <3> QED
      BY <1>1, <3>1, <3>2, <3>3, <3>4 DEF AnswersInv, AnswersOnce
  <2> QED
    BY <2>1, <2>2
<1>10. CASE Prompt
  <2>1. /\ replies' = replies /\ loop'.at = "act" /\ loop'.seen = loop.seen
        /\ loop.at = "prompt"
    BY <1>1, <1>10 DEF Prompt, LoopFields
  <2> QED
    BY <1>1, <2>1 DEF AnswersInv, AnswersOnce
<1>11. CASE Learn
  <2>1. /\ replies' = replies /\ loop'.at = "saveState" /\ loop'.seen = loop.seen /\ run' = run
        /\ loop.at = "act" /\ mode \in {"file", "signal"}
    BY <1>1, <1>11 DEF Learn, LoopFields
  <2> QED
    BY <1>1, <2>1 DEF AnswersInv, AnswersOnce
<1>12. CASE SaveState
  <2>1. /\ replies' = replies /\ loop'.at = "reply" /\ loop'.seen = loop.seen /\ run' = run
        /\ loop.at = "saveState"
    BY <1>1, <1>12 DEF SaveState, LoopFields
  <2> QED
    BY <1>1, <2>1 DEF AnswersInv, AnswersOnce
<1>13. CASE Reply
  <2>1. loop.at = "reply" /\ loop'.at \in {"final", "sleep"} /\ loop'.seen = loop.seen
    BY <1>1, <1>13 DEF Reply, LoopFields
  <2>2. replies' \in {replies, Append(replies, run.command)}
    <3>1. CASE run.at = "returned"
      <4>1. PICK r \in OrFault(Append(replies, run.command), {replies}) : replies' = r.is
        BY <1>13, <3>1 DEF Reply, Sent
      <4>2. r.is \in {Append(replies, run.command)} \cup {replies}
        BY <4>1, OrFaultFacts
      <4> QED
        BY <4>1, <4>2
    <3>2. CASE run.at # "returned"
      BY <1>13, <3>2 DEF Reply
    <3> QED
      BY <3>1, <3>2
  <2>3. CASE replies' = replies
    BY <1>1, <2>1, <2>3, LoopAside
  <2>4. CASE replies' = Append(replies, run.command)
    <3>1. /\ run.command \in loop.seen
          /\ \A i \in DOMAIN replies : replies[i] # run.command
      BY <2>1 DEF AnswersInv
    <3>2. /\ DOMAIN replies = 1..Len(replies) /\ Len(replies) \in Nat
          /\ DOMAIN replies' = 1..(Len(replies) + 1) /\ replies' \in Seq(loop'.seen)
          /\ \A i \in DOMAIN replies : replies'[i] = replies[i]
          /\ replies'[Len(replies) + 1] = run.command
      <4> DEFINE answer == run.command
      <4>1. answer \in loop.seen /\ replies' = Append(replies, answer) /\ loop'.seen = loop.seen
        BY <2>1, <2>4, <3>1
      <4> HIDE DEF answer
      <4>2. Append(replies, answer) \in Seq(loop.seen)
        BY <1>2, <4>1
      <4>3. /\ DOMAIN replies = 1..Len(replies) /\ Len(replies) \in Nat
            /\ DOMAIN Append(replies, answer) = 1..(Len(replies) + 1)
            /\ \A i \in DOMAIN replies : Append(replies, answer)[i] = replies[i]
            /\ Append(replies, answer)[Len(replies) + 1] = answer
        BY <1>2, <4>1
      <4> QED
        BY <4>1, <4>2, <4>3 DEF answer
    <3>3. AnswersOnce'
      <4> SUFFICES ASSUME NEW i \in DOMAIN replies', NEW j \in DOMAIN replies',
                          replies'[i] = replies'[j]
                   PROVE  i = j
        BY DEF AnswersOnce
      <4>1. CASE i \in DOMAIN replies /\ j \in DOMAIN replies
        BY <3>2, <4>1 DEF AnswersInv, AnswersOnce
      <4>2. CASE i = Len(replies) + 1 \/ j = Len(replies) + 1
        BY <3>1, <3>2, <4>2
      <4> QED
        BY <3>2, <4>1, <4>2
    <3> QED
      BY <1>1, <2>1, <3>2, <3>3 DEF AnswersInv
  <2> QED
    BY <2>2, <2>3, <2>4
<1>14. CASE Restart
  <2>1. /\ replies' = <<>> /\ loop' = Started(loop.start + 1)
    BY <1>14 DEF Restart
  <2>2. loop'.at = (IF mode \in {"file", "signal"} THEN "sleep" ELSE "prompt") /\ loop'.seen = {}
    BY <2>1, StartedFacts
  <2> QED
    BY <1>1, <2>1, <2>2 DEF AnswersInv, AnswersOnce
<1>15. CASE loop.at = "act" /\ SessionStep /\ UNCHANGED agentVars
  <2>1. replies' = replies /\ loop' = loop /\ run'.command = run.command
    BY <1>15, CommandKept DEF agentVars
  <2> QED
    BY <1>1, <1>15, <2>1 DEF AnswersInv, AnswersOnce
<1>16. CASE WriteFile \/ RemoveFile \/ SendSignal \/ UNCHANGED vars
  <2>1. replies' = replies /\ loop'.at = loop.at /\ loop'.seen = loop.seen /\ run' = run
    BY <1>1, <1>16 DEF WriteFile, RemoveFile, SendSignal, vars, LoopFields
  <2> QED
    BY <1>1, <2>1 DEF AnswersInv, AnswersOnce
<1> QED
  BY <1>3, <1>4, <1>5, <1>6, <1>7, <1>8, <1>9, <1>10, <1>11, <1>12, <1>13, <1>14, <1>15, <1>16
     DEF Next, AgentStep

-----------------------------------------------------------------------------
(* The theorems.                                                           *)

LEMMA AgentInvInit == Init => AgentInv
<1> SUFFICES ASSUME Init PROVE AgentInv
  OBVIOUS
<1>1. SessionInv
  BY SessionInitIsSound DEF Init
<1>2. CyclesInv
  <2>1. PICK unread \in {{}, {1}} :
          disk = [lines |-> Prior, torn |-> FALSE, garbled |-> FALSE, unread |-> unread]
    BY DEF Init
  <2>2. /\ DOMAIN disk = {"lines", "torn", "garbled", "unread"} /\ disk.lines = Prior
    BY <2>1
  <2>3. memory = Known(disk, 1) /\ loop.start = 1
    BY StartedFacts DEF Init
  <2>4. disk.lines \in Seq(Episodes) /\ HasTop(disk.lines) /\ \A i \in DOMAIN disk.lines : disk.lines[i].by = 0
    BY <2>2, AgentAssumption
  <2>5. /\ memory.cycle \in Nat
        /\ 1 \notin disk.unread => \A i \in DOMAIN disk.lines : disk.lines[i].cycle <= memory.cycle
    BY <2>3, <2>4, KnownFacts
  <2>6. Below
    BY <2>3, <2>4, <2>5 DEF Below
  <2>7. CyclesIncrease
    BY <2>4 DEF CyclesIncrease
  <2> QED
    BY <2>2, <2>3, <2>4, <2>5, <2>6, <2>7 DEF CyclesInv
<1>3. loop = Started(1) /\ replies = <<>> /\ sent = 0 /\ mode \in Modes
  BY DEF Init
<1>4. /\ DOMAIN loop = LoopFields /\ loop.seen = {} /\ loop.batch = <<>>
      /\ loop.at = IF mode \in {"file", "signal"} THEN "sleep" ELSE "prompt"
  BY <1>3, StartedFacts
<1>5. LoopInv
  BY <1>4 DEF LoopInv
<1>6. BoxInv
  <2>1. CASE mode = "signal"
    BY <1>3, <2>1 DEF Init, BoxInv
  <2>2. CASE mode # "signal"
    <3>1. box = [msg |-> NoMessage, there |-> TRUE, fresh |-> TRUE]
      BY <2>2 DEF Init
    <3>2. DOMAIN box = {"msg", "there", "fresh"} /\ box.msg.text = None
      BY <3>1 DEF NoMessage
    <3> QED
      BY <1>3, <2>2, <3>2 DEF BoxInv
  <2> QED
    BY <2>1, <2>2
<1>7. AnswersInv
  BY <1>3, <1>4 DEF AnswersInv, AnswersOnce
<1> QED
  BY <1>1, <1>2, <1>5, <1>6, <1>7 DEF AgentInv

\* What holds of the agent at every step.
THEOREM AgentInvHolds == Spec => []AgentInv
<1>1. AgentInv /\ [Next]_vars => AgentInv'
  BY SessionInvKept, CyclesInvKept, LoopInvKept, BoxInvKept, AnswersInvKept DEF AgentInv
<1> QED
  BY AgentInvInit, <1>1, PTL DEF Spec

\* The session keeps its types: the run in progress, the attributes of the last
\* snapshot, the scripts that became tools.
THEOREM SessionTyped == Spec => []SessionTypeOK
<1>1. AgentInv => SessionTypeOK
  BY DEF AgentInv, SessionInv
<1> QED
  BY AgentInvHolds, <1>1, PTL

\* A retry has before it what every step that was achieved before it wrote
\* (_retry_failed_steps and its accumulated_snapshot).
THEOREM RetriesSeeAll == Spec => []RetrySeesAll
<1>1. AgentInv => RetrySeesAll
  BY DEF AgentInv, SessionInv, Seen, RetrySeesAll
<1> QED
  BY AgentInvHolds, <1>1, PTL

\* A line of the episode file has a higher number than every line before it, over
\* restarts and lost or torn lines, if its process could read the file when it
\* started, and in any case than those of its own process
\* (EpisodeMemory._load_existing, record and _append).
THEOREM CyclesAlwaysIncrease == Spec => []CyclesIncrease
<1>1. AgentInv => CyclesIncrease
  BY DEF AgentInv, CyclesInv
<1> QED
  BY AgentInvHolds, <1>1, PTL

\* A process answers a command once, whatever is read or delivered again.
THEOREM AnsweredOnce == Spec => []AnswersOnce
<1>1. AgentInv => AnswersOnce
  BY DEF AgentInv, AnswersInv
<1> QED
  BY AgentInvHolds, <1>1, PTL
=============================================================================
