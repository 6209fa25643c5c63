----------------------------- MODULE BotService -----------------------------
(***************************************************************************)
(* The bot service (demos/rof_bot): the cycle that APScheduler fires, the  *)
(* cycles that POST /control/force-run creates, the operator's requests,   *)
(* the guard of the operational limits, and what a crash or a restart of   *)
(* the process leaves of it.                                               *)
(*                                                                         *)
(* All of it runs on one asyncio event loop, so a step is what happens     *)
(* between two awaits; only pipeline.run is in a thread of its own.  The   *)
(* pipeline (see Pipeline) is abstracted to whether it succeeded.          *)
(***************************************************************************)
EXTENDS Naturals, Sequences, FiniteSets

CONSTANTS
  Forced,     \* the tasks force-run may have at a time
  MaxCycles,  \* bound: cycles that are accepted
  MaxDowns,   \* bound: crashes and shutdowns
  Boots,      \* whether a start brings up the pipeline and the database
  MaxLeaks    \* bound: the database and the state tool may fail until that
              \* many increments are left behind

Job == "bot_cycle"
Tasks == Forced \cup {Job}

BotState == {"STOPPED", "RUNNING", "PAUSED", "STOPPING", "EMERGENCY_HALTED"}

ASSUME BotServiceAssumption ==
  /\ Job \notin Forced /\ IsFiniteSet(Forced)
  /\ MaxCycles \in Nat /\ MaxDowns \in Nat /\ MaxLeaks \in Nat
  /\ Boots \subseteq [pipe : BOOLEAN, db : BOOLEAN]

VARIABLES
  bot,       \* app.state.bot_state
  task,      \* the tasks, see NoTask
  locked,    \* app.state.cycle_lock
  queue,     \* and who waits for it, in order
  guard,     \* check_operational_limits
  up,        \* what the start of the process brought up: pipeline and database
  learned,   \* app.state.routing_memory holds observations
  disk,      \* what the tables hold: error rate, count, routing memory
  hist       \* cycles accepted, processes that ended, increments left behind, and
             \* whether the last command was to run

serviceVars == <<bot, task, locked, queue, guard, up, learned, disk, hist>>

\* at: the await the task is in; orig: the state force-run restores; rate: the
\* error rate read and not yet written.  A rate is abstracted to whether it
\* counts every run recorded so far.
NoTask == [at |-> "none", orig |-> "STOPPED", rate |-> TRUE]
NoGuard == [at |-> "none", rate |-> TRUE]

ServiceInit ==
  /\ bot = "STOPPED" /\ locked = FALSE /\ queue = <<>>
  /\ task = [t \in Tasks |-> NoTask]
  /\ guard = NoGuard
  /\ up \in Boots
  /\ learned = FALSE
  /\ disk = [rate |-> TRUE, count |-> 0, memory |-> FALSE]
  /\ hist = [cycles |-> 0, downs |-> 0, leaks |-> 0, asked |-> FALSE]

-----------------------------------------------------------------------------
At(t, at) == task' = [task EXCEPT ![t].at = at]

Faulty == hist.leaks < MaxLeaks

\* A value the state tool is asked to write; the exception is swallowed.
Attempt(new, old) == IF Faulty THEN {new, old} ELSE {new}

\* Mutant: the state is not restored.
Unrestored(t, orig, b) == b

\* A forced cycle restores the state it found, unless it was changed since.
Restored(t, orig, b) == IF t \in Forced /\ b = "RUNNING" THEN orig ELSE b

\* The lock is taken and _execute_cycle runs up to its first await.  Without a
\* pipeline there is none: the lock is free again and the task over.
Enter(t, orig, b) ==
  IF up.pipe
  THEN /\ locked' = TRUE /\ bot' = b
       /\ task' = [task EXCEPT ![t] = [NoTask EXCEPT !.at = "pipeline", !.orig = orig]]
       /\ \E n \in Attempt(disk.count + 1, disk.count) : disk' = [disk EXCEPT !.count = n]
  ELSE /\ locked' = FALSE /\ bot' = Restored(t, orig, b)
       /\ task' = [task EXCEPT ![t] = NoTask]
       /\ UNCHANGED disk

\* Mutant: whoever finds the lock free takes it.
AcquireAnyway(t, orig, b) ==
  /\ Enter(t, orig, b) /\ UNCHANGED queue

\* async with cycle_lock: taken at once, or behind those that wait already,
\* one of which may have been woken without having run yet.
Acquire(t, orig, b) ==
  IF ~locked /\ queue = <<>>
  THEN Enter(t, orig, b) /\ UNCHANGED queue
  ELSE /\ queue' = Append(queue, t) /\ bot' = b
       /\ task' = [task EXCEPT ![t] = [NoTask EXCEPT !.at = "waiting", !.orig = orig]]
       /\ UNCHANGED <<locked, disk>>

Accept == hist.cycles < MaxCycles /\ hist' = [hist EXCEPT !.cycles = @ + 1]

\* run_bot_cycle, when it is not skipped.
FireJob ==
  /\ task[Job].at = "none" /\ Accept
  /\ bot = "RUNNING" /\ ~locked
  /\ Acquire(Job, "STOPPED", bot)
  /\ UNCHANGED <<guard, up, learned>>

\* POST /control/force-run: the task is created and has not run yet.
ForceRun(t) ==
  /\ task[t].at = "none" /\ Accept
  /\ ~locked /\ bot # "EMERGENCY_HALTED"
  /\ At(t, "created")
  /\ UNCHANGED <<bot, locked, queue, guard, up, learned, disk>>

\* _forced_cycle up to its first await.
BeginForced(t) ==
  /\ task[t].at = "created"
  /\ Acquire(t, bot, "RUNNING")
  /\ UNCHANGED <<guard, up, learned, hist>>

\* Mutant: the task that was woken waits on unless the bot is RUNNING.
WakeIfRunning(t) ==
  /\ ~locked /\ queue # <<>> /\ t = Head(queue) /\ bot = "RUNNING"
  /\ queue' = Tail(queue)
  /\ Enter(t, task[t].orig, bot)
  /\ UNCHANGED <<guard, up, learned, hist>>

\* The lock was released and the first that waits runs.
Wake(t) ==
  /\ ~locked /\ queue # <<>> /\ t = Head(queue)
  /\ queue' = Tail(queue)
  /\ Enter(t, task[t].orig, bot)
  /\ UNCHANGED <<guard, up, learned, hist>>

Decremented(n) == IF n > 0 THEN n - 1 ELSE 0

\* The execute stage has the state tool record a completed action: it
\* decrements the count, too.
RecordAction(t) ==
  /\ task[t].at = "pipeline"
  /\ disk' = [disk EXCEPT !.count = Decremented(@)]
  /\ At(t, "recorded")
  /\ UNCHANGED <<bot, locked, queue, guard, up, learned, hist>>

Running(t) == task[t].at \in {"pipeline", "recorded"}

\* The thread is done, with a result or an exception.
FinishPipeline(t) ==
  /\ Running(t)
  /\ \E n \in Attempt(Decremented(disk.count), disk.count) :
       /\ disk' = [disk EXCEPT !.count = n]
       /\ hist' = [hist EXCEPT !.leaks = IF n > Decremented(disk.count) THEN @ + 1 ELSE @]
  /\ At(t, IF up.db THEN "save" ELSE "broadcast")
  /\ learned' \in {learned, TRUE}
  /\ UNCHANGED <<bot, locked, queue, guard, up>>

\* db.save_pipeline_run, which may fail: no rate read before counts the run.
SavePipelineRun(t) ==
  /\ task[t].at = "save"
  /\ \/ /\ disk' = [disk EXCEPT !.rate = FALSE]
        /\ guard' = [guard EXCEPT !.rate = @ /\ guard.at = "none"]
     \/ Faulty /\ UNCHANGED <<disk, guard>>
  /\ At(t, "rate")
  /\ UNCHANGED <<bot, locked, queue, up, learned, hist>>

\* _update_daily_error_rate: the query, and what follows its await.
ReadRate(t) ==
  /\ task[t].at = "rate"
  /\ \/ task' = [task EXCEPT ![t].at = "set", ![t].rate = TRUE]
     \/ Faulty /\ At(t, "broadcast")
  /\ UNCHANGED <<bot, locked, queue, guard, up, learned, disk, hist>>

SetRate(t) ==
  /\ task[t].at = "set"
  /\ disk' = [disk EXCEPT !.rate = task[t].rate]
  /\ At(t, "broadcast")
  /\ UNCHANGED <<bot, locked, queue, guard, up, learned, hist>>

\* Mutant: STOPPING is not looked at after the cycle.
EndTaskDeaf(t) ==
  /\ task[t].at = "broadcast"
  /\ task' = [task EXCEPT ![t] = NoTask] /\ locked' = FALSE
  /\ bot' = Restored(t, task[t].orig, bot)
  /\ UNCHANGED <<queue, guard, up, learned, disk, hist>>

\* The broadcast is through: the rest of the cycle, up to the end of the task.
EndTask(t) ==
  /\ task[t].at = "broadcast"
  /\ task' = [task EXCEPT ![t] = NoTask] /\ locked' = FALSE
  /\ bot' = IF bot = "STOPPING" THEN "STOPPED" ELSE Restored(t, task[t].orig, bot)
  /\ UNCHANGED <<queue, guard, up, learned, disk, hist>>

-----------------------------------------------------------------------------
(* check_operational_limits and the flushes of the routing memory.         *)

GuardReads ==
  /\ guard.at = "none" /\ up.db
  /\ guard' = [at |-> "set", rate |-> TRUE]
  /\ UNCHANGED <<bot, task, locked, queue, up, learned, disk, hist>>

GuardSets ==
  /\ guard.at = "set"
  /\ guard' = NoGuard
  /\ disk' = [disk EXCEPT !.rate = guard.rate]
  /\ UNCHANGED <<bot, task, locked, queue, up, learned, hist>>

\* persist_routing_memory saves routing_memory.dump(), or {} when there is no
\* such method: RoutingMemory has none.  The checkpoint job runs it, and
\* execute_abort_procedure some time after it set the state; the save may fail.
Dump == FALSE

Checkpoint ==
  /\ disk' = [disk EXCEPT !.memory = Dump]
  /\ UNCHANGED <<bot, task, locked, queue, guard, up, learned, hist>>

-----------------------------------------------------------------------------
(* The operator.  /start and /resume differ in the lint only.              *)

Command(b) ==
  /\ bot' = b
  /\ hist' = [hist EXCEPT !.asked = b = "RUNNING"]
  /\ UNCHANGED <<task, locked, queue, guard, up, learned, disk>>

Start == bot # "RUNNING" /\ Command("RUNNING")

Stop == bot \notin {"STOPPED", "EMERGENCY_HALTED"} /\ Command("STOPPING")

Pause == Command("PAUSED")

EmergencyStop == Command("EMERGENCY_HALTED")

\* POST /control/reload, when it is not rejected.
ReloadPipeline ==
  /\ up' = [up EXCEPT !.pipe = TRUE]
  /\ UNCHANGED <<bot, task, locked, queue, guard, learned, disk, hist>>

-----------------------------------------------------------------------------
(* The end of the process and the start of the next one.                   *)

Boot ==
  /\ bot' = "STOPPED" /\ locked' = FALSE /\ queue' = <<>>
  /\ task' = [t \in Tasks |-> NoTask]
  /\ guard' = NoGuard
  /\ up' \in Boots
  /\ hist.downs < MaxDowns
  /\ hist' = [hist EXCEPT !.downs = @ + 1, !.asked = FALSE,
                          !.leaks = IF \E t \in Tasks : Running(t) THEN @ + 1 ELSE @]

\* lifespan warm-loads what is stored; a load that fails starts fresh.
Crash ==
  /\ Boot
  /\ learned' \in {FALSE, disk.memory}
  /\ UNCHANGED disk

\* A clean shutdown flushes first; the tasks in progress are cancelled.
Shutdown ==
  /\ Boot
  /\ disk' = [disk EXCEPT !.memory = Dump]
  /\ learned' = Dump

Continue(t) ==
  \/ BeginForced(t) \/ Wake(t) \/ RecordAction(t)
  \/ FinishPipeline(t) \/ SavePipelineRun(t) \/ ReadRate(t) \/ SetRate(t) \/ EndTask(t)

ServiceNext ==
  \/ FireJob
  \/ \E t \in Forced : ForceRun(t)
  \/ \E t \in Tasks : Continue(t)
  \/ GuardReads \/ GuardSets \/ Checkpoint
  \/ Start \/ Stop \/ Pause \/ EmergencyStop \/ ReloadPipeline
  \/ Crash \/ Shutdown

ServiceSpec == ServiceInit /\ [][ServiceNext]_serviceVars

\* The event loop runs what is ready; pipelines, queries and broadcasts end.
FairSpec == ServiceSpec /\ \A t \in Tasks : WF_serviceVars(Continue(t))

-----------------------------------------------------------------------------
InCycle(t) == task[t].at \notin {"none", "created", "waiting"}

Works ==
  [at : {"none", "created", "waiting", "pipeline", "recorded", "save", "rate", "set", "broadcast"},
   orig : BotState, rate : BOOLEAN]
Disks == [rate : BOOLEAN, count : Nat, memory : BOOLEAN]
Hists == [cycles : Nat, downs : Nat, leaks : Nat, asked : BOOLEAN]

ServiceTypeOK ==
  /\ bot \in BotState /\ locked \in BOOLEAN /\ queue \in Seq(Tasks)
  /\ task \in [Tasks -> Works]
  /\ guard \in [at : {"none", "set"}, rate : BOOLEAN]
  /\ learned \in BOOLEAN
  /\ up \in [pipe : BOOLEAN, db : BOOLEAN]
  /\ disk \in Disks /\ hist \in Hists

\* "Concurrent execution is structurally impossible": at most one task is in
\* its cycle, and exactly while the lock is held; those that wait are in the
\* queue once.
OneCycle ==
  /\ \A s, t \in Tasks : InCycle(s) /\ InCycle(t) => s = t
  /\ locked <=> \E t \in Tasks : InCycle(t)
  /\ \A t \in Tasks : task[t].at = "waiting" <=> \E i \in DOMAIN queue : queue[i] = t
  /\ \A i, j \in DOMAIN queue : queue[i] = queue[j] => i = j

\* concurrent_action_count never exceeds the cycle in progress and the
\* increments that a crash or a failing state tool left behind.
InProgress == IF \E t \in Tasks : Running(t) THEN 1 ELSE 0

CountBounded == disk.count <= InProgress + hist.leaks

\* A forced cycle sets the state to RUNNING "temporarily": when none is under
\* way, the bot is RUNNING only if the operator's last command was to run,
\* however forced cycles and commands overlapped.
Borrowing(t) == task[t].at \notin {"none", "created"}

RunsOnlyIfAsked ==
  bot = "RUNNING" /\ ~hist.asked => \E t \in Forced : Borrowing(t)

\* Each task that force-run created comes to an end, whoever else waits.
AcceptedEnds == \A t \in Forced : task[t].at = "created" ~> task[t].at = "none"

\* "Finish the current cycle, then stop": a stop during a cycle is carried out.
StopEnds == bot = "STOPPING" /\ (\E t \in Tasks : InCycle(t)) ~> bot # "STOPPING"

-----------------------------------------------------------------------------
\* Violated, see the README.  The learned routing memory is flushed at a shutdown
\* and loaded at the next start: the next process knows what this one learned.
MemorySurvives == [][ Shutdown /\ learned => learned' ]_serviceVars
=============================================================================
