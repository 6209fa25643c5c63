------------------------------ MODULE BotProofs ------------------------------
(***************************************************************************)
(* The bot.  BotService for any number of forced tasks, cycles, crashes    *)
(* and faults: one cycle at a time, the bound of the action count, and     *)
(* that the bot is not left RUNNING by forced cycles that overlap with     *)
(* each other and with commands.  BotCycle for any pipeline files,         *)
(* workflows, clients, faults, times and numbers of cycles: what clients   *)
(* hear, what the actions of a cycle go back to, how old a signal may be,  *)
(* and that the two accounts of the cycles agree.                          *)
(***************************************************************************)
EXTENDS BotService, BotCycle, Integers, SequenceTheorems, FiniteSetTheorems, TLAPS

-----------------------------------------------------------------------------
(* Types.                                                                  *)

\* What an idle task is, and what becomes of it, is a task.
LEMMA WorkTyped ==
  ASSUME NEW b \in BotState
  PROVE  /\ NoTask \in Works
         /\ [NoTask EXCEPT !.at = "pipeline", !.orig = b] \in Works
         /\ [NoTask EXCEPT !.at = "waiting", !.orig = b] \in Works
<1>1. "STOPPED" \in BotState
  BY DEF BotState
<1> QED BY <1>1, Zenon DEF NoTask, Works

\* Where such a task is.
LEMMA WorkAt ==
  /\ NoTask.at = "none"
  /\ \A o : [NoTask EXCEPT !.at = "pipeline", !.orig = o].at = "pipeline"
  /\ \A o : [NoTask EXCEPT !.at = "waiting", !.orig = o].at = "waiting"
BY DEF NoTask

\* A task that is over is a task.
LEMMA NoTaskTyped == NoTask \in Works
BY WorkTyped DEF BotState

\* The guard at rest is one.
LEMMA NoGuardTyped == NoGuard \in [at : {"none", "set"}, rate : BOOLEAN]
BY Zenon DEF NoGuard

\* The end of the process keeps its books.
LEMMA BooksTyped ==
  ASSUME NEW h \in Hists, NEW d \in Nat, NEW l \in Nat
  PROVE  [h EXCEPT !.downs = d, !.asked = FALSE, !.leaks = l] \in Hists
BY Zenon DEF Hists

\* Taking the lock, or a place behind it, keeps the types.
LEMMA EnterTyped ==
  ASSUME ServiceTypeOK, NEW t \in Tasks, NEW orig \in BotState, NEW b \in BotState, Enter(t, orig, b)
  PROVE  /\ bot' \in BotState /\ locked' \in BOOLEAN
         /\ task' \in [Tasks -> Works] /\ disk' \in Disks
<1> USE DEF ServiceTypeOK
<1>1. CASE up.pipe
  <2>1. \E n \in {disk.count + 1, disk.count} : disk' = [disk EXCEPT !.count = n]
    BY <1>1 DEF Enter, Attempt
  <2>2. disk' \in Disks
    BY <2>1 DEF Disks
  <2> QED BY <1>1, <2>2, WorkTyped DEF Enter
<1>2. CASE ~up.pipe
  BY <1>2, NoTaskTyped DEF Enter, Restored
<1> QED BY <1>1, <1>2

\* So does a task that comes to the lock, whether it is free or not.
LEMMA AcquireTyped ==
  ASSUME ServiceTypeOK, NEW t \in Tasks, NEW orig \in BotState, NEW b \in BotState, Acquire(t, orig, b)
  PROVE  /\ bot' \in BotState /\ locked' \in BOOLEAN /\ queue' \in Seq(Tasks)
         /\ task' \in [Tasks -> Works] /\ disk' \in Disks
<1>1. CASE ~locked /\ queue = <<>>
  BY <1>1, EnterTyped DEF Acquire, ServiceTypeOK
<1>2. CASE ~(~locked /\ queue = <<>>)
  <2>1. task' = [task EXCEPT ![t] = [NoTask EXCEPT !.at = "waiting", !.orig = orig]]
    BY <1>2 DEF Acquire
  <2>2. [NoTask EXCEPT !.at = "waiting", !.orig = orig] \in Works
    BY WorkTyped
  <2>3. task' \in [Tasks -> Works]
    BY <2>1, <2>2 DEF ServiceTypeOK
  <2>4. queue' \in Seq(Tasks)
    <3>1. queue' = Append(queue, t)
      BY <1>2 DEF Acquire
    <3>2. queue \in Seq(Tasks)
      BY DEF ServiceTypeOK
    <3> QED BY <3>1, <3>2
  <2>5. bot' = b /\ locked' = locked /\ disk' = disk
    BY <1>2 DEF Acquire
  <2>6. locked \in BOOLEAN /\ disk \in Disks
    BY DEF ServiceTypeOK
  <2> QED BY <2>3, <2>4, <2>5, <2>6
<1> QED BY <1>1, <1>2

\* A waiting task that runs is one of the tasks.
LEMMA HeadTyped ==
  ASSUME ServiceTypeOK, queue # <<>>
  PROVE  Head(queue) \in Tasks /\ Tail(queue) \in Seq(Tasks)
BY DEF ServiceTypeOK

\* The count is never negative.
LEMMA DecrementedTyped == ASSUME NEW n \in Nat PROVE Decremented(n) \in Nat
BY DEF Decremented

\* The steps of a cycle keep the types.
LEMMA ContinueTyped ==
  ASSUME ServiceTypeOK, NEW t \in Tasks, Continue(t)
  PROVE  ServiceTypeOK'
<1> USE DEF ServiceTypeOK
<1>1. CASE BeginForced(t)
  <2>1. "RUNNING" \in BotState
    BY DEF BotState
  <2> QED BY <1>1, <2>1, AcquireTyped DEF BeginForced
<1>2. CASE Wake(t)
  <2>1. task[t].orig \in BotState
    BY DEF Works
  <2> QED BY <1>2, <2>1, EnterTyped, HeadTyped DEF Wake
<1>3. CASE RecordAction(t)
  <2>1. disk' \in Disks
    BY <1>3, DecrementedTyped DEF RecordAction, Disks
  <2> QED BY <1>3, <2>1 DEF RecordAction, At, Works
<1>4. CASE FinishPipeline(t)
  <2>1. PICK n \in {Decremented(disk.count), disk.count} :
          /\ disk' = [disk EXCEPT !.count = n]
          /\ hist' = [hist EXCEPT !.leaks = IF n > Decremented(disk.count) THEN @ + 1 ELSE @]
    BY <1>4 DEF FinishPipeline, Attempt
  <2>2. n \in Nat /\ hist.leaks \in Nat
    BY <2>1, DecrementedTyped DEF Disks, Hists
  <2>3. disk' \in Disks
    BY <2>1, <2>2 DEF Disks
  <2>4. hist' \in Hists
    BY <2>1 DEF Hists
  <2>5. task' \in [Tasks -> Works]
    BY <1>4 DEF FinishPipeline, At, Works
  <2> QED BY <1>4, <2>3, <2>4, <2>5 DEF FinishPipeline
<1>5. CASE SavePipelineRun(t)
  <2>1. disk' \in Disks
    BY <1>5 DEF SavePipelineRun, Disks
  <2>2. guard' \in [at : {"none", "set"}, rate : BOOLEAN]
    BY <1>5 DEF SavePipelineRun
  <2>3. task' \in [Tasks -> Works]
    BY <1>5 DEF SavePipelineRun, At, Works
  <2> QED BY <1>5, <2>1, <2>2, <2>3 DEF SavePipelineRun
<1>6. CASE ReadRate(t)
  <2>1. [task[t] EXCEPT !.at = "set", !.rate = TRUE] \in Works
    BY Zenon DEF Works
  <2>2. task' \in [Tasks -> Works]
    BY <1>6, <2>1 DEF ReadRate, At, Works
  <2> QED BY <1>6, <2>2 DEF ReadRate
<1>7. CASE SetRate(t)
  <2>1. task[t].rate \in BOOLEAN
    BY DEF Works
  <2>2. disk' \in Disks
    BY <1>7, <2>1 DEF SetRate, Disks
  <2> QED BY <1>7, <2>2 DEF SetRate, At, Works
<1>8. CASE EndTask(t)
  <2>1. task[t].orig \in BotState /\ "STOPPED" \in BotState
    BY DEF Works, BotState
  <2> QED BY <1>8, <2>1, NoTaskTyped DEF EndTask, Restored
<1> QED BY <1>1, <1>2, <1>3, <1>4, <1>5, <1>6, <1>7, <1>8 DEF Continue

\* Every step keeps the types.
LEMMA NextTyped ==
  ASSUME ServiceTypeOK, [ServiceNext]_serviceVars
  PROVE  ServiceTypeOK'
<1> USE DEF ServiceTypeOK
<1>1. CASE FireJob
  <2>1. Job \in Tasks /\ "STOPPED" \in BotState
    BY DEF Tasks, BotState
  <2>2. hist' \in Hists
    BY <1>1 DEF FireJob, Accept, Hists
  <2> QED BY <1>1, <2>1, <2>2, AcquireTyped DEF FireJob
<1>2. ASSUME NEW t \in Forced, ForceRun(t) PROVE ServiceTypeOK'
  <2>1. hist' \in Hists
    BY <1>2 DEF ForceRun, Accept, Hists
  <2>2. task' \in [Tasks -> Works]
    BY <1>2 DEF ForceRun, At, Tasks, Works
  <2> QED BY <1>2, <2>1, <2>2 DEF ForceRun
<1>3. ASSUME NEW t \in Tasks, Continue(t) PROVE ServiceTypeOK'
  BY <1>3, ContinueTyped
<1>4. CASE GuardReads
  BY <1>4 DEF GuardReads
<1>5. CASE GuardSets
  BY <1>5 DEF GuardSets, NoGuard, Disks
<1>6. CASE Checkpoint
  BY <1>6 DEF Checkpoint, Dump, Disks
<1>7. ASSUME NEW b \in BotState, Command(b) PROVE ServiceTypeOK'
  BY <1>7 DEF Command, Hists
<1>8. CASE Start \/ Stop \/ Pause \/ EmergencyStop
  BY <1>7, <1>8 DEF Start, Stop, Pause, EmergencyStop, BotState
<1>9. CASE ReloadPipeline
  BY <1>9 DEF ReloadPipeline
<1>10. CASE Crash \/ Shutdown
  <2>1. up' \in [pipe : BOOLEAN, db : BOOLEAN]
    BY <1>10, BotServiceAssumption DEF Crash, Shutdown, Boot
  <2>2. hist' \in Hists
    <3> DEFINE leaks == IF \E t \in Tasks : Running(t) THEN hist.leaks + 1 ELSE hist.leaks
    <3>1. hist.downs + 1 \in Nat /\ leaks \in Nat
      BY DEF Hists
    <3>2. hist' = [hist EXCEPT !.downs = hist.downs + 1, !.asked = FALSE, !.leaks = leaks]
      BY <1>10, Zenon DEF Crash, Shutdown, Boot
    <3> QED BY <3>1, <3>2, BooksTyped, Zenon
  <2>3. bot' \in BotState /\ task' \in [Tasks -> Works]
    <3>1. bot' = "STOPPED" /\ task' = [t \in Tasks |-> NoTask]
      BY <1>10, Zenon DEF Crash, Shutdown, Boot
    <3> QED BY <3>1, NoTaskTyped DEF BotState
  <2>4. disk' \in Disks /\ learned' \in BOOLEAN
    BY <1>10 DEF Crash, Shutdown, Dump, Disks
  <2>5. guard' \in [at : {"none", "set"}, rate : BOOLEAN]
    <3>1. guard' = NoGuard
      BY <1>10, Zenon DEF Crash, Shutdown, Boot
    <3> QED BY <3>1, NoGuardTyped
  <2>6. locked' \in BOOLEAN /\ queue' \in Seq(Tasks)
    <3>1. locked' = FALSE /\ queue' = <<>>
      BY <1>10, Zenon DEF Crash, Shutdown, Boot
    <3>2. locked' \in BOOLEAN
      BY <3>1, Zenon
    <3>3. queue' \in Seq(Tasks)
      BY <3>1
    <3> QED BY <3>2, <3>3
  <2> QED BY <2>1, <2>2, <2>3, <2>4, <2>5, <2>6, Zenon
<1>11. CASE UNCHANGED serviceVars
  BY <1>11 DEF serviceVars
<1> QED BY <1>1, <1>2, <1>3, <1>4, <1>5, <1>6, <1>8, <1>9, <1>10, <1>11 DEF ServiceNext

\* The first start has the types.
LEMMA InitTyped == ServiceInit => ServiceTypeOK
<1> SUFFICES ASSUME ServiceInit PROVE ServiceTypeOK
  OBVIOUS
<1> USE DEF ServiceInit, ServiceTypeOK
<1>1. bot \in BotState /\ task \in [Tasks -> Works]
  BY NoTaskTyped DEF BotState
<1>2. up \in [pipe : BOOLEAN, db : BOOLEAN]
  BY BotServiceAssumption
<1>3. disk \in Disks /\ hist \in Hists /\ guard \in [at : {"none", "set"}, rate : BOOLEAN]
  BY DEF Disks, Hists, NoGuard
<1>4. locked \in BOOLEAN /\ learned \in BOOLEAN
  BY Zenon
<1>5. queue \in Seq(Tasks)
  <2>1. queue = <<>>
    OBVIOUS
  <2> QED BY <2>1
<1> QED BY <1>1, <1>2, <1>3, <1>4, <1>5, Zenon

\* The states of the bot, the tasks, the lock's queue and the tables keep
\* their types.
THEOREM Typed == ServiceSpec => []ServiceTypeOK
BY InitTyped, NextTyped, PTL DEF ServiceSpec

-----------------------------------------------------------------------------
(* One cycle at a time.                                                    *)

\* A task that takes the lock was alone, one that waits is last in the queue.
LEMMA EnterAlone ==
  ASSUME ServiceTypeOK, OneCycle, ~locked,
         NEW t \in Tasks, NEW orig \in BotState, NEW b \in BotState, Enter(t, orig, b)
  PROVE  /\ \A s \in Tasks : InCycle(s)' => s = t
         /\ locked' <=> InCycle(t)'
         /\ \A s \in Tasks \ {t} : task'[s] = task[s]
         /\ task'[t].at # "waiting"
<1>1. \A s \in Tasks : ~InCycle(s)
  BY DEF OneCycle
<1>2. CASE up.pipe
  <2>1. locked' /\ task' = [task EXCEPT ![t] = [NoTask EXCEPT !.at = "pipeline", !.orig = orig]]
    BY <1>2 DEF Enter
  <2>2. task'[t].at = "pipeline" /\ \A s \in Tasks \ {t} : task'[s] = task[s]
    BY <2>1 DEF ServiceTypeOK, NoTask
  <2>3. InCycle(t)' /\ \A s \in Tasks \ {t} : ~InCycle(s)'
    BY <1>1, <2>2 DEF InCycle
  <2> QED BY <2>1, <2>2, <2>3
<1>3. CASE ~up.pipe
  <2>1. ~locked' /\ task' = [task EXCEPT ![t] = NoTask]
    BY <1>3 DEF Enter
  <2>2. task'[t].at = "none" /\ \A s \in Tasks \ {t} : task'[s] = task[s]
    BY <2>1 DEF ServiceTypeOK, NoTask
  <2>3. \A s \in Tasks : ~InCycle(s)'
    BY <1>1, <2>2 DEF InCycle
  <2> QED BY <2>1, <2>2, <2>3
<1> QED BY <1>2, <1>3

\* A task that comes to the lock is alone, or joins those that wait.
LEMMA AcquireKeepsOne ==
  ASSUME ServiceTypeOK, OneCycle, NEW t \in Tasks, task[t].at \in {"none", "created"},
         NEW orig \in BotState, NEW b \in BotState, Acquire(t, orig, b)
  PROVE  OneCycle'
<1>1. CASE ~locked /\ queue = <<>>
  <2>1. Enter(t, orig, b) /\ queue' = <<>>
    BY <1>1 DEF Acquire
  <2> QED BY <1>1, <2>1, EnterAlone DEF OneCycle
<1>2. CASE ~(~locked /\ queue = <<>>)
  <2>1. /\ queue' = Append(queue, t) /\ UNCHANGED locked
        /\ task' = [task EXCEPT ![t] = [NoTask EXCEPT !.at = "waiting", !.orig = orig]]
    BY <1>2 DEF Acquire
  <2>2. task'[t].at = "waiting" /\ \A s \in Tasks \ {t} : task'[s] = task[s]
    BY <2>1 DEF ServiceTypeOK, NoTask
  <2>3. /\ queue \in Seq(Tasks) /\ Len(queue') = Len(queue) + 1
        /\ queue'[Len(queue) + 1] = t
        /\ \A i \in 1..Len(queue) : queue'[i] = queue[i]
    BY <2>1 DEF ServiceTypeOK
  <2>4. \A i \in DOMAIN queue : queue[i] # t
    BY DEF OneCycle, ServiceTypeOK
  <2>5. ~InCycle(t) /\ ~InCycle(t)' /\ \A s \in Tasks \ {t} : InCycle(s)' <=> InCycle(s)
    BY <2>2 DEF InCycle
  <2>6. /\ \A s \in Tasks : task'[s].at = "waiting" <=> \E i \in DOMAIN queue' : queue'[i] = s
        /\ \A i, j \in DOMAIN queue' : queue'[i] = queue'[j] => i = j
    BY <2>2, <2>3, <2>4 DEF OneCycle
  <2> QED BY <2>1, <2>5, <2>6 DEF OneCycle
<1> QED BY <1>1, <1>2

\* The first that waits takes the lock when it is free.
LEMMA WakeKeepsOne ==
  ASSUME ServiceTypeOK, OneCycle, NEW t \in Tasks, Wake(t)
  PROVE  OneCycle'
<1>1. Enter(t, task[t].orig, bot) /\ task[t].orig \in BotState /\ bot \in BotState
  BY DEF Wake, ServiceTypeOK, Works
<1>2. /\ \A s \in Tasks : InCycle(s)' => s = t
      /\ locked' <=> InCycle(t)'
      /\ \A s \in Tasks \ {t} : task'[s] = task[s]
      /\ task'[t].at # "waiting"
  BY <1>1, EnterAlone DEF Wake
<1>3. /\ queue \in Seq(Tasks) /\ queue # <<>> /\ queue[1] = t
      /\ Len(queue') = Len(queue) - 1
      /\ \A i \in 1..Len(queue') : queue'[i] = queue[i + 1]
  BY DEF Wake, ServiceTypeOK
<1>4. \A s \in Tasks \ {t} : (\E i \in DOMAIN queue : queue[i] = s)
                            <=> (\E i \in DOMAIN queue' : queue'[i] = s)
  <2> TAKE s \in Tasks \ {t}
  <2>1. ASSUME NEW i \in 1..Len(queue), queue[i] = s PROVE \E j \in 1..Len(queue') : queue'[j] = s
    <3>1. i - 1 \in 1..Len(queue') /\ queue'[i - 1] = s
      BY <1>3, <2>1
    <3> QED BY <3>1
  <2>2. ASSUME NEW i \in 1..Len(queue'), queue'[i] = s PROVE \E j \in 1..Len(queue) : queue[j] = s
    BY <1>3, <2>2
  <2>3. DOMAIN queue = 1..Len(queue) /\ DOMAIN queue' = 1..Len(queue')
    BY <1>3 DEF Wake
  <2> QED BY <2>1, <2>2, <2>3
<1>5. \A i, j \in DOMAIN queue' : queue'[i] = queue'[j] => i = j
  BY <1>3 DEF OneCycle, Wake
<1>6. \A i \in DOMAIN queue' : queue'[i] # t
  BY <1>3 DEF OneCycle, Wake
<1> QED BY <1>2, <1>4, <1>5, <1>6 DEF OneCycle

\* A step that moves one task within its cycle changes nothing of it.
LEMMA MoveKeepsOne ==
  ASSUME ServiceTypeOK, OneCycle, NEW t \in Tasks, UNCHANGED <<locked, queue>>,
         \A s \in Tasks \ {t} : task'[s] = task[s],
         InCycle(t) <=> InCycle(t)', task[t].at # "waiting", task'[t].at # "waiting"
  PROVE  OneCycle'
BY DEF OneCycle, InCycle

\* No step of a task's cycle lets a second one in.
LEMMA CycleKeepsOne ==
  ASSUME ServiceTypeOK, OneCycle, NEW t \in Tasks, Continue(t)
  PROVE  OneCycle'
<1>1. CASE BeginForced(t)
  BY <1>1, AcquireKeepsOne DEF BeginForced, ServiceTypeOK, BotState
<1>2. CASE Wake(t)
  BY <1>2, WakeKeepsOne
<1>3. CASE RecordAction(t) \/ FinishPipeline(t) \/ SavePipelineRun(t) \/ ReadRate(t) \/ SetRate(t)
  <2> DEFINE Moved(to) == task'[t].at = to /\ \A s \in Tasks \ {t} : task'[s] = task[s]
  <2>1. UNCHANGED <<locked, queue>>
    BY <1>3, Zenon DEF RecordAction, FinishPipeline, SavePipelineRun, ReadRate, SetRate
  <2>2. task[t].at \in {"pipeline", "recorded", "save", "rate", "set"}
    BY <1>3 DEF RecordAction, FinishPipeline, SavePipelineRun, ReadRate, SetRate, Running
  <2>3. \A to : At(t, to) => Moved(to)
    BY DEF At, ServiceTypeOK, Works
  <2>4. task' = [task EXCEPT ![t].at = "set", ![t].rate = TRUE] => Moved("set")
    BY DEF ServiceTypeOK, Works
  <2>5. \E to \in {"recorded", "save", "rate", "set", "broadcast"} : Moved(to)
    BY <1>3, <2>3, <2>4, Zenon DEF RecordAction, FinishPipeline, SavePipelineRun, ReadRate, SetRate
  <2>6. InCycle(t) /\ InCycle(t)' /\ task[t].at # "waiting" /\ task'[t].at # "waiting"
    BY <2>2, <2>5 DEF InCycle
  <2> QED BY <2>1, <2>5, <2>6, MoveKeepsOne
<1>4. CASE EndTask(t)
  <2>1. /\ task'[t].at = "none" /\ InCycle(t) /\ ~locked' /\ UNCHANGED queue
        /\ \A s \in Tasks \ {t} : task'[s] = task[s]
    BY <1>4 DEF EndTask, NoTask, InCycle, ServiceTypeOK
  <2> QED BY <2>1 DEF OneCycle, InCycle
<1> QED BY <1>1, <1>2, <1>3, <1>4 DEF Continue

\* Nor does any other step, of an operator, the scheduler or a restart.
LEMMA NextKeepsOne ==
  ASSUME ServiceTypeOK, OneCycle, [ServiceNext]_serviceVars
  PROVE  OneCycle'
<1>1. CASE FireJob
  <2>1. Job \in Tasks /\ bot \in BotState /\ "STOPPED" \in BotState
    BY DEF Tasks, ServiceTypeOK, BotState
  <2> QED BY <1>1, <2>1, AcquireKeepsOne DEF FireJob
<1>2. ASSUME NEW t \in Forced, ForceRun(t) PROVE OneCycle'
  <2>1. /\ t \in Tasks /\ UNCHANGED <<locked, queue>> /\ \A s \in Tasks \ {t} : task'[s] = task[s]
        /\ task[t].at = "none" /\ task'[t].at = "created"
    BY <1>2 DEF ForceRun, At, Tasks, ServiceTypeOK
  <2>2. ~InCycle(t) /\ ~InCycle(t)'
    BY <2>1 DEF InCycle
  <2> QED BY <2>1, <2>2, MoveKeepsOne
<1>3. ASSUME NEW t \in Tasks, Continue(t) PROVE OneCycle'
  BY <1>3, CycleKeepsOne
<1>4. CASE \/ GuardReads \/ GuardSets \/ Checkpoint
           \/ Start \/ Stop \/ Pause \/ EmergencyStop \/ ReloadPipeline \/ UNCHANGED serviceVars
  <2>1. UNCHANGED <<task, locked, queue>>
    BY <1>4, Zenon DEF GuardReads, GuardSets, Checkpoint, Start, Stop, Pause, EmergencyStop,
                       Command, ReloadPipeline, serviceVars
  <2> QED BY <2>1 DEF OneCycle, InCycle
<1>5. CASE Crash \/ Shutdown
  <2>1. locked' = FALSE /\ queue' = <<>> /\ task' = [t \in Tasks |-> NoTask]
    BY <1>5, Zenon DEF Crash, Shutdown, Boot
  <2> QED BY <2>1 DEF OneCycle, InCycle, NoTask
<1> QED BY <1>1, <1>2, <1>3, <1>4, <1>5 DEF ServiceNext

\* At the start no task is in a cycle.
LEMMA InitOne == ServiceInit => OneCycle
BY DEF ServiceInit, OneCycle, InCycle, NoTask

\* However many tasks force-run created, only one is in its cycle, and it
\* holds the lock.
THEOREM OneAtATime == ServiceSpec => []OneCycle
BY InitTyped, InitOne, NextTyped, NextKeepsOne, PTL DEF ServiceSpec

-----------------------------------------------------------------------------
(* The bot runs only if it was asked to.                                   *)

\* Whoever borrows the state RUNNING found another one, or somebody else did:
\* among the forced cycles under way one will give it back.
Owed ==
  bot = "RUNNING" /\ ~hist.asked =>
    \E t \in Forced : Borrowing(t) /\ task[t].orig # "RUNNING"

\* The end of a cycle gives back what its task owes.
LEMMA GivenBack ==
  ASSUME ServiceTypeOK, Owed, NEW t \in Tasks, hist'.asked = hist.asked,
         task' = [task EXCEPT ![t] = NoTask], bot' = Restored(t, task[t].orig, bot)
  PROVE  Owed'
<1> SUFFICES ASSUME bot' = "RUNNING", ~hist'.asked
             PROVE  \E s \in Forced : Borrowing(s)' /\ task'[s].orig # "RUNNING"
  BY DEF Owed
<1>1. bot = "RUNNING" /\ (t \in Forced => task[t].orig = "RUNNING")
  BY DEF Restored
<1>2. PICK s \in Forced : Borrowing(s) /\ task[s].orig # "RUNNING"
  BY <1>1 DEF Owed
<1>3. s # t /\ s \in Tasks
  BY <1>1, <1>2 DEF Tasks
<1>4. task'[s] = task[s]
  BY <1>3 DEF ServiceTypeOK
<1> QED BY <1>2, <1>4 DEF Borrowing

\* A task that did not borrow yet takes the lock, or waits for it, for the
\* state b.
LEMMA AcquireOwes ==
  ASSUME ServiceTypeOK, Owed, NEW t \in Tasks, ~Borrowing(t), hist'.asked = hist.asked,
         NEW orig, NEW b, Acquire(t, orig, b),
         (t \in Forced /\ orig = bot) \/ b = bot
  PROVE  Owed'
<1> SUFFICES ASSUME bot' = "RUNNING", ~hist'.asked
             PROVE  \E s \in Forced : Borrowing(s)' /\ task'[s].orig # "RUNNING"
  BY DEF Owed
<1>1. CASE bot = "RUNNING"
  <2>1. PICK s \in Forced : Borrowing(s) /\ task[s].orig # "RUNNING"
    BY <1>1 DEF Owed
  <2>2. s # t /\ s \in Tasks
    BY <2>1 DEF Tasks
  <2>3. \E w : task' = [task EXCEPT ![t] = w]
    BY Zenon DEF Acquire, Enter
  <2>4. task'[s] = task[s]
    BY <2>2, <2>3 DEF ServiceTypeOK
  <2> QED BY <2>1, <2>4 DEF Borrowing
<1>2. CASE bot # "RUNNING"
  <2>1. bot' = b \/ bot' = Restored(t, orig, b)
    BY DEF Acquire, Enter
  <2>2. b = "RUNNING" /\ t \in Forced /\ orig = bot
    BY <1>2, <2>1 DEF Restored
  <2>3. bot' # Restored(t, orig, b)
    BY <1>2, <2>2 DEF Restored
  <2>4. \/ task' = [task EXCEPT ![t] = [NoTask EXCEPT !.at = "pipeline", !.orig = orig]]
        \/ task' = [task EXCEPT ![t] = [NoTask EXCEPT !.at = "waiting", !.orig = orig]]
    BY <2>3 DEF Acquire, Enter
  <2>5. \/ task'[t] = [NoTask EXCEPT !.at = "pipeline", !.orig = orig]
        \/ task'[t] = [NoTask EXCEPT !.at = "waiting", !.orig = orig]
    BY <2>4 DEF ServiceTypeOK
  <2>6. task'[t].orig = orig /\ task'[t].at \in {"pipeline", "waiting"}
    BY <2>5 DEF NoTask
  <2> QED BY <1>2, <2>2, <2>6 DEF Borrowing
<1> QED BY <1>1, <1>2

\* Neither a step within a cycle nor one that leaves the tasks alone changes
\* who owes what.
LEMMA OwedKept ==
  ASSUME Owed, bot' = "RUNNING" => bot = "RUNNING", hist'.asked = hist.asked,
         \A s \in Forced : Borrowing(s) => Borrowing(s)' /\ task'[s].orig = task[s].orig
  PROVE  Owed'
BY DEF Owed

\* A step that moves one task within its cycle.
LEMMA MoveOwes ==
  ASSUME ServiceTypeOK, Owed, NEW t \in Tasks, UNCHANGED bot, hist'.asked = hist.asked,
         \A s \in Tasks \ {t} : task'[s] = task[s],
         Borrowing(t)', task'[t].orig = task[t].orig
  PROVE  Owed'
<1>1. \A s \in Forced : Borrowing(s) => Borrowing(s)' /\ task'[s].orig = task[s].orig
  BY DEF Borrowing, Tasks
<1> QED BY <1>1, OwedKept

\* Only force-run creates tasks.
JobFired == task[Job].at # "created"

\* A step of a task's cycle keeps what the tasks owe, and what was asked for.
LEMMA CycleOwes ==
  ASSUME ServiceTypeOK, Owed, JobFired, NEW t \in Tasks, Continue(t)
  PROVE  Owed'
<1>1. CASE BeginForced(t)
  <2>1. t \in Forced
    BY <1>1 DEF BeginForced, JobFired, Tasks
  <2> QED BY <1>1, <2>1, AcquireOwes DEF BeginForced, Borrowing
<1>2. CASE Wake(t)
  <2>1. Enter(t, task[t].orig, bot) /\ UNCHANGED hist
    BY <1>2 DEF Wake
  <2>2. CASE up.pipe
    <3>1. /\ bot' = bot
          /\ task' = [task EXCEPT ![t] = [NoTask EXCEPT !.at = "pipeline", !.orig = task[t].orig]]
      BY <2>1, <2>2 DEF Enter
    <3>2. /\ task'[t].at = "pipeline" /\ task'[t].orig = task[t].orig
          /\ \A s \in Tasks \ {t} : task'[s] = task[s]
      BY <3>1 DEF ServiceTypeOK, NoTask
    <3> QED BY <2>1, <3>1, <3>2, MoveOwes DEF Borrowing
  <2>3. CASE ~up.pipe
    BY <2>1, <2>3, GivenBack DEF Enter
  <2> QED BY <2>2, <2>3
<1>3. CASE RecordAction(t) \/ FinishPipeline(t) \/ SavePipelineRun(t) \/ ReadRate(t) \/ SetRate(t)
  <2> DEFINE Moved(to) == /\ task'[t].at = to /\ task'[t].orig = task[t].orig
                          /\ \A s \in Tasks \ {t} : task'[s] = task[s]
  <2>1. UNCHANGED bot
    BY <1>3, Zenon DEF RecordAction, FinishPipeline, SavePipelineRun, ReadRate, SetRate
  <2>2. hist'.asked = hist.asked
    <3>1. hist' = hist \/ \E n : hist' = [hist EXCEPT !.leaks = n]
      BY <1>3, Zenon DEF RecordAction, FinishPipeline, SavePipelineRun, ReadRate, SetRate
    <3> QED BY <3>1 DEF ServiceTypeOK, Hists
  <2>3. \A to : At(t, to) => Moved(to)
    BY DEF At, ServiceTypeOK, Works
  <2>4. task' = [task EXCEPT ![t].at = "set", ![t].rate = TRUE] => Moved("set")
    BY DEF ServiceTypeOK, Works
  <2>5. \E to \in {"recorded", "save", "rate", "set", "broadcast"} : Moved(to)
    BY <1>3, <2>3, <2>4, Zenon DEF RecordAction, FinishPipeline, SavePipelineRun, ReadRate, SetRate
  <2> QED BY <2>1, <2>2, <2>5, MoveOwes DEF Borrowing
<1>4. CASE EndTask(t)
  <2>1. CASE bot = "STOPPING"
    BY <1>4, <2>1 DEF EndTask, Owed
  <2>2. CASE bot # "STOPPING"
    BY <1>4, <2>2, GivenBack DEF EndTask
  <2> QED BY <2>1, <2>2
<1> QED BY <1>1, <1>2, <1>3, <1>4 DEF Continue

\* So does every step.
LEMMA NextOwes ==
  ASSUME ServiceTypeOK, Owed, JobFired, [ServiceNext]_serviceVars
  PROVE  Owed'
<1>1. CASE FireJob
  <2>1. /\ Job \in Tasks /\ ~Borrowing(Job) /\ Acquire(Job, "STOPPED", bot)
    BY <1>1 DEF FireJob, Borrowing, Tasks
  <2>2. hist'.asked = hist.asked
    BY <1>1 DEF FireJob, Accept, ServiceTypeOK, Hists
  <2> QED BY <2>1, <2>2, AcquireOwes
<1>2. ASSUME NEW t \in Forced, ForceRun(t) PROVE Owed'
  <2>1. UNCHANGED bot
    BY <1>2 DEF ForceRun
  <2>2. hist'.asked = hist.asked
    BY <1>2 DEF ForceRun, Accept, ServiceTypeOK, Hists
  <2>3. \A s \in Forced : s # t => task'[s] = task[s]
    BY <1>2 DEF ForceRun, At, Tasks, ServiceTypeOK
  <2>4. ~Borrowing(t)
    BY <1>2 DEF ForceRun, Borrowing
  <2>5. \A s \in Forced : Borrowing(s) => Borrowing(s)' /\ task'[s].orig = task[s].orig
    BY <2>3, <2>4 DEF Borrowing
  <2> QED BY <2>1, <2>2, <2>5, OwedKept
<1>3. ASSUME NEW t \in Tasks, Continue(t) PROVE Owed'
  BY <1>3, CycleOwes
<1>4. CASE GuardReads \/ GuardSets \/ Checkpoint \/ ReloadPipeline \/ UNCHANGED serviceVars
  <2>1. UNCHANGED <<bot, task, hist>>
    BY <1>4, Zenon DEF GuardReads, GuardSets, Checkpoint, ReloadPipeline, serviceVars
  <2> QED BY <2>1 DEF Owed, Borrowing
<1>5. CASE Start \/ Stop \/ Pause \/ EmergencyStop
  <2>1. PICK b \in BotState : Command(b)
    BY <1>5 DEF Start, Stop, Pause, EmergencyStop, BotState
  <2>2. bot' = b /\ hist'.asked = (b = "RUNNING")
    BY <2>1 DEF Command, ServiceTypeOK, Hists
  <2> QED BY <2>2 DEF Owed
<1>6. CASE Crash \/ Shutdown
  <2>1. bot' = "STOPPED"
    BY <1>6, Zenon DEF Crash, Shutdown, Boot
  <2> QED BY <2>1 DEF Owed
<1> QED BY <1>1, <1>2, <1>3, <1>4, <1>5, <1>6 DEF ServiceNext

\* The job of the scheduler is never left created without having fired.
LEMMA NextFired ==
  ASSUME ServiceTypeOK, JobFired, [ServiceNext]_serviceVars
  PROVE  JobFired'
<1> USE DEF JobFired
<1>1. Job \in Tasks /\ Job \notin Forced
  BY BotServiceAssumption DEF Tasks
<1>2. CASE FireJob
  <2>1. \/ task' = [task EXCEPT ![Job] = NoTask]
        \/ task' = [task EXCEPT ![Job] = [NoTask EXCEPT !.at = "pipeline", !.orig = "STOPPED"]]
        \/ task' = [task EXCEPT ![Job] = [NoTask EXCEPT !.at = "waiting", !.orig = "STOPPED"]]
    BY <1>2 DEF FireJob, Acquire, Enter
  <2>2. \/ task'[Job] = NoTask
        \/ task'[Job] = [NoTask EXCEPT !.at = "pipeline", !.orig = "STOPPED"]
        \/ task'[Job] = [NoTask EXCEPT !.at = "waiting", !.orig = "STOPPED"]
    BY <1>1, <2>1 DEF ServiceTypeOK
  <2>3. task'[Job].at \in {"none", "pipeline", "waiting"}
    BY <2>2, WorkAt, Zenon
  <2> QED BY <2>3
<1>3. ASSUME NEW t \in Tasks, t # Job, \E w : task' = [task EXCEPT ![t] = w] PROVE JobFired'
  BY <1>1, <1>3 DEF ServiceTypeOK
<1>4. ASSUME NEW t \in Forced, ForceRun(t) PROVE JobFired'
  BY <1>1, <1>3, <1>4 DEF ForceRun, At, Tasks
<1>5. ASSUME NEW t \in Tasks, Continue(t) PROVE JobFired'
  <2>1. CASE BeginForced(t)
    <3>1. t # Job
      BY <2>1 DEF BeginForced
    <3>2. \E w : task' = [task EXCEPT ![t] = w]
      BY <2>1, Zenon DEF BeginForced, Acquire, Enter
    <3> QED BY <1>3, <3>1, <3>2
  <2>2. CASE Wake(t)
    <3>1. \/ task' = [task EXCEPT ![t] = NoTask]
          \/ task' = [task EXCEPT ![t] = [NoTask EXCEPT !.at = "pipeline", !.orig = task[t].orig]]
      BY <2>2 DEF Wake, Enter
    <3>2. \/ task'[Job] = task[Job] \/ task'[Job] = NoTask
          \/ task'[Job] = [NoTask EXCEPT !.at = "pipeline", !.orig = task[t].orig]
      BY <1>1, <3>1 DEF ServiceTypeOK
    <3>3. task'[Job].at \in {task[Job].at, "none", "pipeline"}
      BY <3>2, WorkAt, Zenon
    <3> QED BY <3>3
  <2>3. CASE RecordAction(t) \/ FinishPipeline(t) \/ SavePipelineRun(t) \/ ReadRate(t) \/ SetRate(t)
    <3> DEFINE Moved(to) == task'[t].at = to /\ \A s \in Tasks \ {t} : task'[s] = task[s]
    <3>1. \A to : At(t, to) => Moved(to)
      BY DEF At, ServiceTypeOK, Works
    <3>2. task' = [task EXCEPT ![t].at = "set", ![t].rate = TRUE] => Moved("set")
      BY DEF ServiceTypeOK, Works
    <3>3. \E to \in {"recorded", "save", "rate", "set", "broadcast"} : Moved(to)
      BY <2>3, <3>1, <3>2, Zenon DEF RecordAction, FinishPipeline, SavePipelineRun, ReadRate, SetRate
    <3> QED BY <1>1, <3>3
  <2>4. CASE EndTask(t)
    <3>1. task' = [task EXCEPT ![t] = NoTask]
      BY <2>4 DEF EndTask
    <3>2. task'[Job] = task[Job] \/ task'[Job] = NoTask
      BY <1>1, <3>1 DEF ServiceTypeOK
    <3> QED BY <3>2 DEF NoTask
  <2> QED BY <1>5, <2>1, <2>2, <2>3, <2>4 DEF Continue
<1>6. CASE \/ GuardReads \/ GuardSets \/ Checkpoint
           \/ Start \/ Stop \/ Pause \/ EmergencyStop \/ ReloadPipeline \/ UNCHANGED serviceVars
  <2>1. UNCHANGED task
    BY <1>6, Zenon DEF GuardReads, GuardSets, Checkpoint, Start, Stop, Pause, EmergencyStop,
                       Command, ReloadPipeline, serviceVars
  <2> QED BY <2>1
<1>7. CASE Crash \/ Shutdown
  <2>1. task' = [t \in Tasks |-> NoTask]
    BY <1>7, Zenon DEF Crash, Shutdown, Boot
  <2>2. task'[Job] = NoTask
    BY <1>1, <2>1
  <2> QED BY <2>2 DEF NoTask
<1> QED BY <1>2, <1>4, <1>5, <1>6, <1>7 DEF ServiceNext

\* However forced cycles and commands overlap, the bot is left RUNNING only if
\* the last command was to run.
THEOREM AskedToRun == ServiceSpec => []RunsOnlyIfAsked
<1>1. ServiceInit => Owed /\ JobFired
  BY DEF ServiceInit, Owed, JobFired, NoTask, Tasks
<1>2. Owed => RunsOnlyIfAsked
  BY DEF Owed, RunsOnlyIfAsked
<1>3. ServiceTypeOK /\ Owed /\ JobFired /\ [ServiceNext]_serviceVars => (Owed /\ JobFired)'
  BY NextOwes, NextFired
<1> QED BY <1>1, <1>2, <1>3, InitTyped, NextTyped, PTL DEF ServiceSpec

-----------------------------------------------------------------------------
(* The count of the actions under way.                                     *)

\* A cycle that begins counts itself, when nothing else is running.
LEMMA EnterCounts ==
  ASSUME ServiceTypeOK, OneCycle, CountBounded, ~locked, hist'.leaks = hist.leaks,
         NEW t \in Tasks, NEW orig, NEW b, Enter(t, orig, b)
  PROVE  CountBounded'
<1>1. \A s \in Tasks : ~Running(s)
  BY DEF OneCycle, InCycle, Running
<1>2. disk.count \in Nat /\ hist.leaks \in Nat /\ disk.count <= hist.leaks
  BY <1>1 DEF CountBounded, InProgress, ServiceTypeOK, Disks, Hists
<1>3. CASE up.pipe
  <2>1. \E n \in {disk.count + 1, disk.count} : disk' = [disk EXCEPT !.count = n]
    BY <1>3 DEF Enter, Attempt
  <2>2. disk'.count \in {disk.count + 1, disk.count}
    BY <2>1 DEF ServiceTypeOK, Disks
  <2>3. task'[t] = [NoTask EXCEPT !.at = "pipeline", !.orig = orig]
    BY <1>3 DEF Enter, ServiceTypeOK
  <2>4. Running(t)'
    BY <2>3 DEF Running, NoTask
  <2>5. InProgress' = 1
    BY <2>4 DEF InProgress
  <2> QED BY <1>2, <2>2, <2>5 DEF CountBounded
<1>4. CASE ~up.pipe
  <2>1. UNCHANGED disk
    BY <1>4 DEF Enter
  <2>2. InProgress' \in {0, 1}
    BY DEF InProgress
  <2> QED BY <1>2, <2>1, <2>2 DEF CountBounded
<1> QED BY <1>3, <1>4

\* A step that neither begins nor ends a cycle nor raises the count.
LEMMA CountKept ==
  ASSUME ServiceTypeOK, CountBounded, disk'.count \in Nat, disk'.count <= disk.count,
         hist'.leaks = hist.leaks, \A s \in Tasks : Running(s) => Running(s)'
  PROVE  CountBounded'
<1>1. InProgress \in {0, 1} /\ InProgress' \in {0, 1} /\ (InProgress = 1 => InProgress' = 1)
  BY DEF InProgress
<1>2. disk.count \in Nat /\ hist.leaks \in Nat
  BY DEF ServiceTypeOK, Disks, Hists
<1> QED BY <1>1, <1>2 DEF CountBounded

\* Coming to the lock raises the count at most by the cycle that begins.
LEMMA AcquireCounts ==
  ASSUME ServiceTypeOK, OneCycle, CountBounded, NEW t \in Tasks, ~Running(t), hist'.leaks = hist.leaks,
         NEW orig, NEW b, Acquire(t, orig, b)
  PROVE  CountBounded'
<1>1. CASE ~locked /\ queue = <<>>
  BY <1>1, EnterCounts DEF Acquire
<1>2. CASE ~(~locked /\ queue = <<>>)
  <2>1. \A s \in Tasks : Running(s) => Running(s)'
    <3>1. \A s \in Tasks \ {t} : task'[s] = task[s]
      BY <1>2 DEF Acquire, ServiceTypeOK
    <3> QED BY <3>1 DEF Running
  <2>2. disk'.count = disk.count /\ disk.count \in Nat
    BY <1>2 DEF Acquire, ServiceTypeOK, Disks
  <2> QED BY <2>1, <2>2, CountKept
<1> QED BY <1>1, <1>2

\* The end of a cycle takes its increment back, or it is left behind.
LEMMA FinishCounts ==
  ASSUME ServiceTypeOK, OneCycle, CountBounded, NEW t \in Tasks, FinishPipeline(t)
  PROVE  CountBounded'
<1>1. disk.count \in Nat /\ hist.leaks \in Nat
  BY DEF ServiceTypeOK, Disks, Hists
<1>2. disk.count <= 1 + hist.leaks
  BY <1>1 DEF FinishPipeline, CountBounded, InProgress
<1>3. PICK n \in {Decremented(disk.count), disk.count} :
        /\ disk' = [disk EXCEPT !.count = n]
        /\ hist' = [hist EXCEPT !.leaks = IF n > Decremented(disk.count) THEN @ + 1 ELSE @]
  BY DEF FinishPipeline, Attempt
<1>4. /\ disk'.count = n
      /\ hist'.leaks = IF n > Decremented(disk.count) THEN hist.leaks + 1 ELSE hist.leaks
  BY <1>3 DEF ServiceTypeOK, Disks, Hists
<1>5. n <= hist'.leaks
  <2>1. Decremented(disk.count) = IF disk.count > 0 THEN disk.count - 1 ELSE 0
    BY DEF Decremented
  <2> QED BY <1>1, <1>2, <1>3, <1>4, <2>1
<1>6. InProgress' \in {0, 1} /\ n \in Nat /\ hist'.leaks \in Nat
  BY <1>1, <1>3, <1>4, DecrementedTyped DEF InProgress
<1> QED BY <1>4, <1>5, <1>6 DEF CountBounded

\* A step of a cycle keeps the count within the cycle and what was left behind.
LEMMA CycleCounts ==
  ASSUME ServiceTypeOK, OneCycle, CountBounded, NEW t \in Tasks, Continue(t)
  PROVE  CountBounded'
<1>1. CASE BeginForced(t)
  <2>1. Acquire(t, bot, "RUNNING") /\ UNCHANGED hist /\ task[t].at = "created"
    BY <1>1 DEF BeginForced
  <2>2. ~Running(t)
    BY <2>1 DEF Running
  <2> QED BY <2>1, <2>2, AcquireCounts, Zenon
<1>2. CASE Wake(t)
  BY <1>2, EnterCounts DEF Wake
<1>3. CASE RecordAction(t)
  <2>1. disk'.count = Decremented(disk.count) /\ disk.count \in Nat
    BY <1>3 DEF RecordAction, ServiceTypeOK, Disks
  <2>2. disk'.count \in Nat /\ disk'.count <= disk.count
    BY <2>1 DEF Decremented
  <2>3. \A s \in Tasks : Running(s) => Running(s)'
    BY <1>3 DEF RecordAction, At, Running, ServiceTypeOK, Works
  <2> QED BY <1>3, <2>2, <2>3, CountKept DEF RecordAction
<1>4. CASE FinishPipeline(t)
  BY <1>4, FinishCounts
<1>5. CASE SavePipelineRun(t) \/ ReadRate(t) \/ SetRate(t) \/ EndTask(t)
  <2>1. disk' = disk \/ \E b : disk' = [disk EXCEPT !.rate = b]
    BY <1>5, Zenon DEF SavePipelineRun, ReadRate, SetRate, EndTask
  <2>2. disk'.count = disk.count /\ disk.count \in Nat
    BY <2>1 DEF ServiceTypeOK, Disks
  <2>3. \A s \in Tasks \ {t} : task'[s] = task[s]
    <3>1. (\E w : task' = [task EXCEPT ![t] = w]) \/ (\E at : At(t, at))
            \/ task' = [task EXCEPT ![t].at = "set", ![t].rate = TRUE]
      BY <1>5, Zenon DEF SavePipelineRun, ReadRate, SetRate, EndTask
    <3> QED BY <3>1 DEF At, ServiceTypeOK
  <2>4. ~Running(t)
    BY <1>5 DEF SavePipelineRun, ReadRate, SetRate, EndTask, Running
  <2>5. \A s \in Tasks : Running(s) => Running(s)'
    BY <2>3, <2>4 DEF Running
  <2>6. UNCHANGED hist
    BY <1>5, Zenon DEF SavePipelineRun, ReadRate, SetRate, EndTask
  <2> QED BY <2>2, <2>5, <2>6, CountKept
<1> QED BY <1>1, <1>2, <1>3, <1>4, <1>5 DEF Continue

\* So does every step.
LEMMA NextCounts ==
  ASSUME ServiceTypeOK, OneCycle, CountBounded, [ServiceNext]_serviceVars
  PROVE  CountBounded'
<1> USE DEF ServiceTypeOK, Disks, Hists
<1>1. CASE FireJob
  <2>1. Job \in Tasks /\ ~Running(Job)
    BY <1>1 DEF FireJob, Running, Tasks
  <2>2. hist'.leaks = hist.leaks
    BY <1>1 DEF FireJob, Accept
  <2> QED BY <1>1, <2>1, <2>2, AcquireCounts DEF FireJob
<1>2. ASSUME NEW t \in Forced, ForceRun(t) PROVE CountBounded'
  <2>1. hist'.leaks = hist.leaks /\ disk' = disk /\ disk.count \in Nat
    BY <1>2 DEF ForceRun, Accept
  <2>2. \A s \in Tasks : Running(s) => Running(s)'
    BY <1>2 DEF ForceRun, At, Running, Tasks, Works
  <2> QED BY <2>1, <2>2, CountKept
<1>3. ASSUME NEW t \in Tasks, Continue(t) PROVE CountBounded'
  BY <1>3, CycleCounts
<1>4. CASE \/ GuardReads \/ GuardSets \/ Checkpoint
           \/ Start \/ Stop \/ Pause \/ EmergencyStop \/ ReloadPipeline \/ UNCHANGED serviceVars
  <2>1. UNCHANGED task
    BY <1>4, Zenon DEF GuardReads, GuardSets, Checkpoint, Start, Stop, Pause, EmergencyStop,
                       Command, ReloadPipeline, serviceVars
  <2>2. disk' = disk \/ (\E b : disk' = [disk EXCEPT !.rate = b])
          \/ (\E b : disk' = [disk EXCEPT !.memory = b])
    BY <1>4, Zenon DEF GuardReads, GuardSets, Checkpoint, Start, Stop, Pause, EmergencyStop,
                       Command, ReloadPipeline, serviceVars
  <2>3. hist' = hist \/ \E b : hist' = [hist EXCEPT !.asked = b]
    BY <1>4, Zenon DEF GuardReads, GuardSets, Checkpoint, Start, Stop, Pause, EmergencyStop,
                       Command, ReloadPipeline, serviceVars
  <2>4. disk'.count = disk.count /\ disk.count \in Nat /\ hist'.leaks = hist.leaks
    BY <2>2, <2>3
  <2> QED BY <2>1, <2>4, CountKept DEF Running
<1>5. CASE Crash \/ Shutdown
  <2>1. disk' = disk \/ \E b : disk' = [disk EXCEPT !.memory = b]
    BY <1>5, Zenon DEF Crash, Shutdown
  <2>2. disk'.count = disk.count /\ disk.count \in Nat
    BY <2>1
  <2>3. hist' = [hist EXCEPT !.downs = @ + 1, !.asked = FALSE,
                             !.leaks = IF \E t \in Tasks : Running(t) THEN @ + 1 ELSE @]
    BY <1>5, Zenon DEF Crash, Shutdown, Boot
  <2>4. hist'.leaks = hist.leaks + InProgress
    BY <2>3 DEF InProgress
  <2>5. InProgress \in {0, 1} /\ InProgress' \in {0, 1} /\ hist.leaks \in Nat
    BY DEF InProgress
  <2> QED BY <2>2, <2>4, <2>5 DEF CountBounded
<1> QED BY <1>1, <1>2, <1>3, <1>4, <1>5 DEF ServiceNext

\* No order of cycles, failures and restarts makes concurrent_action_count
\* exceed the cycle in progress and the increments that were left behind.
THEOREM CountIsBounded == ServiceSpec => []CountBounded
<1>1. ServiceInit => CountBounded
  BY DEF ServiceInit, CountBounded, InProgress
<1> QED BY <1>1, InitTyped, InitOne, NextTyped, NextKeepsOne, NextCounts, PTL DEF ServiceSpec

-----------------------------------------------------------------------------
(* The feed.                                                               *)

Casts == [on : BOOLEAN, no : Nat, to : SUBSET Clients, todo : SUBSET Clients, failed : SUBSET Clients]

FeedTyped ==
  /\ sock \in [Clients -> {"new", "open", "lost"}]
  /\ down \in BOOLEAN
  /\ clients \in SUBSET Clients
  /\ greets \in SUBSET Clients
  /\ cast \in [Casters -> Casts]
  /\ \A k \in Casters : cast[k].todo \cup cast[k].failed \subseteq cast[k].to
  /\ heard \in [Clients -> [Casters -> Seq(Nat)]]
  /\ joined \in [Clients -> [Casters -> Nat]]

\* Who is registered: nobody that has not come, everybody that is connected; and
\* a broadcast has nothing to do with those that came later.
Registered ==
  /\ \A c \in Clients : sock[c] = "new" => c \notin clients /\ \A k \in Casters : heard[c][k] = <<>>
  /\ \A c \in Clients : sock[c] = "open" /\ ~down => c \in clients
  /\ \A c \in Clients, k \in Casters : c \in cast[k].todo => sock[c] # "new"
  /\ \A c \in Clients, k \in Casters : c \in cast[k].failed => sock[c] = "lost"

\* What a client heard of a task, and what HearsAll says of it.
HeardBy(c, k) ==
  LET n == cast[k].no - joined[c][k] - Missing(c, k)
  IN n \in Nat /\ heard[c][k] = [i \in 1..n |-> joined[c][k] + i]

Heard == \A c \in Clients, k \in Casters : sock[c] = "open" /\ ~down => HeardBy(c, k)

FeedInv == FeedTyped /\ Registered /\ Heard

LEMMA FeedInvHears == FeedInv => HearsAll /\ FeedTypeOK
BY DEF FeedInv, FeedTyped, Heard, HeardBy, HearsAll, FeedTypeOK

\* A client's account depends on its own part of the state only.
LEMMA HeardKept ==
  ASSUME NEW c \in Clients, NEW k \in Casters, HeardBy(c, k),
         cast'[k].no = cast[k].no, Missing(c, k)' = Missing(c, k),
         heard'[c][k] = heard[c][k], joined'[c][k] = joined[c][k]
  PROVE  HeardBy(c, k)'
BY DEF HeardBy

\* The next number after those heard so far.
LEMMA HeardNext ==
  ASSUME NEW n \in Nat, NEW j \in Nat, NEW s \in Seq(Nat), s = [i \in 1..n |-> j + i]
  PROVE  Append(s, j + n + 1) = [i \in 1..(n + 1) |-> j + i]
<1>1. Len(s) = n
  OBVIOUS
<1>2. Append(s, j + n + 1) \in Seq(Nat) /\ Len(Append(s, j + n + 1)) = n + 1
  BY <1>1
<1>3. \A i \in 1..(n + 1) : Append(s, j + n + 1)[i] = j + i
  BY <1>1
<1> QED BY <1>2, <1>3

\* A broadcast that begins, and one at rest.
LEMMA BegunTyped ==
  ASSUME NEW n \in Nat, NEW o \in BOOLEAN, NEW cs \in SUBSET Clients
  PROVE  LET new == [Quiet EXCEPT !.no = n, !.on = o, !.to = cs, !.todo = cs]
         IN  new \in Casts /\ new.no = n /\ new.on = o /\ new.to = cs /\ new.todo = cs /\ new.failed = {}
BY DEF Quiet, Casts

LEMMA EndedTyped ==
  ASSUME NEW n \in Nat
  PROVE  LET new == [Quiet EXCEPT !.no = n]
         IN  new \in Casts /\ new.no = n /\ ~new.on /\ new.to = {} /\ new.todo = {} /\ new.failed = {}
BY DEF Quiet, Casts

\* The feed begins with nobody registered.
LEMMA FeedInitInv == ASSUME NEW cs, FeedInit(cs) PROVE FeedInv
<1> USE DEF FeedInit, Quiet
<1>1. FeedTyped
  <2>1. <<>> \in Seq(Nat)
    OBVIOUS
  <2>2. cast \in [Casters -> Casts]
    BY DEF Casts
  <2>3. heard \in [Clients -> [Casters -> Seq(Nat)]] /\ joined \in [Clients -> [Casters -> Nat]]
    BY <2>1
  <2> QED BY <2>2, <2>3 DEF FeedTyped
<1>2. Registered
  BY DEF Registered
<1>3. Heard
  BY DEF Heard
<1> QED BY <1>1, <1>2, <1>3 DEF FeedInv

LEMMA ConnectKeeps == ASSUME FeedInv, NEW c \in Clients, Connect(c) PROVE FeedInv'
<1> USE DEF FeedInv
<1>1. FeedTyped'
  BY DEF FeedTyped, Connect, Casts
<1>2. Registered'
  BY DEF Registered, Connect, FeedTyped
<1>3. ASSUME NEW d \in Clients, NEW k \in Casters, sock'[d] = "open", ~down' PROVE HeardBy(d, k)'
  <2>1. CASE d = c
    <3>1. heard'[d][k] = <<>> /\ joined'[d][k] = cast[k].no /\ cast' = cast
      BY <2>1 DEF Connect, Registered, FeedTyped
    <3>2. Missing(d, k)' = 0
      BY <2>1, <3>1 DEF Connect, Registered, Missing
    <3>3. cast[k].no \in Nat
      BY DEF FeedTyped, Casts
    <3> QED BY <3>1, <3>2, <3>3 DEF HeardBy
  <2>2. CASE d # c
    <3>1. HeardBy(d, k) /\ joined'[d] = joined[d]
      BY <1>3, <2>2 DEF Connect, Heard, FeedTyped
    <3> QED BY <3>1, HeardKept DEF Connect, Missing
  <2> QED BY <2>1, <2>2
<1> QED BY <1>1, <1>2, <1>3 DEF Heard

\* What only makes a connection fail or a client go changes what nobody hears.
LEMMA LeaveKeeps ==
  ASSUME FeedInv, NEW c \in Clients,
         ConnectFails(c) \/ Greet(c) \/ Lose(c) \/ Disconnect(c)
  PROVE  FeedInv'
<1> USE DEF FeedInv, ConnectFails, Greet, Lose, Disconnect
<1>1. FeedTyped'
  BY DEF FeedTyped
<1>2. Registered'
  BY DEF Registered, FeedTyped
<1>3. ASSUME NEW d \in Clients, NEW k \in Casters, sock'[d] = "open", ~down' PROVE HeardBy(d, k)'
  <2>1. sock[d] = "open" /\ ~down
    BY <1>3 DEF FeedTyped
  <2>2. HeardBy(d, k)
    BY <2>1 DEF Heard
  <2> QED BY <2>2, HeardKept DEF Missing
<1> QED BY <1>1, <1>2, <1>3 DEF Heard

\* A broadcast begins; everybody who is connected is still to hear it.
LEMMA BeginKeeps == ASSUME FeedInv, NEW k \in Casters, BeginCast(k) PROVE FeedInv'
<1> USE DEF FeedInv
<1> DEFINE new == [Quiet EXCEPT !.no = cast[k].no + 1, !.on = clients # {}, !.to = clients, !.todo = clients]
<1>1. cast' = [cast EXCEPT ![k] = new]
  BY Zenon DEF BeginCast
<1>2. cast[k].no + 1 \in Nat /\ (clients # {}) \in BOOLEAN /\ clients \in SUBSET Clients
  BY DEF Casts, FeedTyped
<1>3. new \in Casts
  BY <1>2, BegunTyped
<1>4. cast'[k] = new /\ \A l \in Casters \ {k} : cast'[l] = cast[l]
  BY <1>1 DEF FeedTyped
<1>5. new.no = cast[k].no + 1 /\ new.to = clients /\ new.todo = clients /\ new.failed = {}
  BY DEF Quiet
<1>6. new.on <=> clients # {}
  BY DEF Quiet
<1> HIDE DEF new
<1>7. FeedTyped'
  BY <1>1, <1>3, <1>4, <1>5 DEF FeedTyped, BeginCast
<1>8. Registered'
  BY <1>4, <1>5 DEF Registered, BeginCast, FeedTyped
<1>9. ASSUME NEW d \in Clients, NEW l \in Casters, sock'[d] = "open", ~down' PROVE HeardBy(d, l)'
  <2>1. sock[d] = "open" /\ ~down /\ HeardBy(d, l) /\ d \in clients
    BY <1>9 DEF BeginCast, Heard, Registered
  <2>2. CASE l = k
    <3>1. Missing(d, k) = 0 /\ Missing(d, k)' = 1
      BY <1>4, <1>5, <1>6, <2>1, <2>2 DEF Missing, BeginCast
    <3>2. cast[k].no \in Nat /\ joined[d][k] \in Nat /\ joined' = joined /\ heard' = heard
      BY DEF FeedTyped, Casts, BeginCast
    <3>3. cast'[k].no - joined'[d][k] - Missing(d, k)' = cast[k].no - joined[d][k] - Missing(d, k)
      BY <1>4, <1>5, <3>1, <3>2
    <3> QED BY <2>1, <2>2, <3>2, <3>3 DEF HeardBy
  <2>3. CASE l # k
    BY <1>4, <2>1, <2>3, HeardKept DEF BeginCast, Missing
  <2> QED BY <2>2, <2>3
<1> QED BY <1>7, <1>8, <1>9 DEF Heard

\* One send: the client that is connected has heard one more.
LEMMA SendKeeps ==
  ASSUME FeedInv, NEW k \in Casters, NEW c \in Clients, Send(k, c)
  PROVE  FeedInv'
<1> USE DEF FeedInv
<1> DEFINE lost == sock[c] = "lost"
           new == [cast[k] EXCEPT !.todo = @ \ {c}, !.failed = IF lost THEN @ \cup {c} ELSE @]
<1>1. cast' = [cast EXCEPT ![k] = new]
  BY DEF Send, FeedTyped
<1>2. cast[k] \in Casts
  BY DEF FeedTyped
<1>3. /\ new \in Casts /\ new.no = cast[k].no /\ new.on = cast[k].on /\ new.to = cast[k].to
      /\ new.todo = cast[k].todo \ {c}
      /\ new.failed = IF lost THEN cast[k].failed \cup {c} ELSE cast[k].failed
  BY <1>2 DEF Casts
<1>4. cast'[k] = new /\ \A l \in Casters \ {k} : cast'[l] = cast[l]
  BY <1>1 DEF FeedTyped
<1> HIDE DEF new
<1>5. /\ heard' \in [Clients -> [Casters -> Seq(Nat)]]
      /\ \A d \in Clients, l \in Casters :
           heard'[d][l] = IF d = c /\ l = k /\ ~lost THEN Append(heard[c][k], cast[k].no) ELSE heard[d][l]
  <2>1. heard[c][k] \in Seq(Nat) /\ cast[k].no \in Nat
    BY <1>2 DEF FeedTyped, Casts
  <2>2. Append(heard[c][k], cast[k].no) \in Seq(Nat)
    BY <2>1
  <2> DEFINE more == Append(heard[c][k], cast[k].no)
  <2>3. heard' = IF lost THEN heard ELSE [heard EXCEPT ![c] = [heard[c] EXCEPT ![k] = more]]
    BY DEF Send, FeedTyped
  <2> HIDE DEF more
  <2> QED BY <2>2, <2>3 DEF FeedTyped, more
<1>6. FeedTyped'
  BY <1>1, <1>3, <1>4, <1>5 DEF FeedTyped, Send
<1>7. sock[c] # "new" /\ c \in cast[k].todo /\ cast[k].on
  BY DEF Registered, Send
<1>8. Registered'
  <2>1. sock' = sock /\ clients' = clients /\ down' = down
    BY DEF Send
  <2>2. \A d \in Clients, l \in Casters : sock[d] = "new" => heard'[d][l] = heard[d][l]
    BY <1>5, <1>7
  <2>3. \A l \in Casters : cast'[l].todo \subseteq cast[l].todo
    BY <1>3, <1>4
  <2>4. \A d \in Clients, l \in Casters : d \in cast'[l].failed => d \in cast[l].failed \/ (d = c /\ lost)
    BY <1>3, <1>4
  <2> QED BY <2>1, <2>2, <2>3, <2>4 DEF Registered
<1>9. ASSUME NEW d \in Clients, NEW l \in Casters, sock'[d] = "open", ~down' PROVE HeardBy(d, l)'
  <2>1. sock[d] = "open" /\ ~down /\ HeardBy(d, l) /\ joined' = joined
    BY <1>9 DEF Send, Heard
  <2>2. CASE d = c /\ l = k
    <3> DEFINE n == cast[k].no - joined[c][k] - 1
    <3>1. Missing(c, k) = 1 /\ Missing(c, k)' = 0
      BY <1>3, <1>4, <1>7 DEF Missing
    <3>2. n \in Nat /\ heard[c][k] = [i \in 1..n |-> joined[c][k] + i]
      BY <2>1, <2>2, <3>1 DEF HeardBy
    <3>3. joined[c][k] \in Nat /\ cast[k].no \in Nat /\ heard[c][k] \in Seq(Nat)
      BY <1>2 DEF FeedTyped, Casts
    <3>4. cast[k].no = joined[c][k] + n + 1 /\ cast'[k].no = cast[k].no
      BY <1>3, <1>4, <3>3
    <3>5. heard'[c][k] = Append(heard[c][k], joined[c][k] + n + 1)
      BY <1>5, <2>1, <2>2, <3>4
    <3> HIDE DEF n
    <3>6. heard'[c][k] = [i \in 1..(n + 1) |-> joined[c][k] + i]
      BY <3>2, <3>3, <3>5, HeardNext
    <3>7. cast'[k].no - joined'[c][k] - Missing(c, k)' = n + 1
      BY <2>1, <3>1, <3>2, <3>3, <3>4
    <3> QED BY <2>1, <2>2, <3>2, <3>6, <3>7 DEF HeardBy
  <2>3. CASE ~(d = c /\ l = k)
    <3>1. cast'[l].no = cast[l].no /\ Missing(d, l)' = Missing(d, l) /\ heard'[d][l] = heard[d][l]
      BY <1>3, <1>4, <1>5, <2>3 DEF Missing
    <3> QED BY <2>1, <3>1, HeardKept
  <2> QED BY <2>2, <2>3
<1> QED BY <1>6, <1>8, <1>9 DEF Heard

\* At the end only those are removed that are no longer connected.
LEMMA EndKeeps == ASSUME FeedInv, NEW k \in Casters, EndCast(k) PROVE FeedInv'
<1> USE DEF FeedInv
<1> DEFINE new == [Quiet EXCEPT !.no = cast[k].no]
<1>1. cast' = [cast EXCEPT ![k] = new]
  BY Zenon DEF EndCast
<1>2. cast[k].no \in Nat
  BY DEF Casts, FeedTyped
<1>3. new \in Casts
  BY <1>2, EndedTyped
<1>4. cast'[k] = new /\ \A l \in Casters \ {k} : cast'[l] = cast[l]
  BY <1>1 DEF FeedTyped
<1> HIDE DEF new
<1>5. new.no = cast[k].no /\ ~new.on /\ new.to = {} /\ new.todo = {} /\ new.failed = {}
  BY <1>2, EndedTyped DEF new
<1>6. FeedTyped'
  BY <1>1, <1>3, <1>4, <1>5 DEF FeedTyped, EndCast
<1>7. Registered'
  BY <1>4, <1>5 DEF Registered, EndCast, FeedTyped
<1>8. ASSUME NEW d \in Clients, NEW l \in Casters, sock'[d] = "open", ~down' PROVE HeardBy(d, l)'
  <2>1. HeardBy(d, l)
    BY <1>8 DEF EndCast, Heard
  <2>2. Missing(d, l)' = Missing(d, l) /\ cast'[l].no = cast[l].no
    BY <1>4, <1>5 DEF Missing, EndCast
  <2> QED BY <2>1, <2>2, HeardKept DEF EndCast
<1> QED BY <1>6, <1>7, <1>8 DEF Heard

LEMMA CloseKeeps == ASSUME FeedInv, CloseAll PROVE FeedInv'
BY DEF FeedInv, CloseAll, FeedTyped, Registered, Heard

\* No step of the feed loses or repeats what a client hears.
LEMMA FeedStepKeeps == ASSUME FeedInv, FeedStep \/ CloseAll PROVE FeedInv'
BY ConnectKeeps, LeaveKeeps, SendKeeps, EndKeeps, CloseKeeps DEF FeedStep

LEMMA FeedUnchanged == ASSUME FeedInv, UNCHANGED feedVars PROVE FeedInv'
BY DEF FeedInv, feedVars, FeedTyped, Registered, Heard, HeardBy, Missing

-----------------------------------------------------------------------------
(* The invariant of a cycle.                                               *)

Places == {"idle", "stage", "goal", "fetch", "raised", "save", "rate", "cast"}

Runs == [at : Places, n : Nat, plan : Nat, stage : Nat, try : Nat, goal : Nat,
         ok : BOOLEAN, allOk : BOOLEAN, asks : Nat, asked : Nat, served : Nat]

Signals == [asked : Nat, expires : Nat, is : {"none", "signal"}]
Registry == [dry : BOOLEAN, signal : Signals]
Snapshots == [Entities -> Entry]

BookFields == {"active", "labels", "rows", "lost", "rate", "rated", "said", "policies"}

\* What a cycle may do when a stage fails.
SomePolicies == {Plans[i].policy : i \in Nat}

LedgerTyped ==
  /\ DOMAIN books = BookFields
  /\ books.active \in Int /\ books.labels \in Seq({"success", "failed"})
  /\ books.said \in Seq(BOOLEAN) /\ books.policies \in Seq(SomePolicies)

CycleTyped ==
  /\ lim \in Limits /\ now \in Nat /\ faults \in Nat
  /\ run \in Runs /\ tools \in Seq(Registry) /\ run.plan \in 1..Len(tools)
  /\ seed \in Snapshots /\ acc \in Snapshots /\ graph \in Snapshots
  /\ table \in Actions \cup {"-"} /\ LedgerTyped
  /\ good \in SUBSET (1..run.n)
  /\ run.at # "idle" => run.n # 0

\* A decision that a snapshot holds was made by one of the cycles.
Told(snap, cycles) == snap["Decision"].says # "-" => snap["Decision"].by \in cycles

\* Every decision is of a cycle that succeeded, or of the one in progress, and
\* the latter's are nowhere but in its own snapshots.
Provenance ==
  /\ Told(seed, good)
  /\ InPipeline => Told(acc, good \cup {run.n})
  /\ run.at \in {"goal", "fetch"} => Told(graph, good \cup {run.n})
  /\ EffectsDecided

\* No entry of a cache outlives the request by more than its time to live, and no
\* request its own.
Timely(signal) == signal.is # "none" => signal.expires - signal.asked <= Ttl + HardTimeout

Asking == run.at = "fetch" => run.asks <= now /\ now - run.asks <= HardTimeout

Fresh ==
  /\ SignalFresh
  /\ Asking
  /\ \A i \in 1..Len(tools) : Timely(tools[i].signal)

\* The pipeline of a cycle raises where its policy is to halt, as soon as a stage
\* has failed; a cycle is good if no stage failed, and not before its end.
Booked ==
  /\ Accounts
  /\ books.lost \subseteq 1..SavedTo
  /\ Len(books.policies) = run.n
  /\ InPipeline => books.policies[run.n] = Plan.policy /\ run.n \notin good
  /\ run.at = "raised" => ~run.allOk /\ Plan.policy = "halt"
  /\ InPipeline /\ run.at # "raised" /\ Plan.policy = "halt" => run.allOk
  /\ run.at \in {"save", "rate", "cast"} => (run.allOk <=> run.n \in good)

CycleInv == CycleTyped /\ Provenance /\ Fresh /\ Booked

-----------------------------------------------------------------------------
(* What the steps are made of.                                             *)

LEMMA SnapshotsTyped ==
  /\ Blank \in Snapshots /\ Blank["Decision"].says = "-"
  /\ \A old, new \in Snapshots : Merged(old, new) \in Snapshots
  /\ \A snap \in Snapshots : \A keeps : Filtered(snap, keeps) \in Snapshots
<1>1. Never \in Entry
  BY DEF Never, Entry
<1>2. "Decision" \in Entities
  BY DEF Entities
<1>3. Blank \in Snapshots /\ Blank["Decision"].says = "-"
  BY <1>1, <1>2 DEF Blank, Snapshots, Never
<1>4. \A old, new \in Snapshots : Merged(old, new) \in Snapshots
  BY DEF Merged, Snapshots
<1>5. \A snap \in Snapshots : \A keeps : Filtered(snap, keeps) \in Snapshots
  BY <1>1 DEF Filtered, Snapshots
<1> QED BY <1>3, <1>4, <1>5

\* What is merged or filtered tells what it is made from.
LEMMA ToldKept ==
  ASSUME NEW cs
  PROVE  /\ \A old, new \in Snapshots : Told(old, cs) /\ Told(new, cs) => Told(Merged(old, new), cs)
         /\ \A snap \in Snapshots : \A keeps : Told(snap, cs) => Told(Filtered(snap, keeps), cs)
<1>1. "Decision" \in Entities /\ Never.says = "-"
  BY DEF Entities, Never
<1>2. \A old, new : Merged(old, new)["Decision"] \in {old["Decision"], new["Decision"]}
  BY <1>1 DEF Merged
<1>3. \A snap, keeps : Filtered(snap, keeps)["Decision"] \in {snap["Decision"], Never}
  BY <1>1 DEF Filtered
<1> QED BY <1>1, <1>2, <1>3 DEF Told

\* A settled goal, whatever its verdict.
LEMMA SettledTyped ==
  ASSUME run \in Runs, faults \in Nat, NEW ok \in BOOLEAN, Settled(ok)
  PROVE  /\ run' \in Runs /\ faults' \in Nat
         /\ run'.at = "goal" /\ run'.n = run.n /\ run'.plan = run.plan /\ run'.allOk = run.allOk
         /\ run'.served = run.served /\ run'.asked = run.asked
<1> DEFINE b == run.ok /\ ok
           g == run.goal + 1
<1>1. b \in BOOLEAN /\ g \in Nat
  BY DEF Runs
<1>2. run' = [run EXCEPT !.at = "goal", !.goal = g, !.ok = b]
  BY DEF Settled, Runs
<1>3. faults' \in Nat
  BY DEF Settled
<1> HIDE DEF b, g
<1>4. run' \in Runs
  BY <1>1, <1>2, Zenon DEF Runs, Places
<1>5. run'.at = "goal" /\ run'.n = run.n /\ run'.plan = run.plan
  BY <1>2 DEF Runs
<1>6. run'.served = run.served /\ run'.asked = run.asked /\ run'.allOk = run.allOk
  BY <1>2 DEF Runs
<1> QED BY <1>3, <1>4, <1>5, <1>6

\* What is written is an entry of the cycle.
LEMMA WroteTyped ==
  ASSUME graph \in Snapshots, run.n \in Nat, NEW e, NEW says \in Actions \cup {"-"}, Wrote(e, says),
         says = "-" \/ e = "Decision" \/ e = "Action"
  PROVE  /\ graph' \in Snapshots
         /\ \A cs : Told(graph, cs) => Told(graph', cs \cup {run.n})
<1>1. [by |-> run.n, says |-> says] \in Entry
  BY DEF Entry
<1>2. graph' \in Snapshots
  BY <1>1 DEF Wrote, Snapshots
<1>3. graph'["Decision"] \in {graph["Decision"], [by |-> run.n, says |-> says]}
  BY DEF Wrote, Snapshots, Entities
<1> QED BY <1>2, <1>3 DEF Told

\* The tools of the cycle.
LEMMA ToolsTyped ==
  ASSUME CycleTyped
  PROVE  Tools \in Registry /\ Tools.dry \in BOOLEAN /\ Cache \in Signals
<1>1. tools \in Seq(Registry) /\ run.plan \in 1..Len(tools)
  BY DEF CycleTyped
<1>2. tools[run.plan] \in Registry
  BY <1>1
<1> QED BY <1>2, Zenon DEF Tools, Cache, Registry

\* The cache of the cycle is replaced.
LEMMA CacheTyped ==
  ASSUME CycleTyped, NEW x \in Signals, tools' = [tools EXCEPT ![run.plan].signal = x]
  PROVE  /\ tools' \in Seq(Registry) /\ Len(tools') = Len(tools)
         /\ (\A i \in 1..Len(tools) : Timely(tools[i].signal)) /\ Timely(x)
              => \A i \in 1..Len(tools') : Timely(tools'[i].signal)
<1> DEFINE new == [tools[run.plan] EXCEPT !.signal = x]
<1>1. new \in Registry /\ new.signal = x
  <2>1. tools[run.plan] \in Registry
    BY ToolsTyped DEF Tools
  <2> QED BY <2>1 DEF Registry
<1>2. tools' = [tools EXCEPT ![run.plan] = new]
  BY DEF CycleTyped
<1> HIDE DEF new
<1>3. tools' \in Seq(Registry) /\ Len(tools') = Len(tools)
  BY <1>1, <1>2 DEF CycleTyped
<1>4. \A i \in 1..Len(tools) : tools'[i] = IF i = run.plan THEN new ELSE tools[i]
  BY <1>2 DEF CycleTyped
<1> QED BY <1>1, <1>3, <1>4

-----------------------------------------------------------------------------
(* The accounts.                                                           *)

LEMMA Counts ==
  ASSUME run.n \in Nat
  PROVE  /\ InPipeline => Through = run.n - 1 /\ SavedTo = run.n - 1 /\ SaidTo = run.n - 1
         /\ run.at = "save" => Through = run.n /\ SavedTo = run.n - 1 /\ SaidTo = run.n - 1
         /\ run.at = "rate" => Through = run.n /\ SavedTo = run.n /\ SaidTo = run.n - 1
         /\ run.at \in {"idle", "cast"} => Through = run.n /\ SavedTo = run.n /\ SaidTo = run.n
  BY DEF Through, SavedTo, SaidTo, InPipeline

LEMMA CountsNext ==
  ASSUME run'.n \in Nat
  PROVE  /\ InPipeline' => Through' = run'.n - 1 /\ SavedTo' = run'.n - 1 /\ SaidTo' = run'.n - 1
         /\ run'.at = "save" => Through' = run'.n /\ SavedTo' = run'.n - 1 /\ SaidTo' = run'.n - 1
         /\ run'.at = "rate" => Through' = run'.n /\ SavedTo' = run'.n /\ SaidTo' = run'.n - 1
         /\ run'.at \in {"idle", "cast"} => Through' = run'.n /\ SavedTo' = run'.n /\ SaidTo' = run'.n
  BY DEF Through, SavedTo, SaidTo, InPipeline

\* A step within the pipeline.
LEMMA InPipelineBooked ==
  ASSUME Booked, run.n \in Nat, InPipeline, InPipeline', books' = books, good' = good,
         run'.n = run.n, run'.plan = run.plan,
         run'.at = "raised" => ~run'.allOk /\ Plan.policy = "halt",
         run'.at # "raised" /\ Plan.policy = "halt" => run'.allOk
  PROVE  Booked'
<1>1. Plan' = Plan
  BY DEF Plan
<1>2. Through' = Through /\ SavedTo' = SavedTo /\ SaidTo' = SaidTo
  BY Counts, CountsNext
<1>3. run.at # "rate" /\ run'.at # "rate" /\ run'.at \notin {"save", "rate", "cast"}
  BY DEF InPipeline
<1>4. Accounts'
  BY <1>2, <1>3 DEF Booked, Accounts, DailyErrorRate
<1> QED BY <1>1, <1>2, <1>3, <1>4 DEF Booked

\* A step that leaves run, books and good alone.
LEMMA BookedKept ==
  ASSUME Booked, UNCHANGED <<run, books, good>>
  PROVE  Booked'
<1>1. Accounts' /\ InPipeline' = InPipeline /\ SavedTo' = SavedTo /\ Plan' = Plan
  BY DEF Booked, Accounts, DailyErrorRate, Through, SavedTo, SaidTo, InPipeline, Plan
<1> QED BY <1>1 DEF Booked

-----------------------------------------------------------------------------
(* The tools.                                                              *)

InStage == run.at \in {"goal", "fetch"}

\* What is left to show of a step of a tool.
LEMMA ToolKeeps ==
  ASSUME CycleInv, InStage, ToolLeaves,
         run' \in Runs, InStage', run'.n = run.n, run'.plan = run.plan, run'.allOk = run.allOk,
         faults' \in Nat, table' \in Actions \cup {"-"}, graph' \in Snapshots,
         Told(graph, good \cup {run.n}) => Told(graph', good \cup {run.n}),
         tools' \in Seq(Registry), Len(tools') = Len(tools), EffectsDecided', Fresh'
  PROVE  CycleInv'
<1> USE DEF CycleInv, ToolLeaves
<1>1. CycleTyped'
  <2>1. lim' \in Limits /\ now' \in Nat /\ seed' \in Snapshots /\ acc' \in Snapshots /\ LedgerTyped'
    BY DEF CycleTyped, LedgerTyped
  <2>2. good' \in SUBSET (1..run'.n) /\ run'.plan \in 1..Len(tools')
    BY DEF CycleTyped
  <2>3. run'.at # "idle" => run'.n # 0
    BY DEF CycleTyped, InStage
  <2> QED BY <2>1, <2>2, <2>3, Zenon DEF CycleTyped
<1>2. Provenance'
  BY DEF Provenance, InPipeline, InStage, Told
<1>3. Booked'
  <2>1. run.n \in Nat /\ InPipeline /\ InPipeline'
    BY DEF CycleTyped, Runs, InPipeline, InStage
  <2>2. run.at # "raised" /\ run'.at # "raised"
    BY DEF InStage
  <2>3. Plan.policy = "halt" => run'.allOk
    BY <2>1, <2>2 DEF Booked
  <2> QED BY <2>1, <2>2, <2>3, InPipelineBooked
<1> QED BY <1>1, <1>2, <1>3

\* A goal that is settled without asking an outside system for anything new.
LEMMA SettledKeeps ==
  ASSUME CycleInv, InStage, ToolLeaves, NEW ok \in BOOLEAN, Settled(ok),
         table' \in Actions \cup {"-"}, graph' \in Snapshots,
         Told(graph, good \cup {run.n}) => Told(graph', good \cup {run.n}),
         UNCHANGED tools, EffectsDecided'
  PROVE  CycleInv'
<1> USE DEF CycleInv, CycleTyped
<1>1. /\ run' \in Runs /\ faults' \in Nat /\ InStage'
      /\ run'.at = "goal" /\ run'.n = run.n /\ run'.plan = run.plan /\ run'.allOk = run.allOk
      /\ run'.served = run.served /\ run'.asked = run.asked
  BY SettledTyped DEF InStage
<1>2. Fresh'
  BY <1>1 DEF Fresh, SignalFresh, Asking, ToolLeaves
<1>3. tools' \in Seq(Registry) /\ Len(tools') = Len(tools)
  OBVIOUS
<1> QED BY <1>1, <1>2, <1>3, ToolKeeps

\* An entry that says nothing, or a decision of the cycle.
LEMMA WrittenKeeps ==
  ASSUME CycleInv, NEW e, NEW says \in Actions \cup {"-"}, Wrote(e, says),
         says = "-" \/ e = "Decision" \/ e = "Action"
  PROVE  /\ graph' \in Snapshots
         /\ Told(graph, good \cup {run.n}) => Told(graph', good \cup {run.n})
<1>1. graph \in Snapshots /\ run.n \in Nat
  BY DEF CycleInv, CycleTyped, Runs
<1>2. (good \cup {run.n}) \cup {run.n} = good \cup {run.n}
  OBVIOUS
<1> QED BY <1>1, <1>2, WroteTyped

LEMMA EffectsKept == ASSUME CycleInv, UNCHANGED <<effects, good>> PROVE EffectsDecided'
BY DEF CycleInv, Provenance, EffectsDecided

LEMMA VerdictTyped == Verdict \subseteq BOOLEAN
BY DEF Verdict

LEMMA LLMGoalKeeps == ASSUME CycleInv, LLMGoal PROVE CycleInv'
<1>1. InStage /\ ToolLeaves /\ UNCHANGED <<tools, table, effects>>
  BY DEF LLMGoal, AtGoal, InStage
<1>2. PICK e \in {Goal.writes, "Subject"}, ok \in (IF Provider = "stub" THEN {FALSE} ELSE Verdict) :
        /\ Settled(ok)
        /\ IF ok THEN \E says \in (IF e \in {"Decision", "Action"} THEN Says ELSE {"-"}) : Wrote(e, says)
           ELSE UNCHANGED graph
  BY DEF LLMGoal
<1>3. ok \in BOOLEAN
  BY <1>2, VerdictTyped
<1>4. EffectsDecided'
  BY <1>1, EffectsKept DEF ToolLeaves
<1>5. CASE ok
  <2>1. PICK says \in (IF e \in {"Decision", "Action"} THEN Says ELSE {"-"}) : Wrote(e, says)
    BY <1>2, <1>5
  <2>2. says \in Actions \cup {"-"} /\ (says = "-" \/ e = "Decision" \/ e = "Action")
    BY <2>1, BotCycleAssumption
  <2> QED BY <1>1, <1>2, <1>3, <1>4, <2>1, <2>2, WrittenKeeps, SettledKeeps DEF CycleInv, CycleTyped
<1>6. CASE ~ok
  BY <1>1, <1>2, <1>3, <1>4, <1>6, SettledKeeps DEF CycleInv, CycleTyped
<1> QED BY <1>5, <1>6

\* The tools that only read.
LEMMA ReadersKeep ==
  ASSUME CycleInv, SourceGoal \/ EnrichGoal \/ AnalyseGoal \/ ReadState
  PROVE  CycleInv'
<1>1. InStage /\ ToolLeaves /\ UNCHANGED <<tools, table, effects>>
  BY DEF SourceGoal, EnrichGoal, AnalyseGoal, ReadState, AtGoal, InStage
<1>2. PICK ok \in BOOLEAN : Settled(ok)
  BY DEF SourceGoal, EnrichGoal, AnalyseGoal, ReadState
<1>3. UNCHANGED graph \/ \E e : Wrote(e, "-")
  BY DEF SourceGoal, EnrichGoal, AnalyseGoal, ReadState
<1>4. EffectsDecided'
  BY <1>1, EffectsKept DEF ToolLeaves
<1>5. CASE UNCHANGED graph
  BY <1>1, <1>2, <1>4, <1>5, SettledKeeps DEF CycleInv, CycleTyped
<1>6. ASSUME NEW e, Wrote(e, "-") PROVE CycleInv'
  BY <1>1, <1>2, <1>4, <1>6, WrittenKeeps, SettledKeeps DEF CycleInv, CycleTyped
<1> QED BY <1>3, <1>5, <1>6

LEMMA WriteStateKeeps == ASSUME CycleInv, WriteState PROVE CycleInv'
<1>1. InStage /\ ToolLeaves /\ UNCHANGED <<tools, effects>> /\ Settled(TRUE) /\ Wrote("state", "-")
  BY DEF WriteState, AtGoal, InStage
<1>2. table' \in Actions \cup {"-"}
  <2>1. graph["Action"] \in Entry
    BY DEF CycleInv, CycleTyped, Snapshots, Entities
  <2> QED BY <2>1 DEF WriteState, Recorded, Entry, Actions
<1>3. EffectsDecided'
  BY <1>1, EffectsKept DEF ToolLeaves
<1> QED BY <1>1, <1>2, <1>3, WrittenKeeps, SettledKeeps

\* What the external system is asked to do is what a decision says.
LEMMA ActGoalKeeps == ASSUME CycleInv, ActGoal PROVE CycleInv'
<1>1. InStage /\ ToolLeaves /\ UNCHANGED <<graph, tools, table>>
  BY DEF ActGoal, AtGoal, InStage
<1> DEFINE decision == graph["Decision"]
<1>2. PICK o \in IF Tools.dry THEN NothingSent ELSE DispatchLive(decision.says) :
        /\ Settled(o.ok)
        /\ effects' = IF ~o.sent THEN effects
                      ELSE effects \cup {[cycle |-> run.n, stage |-> run.stage, try |-> run.try,
                                          goal |-> run.goal, by |-> decision.by]}
  BY DEF ActGoal
<1>3. o \in Outcome /\ (o.sent => decision.says # "-")
  BY <1>2 DEF DispatchLive, PrimaryEnds, EscalateEnds, DeferEnds, NothingSent
<1>4. o.ok \in BOOLEAN
  BY <1>3, VerdictTyped DEF Outcome
<1>5. EffectsDecided'
  <2>1. CASE ~o.sent
    BY <1>1, <1>2, <2>1, EffectsKept DEF ToolLeaves
  <2>2. CASE o.sent
    <3>1. decision.by \in good \cup {run.n}
      BY <1>1, <1>3, <2>2 DEF CycleInv, Provenance, Told, InStage
    <3>2. decision.by # 0
      BY <1>1, <3>1 DEF CycleInv, CycleTyped, InStage, Runs
    <3> DEFINE effect == [cycle |-> run.n, stage |-> run.stage, try |-> run.try,
                          goal |-> run.goal, by |-> decision.by]
    <3>3. effects' = effects \cup {effect} /\ good' = good
      BY <1>1, <1>2, <2>2 DEF ToolLeaves
    <3>4. effect.by = decision.by /\ effect.cycle = run.n
      OBVIOUS
    <3> HIDE DEF effect
    <3> QED BY <3>1, <3>2, <3>3, <3>4 DEF CycleInv, Provenance, EffectsDecided
  <2> QED BY <2>1, <2>2
<1> QED BY <1>1, <1>2, <1>4, <1>5, SettledKeeps DEF CycleInv, CycleTyped

\* A signal that is served, with or without a request.
LEMMA ServedTyped ==
  ASSUME run \in Runs, now \in Nat, NEW asked \in Nat, run' = Served(asked)
  PROVE  /\ run' \in Runs /\ run'.at = "goal" /\ run'.n = run.n /\ run'.plan = run.plan
         /\ run'.allOk = run.allOk /\ run'.asked = asked /\ run'.served = now
<1> DEFINE g == run.goal + 1
<1>1. g \in Nat
  BY DEF Runs
<1>2. run' = [run EXCEPT !.at = "goal", !.goal = g, !.asked = asked, !.served = now]
  BY DEF Served
<1> HIDE DEF g
<1>3. run' \in Runs
  BY <1>1, <1>2, Zenon DEF Runs, Places
<1>4. run'.at = "goal" /\ run'.n = run.n /\ run'.plan = run.plan
  BY <1>2 DEF Runs
<1>5. run'.allOk = run.allOk /\ run'.asked = asked /\ run'.served = now
  BY <1>2 DEF Runs
<1> QED BY <1>3, <1>4, <1>5

LEMMA SignalHitKeeps == ASSUME CycleInv, SignalHit PROVE CycleInv'
<1> USE DEF CycleInv, CycleTyped
<1>1. InStage /\ ToolLeaves /\ UNCHANGED <<tools, table, effects, faults>>
      /\ run' = Served(Cache.asked) /\ Wrote("raw", "-") /\ Cached
  BY DEF SignalHit, AtGoal, InStage
<1>2. Cache \in Signals
  BY ToolsTyped
<1>3. /\ run' \in Runs /\ run'.at = "goal" /\ run'.n = run.n /\ run'.plan = run.plan
      /\ run'.allOk = run.allOk /\ run'.asked = Cache.asked /\ run'.served = now
  BY <1>1, <1>2, ServedTyped DEF Signals
<1>4. Fresh'
  <2>1. Timely(Cache) /\ Cache.is # "none" /\ now <= Cache.expires
    BY <1>1 DEF Fresh, Cache, Tools, Cached
  <2>2. now - Cache.asked <= Ttl + HardTimeout
    BY <1>2, <2>1, BotCycleAssumption DEF Timely, Signals
  <2> QED BY <1>1, <1>3, <2>2 DEF Fresh, SignalFresh, Asking
<1>5. EffectsDecided' /\ tools' \in Seq(Registry) /\ Len(tools') = Len(tools)
  BY <1>1, EffectsKept DEF ToolLeaves
<1>6. InStage'
  BY <1>3 DEF InStage
<1> QED BY <1>1, <1>3, <1>4, <1>5, <1>6, WrittenKeeps, ToolKeeps

LEMMA SignalAskKeeps == ASSUME CycleInv, SignalAsk PROVE CycleInv'
<1> USE DEF CycleInv, CycleTyped
<1>1. InStage /\ ToolLeaves /\ UNCHANGED <<graph, table, effects, faults>>
      /\ run' = [run EXCEPT !.at = "fetch", !.asks = now]
      /\ tools' = [tools EXCEPT ![run.plan].signal = NoSignal]
  BY DEF SignalAsk, AtGoal, InStage
<1>2. run' \in Runs
  BY <1>1, Zenon DEF Runs, Places
<1>3. /\ run'.at = "fetch" /\ run'.n = run.n /\ run'.plan = run.plan /\ run'.allOk = run.allOk
      /\ run'.asks = now /\ run'.served = run.served /\ run'.asked = run.asked
  BY <1>1 DEF Runs
<1>4. NoSignal \in Signals /\ Timely(NoSignal)
  BY DEF NoSignal, Signals, Timely
<1>5. /\ tools' \in Seq(Registry) /\ Len(tools') = Len(tools)
      /\ \A i \in 1..Len(tools') : Timely(tools'[i].signal)
  BY <1>1, <1>4, CacheTyped DEF Fresh
<1>6. Fresh'
  BY <1>1, <1>3, <1>5, BotCycleAssumption DEF Fresh, SignalFresh, Asking, ToolLeaves, Timely
<1>7. EffectsDecided' /\ InStage'
  BY <1>1, <1>3, EffectsKept DEF ToolLeaves, InStage
<1> QED BY <1>1, <1>2, <1>3, <1>5, <1>6, <1>7, ToolKeeps

LEMMA SignalArrivesKeeps == ASSUME CycleInv, SignalArrives PROVE CycleInv'
<1> USE DEF CycleInv, CycleTyped
<1>1. InStage /\ ToolLeaves /\ UNCHANGED <<table, effects, faults>> /\ run.at = "fetch"
      /\ run' = Served(run.asks) /\ Wrote("raw", "-")
      /\ tools' = [tools EXCEPT ![run.plan].signal = Remembered(run.asks)]
  BY DEF SignalArrives, InStage
<1>2. run.asks \in Nat /\ run.asks <= now /\ now - run.asks <= HardTimeout
  BY <1>1 DEF Fresh, Asking, Runs
<1>3. /\ run' \in Runs /\ run'.at = "goal" /\ run'.n = run.n /\ run'.plan = run.plan
      /\ run'.allOk = run.allOk /\ run'.asked = run.asks /\ run'.served = now
  BY <1>1, <1>2, ServedTyped
<1>4. Remembered(run.asks) \in Signals
  BY <1>2, BotCycleAssumption DEF Remembered, NoSignal, Signals
<1>5. Timely(Remembered(run.asks))
  BY <1>2, BotCycleAssumption DEF Remembered, NoSignal, Timely
<1>6. /\ tools' \in Seq(Registry) /\ Len(tools') = Len(tools)
      /\ \A i \in 1..Len(tools') : Timely(tools'[i].signal)
  BY <1>1, <1>4, <1>5, CacheTyped DEF Fresh
<1>7. Fresh'
  <2>1. run'.served - run'.asked <= Ttl + HardTimeout
    BY <1>2, <1>3, BotCycleAssumption
  <2> QED BY <1>3, <1>6, <2>1 DEF Fresh, SignalFresh, Asking, Timely
<1>8. EffectsDecided' /\ InStage'
  BY <1>1, <1>3, EffectsKept DEF ToolLeaves, InStage
<1> QED BY <1>1, <1>3, <1>6, <1>7, <1>8, WrittenKeeps, ToolKeeps

LEMMA SignalFailsKeeps == ASSUME CycleInv, SignalFails PROVE CycleInv'
<1>1. InStage /\ ToolLeaves /\ UNCHANGED <<graph, tools, table, effects>> /\ Settled(TRUE)
  BY DEF SignalFails, InStage
<1>2. EffectsDecided'
  BY <1>1, EffectsKept DEF ToolLeaves
<1> QED BY <1>1, <1>2, SettledKeeps DEF CycleInv, CycleTyped

-----------------------------------------------------------------------------
(* The pipeline and the end of a cycle.                                    *)

LEMMA IdleTyped ==
  /\ Idle \in Runs
  /\ \A n : [Idle EXCEPT !.n = n].at = "idle" /\ [Idle EXCEPT !.n = n].n = n
  /\ \A n : [Idle EXCEPT !.n = n].served = 0 /\ [Idle EXCEPT !.n = n].asked = 0
  /\ \A n : [Idle EXCEPT !.n = n].plan = 1
BY DEF Idle, Runs, Places

\* What the metrics count is counted.
LEMMA CountedTyped ==
  ASSUME LedgerTyped, NEW i \in Nat
  PROVE  /\ books' = PipelineStarted(books, Plans[i].policy) => LedgerTyped'
         /\ books' = PipelineCompleted(books) => LedgerTyped'
         /\ books' = PipelineFailed(books) => LedgerTyped'
<1> DEFINE a == books.active + 1
           b == books.active - 1
           p == Plans[i].policy
<1>1. a \in Int /\ b \in Int /\ p \in SomePolicies
  BY DEF LedgerTyped, SomePolicies
<1>2. /\ PipelineStarted(books, p) = [books EXCEPT !.active = a, !.policies = Append(books.policies, p)]
      /\ PipelineCompleted(books) = [books EXCEPT !.active = b, !.labels = Append(books.labels, "success")]
      /\ PipelineFailed(books) = [books EXCEPT !.active = b, !.labels = Append(books.labels, "failed")]
  BY DEF PipelineStarted, PipelineCompleted, PipelineFailed
<1> HIDE DEF a, b, p
<1>3. /\ Append(books.labels, "success") \in Seq({"success", "failed"})
      /\ Append(books.labels, "failed") \in Seq({"success", "failed"})
      /\ Append(books.policies, p) \in Seq(SomePolicies)
  BY <1>1 DEF LedgerTyped
<1>4. ASSUME books' = PipelineStarted(books, p) PROVE LedgerTyped'
  BY <1>1, <1>2, <1>3, <1>4 DEF LedgerTyped, BookFields
<1>5. ASSUME books' = PipelineCompleted(books) PROVE LedgerTyped'
  BY <1>1, <1>2, <1>3, <1>5 DEF LedgerTyped, BookFields
<1>6. ASSUME books' = PipelineFailed(books) PROVE LedgerTyped'
  BY <1>1, <1>2, <1>3, <1>6 DEF LedgerTyped, BookFields
<1> QED BY <1>4, <1>5, <1>6 DEF p

\* Two sequences, one of them with a last element that is not in the other.
LEMMA Appended ==
  ASSUME NEW S, NEW seq \in Seq(S), NEW e \in S
  PROVE  /\ Len(Append(seq, e)) = Len(seq) + 1
         /\ \A n \in 1..Len(seq) : Append(seq, e)[n] = seq[n]
         /\ Append(seq, e)[Len(seq) + 1] = e
  OBVIOUS

LEMMA StartCycleKeeps == ASSUME CycleInv, StartCycle PROVE CycleInv'
<1> USE DEF CycleInv, StartCycle
<1> DEFINE n == run.n + 1
           p == Len(tools)
<1>1. n \in Nat /\ n # 0 /\ p \in Nat /\ p \in 1..Len(tools)
  BY DEF CycleTyped, Runs
<1>2. run' = [Idle EXCEPT !.at = "stage", !.n = n, !.plan = p]
  OBVIOUS
<1> HIDE DEF n, p
<1>3. run' \in Runs
  <2>1. Idle \in Runs
    BY IdleTyped
  <2> QED BY <1>1, <1>2, <2>1, Zenon DEF Runs, Places
<1>4. run'.at = "stage" /\ run'.n = n /\ run'.plan = p /\ run'.served = 0 /\ run'.asked = 0
  BY <1>2 DEF Idle
<1>5. CycleTyped'
  <2>1. LedgerTyped'
    BY <1>1, CountedTyped DEF CycleTyped, p
  <2>2. good' \in SUBSET (1..run'.n)
    BY <1>4 DEF CycleTyped, n, Runs
  <2> QED BY <1>1, <1>3, <1>4, <2>1, <2>2 DEF CycleTyped
<1>6. Provenance'
  BY <1>4 DEF Provenance, InPipeline, Told, EffectsDecided
<1>7. Fresh'
  BY <1>4, BotCycleAssumption DEF Fresh, SignalFresh, Asking, Timely
<1>8. Booked'
  <2> DEFINE m == run.n
             policy == Plans[p].policy
  <2>1. m \in Nat /\ n = m + 1 /\ good \subseteq 1..m /\ run.at = "idle" /\ run'.at = "stage"
    BY <1>4 DEF n, CycleTyped, Runs
  <2>2. /\ books'.policies = Append(books.policies, policy)
        /\ books'.active = books.active + 1 /\ books.active \in Int
        /\ books'.labels = books.labels /\ books'.rows = books.rows /\ books'.lost = books.lost
        /\ books'.rate = books.rate /\ books'.rated = books.rated /\ books'.said = books.said
    BY DEF PipelineStarted, CycleTyped, LedgerTyped, BookFields, p
  <2>3. policy \in SomePolicies /\ books.policies \in Seq(SomePolicies) /\ Len(books.policies) = m
    BY <1>1 DEF CycleTyped, LedgerTyped, SomePolicies, Booked
  <2>4. InPipeline' /\ Plan'.policy = policy /\ run'.allOk = TRUE
    BY <1>2, <1>4 DEF InPipeline, Plan, Idle
  <2> HIDE DEF m, policy
  <2>5. /\ Len(books'.policies) = m + 1 /\ books'.policies[m + 1] = policy
        /\ \A i \in 1..m : books'.policies[i] = books.policies[i]
    BY <2>2, <2>3, Appended
  <2> USE DEF m
  <2>6. Through = m /\ SavedTo = m /\ SaidTo = m
    BY <2>1, Counts
  <2>7. Through' = m /\ SavedTo' = m /\ SaidTo' = m /\ run'.n = m + 1
    BY <1>4, <2>1, <2>4, CountsNext
  <2>8. Accounts'
    <3>1. books'.active = run'.n - Through'
      BY <2>1, <2>2, <2>6, <2>7 DEF Booked, Accounts
    <3>2. \A i \in 1..m : books'.labels[i]
            = IF i \notin good /\ books'.policies[i] = "halt" THEN "failed" ELSE "success"
      <4> SUFFICES ASSUME NEW i \in 1..m
                   PROVE  books'.labels[i]
                            = IF i \notin good /\ books'.policies[i] = "halt" THEN "failed" ELSE "success"
        OBVIOUS
      <4>1. books.labels[i] = IF i \notin good /\ books.policies[i] = "halt" THEN "failed" ELSE "success"
        BY <2>6 DEF Booked, Accounts
      <4>2. books'.labels[i] = books.labels[i] /\ books'.policies[i] = books.policies[i]
        BY <2>2, <2>5
      <4> QED BY <4>1, <4>2
    <3>3. books'.rate = books.rate /\ DailyErrorRate(books') = DailyErrorRate(books)
      BY <2>2 DEF DailyErrorRate
    <3> QED BY <2>1, <2>2, <2>6, <2>7, <3>1, <3>2, <3>3 DEF Booked, Accounts
  <2>9. run'.n \notin good' /\ books'.lost \subseteq 1..SavedTo'
    BY <2>1, <2>2, <2>6, <2>7 DEF Booked
  <2> QED BY <1>4, <2>1, <2>4, <2>5, <2>7, <2>8, <2>9 DEF Booked
<1> QED BY <1>5, <1>6, <1>7, <1>8

LEMMA BeginAttemptKeeps == ASSUME CycleInv, BeginAttempt PROVE CycleInv'
<1> USE DEF CycleInv, BeginAttempt
<1>1. run' = [run EXCEPT !.at = "goal", !.goal = 1, !.ok = TRUE] /\ run \in Runs
  BY DEF CycleTyped
<1>2. run' \in Runs
  <2>1. 1 \in Nat
    OBVIOUS
  <2> QED BY <1>1, <2>1, Zenon DEF Runs, Places
<1>3. /\ run'.at = "goal" /\ run'.n = run.n /\ run'.plan = run.plan /\ run'.allOk = run.allOk
      /\ run'.served = run.served /\ run'.asked = run.asked
  BY <1>1 DEF Runs
<1>4. graph' = Blank \/ \E keeps : graph' = Filtered(acc, keeps)
  BY DEF Injected
<1>5. graph' \in Snapshots /\ Told(graph', good \cup {run.n})
  <2>1. Told(acc, good \cup {run.n}) /\ acc \in Snapshots
    BY DEF Provenance, InPipeline, CycleTyped
  <2>2. CASE graph' = Blank
    BY <2>2, SnapshotsTyped DEF Told
  <2>3. ASSUME NEW keeps, graph' = Filtered(acc, keeps)
        PROVE  graph' \in Snapshots /\ Told(graph', good \cup {run.n})
    BY <2>1, <2>3, SnapshotsTyped, ToldKept
  <2> QED BY <1>4, <2>2, <2>3
<1>6. CycleTyped'
  BY <1>2, <1>3, <1>5 DEF CycleTyped, LedgerTyped
<1>7. Provenance'
  BY <1>3, <1>5 DEF Provenance, InPipeline, EffectsDecided, Told
<1>8. Fresh'
  BY <1>3 DEF Fresh, SignalFresh, Asking, Timely
<1>9. Booked'
  <2>1. run.n \in Nat /\ InPipeline /\ InPipeline' /\ run.at # "raised" /\ run'.at # "raised"
    BY <1>1, <1>3 DEF Runs, InPipeline
  <2>2. Plan.policy = "halt" => run'.allOk
    BY <1>3, <2>1 DEF Booked
  <2> QED BY <1>3, <2>1, <2>2, InPipelineBooked
<1> QED BY <1>6, <1>7, <1>8, <1>9

\* The run after an attempt.
LEMMA EndAttemptTyped ==
  ASSUME run \in Runs, EndAttempt
  PROVE  /\ run' \in Runs /\ run'.at \in {"stage", "raised"} /\ (run'.at = "raised" => ~run'.allOk /\ Plan.policy = "halt")
         /\ (run'.at = "stage" /\ Plan.policy = "halt" => run'.allOk = run.allOk)
         /\ run'.n = run.n /\ run'.plan = run.plan
         /\ run'.served = run.served /\ run'.asked = run.asked
<1> DEFINE s == run.stage + 1
           t == run.try + 1
<1>1. s \in Nat /\ t \in Nat
  BY DEF Runs
<1>2. \/ run' = [run EXCEPT !.at = "stage", !.stage = s, !.try = 1, !.allOk = run.allOk]
      \/ run' = [run EXCEPT !.at = "stage", !.try = t]
      \/ run' = [run EXCEPT !.at = "raised", !.allOk = FALSE] /\ Plan.policy = "halt"
      \/ run' = [run EXCEPT !.at = "stage", !.stage = s, !.try = 1, !.allOk = FALSE] /\ Plan.policy # "halt"
  BY DEF EndAttempt, NextStage
<1> HIDE DEF s, t
<1>3. CASE run' = [run EXCEPT !.at = "stage", !.stage = s, !.try = 1, !.allOk = run.allOk]
  <2>1. run.allOk \in BOOLEAN
    BY Zenon DEF Runs
  <2>2. run' \in Runs
    BY <1>1, <1>3, <2>1, Zenon DEF Runs, Places
  <2> QED BY <1>3, <2>2 DEF Runs
<1>4. CASE run' = [run EXCEPT !.at = "stage", !.try = t]
  <2>1. run' \in Runs
    BY <1>1, <1>4, Zenon DEF Runs, Places
  <2> QED BY <1>4, <2>1 DEF Runs
<1>5. CASE run' = [run EXCEPT !.at = "raised", !.allOk = FALSE] /\ Plan.policy = "halt"
  <2>1. run' \in Runs
    BY <1>5, Zenon DEF Runs, Places
  <2> QED BY <1>5, <2>1 DEF Runs
<1>6. CASE run' = [run EXCEPT !.at = "stage", !.stage = s, !.try = 1, !.allOk = FALSE] /\ Plan.policy # "halt"
  <2>1. run' \in Runs
    BY <1>1, <1>6, Zenon DEF Runs, Places
  <2> QED BY <1>6, <2>1 DEF Runs
<1> QED BY <1>2, <1>3, <1>4, <1>5, <1>6

LEMMA EndAttemptKeeps == ASSUME CycleInv, EndAttempt PROVE CycleInv'
<1> USE DEF CycleInv
<1>1. /\ run' \in Runs /\ run'.at \in {"stage", "raised"} /\ (run'.at = "raised" => ~run'.allOk /\ Plan.policy = "halt")
      /\ (run'.at = "stage" /\ Plan.policy = "halt" => run'.allOk = run.allOk)
      /\ run'.n = run.n /\ run'.plan = run.plan
      /\ run'.served = run.served /\ run'.asked = run.asked
  BY EndAttemptTyped DEF CycleTyped
<1>2. /\ run.at = "goal" /\ graph' = Blank /\ acc' \in {acc, Merged(acc, graph)}
      /\ UNCHANGED <<lim, now, tools, seed, table, effects, books, good, faults>>
  BY DEF EndAttempt
<1>3. acc' \in Snapshots /\ Told(acc', good \cup {run.n})
  <2>1. /\ acc \in Snapshots /\ graph \in Snapshots
        /\ Told(acc, good \cup {run.n}) /\ Told(graph, good \cup {run.n})
    BY <1>2 DEF CycleTyped, Provenance, InPipeline
  <2>2. Merged(acc, graph) \in Snapshots /\ Told(Merged(acc, graph), good \cup {run.n})
    BY <2>1, SnapshotsTyped, ToldKept
  <2> QED BY <1>2, <2>1, <2>2
<1>4. CycleTyped'
  <2>1. graph' \in Snapshots
    BY <1>2, SnapshotsTyped
  <2> QED BY <1>1, <1>2, <1>3, <2>1 DEF CycleTyped, LedgerTyped
<1>5. Provenance'
  BY <1>1, <1>2, <1>3 DEF Provenance, InPipeline, EffectsDecided
<1>6. Fresh'
  BY <1>1, <1>2 DEF Fresh, SignalFresh, Asking, Timely
<1>7. Booked'
  <2>1. run.n \in Nat /\ InPipeline /\ InPipeline' /\ run.at # "raised"
    BY <1>1, <1>2 DEF CycleTyped, Runs, InPipeline
  <2>2. run'.at # "raised" /\ Plan.policy = "halt" => run'.allOk
    BY <1>1, <2>1 DEF Booked
  <2> QED BY <1>1, <1>2, <2>1, <2>2, InPipelineBooked
<1> QED BY <1>4, <1>5, <1>6, <1>7

LEMMA EndPipelineKeeps == ASSUME CycleInv, EndPipeline PROVE CycleInv'
<1> USE DEF CycleInv
<1>1. /\ run.at \in {"raised", "stage"} /\ run' = [run EXCEPT !.at = "save"] /\ run \in Runs
      /\ books' = Counted(run.at = "raised")
      /\ UNCHANGED <<lim, now, tools, acc, graph, table, effects, faults>>
  BY DEF EndPipeline, Ended, CycleTyped
<1>2. run' \in Runs
  BY <1>1, Zenon DEF Runs, Places
<1>3. /\ run'.at = "save" /\ run'.n = run.n /\ run'.plan = run.plan /\ run'.allOk = run.allOk
      /\ run'.served = run.served /\ run'.asked = run.asked
  BY <1>1 DEF Runs
<1>4. \/ seed' = acc /\ good' = good \cup {run.n} /\ run.allOk
      \/ seed' = seed /\ good' = good /\ ~run.allOk
  BY DEF EndPipeline
<1>5. LedgerTyped
  BY DEF CycleTyped
<1>6. CycleTyped'
  <2>1. LedgerTyped'
    BY <1>1, <1>5, CountedTyped DEF Counted
  <2>2. good' \in SUBSET (1..run'.n)
    BY <1>1, <1>3, <1>4 DEF CycleTyped, Runs
  <2> QED BY <1>1, <1>2, <1>3, <1>4, <2>1, <2>2 DEF CycleTyped
<1>7. Provenance'
  <2>1. Told(acc, good \cup {run.n})
    BY <1>1 DEF Provenance, InPipeline
  <2> QED BY <1>1, <1>3, <1>4, <2>1 DEF Provenance, InPipeline, EffectsDecided
<1>8. Fresh'
  BY <1>1, <1>3 DEF Fresh, SignalFresh, Asking, Timely
<1>9. Booked'
  <2> DEFINE n == run.n
             label == IF run.at = "raised" THEN "failed" ELSE "success"
  <2>1. n \in Nat /\ n # 0 /\ good \subseteq 1..n /\ InPipeline /\ n \notin good
    BY <1>1 DEF Runs, CycleTyped, Booked, InPipeline
  <2>2. /\ books'.active = books.active - 1 /\ books.active \in Int
        /\ books'.labels = Append(books.labels, label)
        /\ books'.policies = books.policies /\ books'.rows = books.rows /\ books'.lost = books.lost
        /\ books'.rate = books.rate /\ books'.rated = books.rated /\ books'.said = books.said
    BY <1>1, <1>5 DEF Counted, PipelineFailed, PipelineCompleted, LedgerTyped, BookFields
  <2>3. Through = n - 1 /\ SavedTo = n - 1 /\ SaidTo = n - 1
    BY <2>1, Counts
  <2>4. Through' = n /\ SavedTo' = n - 1 /\ SaidTo' = n - 1 /\ run'.n = n /\ ~InPipeline'
    BY <1>3, <2>1, CountsNext DEF InPipeline
  <2>5. label \in {"success", "failed"} /\ books.labels \in Seq({"success", "failed"})
        /\ Len(books.labels) = n - 1
    BY <1>5, <2>3 DEF LedgerTyped, Booked, Accounts
  <2> HIDE DEF label
  <2>6. /\ Len(books'.labels) = n /\ books'.labels[n] = label
        /\ \A i \in 1..(n - 1) : books'.labels[i] = books.labels[i]
    <3>1. /\ Len(books'.labels) = Len(books.labels) + 1 /\ books'.labels[Len(books.labels) + 1] = label
          /\ \A i \in 1..Len(books.labels) : books'.labels[i] = books.labels[i]
      BY <2>2, <2>5, Appended
    <3> QED BY <2>1, <2>5, <3>1
  <2>7. /\ \A i \in 1..(n - 1) : (i \in good' <=> i \in good)
        /\ (n \in good' <=> run.allOk)
    BY <1>4, <2>1
  <2>8. label = IF n \notin good' /\ books.policies[n] = "halt" THEN "failed" ELSE "success"
    <3>1. books.policies[n] = Plan.policy
      BY <2>1 DEF Booked
    <3> QED BY <1>1, <2>1, <2>7, <3>1 DEF Booked, label
  <2>9. Accounts'
    <3>1. books'.active = run'.n - Through'
      BY <2>1, <2>2, <2>3, <2>4 DEF Booked, Accounts
    <3>2. \A i \in 1..n : books'.labels[i]
            = IF i \notin good' /\ books'.policies[i] = "halt" THEN "failed" ELSE "success"
      <4> SUFFICES ASSUME NEW i \in 1..n
                   PROVE  books'.labels[i]
                            = IF i \notin good' /\ books'.policies[i] = "halt" THEN "failed" ELSE "success"
        OBVIOUS
      <4>3. books'.policies = books.policies
        BY <2>2
      <4>1. CASE i = n
        BY <2>6, <2>8, <4>1, <4>3
      <4>2. CASE i \in 1..(n - 1)
        <5>1. books.labels[i] = IF i \notin good /\ books.policies[i] = "halt" THEN "failed" ELSE "success"
          BY <2>3, <4>2 DEF Booked, Accounts
        <5>2. books'.labels[i] = books.labels[i] /\ (i \in good' <=> i \in good)
          BY <2>6, <2>7, <4>2
        <5> QED BY <4>3, <5>1, <5>2
      <4> QED BY <2>1, <4>1, <4>2
    <3>3. \A row \in books'.rows : row.success <=> row.cycle \in good'
      <4> SUFFICES ASSUME NEW row \in books.rows PROVE row.success <=> row.cycle \in good'
        BY <2>2
      <4>1. row.cycle \in 1..(n - 1)
        BY <2>3 DEF Booked, Accounts
      <4> QED BY <2>7, <4>1 DEF Booked, Accounts
    <3>4. \A i \in 1..(n - 1) : books'.said[i] <=> i \in good'
      BY <2>2, <2>3, <2>7 DEF Booked, Accounts
    <3>5. books'.rated => books'.rate = DailyErrorRate(books')
      BY <2>1, <2>2 DEF Booked, Accounts, DailyErrorRate, InPipeline
    <3>6. {row.cycle : row \in books'.rows} = (1..SavedTo') \ books'.lost
      BY <2>2, <2>3, <2>4 DEF Booked, Accounts
    <3>7. Len(books'.said) = SaidTo'
      BY <2>2, <2>3, <2>4 DEF Booked, Accounts
    <3> QED BY <2>4, <2>6, <3>1, <3>2, <3>3, <3>4, <3>5, <3>6, <3>7 DEF Accounts
  <2>10. books'.lost \subseteq 1..SavedTo' /\ Len(books'.policies) = run'.n
    BY <2>2, <2>3, <2>4 DEF Booked
  <2> QED BY <1>3, <2>4, <2>7, <2>9, <2>10 DEF Booked
<1> QED BY <1>6, <1>7, <1>8, <1>9

LEMMA SaveRunKeeps == ASSUME CycleInv, SaveRun PROVE CycleInv'
<1> USE DEF CycleInv
<1>1. /\ run.at = "save" /\ run' = [run EXCEPT !.at = "rate"] /\ run \in Runs /\ LedgerTyped
      /\ faults \in Nat /\ UNCHANGED <<lim, now, tools, seed, acc, graph, table, effects, good>>
  BY DEF SaveRun, CycleTyped
<1>2. run' \in Runs
  BY <1>1, Zenon DEF Runs, Places
<1>3. /\ run'.at = "rate" /\ run'.n = run.n /\ run'.plan = run.plan /\ run'.allOk = run.allOk
      /\ run'.served = run.served /\ run'.asked = run.asked
  BY <1>1 DEF Runs
<1> DEFINE n == run.n
           row == [cycle |-> n, success |-> run.allOk]
<1>4. /\ faults' \in Nat
      /\ \/ books' = [books EXCEPT !.rows = books.rows \cup {row}]
         \/ books' = [books EXCEPT !.lost = books.lost \cup {n}]
  BY <1>1 DEF SaveRun, SavedRow
<1>5. LedgerTyped'
  BY <1>1, <1>4 DEF LedgerTyped, BookFields
<1>6. /\ books'.active = books.active /\ books'.labels = books.labels /\ books'.said = books.said
      /\ books'.policies = books.policies
      /\ \/ books'.rows = books.rows \cup {row} /\ books'.lost = books.lost
         \/ books'.rows = books.rows /\ books'.lost = books.lost \cup {n}
  BY <1>1, <1>4 DEF LedgerTyped, BookFields
<1>7. CycleTyped'
  BY <1>1, <1>2, <1>3, <1>4, <1>5 DEF CycleTyped
<1>8. Provenance'
  BY <1>1, <1>3 DEF Provenance, InPipeline, EffectsDecided
<1>9. Fresh'
  BY <1>1, <1>3 DEF Fresh, SignalFresh, Asking, Timely
<1>10. Booked'
  <2>1. n \in Nat /\ n # 0 /\ (run.allOk <=> n \in good)
    BY <1>1 DEF Runs, Booked, CycleTyped
  <2>2. Through = n /\ SavedTo = n - 1 /\ SaidTo = n - 1
    BY <1>1, <2>1, Counts
  <2>3. Through' = n /\ SavedTo' = n /\ SaidTo' = n - 1 /\ run'.n = n /\ ~InPipeline'
    BY <1>3, <2>1, CountsNext DEF InPipeline
  <2>4. {r.cycle : r \in books.rows} = (1..(n - 1)) \ books.lost /\ books.lost \subseteq 1..(n - 1)
    BY <2>2 DEF Booked, Accounts
  <2>5. 1..n = (1..(n - 1)) \cup {n} /\ n \notin 1..(n - 1)
    BY <2>1
  <2>6. {r.cycle : r \in books'.rows} = (1..n) \ books'.lost
    <3>1. row.cycle = n
      OBVIOUS
    <3> HIDE DEF row, n
    <3>2. CASE books'.rows = books.rows \cup {row} /\ books'.lost = books.lost
      <4>1. {r.cycle : r \in books'.rows} = {r.cycle : r \in books.rows} \cup {n}
        BY <3>1, <3>2
      <4> QED BY <2>4, <2>5, <3>2, <4>1
    <3>3. CASE books'.rows = books.rows /\ books'.lost = books.lost \cup {n}
      BY <2>4, <2>5, <3>3
    <3> QED BY <1>6, <3>2, <3>3
  <2>7. \A r \in books'.rows : r.success <=> r.cycle \in good'
    <3>1. row.success <=> row.cycle \in good
      BY <2>1
    <3> HIDE DEF row
    <3>2. \A r \in books.rows : r.success <=> r.cycle \in good
      BY DEF Booked, Accounts
    <3> QED BY <1>1, <1>6, <3>1, <3>2
  <2>8. Accounts'
    BY <1>1, <1>3, <1>6, <2>2, <2>3, <2>6, <2>7 DEF Booked, Accounts
  <2>9. books'.lost \subseteq 1..SavedTo'
    BY <1>6, <2>3, <2>4, <2>5
  <2> QED BY <1>1, <1>3, <1>6, <2>1, <2>3, <2>8, <2>9 DEF Booked
<1> QED BY <1>7, <1>8, <1>9, <1>10

LEMMA UpdateRateKeeps == ASSUME CycleInv, UpdateRate PROVE CycleInv'
<1> USE DEF CycleInv
<1>1. /\ run.at = "rate" /\ run' = [run EXCEPT !.at = "cast"] /\ run \in Runs /\ LedgerTyped
      /\ faults \in Nat /\ UNCHANGED <<lim, now, tools, seed, acc, graph, table, effects, good>>
  BY DEF UpdateRate, CycleTyped
<1>2. run' \in Runs
  BY <1>1, Zenon DEF Runs, Places
<1>3. /\ run'.at = "cast" /\ run'.n = run.n /\ run'.plan = run.plan /\ run'.allOk = run.allOk
      /\ run'.served = run.served /\ run'.asked = run.asked
  BY <1>1 DEF Runs
<1> DEFINE said == Append(books.said, run.allOk)
           rate == DailyErrorRate(books)
<1>4. /\ faults' \in Nat
      /\ \/ books' = [books EXCEPT !.rate = rate, !.rated = TRUE, !.said = said]
         \/ books' = [books EXCEPT !.rated = FALSE, !.said = said]
  BY <1>1 DEF UpdateRate
<1>5. /\ DOMAIN books' = BookFields /\ books'.said = said
      /\ books'.active = books.active /\ books'.labels = books.labels /\ books'.rows = books.rows
      /\ books'.lost = books.lost /\ books'.policies = books.policies
      /\ books'.rated => books'.rate = rate
  <2> HIDE DEF said, rate
  <2> QED BY <1>1, <1>4 DEF LedgerTyped, BookFields
<1>10. LedgerTyped'
  <2>1. said \in Seq(BOOLEAN)
    <3>1. run.allOk \in BOOLEAN /\ books.said \in Seq(BOOLEAN)
      BY <1>1, Zenon DEF Runs, LedgerTyped
    <3> QED BY <3>1
  <2> QED BY <1>1, <1>5, <2>1 DEF LedgerTyped
<1>6. CycleTyped'
  BY <1>1, <1>2, <1>3, <1>4, <1>10 DEF CycleTyped
<1>7. Provenance'
  BY <1>1, <1>3 DEF Provenance, InPipeline, EffectsDecided
<1>8. Fresh'
  BY <1>1, <1>3 DEF Fresh, SignalFresh, Asking, Timely
<1>9. Booked'
  <2> DEFINE n == run.n
  <2>1. n \in Nat /\ n # 0 /\ (run.allOk <=> n \in good)
    BY <1>1 DEF Runs, Booked, CycleTyped
  <2>2. Through = n /\ SavedTo = n /\ SaidTo = n - 1
    BY <1>1, <2>1, Counts
  <2>3. Through' = n /\ SavedTo' = n /\ SaidTo' = n /\ run'.n = n /\ ~InPipeline'
    BY <1>3, <2>1, CountsNext DEF InPipeline
  <2>4. /\ Len(books'.said) = n /\ books'.said[n] = run.allOk
        /\ \A i \in 1..(n - 1) : books'.said[i] = books.said[i]
    <3>1. run.allOk \in BOOLEAN /\ books.said \in Seq(BOOLEAN) /\ Len(books.said) = n - 1
      BY <1>1, <2>2, Zenon DEF Runs, LedgerTyped, Booked, Accounts
    <3>2. /\ Len(said) = Len(books.said) + 1 /\ said[Len(books.said) + 1] = run.allOk
          /\ \A i \in 1..Len(books.said) : said[i] = books.said[i]
      BY <3>1, Appended
    <3> HIDE DEF said
    <3> QED BY <1>5, <2>1, <3>1, <3>2
  <2>5. \A i \in 1..n : books'.said[i] <=> i \in good
    <3> SUFFICES ASSUME NEW i \in 1..n PROVE books'.said[i] <=> i \in good
      OBVIOUS
    <3>1. CASE i = n
      BY <2>1, <2>4, <3>1
    <3>2. CASE i \in 1..(n - 1)
      BY <2>2, <2>4, <3>2 DEF Booked, Accounts
    <3> QED BY <2>1, <3>1, <3>2
  <2>6. books'.rated => books'.rate = DailyErrorRate(books')
    BY <1>5 DEF DailyErrorRate
  <2> HIDE DEF said, rate
  <2>7. Accounts'
    BY <1>1, <1>5, <2>2, <2>3, <2>4, <2>5, <2>6 DEF Booked, Accounts
  <2>8. books'.lost \subseteq 1..SavedTo' /\ Len(books'.policies) = run'.n
    BY <1>5, <2>2, <2>3 DEF Booked
  <2> QED BY <1>1, <1>3, <2>1, <2>3, <2>7, <2>8 DEF Booked
<1> QED BY <1>6, <1>7, <1>8, <1>9

LEMMA EndCycleKeeps == ASSUME CycleInv, EndCycle PROVE CycleInv'
<1> USE DEF CycleInv
<1>1. /\ run.at = "cast" /\ run' = [Idle EXCEPT !.n = run.n] /\ run \in Runs /\ acc' = Blank
      /\ UNCHANGED <<lim, now, tools, seed, graph, table, effects, books, good, faults>>
  BY DEF EndCycle, CycleTyped
<1>2. run' \in Runs
  <2>1. run.n \in Nat
    BY <1>1 DEF Runs
  <2> QED BY <1>1, <2>1, IdleTyped, Zenon DEF Runs
<1>3. run'.at = "idle" /\ run'.n = run.n /\ run'.plan = 1 /\ run'.served = 0 /\ run'.asked = 0
  BY <1>1, IdleTyped
<1>4. CycleTyped'
  BY <1>1, <1>2, <1>3, SnapshotsTyped DEF CycleTyped, LedgerTyped
<1>5. Provenance'
  BY <1>1, <1>3 DEF Provenance, InPipeline, EffectsDecided
<1>6. Fresh'
  BY <1>1, <1>3, BotCycleAssumption DEF Fresh, SignalFresh, Asking, Timely
<1>7. Booked'
  <2>1. run.n \in Nat
    BY <1>1 DEF Runs
  <2>2. /\ Through' = Through /\ SavedTo' = SavedTo /\ SaidTo' = SaidTo
        /\ ~InPipeline'
    BY <1>1, <1>3, <2>1, Counts, CountsNext DEF InPipeline
  <2>3. Accounts'
    BY <1>1, <1>3, <2>2 DEF Booked, Accounts, DailyErrorRate
  <2> QED BY <1>1, <1>3, <2>2, <2>3 DEF Booked
<1> QED BY <1>4, <1>5, <1>6, <1>7

\* What leaves the cycle alone.
CycleVars == <<run, acc, graph, table, effects, seed, books, good, faults, lim>>

LEMMA AroundKeeps ==
  ASSUME CycleInv, UNCHANGED CycleVars, now' \in Nat, tools' \in Seq(Registry), Len(tools') >= Len(tools), Fresh'
  PROVE  CycleInv'
<1> USE DEF CycleInv, CycleVars
<1>1. CycleTyped'
  BY DEF CycleTyped, LedgerTyped
<1>2. Provenance'
  BY DEF Provenance, InPipeline, EffectsDecided
<1>3. Booked'
  BY BookedKept
<1> QED BY <1>1, <1>2, <1>3

LEMMA ReloadKeeps == ASSUME CycleInv, Reload PROVE CycleInv'
<1> USE DEF CycleInv
<1>1. /\ tools' = Append(tools, ToolRegistry) /\ now' = now /\ now \in Nat /\ run' = run
      /\ UNCHANGED CycleVars /\ tools \in Seq(Registry)
  BY DEF Reload, data, CycleVars, CycleTyped
<1>2. ToolRegistry \in Registry /\ Timely(ToolRegistry.signal)
  <2>1. lim.dry \in BOOLEAN
    BY BotCycleAssumption DEF CycleTyped
  <2>2. NoSignal \in Signals /\ Timely(NoSignal)
    BY DEF NoSignal, Signals, Timely
  <2>3. ToolRegistry.signal = NoSignal
    BY DEF ToolRegistry
  <2> QED BY <2>1, <2>2, <2>3, Zenon DEF ToolRegistry, Registry
<1>3. /\ tools' \in Seq(Registry) /\ Len(tools') = Len(tools) + 1
      /\ \A i \in 1..Len(tools') : tools'[i] = IF i = Len(tools) + 1 THEN ToolRegistry ELSE tools[i]
  BY <1>1, <1>2
<1>4. Fresh'
  <2>1. \A i \in 1..Len(tools') : Timely(tools'[i].signal)
    BY <1>1, <1>2, <1>3 DEF Fresh
  <2> QED BY <1>1, <2>1 DEF Fresh, SignalFresh, Asking, Timely
<1> QED BY <1>1, <1>3, <1>4, AroundKeeps

LEMMA TickKeeps == ASSUME CycleInv, Tick PROVE CycleInv'
<1> USE DEF CycleInv
<1>1. /\ now' = now + 1 /\ now \in Nat /\ run' = run /\ tools' = tools /\ run \in Runs
      /\ (run.at = "fetch" => now - run.asks < HardTimeout)
      /\ UNCHANGED CycleVars /\ tools \in Seq(Registry)
  BY DEF Tick, data, CycleVars, CycleTyped
<1>2. Asking'
  BY <1>1, BotCycleAssumption DEF Fresh, Asking, Runs
<1>3. Fresh'
  BY <1>1, <1>2 DEF Fresh, SignalFresh, Timely
<1> QED BY <1>1, <1>3, AroundKeeps

\* The feed, and the emergency stop, leave the cycle alone.
LEMMA OthersKeep == ASSUME CycleInv, Halt \/ Feed \/ UNCHANGED vars PROVE CycleInv'
<1>1. UNCHANGED <<CycleVars, now, tools>>
  BY DEF Halt, Feed, vars, data, CycleVars
<1>2. Fresh'
  BY <1>1 DEF CycleInv, Fresh, SignalFresh, Asking, Timely, CycleVars
<1> QED BY <1>1, <1>2, AroundKeeps DEF CycleInv, CycleTyped

LEMMA NextKeepsCycle == ASSUME CycleInv, [Next]_vars PROVE CycleInv'
BY StartCycleKeeps, BeginAttemptKeeps, EndAttemptKeeps, EndPipelineKeeps, LLMGoalKeeps, ReadersKeep,
   SignalHitKeeps, SignalAskKeeps, SignalArrivesKeeps, SignalFailsKeeps, WriteStateKeeps, ActGoalKeeps,
   SaveRunKeeps, UpdateRateKeeps, EndCycleKeeps, ReloadKeeps, TickKeeps, OthersKeep DEF Next

\* Of the steps of the bot, only those that broadcast concern the feed.
LEMMA NextKeepsFeed == ASSUME FeedInv, [Next]_vars PROVE FeedInv'
<1>1. CASE UpdateRate \/ Halt
  BY <1>1, BeginKeeps DEF UpdateRate, Halt, Casters
<1>2. CASE Feed
  BY <1>2, FeedStepKeeps DEF Feed
<1>3. CASE UNCHANGED feedVars
  BY <1>3, FeedUnchanged
<1>4. \/ UpdateRate \/ Halt \/ Feed
      \/ UNCHANGED feedVars
  BY DEF Next, vars, StartCycle, BeginAttempt, EndAttempt, EndPipeline, ToolLeaves,
         LLMGoal, SourceGoal, EnrichGoal, SignalHit, SignalAsk, SignalArrives, SignalFails,
         AnalyseGoal, ReadState, WriteState, ActGoal, SaveRun, EndCycle, Reload, Tick
<1> QED BY <1>1, <1>2, <1>3, <1>4

LEMMA InitKeeps == ASSUME Init PROVE FeedInv /\ CycleInv
<1> USE DEF Init
<1>1. FeedInv
  BY FeedInitInv
<1>2. /\ run = Idle /\ Idle \in Runs /\ run.at = "idle" /\ run.n = 0 /\ run.plan = 1
      /\ run.served = 0 /\ run.asked = 0
  <2>1. Idle \in Runs
    BY IdleTyped
  <2>2. Idle.at = "idle" /\ Idle.n = 0 /\ Idle.plan = 1 /\ Idle.served = 0 /\ Idle.asked = 0
    BY DEF Idle
  <2> QED BY <2>1, <2>2
<1>3. NoSignal \in Signals /\ Timely(NoSignal)
  BY DEF NoSignal, Signals, Timely
<1>4. ToolRegistry \in Registry /\ ToolRegistry.signal = NoSignal
  <2>1. lim.dry \in BOOLEAN
    BY BotCycleAssumption
  <2>2. ToolRegistry.signal = NoSignal
    BY DEF ToolRegistry
  <2> QED BY <1>3, <2>1, <2>2, Zenon DEF ToolRegistry, Registry
<1>5. /\ tools \in Seq(Registry) /\ Len(tools) = lim.first /\ lim.first \in Nat \ {0}
      /\ \A i \in 1..Len(tools) : tools[i] = ToolRegistry
  <2>1. lim.first \in Nat \ {0}
    BY BotCycleAssumption
  <2> QED BY <1>4, <2>1
<1>6. LedgerTyped
  <2>1. <<>> \in Seq({"success", "failed"}) /\ <<>> \in Seq(BOOLEAN) /\ <<>> \in Seq(SomePolicies)
    OBVIOUS
  <2> QED BY <2>1 DEF LedgerTyped, BookFields, NoBooks
<1>7. CycleTyped
  BY <1>2, <1>5, <1>6, SnapshotsTyped DEF CycleTyped
<1>8. Provenance
  BY <1>2, SnapshotsTyped DEF Provenance, InPipeline, EffectsDecided, Told
<1>9. Fresh
  BY <1>2, <1>3, <1>4, <1>5, BotCycleAssumption DEF Fresh, SignalFresh, Asking
<1>10. Booked
  <2>1. /\ books.active = 0 /\ books.labels = <<>> /\ books.rows = {} /\ books.lost = {}
        /\ books.rate = <<0, 0>> /\ books.said = <<>> /\ books.policies = <<>> /\ good = {}
    BY DEF NoBooks
  <2> HIDE DEF Init
  <2>2. run.n = 0 /\ run.at = "idle" /\ ~InPipeline
    BY <1>2 DEF InPipeline
  <2>3. Through = 0 /\ SavedTo = 0 /\ SaidTo = 0
    BY <2>2, Counts
  <2>4. Len(books.labels) = 0 /\ Len(books.said) = 0 /\ Len(books.policies) = 0 /\ 1..0 = {}
    BY <2>1
  <2>5. books.rate = DailyErrorRate(books)
    <3>1. {row \in books.rows : ~row.success} = {} /\ Cardinality({}) = 0
      BY <2>1, FS_EmptySet
    <3> QED BY <2>1, <3>1 DEF DailyErrorRate
  <2>6. {row.cycle : row \in books.rows} = (1..0) \ books.lost
    BY <2>1, <2>4
  <2>7. Accounts
    <3>1. books.active = run.n - Through /\ Len(books.labels) = Through /\ Len(books.said) = SaidTo
      BY <2>1, <2>2, <2>3, <2>4
    <3>2. \A row \in books.rows : row.success <=> row.cycle \in good
      BY <2>1
    <3>3. 1..Through = {} /\ 1..SaidTo = {} /\ {row.cycle : row \in books.rows} = (1..SavedTo) \ books.lost
      BY <2>3, <2>4, <2>6
    <3>4. \A i \in {} : FALSE
      OBVIOUS
    <3>5. \A i \in 1..Through : books.labels[i]
            = IF i \notin good /\ books.policies[i] = "halt" THEN "failed" ELSE "success"
      BY <3>3, <3>4, Zenon
    <3>6. \A i \in 1..SaidTo : books.said[i] <=> i \in good
      BY <3>3, <3>4, Zenon
    <3> QED BY <2>5, <3>1, <3>2, <3>3, <3>5, <3>6, Zenon DEF Accounts
  <2> QED BY <2>1, <2>2, <2>3, <2>4, <2>7 DEF Booked
<1> QED BY <1>1, <1>7, <1>8, <1>9, <1>10 DEF CycleInv

-----------------------------------------------------------------------------
(* The theorems.                                                           *)

\* The bot's cycle and the feed keep their state in their types.
THEOREM TypeCorrect == Spec => []TypeOK
<1>1. FeedInv /\ CycleInv => TypeOK
  BY FeedInvHears DEF CycleInv, CycleTyped, Snapshots, TypeOK, Runs, Places
<1> QED BY <1>1, InitKeeps, NextKeepsFeed, NextKeepsCycle, PTL DEF Spec

\* A client whose connection holds hears every broadcast since it was registered,
\* once and in order, for any number of clients that come, leave and fail.
THEOREM NobodyMisses == Spec => []HearsAll
<1>1. FeedInv => HearsAll
  BY FeedInvHears
<1> QED BY <1>1, InitKeeps, NextKeepsFeed, PTL DEF Spec

\* What the external system did goes back to a decision of the same cycle, or of
\* an earlier one that succeeded, under any pipeline file, workflows and failures.
THEOREM ActionsDecided == Spec => []EffectsDecided
<1>1. CycleInv => EffectsDecided
  BY DEF CycleInv, Provenance
<1> QED BY <1>1, InitKeeps, NextKeepsCycle, PTL DEF Spec

\* No cycle is served a signal older than the time to live and a request.
THEOREM SignalsFresh == Spec => []SignalFresh
<1>1. CycleInv => SignalFresh
  BY DEF CycleInv, Fresh
<1> QED BY <1>1, InitKeeps, NextKeepsCycle, PTL DEF Spec

\* For any number of cycles, whichever of them fail and whichever rows are lost: the
\* row and the broadcast of each say whether all its stages succeeded, and the error
\* rate is that of the rows; the metrics label it so only where the policy is to
\* halt, and a success otherwise.
THEOREM AccountsAgree == Spec => []Accounts
<1>1. CycleInv => Accounts
  BY DEF CycleInv, Booked
<1> QED BY <1>1, InitKeeps, NextKeepsCycle, PTL DEF Spec
=============================================================================
