-------------------------------- MODULE Agent --------------------------------
(***************************************************************************)
(* The demo agent around its session: the commands of a user, through a    *)
(* watch file, Signal messages, a prompt or the command line; the loop of  *)
(* observing, acting, learning and answering; the episode store and the    *)
(* state it leaves on disk; Ctrl-C, a kill and a restart.                  *)
(***************************************************************************)
EXTENDS AgentSession

CONSTANTS
  Modes,             \* of {"file", "signal", "repl", "one_shot"}
  Senders, Allowed,  \* of Signal messages; Allowed = {} allows all
  Pattern,           \* command -> its normalised goal pattern
  Mission,           \* the patterns that match the mission; {} without one
  Prior,             \* the episodes of earlier processes
  Ticking,           \* observe_interval > 0
  MaxCycles, MaxRecent, Scanned, MaxSeen,
  MaxSends, MaxStarts, MaxFaults   \* bounds: messages, processes, what goes wrong

NoMessage == [text |-> None, from |-> None, ts |-> 0, raw |-> FALSE]

\* by: the process that wrote it; 0 before the first of the model.
Episodes == [cycle : Nat, pattern : Range(Pattern), ok : BOOLEAN, good : BOOLEAN, by : Nat]

\* One of the lines has the highest number.
HasTop(lines) ==
  \/ lines = <<>>
  \/ \E k \in DOMAIN lines : \A i \in DOMAIN lines : lines[i].cycle <= lines[k].cycle

ASSUME AgentAssumption ==
  /\ Modes \subseteq {"file", "signal", "repl", "one_shot"}
  /\ Ticking \in BOOLEAN
  /\ {MaxCycles, MaxSends, MaxFaults} \subseteq Nat
  /\ {MaxRecent, Scanned, MaxSeen, MaxStarts} \subseteq Nat \ {0}
  /\ DOMAIN Pattern = Commands /\ Prior \in Seq(Episodes)
  /\ \A i \in DOMAIN Prior : Prior[i].by = 0
  /\ HasTop(Prior)

VARIABLES
  mode,      \* the I/O handler, or the front end without a loop
  box,       \* the watch file, if it exists, if its mtime is news; or Signal's queue
  sent,      \* messages of the user
  loop,      \* the agent process, see Started
  memory,    \* EpisodeMemory: _records and _cycle
  disk,      \* the episode file: its intact lines, if a torn one ends it, if there are
             \* bytes in it that do not decode; and the processes that could not read it
  stateFile, \* agent_state.json: cycle and done
  beat,      \* agent_heartbeat.json: the same
  replies,   \* what was sent by this process
  faults     \* how many faults there were

agentVars == <<mode, box, sent, loop, memory, disk, stateFile, beat, replies, faults>>
vars == <<run, last, tools, mode, box, sent, loop, memory, disk, stateFile, beat, replies, faults>>

LastOf(seq, n) == SubSeq(seq, IF Len(seq) > n THEN Len(seq) - n + 1 ELSE 1, Len(seq))

\* Mutant: as many cycles as there are records.
LoadedByCount(lines) ==
  [records |-> LastOf(lines, MaxRecent), cycle |-> Len(LastOf(lines, MaxRecent))]

\* EpisodeMemory._load_existing: malformed lines are skipped; _cycle is the
\* highest of the file, not only of the records that are kept.
Loaded(lines) ==
  [records |-> LastOf(lines, MaxRecent),
   cycle |-> IF lines = <<>> THEN 0
             ELSE CHOOSE n \in {lines[i].cycle : i \in DOMAIN lines} :
                    \A i \in DOMAIN lines : lines[i].cycle <= n]

\* What process n starts with: a file it could not read is as good as none.
Known(file, n) == Loaded(IF n \in file.unread THEN <<>> ELSE file.lines)

\* at: where the loop is; batch: what poll() received and has still to look at;
\* command: the message in hand; unread: the content of
\* the watch file could not be read since it changed, dropped: the commands that
\* were replaced before they were read (both for Noticed only);
\* code: the exit code of --one-shot.
Started(n) ==
  [at |-> IF mode \in {"file", "signal"} THEN "sleep" ELSE "prompt", start |-> n,
   seen |-> {}, stamps |-> <<>>, batch |-> <<>>, command |-> NoMessage, before |-> {},
   cycles |-> 0, done |-> FALSE, unread |-> FALSE, dropped |-> {}, closed |-> {},
   code |-> 0]

Init ==
  /\ SessionInit
  /\ mode \in Modes
  /\ box = IF mode = "signal" THEN <<>> ELSE [msg |-> NoMessage, there |-> TRUE, fresh |-> TRUE]
  /\ sent = 0
  /\ \E unread \in {{}, {1}} :
       /\ disk = [lines |-> Prior, torn |-> FALSE, garbled |-> FALSE, unread |-> unread]
       /\ faults = Cardinality(unread) /\ faults <= MaxFaults
  /\ memory = Known(disk, 1)
  /\ stateFile = [cycle |-> memory.cycle, done |-> FALSE] /\ beat = stateFile
  /\ replies = <<>>
  /\ loop = Started(1)

\* What the watch file holds.
Pending == IF mode = "file" THEN box.msg.text ELSE None

Active == loop.at \notin {"final", "stopped", "dead"}

Fault == faults < MaxFaults /\ faults' = faults + 1

\* What comes of an operation that goes well, or goes wrong in one of these ways.
OrFault(well, wrong) ==
  {[is |-> well, faults |-> faults]}
    \cup {[is |-> w, faults |-> faults + 1] : w \in {x \in wrong : faults < MaxFaults}}

-----------------------------------------------------------------------------
(* The user.                                                               *)

\* What is lost with the content of the watch file: a command not yet read.
Unseen == {Pending} \ {None, IF loop.at = "clear" THEN loop.command.text ELSE None}

\* A file may hold a byte that is not UTF-8.
WriteFile ==
  /\ mode = "file" /\ sent < MaxSends /\ sent' = sent + 1
  /\ \E text \in Commands, raw \in OrFault(FALSE, {TRUE}) :
       /\ box' = [msg |-> [NoMessage EXCEPT !.text = text, !.raw = raw.is],
                  there |-> TRUE, fresh |-> TRUE]
       /\ faults' = raw.faults
       /\ loop' = [loop EXCEPT !.unread = FALSE, !.dropped = (@ \cup Unseen) \ {text}]
  /\ UNCHANGED <<run, last, tools, mode, memory, disk, stateFile, beat, replies>>

RemoveFile ==
  /\ mode = "file" /\ box.there /\ Fault
  /\ box' = [box EXCEPT !.msg = NoMessage, !.there = FALSE]
  /\ loop' = [loop EXCEPT !.dropped = @ \cup Unseen]
  /\ UNCHANGED <<run, last, tools, mode, sent, memory, disk, stateFile, beat, replies>>

\* Two messages may have the same millisecond.
SendSignal ==
  /\ mode = "signal" /\ sent < MaxSends /\ sent' = sent + 1
  /\ \E text \in Commands, from \in Senders, ts \in {sent, sent + 1} \ {0} :
       box' = Append(box, [text |-> text, from |-> from, ts |-> ts, raw |-> FALSE])
  /\ UNCHANGED <<run, last, tools, mode, loop, memory, disk, stateFile, beat, replies, faults>>

-----------------------------------------------------------------------------
(* Observing.                                                              *)

\* With a mission every round observes, without one only when the tick is due.
Wake ==
  /\ loop.at = "sleep"
  /\ \E due \in IF Ticking THEN BOOLEAN ELSE {FALSE} :
       loop' = [loop EXCEPT !.at = IF due \/ Mission # {} THEN "observe" ELSE "poll"]
  /\ UNCHANGED <<run, last, tools, mode, box, sent, memory, disk, stateFile, beat, replies, faults>>

\* EpisodeMemory.mission_satisfied; good: with a quality of 0.70 at least.
Satisfied ==
  LET recent == LastOf(memory.records, Scanned)
  IN \E i \in DOMAIN recent :
       recent[i].ok /\ recent[i].good /\ recent[i].pattern \in Mission

\* save_agent_state replaces its file, or fails and leaves it.
Written(old, done) == OrFault([cycle |-> memory.cycle, done |-> done], {old})

\* write_heartbeat does the same with the heartbeat.
Beaten(done) == Written(beat, done)

\* observe() stops at a file with a command; it reads the file strictly, and an
\* undecodable byte ends the loop.
ObservePending ==
  /\ loop.at = "observe" /\ Pending # None
  /\ IF box.msg.raw
     THEN loop' = [loop EXCEPT !.at = "final", !.code = 1] /\ UNCHANGED <<beat, faults>>
     ELSE /\ \E b \in Beaten(FALSE) : beat' = b.is /\ faults' = b.faults
          /\ loop' = [loop EXCEPT !.at = "poll"]
  /\ UNCHANGED <<run, last, tools, mode, box, sent, memory, disk, stateFile, replies>>

\* The rest of the tick, which also follows a file that cannot be read.
ObserveAll ==
  /\ loop.at = "observe"
  /\ IF Pending # None THEN Fault /\ beat' = [cycle |-> memory.cycle, done |-> Satisfied]
     ELSE \E b \in Beaten(Satisfied) : beat' = b.is /\ faults' = b.faults
  /\ loop' = IF Satisfied THEN [loop EXCEPT !.at = "final", !.done = TRUE]
             ELSE [loop EXCEPT !.at = "poll"]
  /\ UNCHANGED <<run, last, tools, mode, box, sent, memory, disk, stateFile, replies>>

-----------------------------------------------------------------------------
(* Polling.                                                                *)

\* FileIOHandler.poll looks at the mtime ...
PollStat ==
  /\ loop.at = "poll" /\ mode = "file"
  /\ IF box.there
     THEN /\ box' = [box EXCEPT !.fresh = FALSE]
          /\ loop' = [loop EXCEPT !.at = IF box.fresh THEN "read" ELSE "sleep"]
          /\ UNCHANGED faults
     ELSE /\ \E b \in OrFault([box EXCEPT !.there = TRUE, !.fresh = TRUE], {box}) :
               box' = b.is /\ faults' = b.faults
          /\ loop' = [loop EXCEPT !.at = "sleep"]
  /\ UNCHANGED <<run, last, tools, mode, sent, memory, disk, stateFile, beat, replies>>

\* ... reads, which may fail when the mtime is already noted ...
PollRead ==
  /\ loop.at = "read"
  /\ LET taken == IF Pending = None THEN [loop EXCEPT !.at = "sleep"]
                  ELSE [loop EXCEPT !.at = "clear", !.command = box.msg]
     IN \E l \in OrFault(taken, {[loop EXCEPT !.at = "sleep", !.unread = TRUE]}) :
          loop' = l.is /\ faults' = l.faults
  /\ UNCHANGED <<run, last, tools, mode, box, sent, memory, disk, stateFile, beat, replies>>

\* Mutant: nothing is returned when the file could not be emptied.
PollClearOrNothing ==
  /\ loop.at = "clear"
  /\ \E b \in OrFault([msg |-> NoMessage, there |-> TRUE, fresh |-> TRUE], {box}) :
       /\ box' = b.is /\ faults' = b.faults
       /\ loop' = IF b.is = box THEN [loop EXCEPT !.at = "sleep"]
                  ELSE [loop EXCEPT !.at = "consider", !.dropped = @ \cup Unseen]
  /\ UNCHANGED <<run, last, tools, mode, sent, memory, disk, stateFile, beat, replies>>

\* ... and empties the file, whatever it holds by now: a command written since the
\* read is lost.
PollClear ==
  /\ loop.at = "clear"
  /\ \E b \in OrFault([box |-> [msg |-> NoMessage, there |-> TRUE, fresh |-> TRUE],
                        dropped |-> Unseen],
                       {[box |-> box, dropped |-> {}]}) :
       /\ box' = b.is.box /\ faults' = b.faults
       /\ loop' = [loop EXCEPT !.at = "consider", !.dropped = @ \cup b.is.dropped]
  /\ UNCHANGED <<run, last, tools, mode, sent, memory, disk, stateFile, beat, replies>>

Tracked(stamps, ts) == LastOf(Append(stamps, ts), MaxSeen)

\* SignalIOHandler.poll: the request fails, before or after the server emptied its
\* queue; or the server may deliver again what it delivered.
PollSignal ==
  /\ loop.at = "poll" /\ mode = "signal"
  /\ \E got \in OrFault([rest |-> <<>>, batch |-> box],
                      {[rest |-> <<>>, batch |-> <<>>], [rest |-> box, batch |-> <<>>],
                       [rest |-> box, batch |-> box]}) :
       /\ box' = got.is.rest /\ faults' = got.faults
       /\ loop' = [loop EXCEPT !.at = "scan", !.batch = got.is.batch]
  /\ UNCHANGED <<run, last, tools, mode, sent, memory, disk, stateFile, beat, replies>>

\* It goes through what it received up to the first message that is new and from
\* an allowed sender; what follows is not kept.
Scan ==
  /\ loop.at = "scan"
  /\ loop' = IF loop.batch = <<>> THEN [loop EXCEPT !.at = "sleep"]
             ELSE LET m == Head(loop.batch)
                  IN IF m.ts \in Range(loop.stamps) THEN [loop EXCEPT !.batch = Tail(@)]
                     ELSE IF Allowed = {} \/ m.from \in Allowed
                     THEN [loop EXCEPT !.at = "consider", !.batch = <<>>, !.command = m,
                                       !.stamps = Tracked(@, m.ts)]
                     ELSE [loop EXCEPT !.batch = Tail(@), !.stamps = Tracked(@, m.ts)]
  /\ UNCHANGED <<run, last, tools, mode, box, sent, memory, disk, stateFile, beat, replies, faults>>

-----------------------------------------------------------------------------
(* Acting.                                                                 *)

\* Mutant: a command is not remembered.
ConsiderForgets ==
  /\ loop.at = "consider"
  /\ loop' = [loop EXCEPT !.command = NoMessage, !.at = "act", !.before = last]
  /\ StartRun(loop.command.text)
  /\ UNCHANGED <<mode, box, sent, memory, disk, stateFile, beat, replies, faults>>

\* A command this process has run is skipped.
Consider ==
  /\ loop.at = "consider"
  /\ LET c == loop.command.text
         rest == [loop EXCEPT !.command = NoMessage]
     IN IF c \in loop.seen
        THEN loop' = [rest EXCEPT !.at = "sleep"] /\ UNCHANGED sessionVars
        ELSE /\ loop' = [rest EXCEPT !.at = "act", !.seen = @ \cup {c}, !.before = last]
             /\ StartRun(c)
  /\ UNCHANGED <<mode, box, sent, memory, disk, stateFile, beat, replies, faults>>

\* The prompt of the REPL, and the command of --one-shot.
Prompt ==
  /\ loop.at = "prompt" /\ sent < MaxSends
  /\ \E c \in Commands : StartRun(c)
  /\ sent' = sent + 1
  /\ loop' = [loop EXCEPT !.at = "act"]
  /\ UNCHANGED <<mode, box, memory, disk, stateFile, beat, replies, faults>>

\* "quit", or the end of the input.
Quit ==
  /\ loop.at = "prompt" /\ mode = "repl"
  /\ loop' = [loop EXCEPT !.at = "final"]
  /\ UNCHANGED <<run, last, tools, mode, box, sent, memory, disk, stateFile, beat, replies, faults>>

\* The REPL goes on after any run; --one-shot exits with 1 if run() raised.
PromptDone ==
  /\ loop.at = "act" /\ run.at \in {"returned", "raised"} /\ mode \in {"repl", "one_shot"}
  /\ loop' = IF mode = "repl" THEN [loop EXCEPT !.at = "prompt"]
             ELSE [loop EXCEPT !.at = "final", !.code = IF run.at = "raised" THEN 1 ELSE 0]
  /\ run' = Idle
  /\ UNCHANGED <<last, tools, mode, box, sent, memory, disk, stateFile, beat, replies, faults>>

-----------------------------------------------------------------------------
(* Learning and answering.                                                 *)

\* _keyword_coverage: how many of the important words of the command are in the
\* snapshot, as the share they have in the score; none, half, or all of them.
KeywordShares == {0, 50, 100}

\* _count_snapshot_delta: the attributes that the run added.
Delta == Cardinality(DOMAIN run.snap \ loop.before)

\* _extract_artefacts: a file was left in the snapshot.
HasArtefact == DOMAIN Scripts \cap DOMAIN run.snap # {}

\* score_outcome, in thousandths: the steps that succeeded, the attributes that
\* are new up to ten, an artefact, and the words of the command.
Quality(keywords) ==
  LET good == Cardinality({i \in DOMAIN run.steps : run.steps[i].ok})
      rate == IF run.steps = <<>> THEN IF run.ok THEN 400 ELSE 0
              ELSE (400 * good) \div Len(run.steps)
  IN rate + 35 * (IF Delta < 10 THEN Delta ELSE 10)
     + (IF HasArtefact THEN 150 ELSE 0) + keywords

\* EpisodeMemory.record: what is remembered of the run.
Episode(keywords) ==
  [cycle |-> memory.cycle + 1, pattern |-> Pattern[run.command],
   ok |-> run.ok, good |-> Quality(keywords) >= 700, by |-> loop.start]

\* EpisodeMemory._append writes the line, nothing, or a part of it, to which the
\* next line is joined: neither can be read back.  A part may end inside a
\* character, which then stays in the file.
Stored(record) ==
  OrFault(IF disk.torn THEN [disk EXCEPT !.torn = FALSE]
          ELSE [disk EXCEPT !.lines = Append(@, record)],
          {disk, [disk EXCEPT !.torn = TRUE], [disk EXCEPT !.torn = TRUE, !.garbled = TRUE]})

\* The learn phase of a run that returned.  One that raised leaves no episode.
Learn ==
  /\ loop.at = "act" /\ run.at \in {"returned", "raised"} /\ mode \in {"file", "signal"}
  /\ IF run.at = "returned"
     THEN \E keywords \in KeywordShares :
            LET record == Episode(keywords)
            IN /\ memory' = [records |-> LastOf(Append(memory.records, record), MaxRecent),
                             cycle |-> record.cycle]
               /\ \E d \in Stored(record) : disk' = d.is /\ faults' = d.faults
     ELSE UNCHANGED <<memory, disk, faults>>
  /\ loop' = [loop EXCEPT !.at = "saveState", !.cycles = @ + 1]
  /\ UNCHANGED <<run, last, tools, mode, box, sent, stateFile, beat, replies>>

SaveState ==
  /\ loop.at = "saveState"
  /\ \E s \in Written(stateFile, loop.done) : stateFile' = s.is /\ faults' = s.faults
  /\ loop' = [loop EXCEPT !.at = "reply"]
  /\ UNCHANGED <<run, last, tools, mode, box, sent, memory, disk, beat, replies>>

\* send_output: the reply goes out, or fails, which is only logged.
Sent == OrFault(Append(replies, run.command), {replies})

\* The reply to a run that returned; then the limit of cycles.
Reply ==
  /\ loop.at = "reply"
  /\ IF run.at = "returned"
     THEN \E r \in Sent : replies' = r.is /\ faults' = r.faults
     ELSE UNCHANGED <<replies, faults>>
  /\ loop' = IF MaxCycles > 0 /\ loop.cycles >= MaxCycles
             THEN [loop EXCEPT !.at = "final", !.done = TRUE] ELSE [loop EXCEPT !.at = "sleep"]
  /\ run' = Idle
  /\ UNCHANGED <<last, tools, mode, box, sent, memory, disk, stateFile, beat>>

\* The finally block: the session is closed, and an agent saves its state.
Final ==
  /\ loop.at = "final"
  /\ IF mode \in {"file", "signal"}
     THEN \E s \in Written(stateFile, loop.done) : stateFile' = s.is /\ faults' = s.faults
     ELSE UNCHANGED <<stateFile, faults>>
  /\ loop' = [loop EXCEPT !.at = "stopped", !.closed = {"routing", "mcp", "audit"}]
  /\ run' = Idle
  /\ UNCHANGED <<last, tools, mode, box, sent, memory, disk, beat, replies>>

-----------------------------------------------------------------------------
(* Ctrl-C, a kill, a restart.                                              *)

\* In the REPL, Ctrl-C ends a run, or the loop at the prompt.
Interrupt ==
  /\ Active /\ Fault
  /\ loop' = [loop EXCEPT !.at = IF mode = "repl" /\ @ = "act" THEN "prompt" ELSE "final",
                          !.code = 130]
  /\ run' = Idle
  /\ UNCHANGED <<last, tools, mode, box, sent, memory, disk, stateFile, beat, replies>>

Kill ==
  /\ loop.at \notin {"stopped", "dead"} /\ Fault
  /\ loop' = [loop EXCEPT !.at = "dead"]
  /\ run' = Idle
  /\ UNCHANGED <<last, tools, mode, box, sent, memory, disk, stateFile, beat, replies>>

\* An agent reads the episode file before its loop; a read that raises OSError
\* leaves it with no records and the number 0.
Restart ==
  /\ loop.at \in {"stopped", "dead"} /\ loop.start < MaxStarts
  /\ loop' = Started(loop.start + 1)
  /\ \E u \in OrFault({}, {{loop.start + 1}}) :
       /\ disk.garbled => u.is # {}
       /\ disk' = [disk EXCEPT !.unread = @ \cup u.is] /\ faults' = u.faults
  /\ memory' = Known(disk', loop.start + 1)
  /\ box' = IF mode = "signal" THEN box ELSE [box EXCEPT !.fresh = TRUE]
  /\ run' = Idle /\ last' = {} /\ tools' = {} /\ replies' = <<>>
  /\ UNCHANGED <<mode, sent, stateFile, beat>>

\* Bytes that do not decode raise another error, which nothing catches: the agent
\* does not start.
StartFails ==
  /\ loop.at \in {"stopped", "dead"} /\ loop.start < MaxStarts
  /\ disk.garbled
  /\ loop' = [loop EXCEPT !.at = "dead"]
  /\ UNCHANGED <<run, last, tools, mode, box, sent, memory, disk, stateFile, beat, replies,
                 faults>>

-----------------------------------------------------------------------------
AgentStep ==
  \/ Wake \/ ObservePending \/ ObserveAll
  \/ PollStat \/ PollRead \/ PollClear \/ PollSignal \/ Scan
  \/ Consider \/ Prompt \/ PromptDone
  \/ Learn \/ SaveState \/ Reply \/ Final
  \/ loop.at = "act" /\ SessionStep /\ UNCHANGED agentVars

Next ==
  \/ AgentStep \/ Quit
  \/ WriteFile \/ RemoveFile \/ SendSignal
  \/ Interrupt \/ Kill \/ Restart \/ StartFails

\* The loop is one thread that never waits without a limit.
Spec == Init /\ [][Next]_vars /\ WF_vars(AgentStep)

-----------------------------------------------------------------------------
(* Properties.                                                             *)

\* EpisodeRecord.cycle is a "monotonically increasing run counter": a line of the
\* episode file has a higher number than every line before it, over restarts, lost
\* and torn lines and records no longer kept, if the process that wrote it could
\* read the file when it started; and in any case than every earlier line of its
\* own process.
CyclesIncrease ==
  \A j \in DOMAIN disk.lines : \A i \in 1..(j - 1) :
    LET a == disk.lines[i]
        b == disk.lines[j]
    IN b.by > 0 /\ (b.by \notin disk.unread \/ a.by = b.by) => a.cycle < b.cycle

\* One process answers a command once, although a file that could not be emptied
\* is read again and a message may be delivered again and no longer be known.
AnswersOnce == \A i, j \in DOMAIN replies : replies[i] = replies[j] => i = j

\* A command in the watch file is run or was run by this process, unless the file
\* could not be read after its mtime was noted, the agent ended, or the content
\* was replaced before it was read: by the user, or by poll(), which empties what
\* was written after its read.
Noticed ==
  \A c \in Commands :
    (Active /\ Pending = c)
      ~> (c \in loop.seen \/ c \in loop.dropped \/ loop.unread \/ ~Active)
=============================================================================
