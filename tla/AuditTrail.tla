----------------------------- MODULE AuditTrail -----------------------------
(***************************************************************************)
(* The audit trail: AuditSubscriber between the EventBus and a             *)
(* JsonLinesSink, and the sink itself.                                     *)
(*                                                                         *)
(*   publisher threads --> subQ --> subscriber thread --> sinkQ -->        *)
(*   writer thread --> buffer of the open file --> disk                    *)
(*                                                                         *)
(* Both queues are bounded and drop when full; both threads stop at a      *)
(* sentinel; close(), run by one more thread, unsubscribes, sends the two  *)
(* sentinels and waits for each thread, but only for a time.               *)
(***************************************************************************)
EXTENDS Naturals, Sequences, FiniteSets

CONSTANTS
  Publishers,    \* threads that publish on the bus
  K,             \* bound on the events each of them publishes
  Recorded,      \* events that AuditConfig.should_record accepts
  SubMax,        \* AuditConfig.max_queue_size; 0 is unbounded
  SinkMax,       \* max_queue_size of the sink
  MaxDay,        \* bound on the days the clock goes through
  Timeouts,      \* may put(timeout) and join(timeout) give up?
  Configs,       \* daily: rotate_by = "day", against "run" and "none"; badEncoding:
                 \* file_encoding is unknown to open(); faults: building a record,
                 \* open(), write(), flush() and close() of the file may fail; sends:
                 \* how many events a publisher has
  Stop, Nothing

Records == Publishers \X (1..K)

ASSUME AuditAssumption ==
  /\ K \in Nat /\ SubMax \in Nat /\ SinkMax \in Nat /\ MaxDay \in Nat \ {0}
  /\ Recorded \subseteq Records
  /\ Timeouts \in BOOLEAN
  /\ Configs \subseteq [daily : BOOLEAN, badEncoding : BOOLEAN, faults : BOOLEAN,
                         sends : [Publishers -> 0..K]]
  /\ Stop \notin Records /\ Nothing \notin Records /\ Stop # Nothing

VARIABLES
  config,      \* the one of the Configs that is used
  subscribed,  \* the handler is in the bus's "*" list
  sent,        \* events each publisher has finished publishing
  inHandler,   \* publishers whose publish() is about to run _on_event
  subQ, subW, subHand,     \* AuditSubscriber: queue, thread, record in hand
  admitted,    \* write() of the record in hand has found the sink open
  sinkQ, sinkW, sinkHand,  \* JsonLinesSink: the same
  sinkClosed,  \* AuditSink._closed
  unfinished,  \* Queue.unfinished_tasks of sinkQ
  fh,          \* the open file handle, 0 when there is none
  opens,       \* handles opened so far: names the handles
  wfh,         \* the handle _write_one got from _ensure_file, 0 before that
  stray,       \* the handle that _close_file gave up and could not close, 0 if none
  dayKey,      \* _current_day_key, 0 when empty
  day,         \* today
  buf, disk,   \* lines in the handle's buffer, lines in the files
  lost,        \* records that were dropped, and why
  late,        \* records whose handler ran after unsubscribe
  closer,      \* where AuditSubscriber.close is
  timedOut     \* some wait of close() gave up

bus == <<config, subscribed, sent, inHandler, late>>
sub == <<subQ, subW, subHand, admitted>>
sink == <<sinkQ, sinkW, sinkHand, sinkClosed, unfinished>>
file == <<fh, opens, wfh, stray, dayKey, buf, disk>>
vars == <<bus, sub, sink, file, day, lost, closer, timedOut>>

Reasons == {"unheard", "filtered", "unbuilt", "sub_full", "sink_full", "rejected",
            "unopened", "unwritten"}

RecordsOf(q) == {q[i] : i \in DOMAIN q} \ {Stop, Nothing}
Full(q, max) == max > 0 /\ Len(q) >= max
Without(rs, why) == [lost EXCEPT ![why] = @ \cup rs]
Lose(r, why) == lost' = Without({r}, why)

Init ==
  /\ config \in Configs
  /\ subscribed = TRUE
  /\ sent = [p \in Publishers |-> 0]
  /\ inHandler = {}
  /\ subQ = <<>> /\ subW = "loop" /\ subHand = Nothing /\ admitted = FALSE
  /\ sinkQ = <<>> /\ sinkW = "loop" /\ sinkHand = Nothing
  /\ sinkClosed = FALSE
  /\ unfinished = 0
  /\ fh = 0 /\ opens = 0 /\ wfh = 0 /\ stray = 0 /\ dayKey = 0 /\ day = 1
  /\ buf = <<>> /\ disk = <<>>
  /\ lost = [why \in Reasons |-> {}]
  /\ late = {}
  /\ closer = "open"
  /\ timedOut = FALSE

-----------------------------------------------------------------------------
(* EventBus.publish.  Taking the handler from the list and calling it are  *)
(* two steps: close() may unsubscribe in between.                          *)
Next1(p) == <<p, sent[p] + 1>>

Publish(p) ==
  /\ p \notin inHandler
  /\ sent[p] < config.sends[p]
  /\ IF subscribed
     THEN inHandler' = inHandler \cup {p} /\ UNCHANGED <<sent, lost>>
     ELSE /\ sent' = [sent EXCEPT ![p] = @ + 1]
          /\ Lose(Next1(p), "unheard")
          /\ UNCHANGED inHandler
  /\ UNCHANGED <<config, subscribed, late, sub, sink, file, day, closer, timedOut>>

\* Mutant: queue.Full is ignored and not counted.
OnEventUncounted(p) ==
  /\ p \in inHandler
  /\ LET r == Next1(p) IN
       \/ /\ r \notin Recorded
          /\ Lose(r, "filtered")
          /\ UNCHANGED subQ
       \/ /\ r \in Recorded
          /\ subQ' = IF Full(subQ, SubMax) THEN subQ ELSE Append(subQ, r)
          /\ UNCHANGED lost
  /\ late' = IF subscribed THEN late ELSE late \cup {Next1(p)}
  /\ sent' = [sent EXCEPT ![p] = @ + 1]
  /\ inHandler' = inHandler \ {p}
  /\ UNCHANGED <<config, subscribed, subW, subHand, admitted, sink, file, day, closer, timedOut>>

\* AuditSubscriber._on_event: put_nowait, or count a drop.  A payload of which no
\* record can be built is logged and given up.
OnEvent(p) ==
  /\ p \in inHandler
  /\ LET r == Next1(p) IN
       \/ /\ r \notin Recorded
          /\ Lose(r, "filtered")
          /\ UNCHANGED subQ
       \/ /\ r \in Recorded /\ config.faults
          /\ Lose(r, "unbuilt")
          /\ UNCHANGED subQ
       \/ /\ r \in Recorded /\ Full(subQ, SubMax)
          /\ Lose(r, "sub_full")
          /\ UNCHANGED subQ
       \/ /\ r \in Recorded /\ ~Full(subQ, SubMax)
          /\ subQ' = Append(subQ, r)
          /\ UNCHANGED lost
  /\ late' = IF subscribed THEN late ELSE late \cup {Next1(p)}
  /\ sent' = [sent EXCEPT ![p] = @ + 1]
  /\ inHandler' = inHandler \ {p}
  /\ UNCHANGED <<config, subscribed, subW, subHand, admitted, sink, file, day, closer, timedOut>>

-----------------------------------------------------------------------------
(* AuditSubscriber._writer_loop and _drain_remaining.                      *)
SubGet ==
  /\ subW \in {"loop", "drain"} /\ subHand = Nothing
  /\ subQ # <<>>
  /\ subQ' = Tail(subQ)
  /\ IF Head(subQ) = Stop
     THEN subW' = "drain" /\ UNCHANGED subHand
     ELSE subHand' = Head(subQ) /\ UNCHANGED subW
  /\ UNCHANGED <<bus, admitted, sink, file, day, lost, closer, timedOut>>

\* get_nowait finds the queue empty: the thread returns.
SubStop ==
  /\ subW = "drain" /\ subHand = Nothing /\ subQ = <<>>
  /\ subW' = "stopped"
  /\ UNCHANGED <<bus, subQ, subHand, admitted, sink, file, day, lost, closer, timedOut>>

\* _deliver: JsonLinesSink.write first asks whether the sink is closed, and its
\* error is swallowed.  close() may mark the sink closed between the two.
AssertOpen ==
  /\ subHand # Nothing /\ ~admitted
  /\ IF sinkClosed
     THEN Lose(subHand, "rejected") /\ subHand' = Nothing /\ UNCHANGED admitted
     ELSE admitted' = TRUE /\ UNCHANGED <<subHand, lost>>
  /\ UNCHANGED <<bus, subQ, subW, sink, file, day, closer, timedOut>>

\* Mutant: a record the sink has no room for goes back to the queue.
DeliverRequeues ==
  /\ admitted
  /\ IF Full(sinkQ, SinkMax)
     THEN subQ' = Append(subQ, subHand) /\ UNCHANGED <<sinkQ, unfinished, lost>>
     ELSE /\ sinkQ' = Append(sinkQ, subHand)
          /\ unfinished' = unfinished + 1
          /\ UNCHANGED <<subQ, lost>>
  /\ subHand' = Nothing /\ admitted' = FALSE
  /\ UNCHANGED <<bus, subW, sinkW, sinkHand, sinkClosed, file, day, closer, timedOut>>

\* put_nowait on the sink's queue, or count a drop.
Deliver ==
  /\ admitted
  /\ IF Full(sinkQ, SinkMax)
     THEN Lose(subHand, "sink_full") /\ UNCHANGED <<sinkQ, unfinished>>
     ELSE /\ sinkQ' = Append(sinkQ, subHand)
          /\ unfinished' = unfinished + 1
          /\ UNCHANGED lost
  /\ subHand' = Nothing /\ admitted' = FALSE
  /\ UNCHANGED <<bus, subQ, subW, sinkW, sinkHand, sinkClosed, file, day, closer, timedOut>>

-----------------------------------------------------------------------------
(* JsonLinesSink._writer_loop, _drain_remaining and _write_one.  The       *)
(* sentinel's task_done comes when the drain is over.                      *)
SinkGet ==
  /\ sinkW \in {"loop", "drain"} /\ sinkHand = Nothing
  /\ sinkQ # <<>>
  /\ sinkQ' = Tail(sinkQ)
  /\ IF Head(sinkQ) = Stop
     THEN sinkW' = "drain" /\ UNCHANGED sinkHand
     ELSE sinkHand' = Head(sinkQ) /\ UNCHANGED sinkW
  /\ UNCHANGED <<bus, sub, sinkClosed, unfinished, file, day, lost, closer, timedOut>>

SinkStop ==
  /\ sinkW = "drain" /\ sinkHand = Nothing /\ sinkQ = <<>>
  /\ sinkW' = "stopped"
  /\ unfinished' = unfinished - 1
  /\ UNCHANGED <<bus, sub, sinkQ, sinkHand, sinkClosed, file, day, lost, closer, timedOut>>

TaskDoneNever == sinkHand' = Nothing /\ unfinished' = unfinished

TaskDone == sinkHand' = Nothing /\ unfinished' = unfinished - 1

\* Of the lines q on their way through the buffer n reach the disk, those up to m
\* stay in the buffer and the rest is lost.  Only a fault loses any.
Spilt(q, n, m) ==
  /\ n <= m /\ (m = Len(q) \/ config.faults)
  /\ disk' = disk \o SubSeq(q, 1, n)
  /\ buf' = SubSeq(q, n + 1, m)

Dropped(q, m) == RecordsOf(SubSeq(q, m + 1, Len(q)))

\* Does _ensure_file open a file?  By day, only when the key differs from
\* today; otherwise whenever there is no handle.
MustOpen == IF config.daily THEN dayKey # day ELSE fh = 0

\* _ensure_file with no need to open: the handle, or None for a day whose
\* file could not be opened before.
EnsureNothing ==
  /\ sinkHand # Nothing /\ wfh = 0 /\ ~MustOpen
  /\ IF fh = 0
     THEN Lose(sinkHand, "unopened") /\ TaskDone /\ UNCHANGED wfh
     ELSE wfh' = fh /\ UNCHANGED <<lost, sinkHand, unfinished>>
  /\ UNCHANGED <<bus, sub, sinkQ, sinkW, sinkClosed, fh, opens, stray, dayKey, buf, disk,
                 day, closer, timedOut>>

\* Rotation closes the old file first: its first n lines reach the disk, and the
\* others are lost with the handle, which _close_file drops whatever fails.
Rotated(n) == Spilt(buf, n, n) /\ dayKey' = IF config.daily THEN day ELSE dayKey

EnsureOpens ==
  /\ sinkHand # Nothing /\ wfh = 0 /\ MustOpen /\ ~config.badEncoding
  /\ \E n \in 0..Len(buf) : Rotated(n) /\ lost' = Without(Dropped(buf, n), "unwritten")
  /\ fh' = opens + 1 /\ opens' = opens + 1 /\ wfh' = opens + 1
  /\ UNCHANGED <<bus, sub, sink, stray, day, closer, timedOut>>

\* The record in hand is given up with the lines that rotation loses.
Unopened ==
  \E n \in 0..Len(buf) :
    /\ Rotated(n)
    /\ lost' = [Without(Dropped(buf, n), "unwritten") EXCEPT !["unopened"] = @ \cup {sinkHand}]

\* open() raises OSError: logged, no handle, the record is given up.
EnsureFails ==
  /\ sinkHand # Nothing /\ wfh = 0 /\ MustOpen /\ ~config.badEncoding /\ config.faults
  /\ Unopened
  /\ fh' = 0
  /\ TaskDone
  /\ UNCHANGED <<bus, sub, sinkQ, sinkW, sinkClosed, opens, wfh, stray, day, closer, timedOut>>

\* open() raises anything else: the exception leaves _writer_loop and the
\* thread is gone; the finally clause still calls task_done once.
WriterDies ==
  /\ sinkHand # Nothing /\ wfh = 0 /\ MustOpen /\ config.badEncoding
  /\ Unopened
  /\ fh' = 0
  /\ TaskDone
  /\ sinkW' = "dead"
  /\ UNCHANGED <<bus, sub, sinkQ, sinkClosed, opens, wfh, stray, day, closer, timedOut>>

\* fh.write on the sink's handle.  A write that fails has some earlier lines
\* written, and may take others with it.
WriteHere ==
  LET q == Append(buf, sinkHand) IN
    /\ wfh = fh
    /\ \E n, m \in 0..Len(q) :
         /\ Spilt(q, n, m) /\ (n = 0 \/ config.faults)
         /\ lost' = Without(Dropped(q, m), "unwritten")

\* fh.write on a handle that close() has taken from the sink meanwhile: it raises
\* on a closed one; one that could not be closed takes the line and is closed when
\* the writer lets go of it.
WriteElsewhere ==
  /\ wfh # fh
  /\ \/ Lose(sinkHand, "unwritten") /\ UNCHANGED disk
     \/ wfh = stray /\ disk' = Append(disk, sinkHand) /\ UNCHANGED lost
  /\ UNCHANGED buf

WriteLine ==
  /\ wfh # 0
  /\ WriteHere \/ WriteElsewhere
  /\ TaskDone
  /\ wfh' = 0
  /\ UNCHANGED <<bus, sub, sinkQ, sinkW, sinkClosed, fh, opens, stray, dayKey, day,
                 closer, timedOut>>

\* get(timeout) expires on an empty queue: _periodic_flush, which may fail; the
\* handle is kept.
PeriodicFlush ==
  /\ sinkW = "loop" /\ sinkHand = Nothing /\ sinkQ = <<>>
  /\ fh # 0 /\ buf # <<>>
  /\ \E n, m \in 0..Len(buf) :
       /\ Spilt(buf, n, m) /\ (n = Len(buf) \/ config.faults)
       /\ lost' = Without(Dropped(buf, m), "unwritten")
  /\ UNCHANGED <<bus, sub, sink, fh, opens, wfh, stray, dayKey, day, closer, timedOut>>

Midnight ==
  /\ config.daily /\ day < MaxDay
  /\ day' = day + 1
  /\ UNCHANGED <<bus, sub, sink, file, lost, closer, timedOut>>

-----------------------------------------------------------------------------
(* AuditSubscriber.close and, inside it, JsonLinesSink.flush and close.    *)
Unsubscribe ==
  /\ closer = "open"
  /\ subscribed' = FALSE
  /\ closer' = "put"
  /\ UNCHANGED <<config, sent, inHandler, late, sub, sink, file, day, lost, timedOut>>

PutStop ==
  /\ closer = "put" /\ ~Full(subQ, SubMax)
  /\ subQ' = Append(subQ, Stop)
  /\ closer' = "join"
  /\ UNCHANGED <<bus, subW, subHand, admitted, sink, file, day, lost, timedOut>>

Join ==
  /\ closer = "join" /\ subW = "stopped"
  /\ closer' = "flush"
  /\ UNCHANGED <<bus, sub, sink, file, day, lost, timedOut>>

\* JsonLinesSink.flush: queue.join(), without a timeout.
Flush ==
  /\ closer = "flush" /\ unfinished = 0
  /\ closer' = "sinkClose"
  /\ UNCHANGED <<bus, sub, sink, file, day, lost, timedOut>>

SinkClose ==
  /\ closer = "sinkClose"
  /\ sinkClosed' = TRUE
  /\ closer' = "sinkPut"
  /\ UNCHANGED <<bus, sub, sinkQ, sinkW, sinkHand, unfinished, file, day, lost, timedOut>>

SinkPutStop ==
  /\ closer = "sinkPut" /\ ~Full(sinkQ, SinkMax)
  /\ sinkQ' = Append(sinkQ, Stop)
  /\ unfinished' = unfinished + 1
  /\ closer' = "sinkJoin"
  /\ UNCHANGED <<bus, sub, sinkW, sinkHand, sinkClosed, file, day, lost, timedOut>>

SinkJoin ==
  /\ closer = "sinkJoin" /\ sinkW \in {"stopped", "dead"}
  /\ closer' = "closeFile"
  /\ UNCHANGED <<bus, sub, sink, file, day, lost, timedOut>>

\* A bounded wait gives up; close() logs a warning and goes on.
GiveUp ==
  /\ Timeouts
  /\ \/ closer = "put" /\ Full(subQ, SubMax) /\ closer' = "join"
     \/ closer = "join" /\ subW # "stopped" /\ closer' = "flush"
     \/ closer = "sinkPut" /\ Full(sinkQ, SinkMax) /\ closer' = "sinkJoin"
     \/ closer = "sinkJoin" /\ sinkW \notin {"stopped", "dead"} /\ closer' = "closeFile"
  /\ timedOut' = TRUE
  /\ UNCHANGED <<bus, sub, sink, file, day, lost>>

\* _close_file, from the thread that closes.  When flush() or close() fails the
\* handle is dropped all the same, and the writer may still hold it.
CloseFile ==
  /\ closer = "closeFile"
  /\ IF fh = 0 THEN UNCHANGED <<disk, buf, fh, dayKey, stray, lost>>
     ELSE /\ \E n \in 0..Len(buf) :
               Spilt(buf, n, n) /\ lost' = Without(Dropped(buf, n), "unwritten")
          /\ fh' = 0 /\ dayKey' = 0
          /\ stray' \in (IF config.faults THEN {0, fh} ELSE {0})
  /\ closer' = "done"
  /\ UNCHANGED <<bus, sub, sink, opens, wfh, day, timedOut>>

Publishing == \E p \in Publishers : Publish(p) \/ OnEvent(p)
SubThread == SubGet \/ SubStop \/ AssertOpen \/ Deliver
SinkThread == SinkGet \/ SinkStop \/ EnsureNothing \/ EnsureOpens \/ EnsureFails
                \/ WriterDies \/ WriteLine \/ PeriodicFlush
Closing == PutStop \/ Join \/ Flush \/ SinkClose \/ SinkPutStop \/ SinkJoin
             \/ GiveUp \/ CloseFile

Next == Publishing \/ SubThread \/ SinkThread \/ Midnight \/ Unsubscribe \/ Closing

Spec == Init /\ [][Next]_vars

\* Each thread runs whenever it can; nobody has to call close() or publish.
FairSpec == Spec /\ WF_vars(SubThread) /\ WF_vars(SinkThread) /\ WF_vars(Closing)

-----------------------------------------------------------------------------
TypeOK ==
  /\ config \in Configs
  /\ subscribed \in BOOLEAN /\ sinkClosed \in BOOLEAN /\ timedOut \in BOOLEAN
  /\ sent \in [Publishers -> 0..K] /\ inHandler \in SUBSET Publishers
  /\ subQ \in Seq(Records \cup {Stop}) /\ sinkQ \in Seq(Records \cup {Stop})
  /\ subW \in {"loop", "drain", "stopped"}
  /\ sinkW \in {"loop", "drain", "stopped", "dead"}
  /\ subHand \in Records \cup {Nothing} /\ sinkHand \in Records \cup {Nothing}
  /\ unfinished \in Nat /\ opens \in Nat
  /\ fh \in 0..opens /\ wfh \in 0..opens /\ stray \in 0..opens
  /\ admitted \in BOOLEAN /\ (admitted => subHand # Nothing)
  /\ day \in 1..MaxDay /\ dayKey \in 0..MaxDay
  /\ buf \in Seq(Records) /\ disk \in Seq(Records)
  /\ lost \in [Reasons -> SUBSET Records] /\ late \in SUBSET Records
  /\ closer \in {"open", "put", "join", "flush", "sinkClose", "sinkPut", "sinkJoin",
                 "closeFile", "done"}

\* The way from the bus to the disk, read backwards: what is on disk, then
\* what is in the buffer, in the writer's hand, in its queue, and so on.
Way == <<"disk", "buffer", "writing", "sinkQ", "delivering", "subQ">>
Stations == {Way[i] : i \in 1..6}

Held(s) ==
  CASE s = "disk" -> RecordsOf(disk)
    [] s = "buffer" -> RecordsOf(buf)
    [] s = "writing" -> {sinkHand} \ {Nothing}
    [] s = "sinkQ" -> RecordsOf(sinkQ)
    [] s = "delivering" -> {subHand} \ {Nothing}
    [] s = "subQ" -> RecordsOf(subQ)

\* Where a record is, or why it is not.
Where(r) == {s \in Stations : r \in Held(s)} \cup {why \in Reasons : r \in lost[why]}

\* A published event is at exactly one place of the way, or given up for one
\* reason, whatever faults, drops and timeouts happen.
EachOnce ==
  /\ \A p \in Publishers : \A k \in 1..K :
       LET at == Where(<<p, k>>)
       IN IF k <= sent[p] THEN at # {} /\ \A v, w \in at : v = w ELSE at = {}
  /\ lost["sink_full"] # {} => SinkMax > 0

\* The sink's join count is the work it still owes: flush() cannot return
\* while a record is queued or in hand, and does not wait for nothing.
JoinCount ==
  sinkW # "dead" =>
    unfinished = Len(sinkQ) + (IF sinkHand = Nothing THEN 0 ELSE 1)
                   + (IF sinkW = "drain" THEN 1 ELSE 0)

\* No record is lost without a reason, none is kept twice, none is both lost
\* and kept, and the sink knows how many it still owes.
Conservation == TypeOK /\ EachOnce /\ JoinCount

\* The events of one publisher keep their order all the way to the file, also
\* across rotation, the drain after the sentinel and a file opened again; and none
\* is twice in a queue or file.
Before(r, s) == r[1] = s[1] => r[2] < s[2]
Sorted(q) ==
  \A i, j \in DOMAIN q : i < j /\ {q[i], q[j]} \subseteq Records => Before(q[i], q[j])

InOrder ==
  /\ Sorted(disk) /\ Sorted(buf) /\ Sorted(sinkQ) /\ Sorted(subQ)
  /\ \A i, j \in 1..6 : i < j =>
       \A r \in Held(Way[i]), s \in Held(Way[j]) : Before(r, s)

\* close() returns, whether or not its waits may give up, unless the sink's
\* writer thread died: then flush() may wait for ever.
CloseReturns == closer # "open" ~> closer = "done" \/ sinkW = "dead"
=============================================================================
