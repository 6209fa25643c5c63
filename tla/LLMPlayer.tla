----------------------------- MODULE LLMPlayer -----------------------------
(***************************************************************************)
(* LLMPlayerTool while it plays: a program whose input and output are      *)
(* pipes, a thread that moves its output into a queue, and the loop that   *)
(* takes a silence for a prompt and has the LLM answer it.                 *)
(*                                                                         *)
(* Output is counted in pieces, none of them blank.  The program, the      *)
(* thread and the loop take turns in any order; what is assumed of time is *)
(* that the thread moves a piece within idle_wait (in Quiet).              *)
(***************************************************************************)
EXTENDS Naturals, Sequences

CONSTANTS
  MaxPrints   \* bound: the pieces a program prints

ASSUME PlayerAssumption == MaxPrints \in Nat

LLMAttempts == 3    \* _llm_attempts: 20, 60 and 150 tokens

VARIABLES
  prog,     \* the program, see NoProgram
  piped,    \* pieces in its output pipe
  queued,   \* pieces in out_q
  player    \* the locals of _play, see Idle

playVars == <<prog, piped, queued, player>>

\* state: it runs, reads its input, pauses for longer than idle_wait, or is done.
\* stdin: the answers it did not read yet, each with the number of pieces the LLM
\* had been shown.  slow: it may pause; stubborn: it ignores SIGTERM.
NoProgram == [state |-> "done", printed |-> 0, stdin |-> <<>>, slow |-> FALSE, stubborn |-> FALSE]

\* logged: the pieces in log_lines; left: turns that remain until max_turns; code:
\* whether a return code was read, or the LLM call raised.
Idle == [mode |-> "off", buf |-> 0, logged |-> 0, left |-> 0, tries |-> 0, closed |-> FALSE, code |-> ""]

PlayerInit == prog = NoProgram /\ piped = 0 /\ queued = 0 /\ player = Idle

\* The process and the thread are started.
StartPlay(turns, slow, stubborn) ==
  /\ prog' = [NoProgram EXCEPT !.state = "runs", !.slow = slow, !.stubborn = stubborn]
  /\ piped' = 0 /\ queued' = 0
  /\ player' = [Idle EXCEPT !.mode = IF turns > 0 THEN "collect" ELSE "close", !.left = turns]

-----------------------------------------------------------------------------
\* The program, which the tool knows only by what it does.
Prints ==
  /\ prog.state \in {"runs", "pauses"} /\ prog.printed < MaxPrints
  /\ prog' = [prog EXCEPT !.state = "runs", !.printed = @ + 1]
  /\ piped' = piped + 1
  /\ UNCHANGED <<queued, player>>

ProgramBecomes(state) == prog' = [prog EXCEPT !.state = state] /\ UNCHANGED <<piped, queued, player>>

Reads == prog.state = "runs" /\ ProgramBecomes("reads")
Pauses == prog.state = "runs" /\ prog.slow /\ ProgramBecomes("pauses")
Exits == prog.state \in {"runs", "pauses"} /\ ProgramBecomes("done")

\* It gets a line, or the end of its input.
Gets ==
  /\ prog.state = "reads" /\ (prog.stdin # <<>> \/ player.closed)
  /\ prog' = [prog EXCEPT !.state = "runs", !.stdin = IF @ = <<>> THEN @ ELSE Tail(@)]
  /\ UNCHANGED <<piped, queued, player>>

\* It heeds SIGTERM.
Dies == player.mode = "killed" /\ prog.state # "done" /\ ~prog.stubborn /\ ProgramBecomes("done")

Program == Prints \/ Reads \/ Pauses \/ Exits \/ Gets \/ Dies

\* The thread moves a piece into the queue.
Reader ==
  /\ piped > 0
  /\ piped' = piped - 1 /\ queued' = queued + 1
  /\ UNCHANGED <<prog, player>>

-----------------------------------------------------------------------------
At(mode) == player.mode = mode

\* Only the player moves.
Player(p) == player' = p /\ UNCHANGED <<prog, piped, queued>>

\* A piece is in the queue: it is taken and the deadline moves on.
Collect ==
  /\ At("collect") /\ queued > 0
  /\ queued' = queued - 1
  /\ player' = [player EXCEPT !.buf = @ + 1]
  /\ UNCHANGED <<prog, piped>>

\* Mutant: the deadline is not moved on, so that it may pass amid the output.
QuietAmid == At("collect") /\ Player([player EXCEPT !.mode = "judge"])

\* Nothing came for idle_wait.
Quiet ==
  /\ At("collect") /\ queued = 0 /\ piped = 0
  /\ prog.state \in {"reads", "pauses"}
  /\ Player([player EXCEPT !.mode = "judge"])

\* The queue was empty and the program has exited: what the thread has queued since
\* is taken, what is still in the pipe is not.
Drain ==
  /\ At("collect") /\ prog.state = "done"
  /\ queued' = 0
  /\ player' = [player EXCEPT !.mode = "judge", !.buf = @ + queued]
  /\ UNCHANGED <<prog, piped>>

\* The turn is over.
Turned(p) == [p EXCEPT !.left = @ - 1, !.buf = 0, !.mode = IF p.left > 1 THEN "collect" ELSE "close"]

\* The output is logged.  If the program has exited the loop ends; if it printed
\* nothing the turn counts all the same; otherwise the LLM is shown the output.
Judge ==
  /\ At("judge")
  /\ LET p == [player EXCEPT !.logged = @ + player.buf, !.buf = 0] IN
     Player(CASE prog.state = "done" -> [p EXCEPT !.mode = "close"]
              [] prog.state # "done" /\ player.buf = 0 -> Turned(p)
              [] OTHER -> [p EXCEPT !.tries = 0, !.mode = "ask"])

\* The LLM answers, gives a blank reply, or raises, which ends the tool at once: the
\* program is left as it is.  After the last blank reply an empty line is sent.
Ask ==
  /\ At("ask")
  /\ \/ Player([player EXCEPT !.mode = "write"])
     \/ Player([player EXCEPT !.tries = @ + 1,
                              !.mode = IF player.tries + 1 < LLMAttempts THEN "ask" ELSE "write"])
     \/ Player([player EXCEPT !.mode = "over", !.code = "raised"])

\* The answer is written, unless the program has exited (BrokenPipeError).
Write ==
  /\ At("write")
  /\ IF prog.state = "done"
     THEN player' = [player EXCEPT !.mode = "close"] /\ UNCHANGED prog
     ELSE /\ player' = Turned(player)
          /\ prog' = [prog EXCEPT !.stdin = Append(@, player.logged)]
  /\ UNCHANGED <<piped, queued>>

Close == At("close") /\ Player([player EXCEPT !.mode = "wait", !.closed = TRUE])

\* proc.wait(timeout=5): it has exited, or it is terminated.
Wait ==
  /\ At("wait")
  /\ Player(IF prog.state = "done" THEN [player EXCEPT !.mode = "over", !.code = "returned"]
            ELSE [player EXCEPT !.mode = "killed"])

\* Mutant: the program is not waited for after terminate.
ReapNotWaited == At("killed") /\ Player([player EXCEPT !.mode = "over", !.code = "returned"])

\* proc.wait() after terminate has no timeout.
Reap ==
  /\ At("killed") /\ prog.state = "done"
  /\ Player([player EXCEPT !.mode = "over", !.code = "returned"])

Loop == Collect \/ Quiet \/ Drain \/ Judge \/ Ask \/ Write \/ Close \/ Wait \/ Reap

PlayStep == Program \/ Reader \/ Loop

-----------------------------------------------------------------------------
\* A program that never pauses reads each answer after the LLM was shown all it had
\* printed by then, and no answer waits for a question that is still to come.
AnswersInTime ==
  prog.state = "reads" /\ ~prog.slow /\ prog.stdin # <<>> =>
    Len(prog.stdin) = 1 /\ Head(prog.stdin) = prog.printed

\* A return code is that of a program that has exited.
CodeIsReal == player.code = "returned" => prog.state = "done"
=============================================================================
