----------------------------- MODULE HumanInLoop -----------------------------
(***************************************************************************)
(* HumanInLoopTool: a workflow that asks one question after another and a  *)
(* human who answers when it suits them, over stdin or through a pair of   *)
(* files.                                                                  *)
(*                                                                         *)
(* An answer is a number, its place in the order of the answers; 0 is an   *)
(* empty one.  A question that has a timeout may expire at any time.       *)
(***************************************************************************)
EXTENDS Naturals, Sequences, FiniteSets

CONSTANTS
  Questions,  \* bound: questions of the workflow
  MaxAnswers, \* bound: answers of the human
  NoAnswer

ASSUME HumanAssumption == Questions \in Nat /\ MaxAnswers \in Nat /\ NoAnswer \notin Nat

VARIABLES
  mode,      \* HumanInLoopMode: "stdin", "file"; "callback" stands for AUTO_MOCK too
  ask,       \* the latest question: its number, and whether timeout and options are given
  at,        \* where its execute() is
  box,       \* what it read, NoAnswer until then
  outcome,   \* question -> how it ended
  readers,   \* stdin: the questions whose thread is in readline()
  lines,     \* stdin: what was typed and not read
  eof,       \* stdin was closed
  swallowed, \* stdin: pairs of a question that was over and the answer its thread took
  file,      \* the response file: who wrote it and whether all of it is there
  answers    \* the answers so far: allowed by the options, and the latest question then

humanVars == <<mode, ask, at, box, outcome, readers, lines, eof, swallowed, file, answers>>

asking == <<mode, ask, at, box, outcome>>
stdin == <<readers, lines, eof, swallowed>>

NoFile == [by |-> 0, whole |-> FALSE]

HumanInit ==
  /\ mode \in {"stdin", "file", "callback"}
  /\ ask = [n |-> 0, timed |-> FALSE, options |-> FALSE]
  /\ at = "idle" /\ box = NoAnswer
  /\ outcome = [q \in 1..Questions |-> [how |-> "none", answer |-> NoAnswer]]
  /\ readers = {} /\ lines = <<>> /\ eof = FALSE /\ swallowed = {}
  /\ file = NoFile /\ answers = <<>>

-----------------------------------------------------------------------------
End(how, answer) ==
  /\ at' = "idle" /\ box' = NoAnswer
  /\ outcome' = [outcome EXCEPT ![ask.n] = [how |-> how, answer |-> answer]]
  /\ UNCHANGED <<mode, ask>>

Allowed(answer) == answer # 0 /\ answers[answer].allowed

\* execute, with the response: it must be one of the options, if there are any.
Respond(answer) ==
  End(IF ask.options /\ ~Allowed(answer) THEN "refused" ELSE "accepted", answer)

\* execute -> _get_response.  Over stdin a question with a timeout has its line
\* read by a thread, one without reads it itself.  The prompt file is written
\* before the old response is cleared.
Prompt ==
  /\ at = "idle" /\ ask.n < Questions
  /\ \E timed, options \in BOOLEAN :
       ask' = [n |-> ask.n + 1, timed |-> timed, options |-> options]
  /\ at' = CASE mode = "stdin" -> "join" [] mode = "file" -> "clear" [] OTHER -> "callback"
  /\ readers' = IF mode = "stdin" THEN readers \cup {ask.n + 1} ELSE readers
  /\ UNCHANGED <<mode, box, outcome, lines, eof, swallowed, file, answers>>

NewAnswer(allowed) == answers' = Append(answers, [allowed |-> allowed, after |-> ask.n])

\* The callback answers, or raises.
Callback ==
  /\ at = "callback"
  /\ \/ Len(answers) < MaxAnswers /\ (\E allowed \in BOOLEAN : NewAnswer(allowed))
        /\ at' = "return" /\ box' = Len(answers) + 1 /\ UNCHANGED <<mode, ask, outcome>>
     \/ End("error", NoAnswer) /\ UNCHANGED answers
  /\ UNCHANGED <<stdin, file>>

Conclude ==
  /\ at \in {"return", "join"} /\ box # NoAnswer
  /\ Respond(box)
  /\ UNCHANGED <<stdin, file, answers>>

\* The join or the deadline expires.  The thread that reads stdin stays.
Expire ==
  /\ at \in {"join", "poll"} /\ ask.timed /\ box = NoAnswer
  /\ End("timeout", NoAnswer)
  /\ UNCHANGED <<stdin, file, answers>>

-----------------------------------------------------------------------------
(* stdin.                                                                  *)

Type ==
  /\ mode = "stdin" /\ ~eof /\ Len(answers) < MaxAnswers
  /\ \E allowed \in BOOLEAN : NewAnswer(allowed)
  /\ lines' = Append(lines, Len(answers) + 1)
  /\ UNCHANGED <<asking, readers, eof, swallowed, file>>

CloseStdin ==
  /\ mode = "stdin" /\ ~eof /\ eof' = TRUE
  /\ UNCHANGED <<asking, readers, lines, swallowed, file, answers>>

\* Mutant: the thread of a question that is over reads on.
ReadLineOn(q) ==
  /\ q \in readers /\ (lines # <<>> \/ eof)
  /\ LET answer == IF lines = <<>> THEN 0 ELSE Head(lines)
     IN IF q = ask.n /\ at = "join"
        THEN box' = answer /\ readers' = readers \ {q} /\ UNCHANGED swallowed
        ELSE swallowed' = swallowed \cup {<<q, answer>>} /\ UNCHANGED <<box, readers>>
  /\ lines' = IF lines = <<>> THEN lines ELSE Tail(lines)
  /\ UNCHANGED <<mode, ask, at, outcome, eof, file, answers>>

\* Any thread in readline() may get the next line, or the empty string at the
\* end of stdin.  That of a question that is over keeps it to itself.
ReadLine(q) ==
  /\ q \in readers /\ (lines # <<>> \/ eof)
  /\ readers' = readers \ {q}
  /\ LET answer == IF lines = <<>> THEN 0 ELSE Head(lines)
     IN IF q = ask.n /\ at = "join" THEN box' = answer /\ UNCHANGED swallowed
        ELSE swallowed' = swallowed \cup {<<q, answer>>} /\ UNCHANGED box
  /\ lines' = IF lines = <<>> THEN lines ELSE Tail(lines)
  /\ UNCHANGED <<mode, ask, at, outcome, eof, file, answers>>

-----------------------------------------------------------------------------
(* The pair of files.                                                      *)

\* Mutant: the old response is left there.
ClearNothing ==
  /\ at = "clear" /\ at' = "poll"
  /\ UNCHANGED <<mode, ask, box, outcome, stdin, file, answers>>

ClearOld ==
  /\ at = "clear" /\ at' = "poll" /\ file' = NoFile
  /\ UNCHANGED <<mode, ask, box, outcome, stdin, answers>>

\* One round of the loop: exists, read_text and unlink are three steps.
Exists ==
  /\ at = "poll" /\ file # NoFile /\ at' = "read"
  /\ UNCHANGED <<mode, ask, box, outcome, stdin, file, answers>>

Read ==
  /\ at = "read" /\ at' = "unlink"
  /\ box' = IF file.whole THEN file.by ELSE 0
  /\ UNCHANGED <<mode, ask, outcome, stdin, file, answers>>

Unlink ==
  /\ at = "unlink" /\ at' = "return" /\ file' = NoFile
  /\ UNCHANGED <<mode, ask, box, outcome, stdin, answers>>

\* The human opens the file, which empties it, and then writes.  What is
\* written to a file that was deleted or emptied in the meantime is lost.
OpenFile ==
  /\ mode = "file" /\ Len(answers) < MaxAnswers
  /\ \E allowed \in BOOLEAN : NewAnswer(allowed)
  /\ file' = [by |-> Len(answers) + 1, whole |-> FALSE]
  /\ UNCHANGED <<asking, stdin>>

WriteFile ==
  /\ file # NoFile /\ ~file.whole
  /\ file' = [file EXCEPT !.whole = TRUE]
  /\ answers' = [answers EXCEPT ![file.by].after = ask.n]
  /\ UNCHANGED <<asking, stdin>>

-----------------------------------------------------------------------------
Tool == Callback \/ Conclude \/ Expire \/ ClearOld \/ Exists \/ Read \/ Unlink

HumanNext ==
  \/ Prompt \/ Tool
  \/ Type \/ CloseStdin \/ \E q \in 1..Questions : ReadLine(q)
  \/ OpenFile \/ WriteFile

HumanSpec == HumanInit /\ [][HumanNext]_humanVars

-----------------------------------------------------------------------------
Ids == 0..MaxAnswers

HumanTypeOK ==
  /\ mode \in {"stdin", "file", "callback"}
  /\ ask \in [n : 0..Questions, timed : BOOLEAN, options : BOOLEAN]
  /\ at \in {"idle", "join", "clear", "poll", "read", "unlink", "return", "callback"}
  /\ box \in Ids \cup {NoAnswer}
  /\ outcome \in [1..Questions -> [how : {"none", "accepted", "refused", "timeout", "error"},
                                   answer : Ids \cup {NoAnswer}]]
  /\ readers \subseteq 1..Questions /\ lines \in Seq(1..MaxAnswers) /\ eof \in BOOLEAN
  /\ swallowed \subseteq (1..Questions) \X Ids
  /\ file \in [by : Ids, whole : BOOLEAN]
  /\ answers \in Seq([allowed : BOOLEAN, after : 0..Questions])

Asked == 1..ask.n
Used(q) == outcome[q].answer \notin {NoAnswer, 0}

\* Through the files no answer serves two questions, and none that was all
\* there before a question was asked passes for the answer to it: a stale
\* approval approves nothing.
NoStaleAnswer ==
  mode = "file" =>
    \A q \in Asked : Used(q) =>
      /\ answers[outcome[q].answer].after >= q
      /\ \A p \in Asked : Used(p) /\ outcome[p].answer = outcome[q].answer => p = q

\* Over stdin every line typed is unread, with the question that took it, or
\* lost to the thread of an earlier question; each question that timed out
\* costs at most one of the answers to later ones.
EveryLineAccounted ==
  LET taken == {outcome[q].answer : q \in {p \in Asked : Used(p)}} \cup ({box} \ {NoAnswer, 0})
      lost == {pair[2] : pair \in swallowed} \ {0}
      unread == {lines[i] : i \in DOMAIN lines}
  IN mode = "stdin" =>
       /\ 1..Len(answers) = taken \cup lost \cup unread
       /\ Cardinality(taken) + Cardinality(lost) + Len(lines) = Len(answers)
       /\ \A pair \in swallowed :
            /\ outcome[pair[1]].how = "timeout"
            /\ \A other \in swallowed : other[1] = pair[1] => other = pair
=============================================================================
