------------------------------ MODULE MCPClient ------------------------------
(***************************************************************************)
(* MCPClientTool: the calls of several threads, queued for the one worker  *)
(* of its executor, each in a session of its own with the server; the      *)
(* discovery of the server's tools; and how a request becomes the name and *)
(* the arguments of a call.                                                *)
(*                                                                         *)
(* The server answers, fails, breaks the session or hangs.  A caller waits *)
(* for a bounded time, a worker as long as the server takes.               *)
(***************************************************************************)
EXTENDS Naturals, Sequences, SequencesExt, FiniteSets

CONSTANTS
  Callers,
  Calls,        \* bound: calls that a caller makes
  Ask,          \* caller -> its request, see AskRecords
  Catalogue,    \* the tools of the server, in the order of tools/list
  Overlap,      \* the common words of an attribute and a parameter
  Keywords,     \* the trigger_keywords of the configuration
  AutoDiscover, \* MCPServerConfig.auto_discover
  None

Attributes == DOMAIN Overlap

\* params: parameter -> type; required: in the order of their names; words: the
\* keywords its discovery adds.
ToolRecords == [name : STRING, params : UNION {[P -> {"string", "integer", "array", "any"}] :
                                               P \in SUBSET Attributes},
                required : Seq(Attributes), words : SUBSET STRING]

\* name: the tool it names, or None; phrase: the tools whose name the goal has;
\* score: the words it has in common with each; args: attribute -> value.
AskRecords == [name : STRING \cup {None}, phrase : SUBSET STRING, score : [STRING -> Nat],
               args : UNION {[A -> {"int", "digits", "word"}] : A \in SUBSET Attributes}]

ASSUME MCPClientAssumption ==
  /\ IsFiniteSet(Callers) /\ Calls \in Nat /\ AutoDiscover \in BOOLEAN
  /\ DOMAIN Ask = Callers
  /\ Catalogue \in Seq(ToolRecords) /\ Keywords \subseteq STRING
  /\ \A i, j \in DOMAIN Catalogue : Catalogue[i].name = Catalogue[j].name => i = j
  /\ \A i \in DOMAIN Catalogue : Range(Catalogue[i].required) \subseteq DOMAIN Catalogue[i].params

VARIABLES
  call,       \* the callers, see Init
  queue,      \* the executor's work queue
  worker,     \* the session in progress
  tools,      \* _mcp_tools
  keywords,   \* _keywords, as a set
  closed,     \* close() was called
  submitted,  \* every work item there was
  served      \* the calls the server executed, in order

vars == <<call, queue, worker, tools, keywords, closed, submitted, served>>

Item(c) == [by |-> c, n |-> call[c].n, kind |-> call[c].kind]
Rest == [at |-> "idle", item |-> None, attempt |-> 0]

Init ==
  /\ call = [c \in Callers |-> [at |-> "idle", n |-> 0, kind |-> "call", result |-> "none"]]
  /\ queue = <<>> /\ worker = Rest
  /\ tools = <<>> /\ keywords = Keywords
  /\ closed = FALSE /\ submitted = <<>> /\ served = <<>>

-----------------------------------------------------------------------------
(* From a ToolRequest to a tools/call.                                     *)

\* The first in the catalogue of the tools S.
FirstOf(S) == tools[CHOOSE i \in DOMAIN tools : tools[i] \in S
                                  /\ \A j \in 1..(i - 1) : tools[j] \notin S]

\* _resolve_mcp_tool_name: by its name, by the goal's text, by the words they
\* share, or the first there is; None without a catalogue and a name.
Resolve(ask) ==
  LET known == Range(tools)
      named == {t \in known : t.name = ask.name}
      inGoal == {t \in known : t.name \in ask.phrase}
      best == {t \in known : \A u \in known : ask.score[t.name] >= ask.score[u.name]}
  IN CASE tools = <<>> -> None
       [] named # {} -> FirstOf(named)
       [] named = {} /\ inGoal # {} -> FirstOf(inGoal)
       [] OTHER -> FirstOf(best)

Renamed(args, a, p) ==
  [x \in (DOMAIN args \ {a}) \cup {p} |-> IF x = p THEN args[a] ELSE args[x]]

\* What may take a missing parameter: the attributes with the most words in
\* common with it.  Several may have the most: the code iterates over a set.
Takers(p, free) ==
  {a \in free : Overlap[a][p] > 0 /\ \A b \in free : Overlap[b][p] <= Overlap[a][p]}

Take(maps, p) ==
  UNION { IF Takers(p, m.free) = {} THEN {m}
          ELSE { [args |-> Renamed(m.args, a, p), free |-> m.free \ {a}] : a \in Takers(p, m.free) }
          : m \in maps }

\* A parameter and an attribute that are left over belong together.
PairLast(m, missing) ==
  LET left == missing \ DOMAIN m.args
  IN IF Cardinality(left) = 1 /\ Cardinality(m.free) = 1
     THEN Renamed(m.args, CHOOSE a \in m.free : TRUE, CHOOSE p \in left : TRUE)
     ELSE m.args

\* _remap_arguments: the results it may have.
Remapped(args, tool) ==
  LET free == DOMAIN args \ DOMAIN tool.params
      missing == SelectSeq(tool.required, LAMBDA p : p \notin DOMAIN args)
  IN IF DOMAIN tool.params = {} \/ free = {} \/ missing = <<>> THEN {args}
     ELSE { PairLast(m, Range(missing)) :
            m \in FoldLeft(Take, {[args |-> args, free |-> free]}, missing) }

Coerced(value, type) ==
  CASE type = "string" /\ value = "int" -> "digits"
    [] type = "integer" /\ value = "digits" -> "int"
    [] OTHER -> value

\* _coerce_arguments takes the types from the tool that has most of the names,
\* whichever tool is called.
Typing(args) ==
  LET Common(t) == Cardinality(DOMAIN args \cap DOMAIN t.params)
  IN FirstOf({t \in Range(tools) : \A u \in Range(tools) : Common(t) >= Common(u)}).params

Sent(args) ==
  [x \in DOMAIN args |-> IF x \in DOMAIN Typing(args) THEN Coerced(args[x], Typing(args)[x])
                         ELSE args[x]]

\* The arguments of a call.  Lists are wrapped before the coercion and are not
\* told apart from what is in them.
Arguments(ask, tool) == {Sent(m) : m \in Remapped(ask.args, tool)}

-----------------------------------------------------------------------------
Return(c, result) == call' = [call EXCEPT ![c].at = "idle", ![c].result = result]

\* What goes wrong is a response for execute() and an exception for connect().
Failure(item) == IF item.kind = "call" THEN "failed" ELSE "raised"

\* execute and connect: submit raises when the executor was shut down.
Submit(c, kind) ==
  /\ call[c].at = "idle" /\ call[c].n < Calls
  /\ IF closed
     THEN /\ call' = [call EXCEPT ![c].n = @ + 1, ![c].kind = kind, ![c].result = "raised"]
          /\ UNCHANGED <<queue, submitted>>
     ELSE LET item == [by |-> c, n |-> call[c].n + 1, kind |-> kind]
          IN /\ call' = [call EXCEPT ![c].at = "waiting", ![c].n = @ + 1, ![c].kind = kind]
             /\ queue' = Append(queue, item) /\ submitted' = Append(submitted, item)
  /\ UNCHANGED <<worker, tools, keywords, closed, served>>

Execute(c) == Submit(c, "call")
Connect(c) == Submit(c, "connect")

\* Mutant: only those that still wait in the queue give up.
TimeOutQueued(c) ==
  /\ call[c].at = "waiting" /\ Item(c) \in Range(queue)
  /\ Return(c, "timeout")
  /\ UNCHANGED <<queue, worker, tools, keywords, closed, submitted, served>>

\* The caller gives up.  The work item is not cancelled.
TimeOut(c) ==
  /\ call[c].at = "waiting"
  /\ Return(c, "timeout")
  /\ UNCHANGED <<queue, worker, tools, keywords, closed, submitted, served>>

\* Mutant: the work item of the call stays with the worker.
TakeItemTwice ==
  /\ worker.at = "idle" /\ queue # <<>>
  /\ worker' = [Rest EXCEPT !.at = "session", !.item = Head(queue)]
  /\ queue' \in {queue, Tail(queue)}
  /\ UNCHANGED <<call, tools, keywords, closed, submitted, served>>

\* The worker opens a session.
TakeItem ==
  /\ worker.at = "idle" /\ queue # <<>>
  /\ worker' = [Rest EXCEPT !.at = "session", !.item = Head(queue)]
  /\ queue' = Tail(queue)
  /\ UNCHANGED <<call, tools, keywords, closed, submitted, served>>

\* _call_via_stdio and _call_via_http list the tools unless they are known,
\* connect lists them anyway.
Listing(item) == item.kind = "connect" \/ (AutoDiscover /\ tools = <<>>)

Initialize ==
  /\ worker.at = "session"
  /\ worker' = [worker EXCEPT !.at = IF Listing(worker.item) THEN "list" ELSE "ready"]
  /\ UNCHANGED <<call, queue, tools, keywords, closed, submitted, served>>

\* The keywords of the discovered tools; one that is there is not added again.
NewWords == UNION {Catalogue[i].words : i \in DOMAIN Catalogue}

\* _discover_tools, with three attempts; after the third the call goes on.  What
\* is known already is not overwritten.
ListTools ==
  /\ worker.at = "list"
  /\ IF tools = <<>> THEN tools' = Catalogue /\ keywords' = keywords \cup NewWords
     ELSE UNCHANGED <<tools, keywords>>
  /\ worker' = [worker EXCEPT !.at = "ready"]
  /\ UNCHANGED <<call, queue, closed, submitted, served>>

ListFails ==
  /\ worker.at = "list"
  /\ worker' = IF worker.attempt < 2 THEN [worker EXCEPT !.attempt = @ + 1]
               ELSE [worker EXCEPT !.at = "ready"]
  /\ UNCHANGED <<call, queue, tools, keywords, closed, submitted, served>>

\* The future has its result: the caller gets it unless it gave up.
Finish(item, result) ==
  /\ worker' = Rest
  /\ IF call[item.by].at = "waiting" /\ Item(item.by) = item
     THEN Return(item.by, result) ELSE UNCHANGED call

\* The session breaks, before or after the server executed the call.
SessionFails ==
  /\ worker.at \notin {"idle", "hung"}
  /\ Finish(worker.item, Failure(worker.item))
  /\ UNCHANGED <<queue, tools, keywords, closed, submitted, served>>

Nameless(ask) == tools = <<>> /\ ask.name = None

\* _call_tool without a tool to call.
Unresolved ==
  /\ worker.at = "ready" /\ worker.item.kind = "call" /\ Nameless(Ask[worker.item.by])
  /\ Finish(worker.item, Failure(worker.item))
  /\ UNCHANGED <<queue, tools, keywords, closed, submitted, served>>

\* tools/call reaches the server, which executes it.  Without a catalogue the
\* name is passed on as it is.
Serve ==
  /\ worker.at = "ready" /\ worker.item.kind = "call" /\ ~Nameless(Ask[worker.item.by])
  /\ LET ask == Ask[worker.item.by]
     IN \E args \in IF tools = <<>> THEN {ask.args} ELSE Arguments(ask, Resolve(ask)) :
          served' = Append(served, [item |-> worker.item, args |-> args,
                                    tool |-> IF tools = <<>> THEN ask.name ELSE Resolve(ask).name])
  /\ worker' = [worker EXCEPT !.at = "called"]
  /\ UNCHANGED <<call, queue, tools, keywords, closed, submitted>>

Answer ==
  /\ worker.at = "called"
  /\ Finish(worker.item, "ok")
  /\ UNCHANGED <<queue, tools, keywords, closed, submitted, served>>

\* _async_connect is done, whether or not the tools could be listed.
Connected ==
  /\ worker.at = "ready" /\ worker.item.kind = "connect"
  /\ Finish(worker.item, "ok")
  /\ UNCHANGED <<queue, tools, keywords, closed, submitted, served>>

\* The server never answers: the worker is lost.
Hang ==
  /\ worker.at \in {"session", "list", "called"}
  /\ worker' = [worker EXCEPT !.at = "hung"]
  /\ UNCHANGED <<call, queue, tools, keywords, closed, submitted, served>>

\* close: what waits in the queue is cancelled, the session goes on.
Close ==
  /\ ~closed /\ closed' = TRUE
  /\ queue' = <<>>
  /\ call' = [c \in Callers |->
                IF call[c].at = "waiting" /\ Item(c) \in Range(queue)
                THEN [call[c] EXCEPT !.at = "idle", !.result = Failure(Item(c))]
                ELSE call[c]]
  /\ UNCHANGED <<worker, tools, keywords, submitted, served>>

Work == TakeItem \/ Initialize \/ ListTools \/ ListFails \/ SessionFails \/ Unresolved
        \/ Serve \/ Answer \/ Connected

Next ==
  \/ \E c \in Callers : Execute(c) \/ Connect(c) \/ TimeOut(c)
  \/ Work \/ Hang \/ Close

Spec == Init /\ [][Next]_vars

\* The callers' clocks run; the server owes nothing.
FairSpec == Spec /\ \A c \in Callers : WF_vars(TimeOut(c))

-----------------------------------------------------------------------------
Kinds == {"call", "connect"}
Items == [by : Callers, n : 1..Calls, kind : Kinds]
Results == {"none", "ok", "failed", "timeout", "raised"}

TypeOK ==
  /\ call \in [Callers -> [at : {"idle", "waiting"}, n : 0..Calls, kind : Kinds,
                       result : Results]]
  /\ queue \in Seq(Items) /\ submitted \in Seq(Items)
  /\ worker \in [at : {"idle", "session", "list", "ready", "called", "hung"},
                 item : Items \cup {None}, attempt : 0..2]
  /\ tools \in {<<>>, Catalogue} /\ keywords \subseteq STRING /\ closed \in BOOLEAN
  /\ \A i \in DOMAIN served : served[i].item \in Items

\* The server executes each call at most once, in the order they were made,
\* however callers time out and repeat themselves; a caller that has its
\* result "ok" has it of this very call.
InOrderOnce ==
  LET place(item) == CHOOSE i \in DOMAIN submitted : submitted[i] = item
  IN /\ TypeOK
     /\ \A i, j \in DOMAIN served : i < j => place(served[i].item) < place(served[j].item)
     /\ \A c \in Callers : call[c].at = "idle" /\ call[c].result = "ok" /\ call[c].kind = "call" =>
          \E i \in DOMAIN served : served[i].item = Item(c)

\* Every execute() comes back, even if the server hangs for ever.
ExecuteReturns == \A c \in Callers : call[c].at = "waiting" ~> call[c].at = "idle"
=============================================================================
