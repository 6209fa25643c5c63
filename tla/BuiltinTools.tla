---------------------------- MODULE BuiltinTools ----------------------------
(***************************************************************************)
(* The built-in tools as a workflow of the demo session uses them: a goal  *)
(* goes to the tool with the longest keyword in it, the tool finds what it *)
(* works on by scanning the entities in their order, and what it answers   *)
(* becomes attributes of entities, which the tools of later goals find.    *)
(*                                                                         *)
(* An entity's attributes are those the tools look for.  Goals, keywords   *)
(* and queries are the strings themselves, because a keyword is found      *)
(* anywhere in a goal.  HumanInLoopTool and MCPClientTool have modules of  *)
(* their own.                                                              *)
(***************************************************************************)
EXTENDS LLMPlayer, SequencesExt

CONSTANTS
  Workflows,   \* goals, the entities they start with, and what the LLM may write
  Runtimes,    \* the languages a program can be started in
  Docs,        \* documents in the knowledge base
  MaxTurns,    \* turns of a play; the code's default is 30
  MaxHits,     \* bound: hits of a web search
  MaxNow       \* bound: seconds that pass

ASSUME ToolsAssumption == {Docs, MaxTurns, MaxHits, MaxNow} \subseteq Nat

-----------------------------------------------------------------------------
\* The registry of a session, in the order of registration, which decides ties.
Tools == <<"AICodeGenTool", "LLMPlayerTool", "FileSaveTool", "WebSearchTool", "RAGTool", "CodeRunnerTool",
           "APICallTool", "DatabaseTool", "FileReaderTool", "ValidatorTool", "LuaRunTool">>

Joined(verbs, nouns) == {v \o " " \o n : v \in verbs, n \in nouns}

CodeGenKeywords ==
  Joined({"generate"}, {"python code", "python script", "lua code", "lua script", "javascript code", "js code",
                        "shell code", "shell script", "python", "lua", "javascript", "js", "shell", "script",
                        "program", "code"})
  \cup Joined({"write"}, {"python code", "python script", "lua code", "javascript code", "code", "script"})
  \cup Joined({"create"}, {"python code", "python script", "code", "script"}) \cup {"implement code", "implement"}

PlayerKeywords ==
  {"run interactively", "run with llm", "let llm drive", "automate program", "llm player", "simulate input",
   "play interactively", "play and record", "run and record", "play game", "let llm play", "simulate player"}

SaveKeywords ==
  Joined({"save", "write", "export"}, {"file", "csv", "data", "results", "to file"})
  \cup {"save output", "write output", "store file", "persist file"}

SearchKeywords ==
  {"retrieve web_information", "search web", "search internet", "web search", "online search", "look up",
   "fetch web", "search online", "retrieve information", "web_search"}

RAGKeywords ==
  {"retrieve information", "search database", "query vector", "rag query", "retrieve document",
   "knowledge base", "retrieve knowledge", "fetch document"}

RunnerKeywords ==
  {"run code", "execute code", "run script", "execute script", "run python", "execute python", "compute",
   "calculate", "run javascript", "run lua", "execute program"}

APIKeywords ==
  {"call api", "http request", "rest call", "api request", "fetch url", "http get", "http post",
   "web request", "call endpoint", "invoke api"}

DatabaseKeywords ==
  {"query database", "sql query", "database lookup", "retrieve from database", "query sql",
   "database query", "execute sql", "query table", "fetch rows"}

ReaderKeywords ==
  {"read file", "open file", "parse file", "read document", "extract text", "read pdf", "read csv",
   "read docx", "load file", "file content"}

ValidatorKeywords ==
  {"validate output", "validate schema", "check format", "verify schema", "validate relatelang",
   "check rl", "validate response", "schema check"}

LuaKeywords == {"run lua script", "run lua interactively"}

Keywords == [
  AICodeGenTool |-> CodeGenKeywords, LLMPlayerTool |-> PlayerKeywords, FileSaveTool |-> SaveKeywords,
  WebSearchTool |-> SearchKeywords, RAGTool |-> RAGKeywords, CodeRunnerTool |-> RunnerKeywords,
  APICallTool |-> APIKeywords, DatabaseTool |-> DatabaseKeywords, FileReaderTool |-> ReaderKeywords,
  ValidatorTool |-> ValidatorKeywords, LuaRunTool |-> LuaKeywords]

\* The triggers that the schema of each tool advertises to the planner.
CodeGenTriggers ==
  Joined({"generate"}, {"python code", "python script", "lua code", "lua script", "javascript code", "js code",
                        "shell code", "shell script", "code", "script"})
  \cup Joined({"write"}, {"python code", "lua code", "javascript code", "code", "script"})
  \cup {"implement code", "create code"}

RunnerTriggers ==
  {"run python code", "run python script", "run lua code", "run javascript code", "run shell script",
   "run code", "execute code", "run script"}

PlayerTriggers ==
  {"play game with llm player and record choices", "play game", "play text adventure", "play python game",
   "play adventure", "play and record choices", "let llm play", "play interactively with llm player"}

SearchTriggers == {"retrieve web_information", "search web", "look up"}

APITriggers == {"call api", "http request", "fetch url"}

ReaderTriggers == {"read file", "parse file", "extract text"}

SaveTriggers ==
  Joined({"save", "write"}, {"file", "csv", "data"}) \cup Joined({"export"}, {"csv", "results"})
  \cup {"save results", "save output"}

ValidatorTriggers ==
  {"validate output", "validate schema", "check format", "verify schema", "schema check", "check rl"}

RAGTriggers ==
  {"retrieve information", "rag query", "knowledge base", "retrieve knowledge", "retrieve document"}

DatabaseTriggers ==
  {"query database", "sql query", "database lookup", "retrieve from database", "execute sql"}

LuaTriggers == {"run lua script", "run lua interactively"}

Advertised == [
  AICodeGenTool |-> CodeGenTriggers, CodeRunnerTool |-> RunnerTriggers, LLMPlayerTool |-> PlayerTriggers,
  WebSearchTool |-> SearchTriggers, APICallTool |-> APITriggers, FileReaderTool |-> ReaderTriggers,
  FileSaveTool |-> SaveTriggers, ValidatorTool |-> ValidatorTriggers, RAGTool |-> RAGTriggers,
  DatabaseTool |-> DatabaseTriggers, LuaRunTool |-> LuaTriggers]

\* kw in goal.lower(): where k begins in g, if anywhere.
Places(k, g) == {i \in 1..(Len(g) + 1 - Len(k)) : SubSeq(g, i, i + Len(k) - 1) = k}

\* How long the longest keyword of the tool in the goal is, 0 without one.
Longest(tool, g) == Max({0} \cup {Len(k) : k \in {x \in Keywords[tool] : Places(x, g) # {}}})

\* Mutant: the first tool with a keyword in the goal.
RouteToolFirst(g) ==
  LET hits == {i \in DOMAIN Tools : Longest(Tools[i], g) > 0} IN
  IF hits = {} THEN "LLM" ELSE Tools[Min(hits)]

\* _route_tool: the first of the tools whose keyword is longest.
RouteTool(g) ==
  LET best == Max({Longest(Tools[i], g) : i \in DOMAIN Tools}) IN
  IF best = 0 THEN "LLM" ELSE Tools[Min({i \in DOMAIN Tools : Longest(Tools[i], g) = best})]

\* The tool of each goal that occurs.
Routed == [g \in UNION {{w.goals[i] : i \in DOMAIN w.goals} : w \in Workflows} |-> RouteTool(g)]

-----------------------------------------------------------------------------
VARIABLES
  wf,       \* the workflow
  at,       \* the goal it is at
  graph,    \* the entities in their order: name, attrs
  disk,     \* the files by path, see File
  now,      \* the clock, in seconds
  status,   \* what became of the goals so far
  ran       \* the file the last run or play started

toolVars == <<wf, at, graph, disk, now, status, ran>>
toolboxVars == <<wf, at, graph, disk, now, status, ran, prog, piped, queued, player>>

\* A path is a stem and an extension.  no: the script's number in the order of their
\* generation, 0 for other files; asks: it reads its standard input.
Path(stem, ext) == [stem |-> stem, ext |-> ext]
File(no, asks) == [no |-> no, asks |-> asks]
NoFile == File(0, FALSE)

\* The stem of the script that is generated in a second.
ScriptName(second) == "rof_generated_" \o ToString(second)

IsScript(path) == \E second \in 0..MaxNow : path.stem = ScriptName(second)

\* Nobody but AICodeGenTool names a script it generates, and the LLM points no entity's
\* saved_to elsewhere: who names a script by its path wants that one, not the latest.
ASSUME WorkflowsAssumption ==
  \A w \in Workflows :
    /\ w.entities \in Seq(Range(w.entities))
    /\ \A e \in Range(w.entities) :
         /\ {"name", "attrs"} \subseteq DOMAIN e
         /\ \A a \in {"saved_to", "file_path"} \cap DOMAIN e.attrs : ~IsScript(e.attrs[a])
    /\ \A r \in w.replies :
         /\ "saved_to" \notin DOMAIN r.attrs
         /\ "file_path" \in DOMAIN r.attrs => ~IsScript(r.attrs["file_path"])

Generated == Cardinality({i \in DOMAIN status : status[i] = "generated"})

Get(i, a, d) == IF a \in DOMAIN graph[i].attrs THEN graph[i].attrs[a] ELSE d
With(a) == {i \in DOMAIN graph : a \in DOMAIN graph[i].attrs}
Filled(a) == {i \in With(a) : graph[i].attrs[a] # ""}
Stored(a) == {i \in With(a) : graph[i].attrs[a] \in DOMAIN disk}

\* The attributes of old that new does not set, and those it sets.
Over(new, old) == [a \in DOMAIN new \cup DOMAIN old |-> IF a \in DOMAIN new THEN new[a] ELSE old[a]]

Holds(g, name) == \E i \in DOMAIN g : g[i].name = name

\* graph.set_attribute for each of attrs; an entity that is new comes last.
SetAttributes(g, name, attrs) ==
  IF Holds(g, name)
  THEN [i \in DOMAIN g |-> IF g[i].name = name THEN [g[i] EXCEPT !.attrs = Over(attrs, @)] ELSE g[i]]
  ELSE Append(g, [name |-> name, attrs |-> attrs])

\* The disk with a file written to it.
Written(path, file) == [p \in DOMAIN disk \cup {path} |-> IF p = path THEN file ELSE disk[p]]

ToolboxInit ==
  /\ wf \in Workflows
  /\ at = 1 /\ graph = wf.entities /\ now = 0
  /\ disk = [p \in wf.files |-> NoFile]
  /\ status = <<>> /\ ran = NoFile
  /\ PlayerInit

\* Goal: the next goal is one for the tool.
Goal == wf.goals[at]
Turn(tool) == player.mode = "off" /\ at <= Len(wf.goals) /\ Routed[Goal] = tool

\* _execute_tool_step, after the tool: the goal is achieved, with the attributes that
\* the answer has by entity, or failed.
Done(s) == /\ status' = Append(status, s) /\ at' = at + 1
           /\ UNCHANGED <<wf, now>>

Fails == Done("failed") /\ UNCHANGED <<graph, disk, ran, playVars>>

\* An answer that is not by entity leaves the graph alone.
Achieves == Done("achieved") /\ UNCHANGED <<graph, disk, playVars>>

Writes(g) == Done("achieved") /\ graph' = g /\ UNCHANGED <<disk, ran, playVars>>

-----------------------------------------------------------------------------
\* AICodeGenTool

Languages == <<"python", "lua", "javascript", "js", "shell", "bash", "typescript", "ruby", "go", "rust">>

\* _extract_language: the first that occurs anywhere in the goal, even in a word.
ExtractLanguage(g) ==
  LET said == {l \in DOMAIN Languages : Places(Languages[l], g) # {}}
      given == Filled("language")
  IN  CASE said # {} -> Languages[Min(said)]
        [] said = {} /\ given # {} -> graph[Min(given)].attrs["language"]
        [] OTHER -> "python"

Ext(lang) ==
  CASE lang = "python" -> ".py" [] lang = "lua" -> ".lua" [] lang \in {"javascript", "js"} -> ".js"
    [] lang \in {"shell", "bash"} -> ".sh" [] OTHER -> "." \o lang

\* Mutant: the entity that was defined last.
EntityNameLast == IF graph = <<>> THEN "GeneratedCode" ELSE graph[Len(graph)].name

\* _entity_name
EntityName ==
  CASE With("language") # {} -> graph[Min(With("language"))].name
    [] With("language") = {} /\ graph # <<>> -> graph[1].name
    [] OTHER -> "GeneratedCode"

\* A file of the same second and language is written over.  asks: the LLM wrote a
\* program that reads its input, whether or not it was told to.
Generate ==
  /\ Turn("AICodeGenTool")
  /\ \/ Fails    \* the LLM raised, or its code was empty
     \/ \E asks \in BOOLEAN :
          LET lang == ExtractLanguage(Goal)
              path == Path(ScriptName(now), Ext(lang))
          IN  /\ disk' = Written(path, File(Generated + 1, asks))
              /\ graph' = SetAttributes(graph, EntityName, [language |-> lang, saved_to |-> path])
              /\ Done("generated") /\ UNCHANGED <<ran, playVars>>

-----------------------------------------------------------------------------
\* CodeRunnerTool

AllowedLanguages == {"python", "javascript", "lua", "shell"}
ExtLanguage == ".py" :> "python" @@ ".lua" :> "lua" @@ ".js" :> "javascript" @@ ".sh" :> "shell"

\* The language an entity without code leaves behind for those after it.
HintBefore(i) ==
  LET hints == {j \in Filled("language") \cap Filled("description") : j < i} IN
  IF hints = {} THEN "python" ELSE graph[Max(hints)].attrs["language"]

\* The code that is run: that of the first entity with code, or with a saved file.
Source ==
  LET owners == Filled("code") \cup Stored("saved_to")
      i == Min(owners)
  IN  CASE owners = {} -> [file |-> NoFile, code |-> FALSE, lang |-> HintBefore(Len(graph) + 1)]
        [] owners # {} /\ i \in Filled("code") ->
             [file |-> NoFile, code |-> TRUE, lang |-> Get(i, "language", HintBefore(i))]
        [] OTHER ->
             LET path == graph[i].attrs["saved_to"] IN
             [file |-> disk[path], code |-> TRUE,
              lang |-> Get(i, "language",
                           IF path.ext \in DOMAIN ExtLanguage THEN ExtLanguage[path.ext] ELSE HintBefore(i))]

\* _run: the language has a runtime.  A copy in a temporary file is removed again.
Runnable(lang) == lang \in Runtimes \cup {"shell"}

\* The interactive guard refuses a program that reads its input.  A run fails by its
\* return code or by the timeout.
Run ==
  /\ Turn("CodeRunnerTool")
  /\ LET src == Source IN
     IF src.lang \notin AllowedLanguages \/ ~src.code \/ src.file.asks \/ ~Runnable(src.lang)
     THEN Fails
     ELSE /\ ran' = src.file
          /\ \/ Achieves
             \/ Done("failed") /\ UNCHANGED <<graph, disk, playVars>>

-----------------------------------------------------------------------------
\* LLMPlayerTool

PlayerExtensions == ".py" :> "python" @@ ".lua" :> "lua" @@ ".js" :> "javascript"

\* The language of an entity without a saved file is kept for those after it.
FallbackBefore(i) ==
  LET said == {j \in Filled("language") : j < i} IN
  IF said = {} THEN "python" ELSE graph[Max(said)].attrs["language"]

\* Any attribute may name a program that exists.
Named == {n \in UNION {{<<i, a>> : a \in DOMAIN graph[i].attrs \cap {"saved_to", "file_path", "path"}}
                         : i \in DOMAIN graph} :
            LET path == graph[n[1]].attrs[n[2]] IN path \in DOMAIN disk /\ path.ext \in DOMAIN PlayerExtensions}

\* _find_script: the first saved file, or else the first program an attribute names.
FindScript ==
  LET saved == Stored("saved_to")
      i == Min(saved)
      first == {n \in Named : \A m \in Named : n[1] <= m[1]}
  IN  CASE saved # {} -> {[path |-> graph[i].attrs["saved_to"], lang |-> Get(i, "language", FallbackBefore(i))]}
        [] OTHER -> {LET path == graph[n[1]].attrs[n[2]] IN
                     [path |-> path, lang |-> PlayerExtensions[path.ext]] : n \in first}

\* The last entity that sets max_turns decides; 0 is as if it were not set.
Turns ==
  LET set == {i \in With("max_turns") : graph[i].attrs["max_turns"] # 0} IN
  IF set = {} THEN MaxTurns ELSE graph[Max(set)].attrs["max_turns"]

\* No script, or no runtime for it (_build_cmd).
PlayRefused == Turn("LLMPlayerTool") /\ (\A s \in FindScript : s.lang \notin Runtimes) /\ Fails

\* A program that does not read its input may be played as well.
PlayBegins ==
  /\ Turn("LLMPlayerTool")
  /\ \E s \in FindScript, slow, stubborn \in BOOLEAN :
       /\ s.lang \in Runtimes
       /\ ran' = disk[s.path]
       /\ StartPlay(Turns, slow, stubborn)
  /\ UNCHANGED <<wf, at, graph, disk, now, status>>

\* The transcript is saved, unless the LLM call raised.
PlayOver ==
  /\ player.mode = "over"
  /\ player' = [player EXCEPT !.mode = "off"]
  /\ IF player.code = "raised" THEN Done("failed") /\ UNCHANGED disk
     ELSE /\ Done("achieved")
          /\ disk' = Written(Path("rof_transcript_" \o ToString(now), ".txt"), NoFile)
  /\ UNCHANGED <<graph, ran, prog, piped, queued>>

-----------------------------------------------------------------------------
\* WebSearchTool, RAGTool and APICallTool, whose answers are entities.

QueryPrefixes == <<"retrieve web_information about", "search web for", "search internet for", "look up", "fetch web">>

\* _extract_query: what follows the first of the prefixes that occurs.
ExtractQuery(g) ==
  LET said == {p \in DOMAIN QueryPrefixes : Places(QueryPrefixes[p], g) # {}} IN
  IF said = {} THEN g
  ELSE LET k == QueryPrefixes[Min(said)] IN SubSeq(g, Min(Places(k, g)) + Len(k) + 1, Len(g))

\* The m-th of a set of numbers.
Nth(S, m) == CHOOSE k \in S : Cardinality({j \in S : j <= k}) = m

\* What one entity of the answer after the other is set to; no two have a name in
\* common.  Those that are new come last, in the order of the answer.
SetAll(g, answer) ==
  LET about(name) == {k \in DOMAIN answer : answer[k].name = name}
      new == {k \in DOMAIN answer : ~Holds(g, answer[k].name)}
      known == [i \in DOMAIN g |->
                  IF about(g[i].name) = {} THEN g[i]
                  ELSE LET k == CHOOSE k \in about(g[i].name) : TRUE
                       IN [g[i] EXCEPT !.attrs = Over(answer[k].attrs, @)]]
  IN known \o [m \in 1..Cardinality(new) |-> answer[Nth(new, m)]]

\* The summary of an answer, and its hits, whose attributes are found.
Summary(name, query, n) == <<[name |-> name, attrs |-> [query |-> query, result_count |-> n]]>>

Hits(hit, n, found) == [i \in 1..n |-> [name |-> hit \o ToString(i), attrs |-> found]]

\* _search: how many hits the first backend that answers has, or the made-up one when
\* none does.
HitCounts == 0..MaxHits \cup {1}

Search ==
  /\ Turn("WebSearchTool")
  /\ \E n \in HitCounts :
       LET query == ExtractQuery(Goal)
           found == [found_for |-> query, url |-> "link"]
       IN  Writes(SetAll(graph, Summary("WebSearchResults", query, n) \o Hits("SearchResult", n, found)))

\* _query: the best of the documents, top_k at most.
TopK == Min({Docs, 3})

\* The documents come before their summary.
Retrieve ==
  /\ Turn("RAGTool")
  /\ Writes(SetAll(graph, Hits("KnowledgeDoc", TopK, [found_for |-> Goal])
                            \o Summary("RAGResults", Goal, TopK)))

\* The answer of a server that reports an error is not kept.
Call ==
  /\ Turn("APICallTool")
  /\ \/ Fails
     \/ /\ With("url") # {}
        /\ Writes(SetAttributes(graph, "APICallResult", [status_code |-> "2xx", body |-> "text"]))

-----------------------------------------------------------------------------
\* The tools that work on a file, a text or a statement found in the graph; their
\* answers are not by entity.

ReadExtensions == {".txt", ".md", ".csv", ".json", ".pdf", ".docx", ".xlsx", ".html"}

\* FileReaderTool: the first entity with a path decides, whether it exists or not.
Read ==
  /\ Turn("FileReaderTool")
  /\ LET path == graph[Min(With("path"))].attrs["path"] IN
     IF With("path") = {} THEN Fails
     ELSE IF path \notin DOMAIN disk \/ path.ext \notin ReadExtensions THEN Fails
     ELSE Fails \/ (Achieves /\ UNCHANGED ran)    \* _read raises, or reads it

\* FileSaveTool: the text of the first entity with content or, if that is empty, of
\* MCPResult; the path of that first entity or else of the first that has one, or a
\* temporary file.
Save ==
  /\ Turn("FileSaveTool")
  /\ LET first == IF With("content") = {} THEN {} ELSE {Min(With("content"))}
         mcp == {i \in Filled("content") \cup Filled("result") : graph[i].name = "MCPResult"}
         own == first \cap With("file_path")
         owners == IF own # {} THEN own ELSE With("file_path")
         path == IF owners = {} THEN Path("tmp", ".txt") ELSE graph[Min(owners)].attrs["file_path"]
     IN  IF (first \cap Filled("content")) \cup mcp = {} THEN Fails
         ELSE \/ Fails    \* it cannot be written
              \/ /\ disk' = Written(path, NoFile)
                 /\ Done("achieved") /\ UNCHANGED <<graph, ran, playVars>>

\* The issues of a text that is RL, of one without a statement, and of prose.
Issues(content) == CASE content = "rl" -> {} [] content = "silent" -> {"warning"} [] OTHER -> {"error"}

\* ValidatorTool: the content of the first entity that has one has no errors, and no
\* warnings where the entity says so.
Validate ==
  /\ Turn("ValidatorTool")
  /\ LET e == graph[Min(With("content"))].attrs IN
     IF With("content") = {} THEN Fails
     ELSE IF e["content"] = "" THEN Fails
     ELSE IF "error" \in Issues(e["content"]) \/ ("fail_on_warning" \in DOMAIN e /\ Issues(e["content"]) # {})
     THEN Fails ELSE Achieves /\ UNCHANGED ran

\* _execute: a statement that selects may succeed; what is not SQL fails.
Executes(sql) == sql \in wf.selects

\* DatabaseTool: the first entity with a query or an sql attribute.  Without one the
\* goal is achieved; a statement that writes is refused, the session's database being
\* read-only.
Query ==
  /\ Turn("DatabaseTool")
  /\ LET owners == Filled("query") \cup Filled("sql")
         i == Min(owners)
         sql == IF i \in Filled("query") THEN graph[i].attrs["query"] ELSE graph[i].attrs["sql"]
     IN  IF owners = {} THEN Achieves /\ UNCHANGED ran
         ELSE IF ~Executes(sql) THEN Fails
         ELSE Fails \/ (Achieves /\ UNCHANGED ran)

\* LuaRunTool: the first entity with a file_path; the program has the terminal.
RunLua ==
  /\ Turn("LuaRunTool")
  /\ LET path == graph[Min(With("file_path"))].attrs["file_path"] IN
     IF With("file_path") = {} THEN Fails
     ELSE IF path \notin DOMAIN disk \/ "lua" \notin Runtimes THEN Fails
     ELSE /\ ran' = disk[path]
          /\ Achieves \/ (Done("failed") /\ UNCHANGED <<graph, disk, playVars>>)

-----------------------------------------------------------------------------
\* A goal without a tool is the LLM's: its reply sets an attribute, or it fails.
Reply ==
  /\ Turn("LLM")
  /\ Fails \/ \E r \in wf.replies : Writes(SetAttributes(graph, r.name, r.attrs))

Tick == now < MaxNow /\ player.mode = "off" /\ now' = now + 1
        /\ UNCHANGED <<wf, at, graph, disk, status, ran, playVars>>

Play == player.mode \notin {"off", "over"} /\ PlayStep /\ UNCHANGED toolVars

Work == Generate \/ Run \/ PlayRefused \/ PlayBegins \/ PlayOver \/ Search \/ Retrieve \/ Call
        \/ Read \/ Save \/ Validate \/ Query \/ RunLua \/ Reply

ToolboxNext == Work \/ Play \/ Tick

ToolboxSpec == ToolboxInit /\ [][ToolboxNext]_toolboxVars

-----------------------------------------------------------------------------
\* What CodeRunnerTool and LLMPlayerTool start is the script that was generated
\* last, whichever entities the goals before left in the graph, unless an entity
\* has code of its own.
RunsLatest == [][ran' # ran /\ ran'.no # 0 => ran'.no = Generated]_toolboxVars

\* The advertised triggers that reach another tool, or none: see the README.
Astray == {"retrieve information", "play text adventure", "play adventure", "play python game", "run shell script"}

\* A goal that is one of the other triggers the schemas advertise is done by the tool
\* that advertises it.
TriggersReach ==
  at <= Len(wf.goals) => \A t \in DOMAIN Advertised : Goal \in Advertised[t] \ Astray => Routed[Goal] = t
=============================================================================
