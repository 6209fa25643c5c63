--------------------------- MODULE MCBuiltinTools ---------------------------
EXTENDS BuiltinTools

W(goals, entities, files, replies) ==
  [goals |-> goals, entities |-> entities, files |-> files, replies |-> replies,
   selects |-> {"SELECT name FROM customers"}]

E(name, attrs) == [name |-> name, attrs |-> attrs]

notes == Path("notes", ".txt")
game == Path("game", ".py")
tune == Path("tune", ".lua")

Task == E("Task", "language" :> "lua")
Report == E("Report", "content" :> "" @@ "file_path" :> notes)
Config == E("Config", "max_turns" :> 2)

\* Scripts are generated, run and played, over entities with and without a language,
\* while the LLM gives another entity one.
Scripts == {
  W(<<"generate python code for a game", "write summary", "generate lua code for a game", "play game">>,
    <<Config, Task>>, {}, {E("Config", "language" :> "python"), E("Note", "language" :> "lua")}),
  W(<<"generate code to evaluate a polynomial", "generate python code", "run code", "run python code">>,
    <<Config, E("Sum", "language" :> "shell" @@ "description" :> "adds")>>, {}, {}),
  W(<<"generate js code", "run code", "run and record">>, <<>>, {}, {}),
  W(<<"generate shell script", "execute code">>, <<E("Own", "code" :> "print(1)")>>, {}, {}),
  W(<<"play game", "generate python script", "play game">>, <<E("Game", "path" :> game)>>, {game}, {})}

\* Answers that later goals find, files that are written and read, and statements.
Answers == {
  W(<<"retrieve web_information about turing", "query database", "call api">>, <<>>, {}, {}),
  W(<<"retrieve knowledge", "compose report", "save results", "read file", "validate output">>,
    <<Report, E("Input", "path" :> notes)>>, {}, {E("Report", "content" :> "rl"), E("Report", "content" :> "silent")}),
  W(<<"write to file", "read file">>, <<E("Input", "path" :> notes), E("MCPResult", "result" :> "text")>>, {}, {}),
  W(<<"query database", "search web for lamport", "query database", "run lua script">>,
    <<E("Ask", "query" :> "SELECT name FROM customers"), E("Tune", "file_path" :> tune)>>, {tune}, {})}

\* Each trigger that the schemas advertise.
Triggers == {W(<<k>>, <<Task>>, {}, {}) : k \in UNION {Advertised[t] : t \in DOMAIN Advertised}}

MCWorkflows == Scripts \cup Answers \cup Triggers
=============================================================================
