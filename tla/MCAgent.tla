------------------------------ MODULE MCAgent ------------------------------
EXTENDS Agent, TLC

At(x, v) == [y \in {x} |-> v]

G == [tokens |-> {}, mentions |-> {}, writes |-> Empty, needs |-> Empty, llm |-> "think",
      rag |-> FALSE, tool |-> TRUE, analysis |-> FALSE]

\* "code" is about the game that "deal" mentions, and saves a script; "deal" needs
\* a parameter, and is an analysis of the page the plan links to; the RAG tool
\* does "search"; the LLM does "think", and each of the others under that name.
MCAbout == [
  code   |-> [G EXCEPT !.tokens = {"Game"}, !.mentions = {"Game"}, !.writes = At("script", "word")],
  deal   |-> [G EXCEPT !.mentions = {"Game"}, !.needs = At("card", "string"),
                       !.writes = At("report", "word"), !.analysis = TRUE],
  search |-> [G EXCEPT !.rag = TRUE, !.writes = At("docs", "word")],
  think  |-> [G EXCEPT !.tool = FALSE, !.writes = At("answer", "word")]]

\* A play of one goal is good enough for the mission, one with a failed step is not.
MCPlans == [
  play |-> {[goals |-> <<"code", "deal">>, attrs |-> At("card", "int") @@ At("link", "word")],
            [goals |-> <<"code">>, attrs |-> At("link", "word")]},
  find |-> {[goals |-> <<"search">>, attrs |-> Empty], [goals |-> <<>>, attrs |-> Empty]}]

MCScripts == At("script", "player")
MCPages == At("link", "page")
\* The process that wrote the third line could not read the first two.
MCPrior ==
  [i \in 1..3 |-> [cycle |-> <<1, 2, 1>>[i], pattern |-> "find", ok |-> TRUE, good |-> FALSE,
                   by |-> 0]]
MCPattern == [play |-> "play", find |-> "find"]
=============================================================================
