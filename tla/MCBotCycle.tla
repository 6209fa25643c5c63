----------------------------- MODULE MCBotCycle -----------------------------
EXTENDS BotCycle

CONSTANTS c1, c2

MCClients == {c1, c2}

G(tool, writes) == [tool |-> tool, writes |-> writes]

\* The goals of the workflows by the tool they are routed to, shortened, and
\* with the goal a deployment adds to have its decisions carried out.
MCRlGoals ==
  [collect |-> <<G("source", "raw")>>,
   analyse |-> <<G("signal", "raw"), G("signal", "raw")>>,
   validate |-> <<G("enrich", "raw"), G("read", "state")>>,
   decide |-> <<G("analyse", "features"), G("llm", "Decision")>>,
   execute |-> <<G("act", "Action"), G("llm", "Action"), G("write", "state")>>]

St(name, keeps) == [name |-> name, rl |-> TRUE, inject |-> TRUE, keeps |-> keeps]

File(readable, policy, stages) == [readable |-> readable, policy |-> policy, stages |-> stages]

\* A file that cannot be read, twice; two stages that are repeated, then halt the
\* pipeline; and a single stage.
Pair == <<St("decide", {}), [St("analyse", {}) EXCEPT !.rl = FALSE], St("execute", {"Decision", "Action"})>>

MCFiles == <<File(FALSE, "", <<>>), File(TRUE, "continue", <<>>),
             File(TRUE, "retry", Pair), File(TRUE, "halt", Pair),
             File(TRUE, "never", <<St("validate", {})>>)>>

Lim(first, last, dry, provider, cycles, fails, time, halts, cs) ==
  [first |-> first, last |-> last, dry |-> dry, provider |-> provider, cycles |-> cycles, faults |-> fails, now |-> time,
   halts |-> halts, clients |-> cs, shuts |-> cs # {}]

MCLimits == {Lim(1, 2, FALSE, "ready", 2, 2, 0, 0, {}), Lim(1, 1, FALSE, "ready", 2, 1, 3, 0, {}),
             Lim(3, 4, FALSE, "ready", 2, 2, 0, 0, {}),
             Lim(3, 3, TRUE, "ready", 1, 1, 0, 0, {}), Lim(4, 4, TRUE, "missing", 1, 1, 0, 0, {}),
             Lim(5, 5, FALSE, "ready", 2, 0, 0, 1, {c1, c2})}
=============================================================================
