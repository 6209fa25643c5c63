--------------------------- MODULE ConfidentRouting ---------------------------
(***************************************************************************)
(* Learned routing: ConfidentOrchestrator runs the goals of a stage,       *)
(* ConfidentToolRouter weighs the static match of a tool against what its  *)
(* session and the shared RoutingMemory observed, and every tool step is   *)
(* scored and recorded in both.                                            *)
(*                                                                         *)
(* The stages are the threads of a fan-out group: each has its session of  *)
(* its own, all have the same RoutingMemory.  Confidences are integers, in *)
(* thousandths and rounded down.  The keyword and embedding match is a     *)
(* constant.                                                               *)
(***************************************************************************)
EXTENDS Naturals, Sequences, SequencesExt, FiniteSets

CONSTANTS
  Stages,
  Program,     \* the goals of each stage, in order
  Tools,
  Match,       \* goal -> what ToolRouter.route returns: tool and confidence
  HintTables,  \* the routing hints considered: goal -> hint, see NoHint
  Uth,         \* uncertainty_threshold
  Outcomes,    \* what a tool step may bring, see Score
  MaxRuns,     \* bound: runs of the pipeline
  None

Goals == DOMAIN Match
Keys == Goals \X Tools
Thousandths == 0..1000

\* The RoutingStats objects: a stage creates an entry at most once, for entries
\* are never removed.
Objects == Stages \X Keys

\* floor: min_confidence, 0 for none.
HintRecords == [required : Tools \cup {None}, floor : Nat, fallback : Tools \cup {None}]
NoHint == [required |-> None, floor |-> 0, fallback |-> None]

\* made and extended: the attributes a step adds to entities it creates and to
\* entities there were; relevant: whether the goal names them.
OutcomeRecords == [ok : BOOLEAN, made : Nat, extended : Nat, relevant : BOOLEAN]

ASSUME ConfidentRoutingAssumption ==
  /\ IsFiniteSet(Stages) /\ MaxRuns \in Nat /\ Uth \in Nat
  /\ None \notin Tools \cup Keys \cup Objects
  /\ \A g \in Goals : Match[g].tool \in Tools \cup {None} /\ Match[g].conf \in Thousandths
  /\ Program \in [Stages -> Seq(Goals)]
  /\ HintTables \subseteq [Goals -> HintRecords]
  /\ Outcomes \subseteq OutcomeRecords

VARIABLES
  hints,  \* the hints of the workflows
  st,     \* the stages, see Begin
  heap,   \* the RoutingStats objects
  mem,    \* RoutingMemory._stats: key -> object
  hist    \* key -> the outcomes recorded since the memory began and who recorded
          \* some; how many runs and lost memories there were

vars == <<hints, st, heap, mem, hist>>

Min2(a, b) == IF a < b THEN a ELSE b
Sum(seq) == FoldLeft(LAMBDA x, y : x + y, 0, seq)

\* A new RoutingStats: attempt_count and ema_confidence, which are what is read.
Prior == [n |-> 0, ema |-> 500]

\* at: where the step is; key and outcome: the routed tool and what it brought;
\* obj and val: the object and the value last read from it; log: the steps done,
\* with the tool or None for the LLM.
Begin == [at |-> "route", key |-> None, outcome |-> None, obj |-> None, val |-> 0,
          session |-> [k \in Keys |-> <<>>], log |-> <<>>]

Init ==
  /\ hints \in HintTables
  /\ st = [s \in Stages |-> Begin]
  /\ heap = [o \in Objects |-> Prior]
  /\ mem = [k \in Keys |-> None]
  /\ hist = [seen |-> [k \in Keys |-> 0], by |-> [k \in Keys |-> {}], runs |-> 1, lost |-> 0]

-----------------------------------------------------------------------------
(* ConfidentToolRouter.                                                    *)

Stats(k) == IF mem[k] = None THEN Prior ELSE heap[mem[k]]

\* Tiers weigh 0.35, 0.40 and 0.25, the two learned ones by their reliability:
\* full after 5 observations of the session and 10 of the memory.
Composite(static, session, stats) ==
  LET we == 80 * Min2(Len(session), 5)
      wh == 25 * Min2(stats.n, 10)
      avg == IF session = <<>> THEN 500 ELSE Sum(session) \div Len(session)
  IN (350 * static + we * avg + wh * stats.ema) \div (350 + we + wh)

\* A hint that requires another tool puts the static confidence of the tool that
\* matched in place of the composite.
Required(h, d, static) ==
  IF h.required \notin {None, d.tool} THEN [tool |-> h.required, conf |-> static] ELSE d

\* The floor falls back to another tool, or else raises the confidence to itself.
Floored(h, d) ==
  IF d.conf >= h.floor THEN d
  ELSE [tool |-> IF h.fallback = None THEN d.tool ELSE h.fallback, conf |-> h.floor]

\* route, with what it read of the memory: without a match no hint is looked at.
Decide(g, session, stats) ==
  LET m == Match[g]
  IN IF m.tool = None THEN [tool |-> None, conf |-> 0]
     ELSE Floored(hints[g],
                  Required(hints[g],
                           [tool |-> m.tool, conf |-> Composite(m.conf, session[<<g, m.tool>>], stats)],
                           m.conf))

\* ConfidentOrchestrator._route_tool: None for the LLM.
RouteTool(g, session, stats) ==
  LET d == Decide(g, session, stats) IN IF d.conf < Uth THEN None ELSE d.tool

-----------------------------------------------------------------------------
(* GoalSatisfactionScorer.                                                 *)

\* graph.snapshot() shares the attribute dictionaries with the graph: what a
\* step adds to an entity there was is in the snapshot from before the step too.
SeenNew(out) == out.made

ScoreOf(out, new) ==
  LET base == IF out.ok THEN 300 ELSE 0
      bonus == IF out.relevant THEN Min2(150 * new, 300) ELSE 0
  IN Min2(base + Min2(100 * new, 400) + bonus, 1000)

Score(out) == ScoreOf(out, SeenNew(out))

-----------------------------------------------------------------------------
Become(s, r) == st' = [st EXCEPT ![s] = r]
Goal(s) == Program[s][Len(st[s].log) + 1]
Done(s) == Len(st[s].log) = Len(Program[s])

\* The goal is routed; the LLM's steps are not recorded.
Dispatch(s, t) ==
  LET k == <<Goal(s), t>>
  IN IF t = None
     THEN Become(s, [st[s] EXCEPT !.at = "route", !.val = 0,
                                  !.log = Append(@, [key |-> k, score |-> 0])])
     ELSE Become(s, [st[s] EXCEPT !.at = "tool", !.val = 0, !.key = k])

\* What the memory knows of the matched tool: get_historical_confidence looks for
\* observations, reads ema_confidence and then attempt_count.
Consult(s) ==
  /\ st[s].at = "route" /\ ~Done(s)
  /\ LET m == Match[Goal(s)].tool
         stats == IF m = None THEN Prior ELSE Stats(<<Goal(s), m>>)
     IN IF stats.n = 0
        THEN Dispatch(s, RouteTool(Goal(s), st[s].session, Prior))
        ELSE Become(s, [st[s] EXCEPT !.at = "weigh", !.val = stats.ema])
  /\ UNCHANGED <<hints, heap, mem, hist>>

Weigh(s) ==
  /\ st[s].at = "weigh"
  /\ LET stats == [Stats(<<Goal(s), Match[Goal(s)].tool>>) EXCEPT !.ema = st[s].val]
     IN Dispatch(s, RouteTool(Goal(s), st[s].session, stats))
  /\ UNCHANGED <<hints, heap, mem, hist>>

\* Mutant: the entry is created in any case.
ToolReturnsAnew(s, out) ==
  /\ st[s].at = "tool"
  /\ Become(s, [st[s] EXCEPT !.at = "create", !.outcome = out])
  /\ UNCHANGED <<hints, heap, mem, hist>>

\* The tool returns and RoutingMemory.update begins, one access of shared data at
\* a time: an entry that is there is fetched, or else one is created.
ToolReturns(s, out) ==
  LET o == mem[st[s].key]
  IN /\ st[s].at = "tool"
     /\ Become(s, IF o = None
                  THEN [st[s] EXCEPT !.at = "create", !.outcome = out]
                  ELSE [st[s] EXCEPT !.at = "attempt", !.outcome = out, !.obj = o])
     /\ UNCHANGED <<hints, heap, mem, hist>>

Create(s) ==
  /\ st[s].at = "create"
  /\ LET o == <<s, st[s].key>>
     IN /\ heap' = [heap EXCEPT ![o] = Prior]
        /\ mem' = [mem EXCEPT ![st[s].key] = o]
  /\ Become(s, [st[s] EXCEPT !.at = "fetch"])
  /\ UNCHANGED <<hints, hist>>

Fetch(s) ==
  /\ st[s].at = "fetch"
  /\ Become(s, [st[s] EXCEPT !.at = "attempt", !.obj = mem[st[s].key]])
  /\ UNCHANGED <<hints, heap, mem, hist>>

\* RoutingStats.update: self.attempt_count += 1, a read and a write, ...
ReadCount(s) ==
  /\ st[s].at = "attempt"
  /\ Become(s, [st[s] EXCEPT !.at = "count", !.val = heap[st[s].obj].n])
  /\ UNCHANGED <<hints, heap, mem, hist>>

WriteCount(s) ==
  /\ st[s].at = "count"
  /\ heap' = [heap EXCEPT ![st[s].obj].n = st[s].val + 1]
  /\ Become(s, [st[s] EXCEPT !.at = "ema", !.val = 0])
  /\ UNCHANGED <<hints, mem, hist>>

\* ... and the moving average likewise.
ReadEma(s) ==
  /\ st[s].at = "ema"
  /\ Become(s, [st[s] EXCEPT !.at = "write", !.val = heap[st[s].obj].ema])
  /\ UNCHANGED <<hints, heap, mem, hist>>

Updated(ema, score) == (3 * score + 7 * ema) \div 10

\* ... then SessionMemory.record and the RoutingTrace: the step is over.
Record(s) ==
  LET score == Score(st[s].outcome)
      k == st[s].key
  IN /\ st[s].at = "write"
     /\ heap' = [heap EXCEPT ![st[s].obj].ema = Updated(st[s].val, score)]
     /\ hist' = [hist EXCEPT !.seen[k] = @ + 1, !.by[k] = @ \cup {s}]
     /\ Become(s, [Begin EXCEPT !.session = [st[s].session EXCEPT ![k] = Append(@, score)],
                                !.log = Append(st[s].log, [key |-> k, score |-> score])])
     /\ UNCHANGED <<hints, mem>>

Step(s) ==
  \/ Consult(s) \/ Weigh(s)
  \/ Create(s) \/ Fetch(s)
  \/ ReadCount(s) \/ WriteCount(s) \/ ReadEma(s) \/ Record(s)
  \/ \E out \in Outcomes : ToolReturns(s, out)

\* Mutant: the sessions outlive the run.
NextRunSameSession ==
  /\ \A s \in Stages : Done(s)
  /\ hist.runs < MaxRuns
  /\ st' = [s \in Stages |-> [Begin EXCEPT !.session = st[s].session]]
  /\ hist' = [hist EXCEPT !.runs = @ + 1]
  /\ UNCHANGED <<hints, heap, mem>>

\* The next run of the pipeline: sessions are new, the memory is the same, or
\* what was saved of it.
NextRun ==
  /\ \A s \in Stages : Done(s)
  /\ hist.runs < MaxRuns
  /\ st' = [s \in Stages |-> Begin]
  /\ hist' = [hist EXCEPT !.runs = @ + 1]
  /\ UNCHANGED <<hints, heap, mem>>

\* The next process without a saved memory.
NextRunAnew ==
  /\ \A s \in Stages : Done(s)
  /\ hist.runs < MaxRuns
  /\ st' = [s \in Stages |-> Begin]
  /\ mem' = [k \in Keys |-> None]
  /\ heap' = [o \in Objects |-> Prior]
  /\ hist' = [seen |-> [k \in Keys |-> 0], by |-> [k \in Keys |-> {}],
              runs |-> hist.runs + 1, lost |-> hist.lost + 1]
  /\ UNCHANGED hints

Next == (\E s \in Stages : Step(s)) \/ NextRun \/ NextRunAnew

Spec == Init /\ [][Next]_vars

-----------------------------------------------------------------------------
Entries == [n : Nat, ema : Thousandths]
Phases == {"route", "weigh", "tool", "create", "fetch", "attempt", "count", "ema", "write"}
LogEntries == [key : Goals \X (Tools \cup {None}), score : Thousandths]
StageRecords ==
  [at : Phases, key : Keys \cup {None}, outcome : Outcomes \cup {None}, obj : Objects \cup {None},
   val : Nat, session : [Keys -> Seq(Thousandths)], log : Seq(LogEntries)]

TypeOK ==
  /\ hints \in HintTables
  /\ st \in [Stages -> StageRecords] /\ \A s \in Stages : Len(st[s].log) <= Len(Program[s])
  /\ heap \in [Objects -> Entries] /\ mem \in [Keys -> Objects \cup {None}]
  /\ hist \in [seen : [Keys -> Nat], by : [Keys -> SUBSET Stages], runs : Nat, lost : Nat]

\* Of the first n steps of a stage, those that a tool did for a goal.
Own(log, k, n) == {i \in 1..n : i \in DOMAIN log /\ log[i].key = k}

\* The session of a stage is the stage's own: what it holds of a tool is what
\* this tool brought in this run, in order, whatever the other stages record.
SessionIsOwn ==
  /\ TypeOK
  /\ \A s \in Stages, k \in Keys :
       LET log == st[s].log
           session == st[s].session[k]
       IN /\ Len(session) = Cardinality(Own(log, k, Len(log)))
          /\ \A i \in Own(log, k, Len(log)) : session[Cardinality(Own(log, k, i))] = log[i].score

\* What the threads may do to the shared statistics: an outcome may be lost to
\* another thread's entry or write, but none is counted twice or for another
\* tool, none is lost where only one stage uses the tool, and a tool that was
\* observed is not forgotten when all steps are through.
Users(k) == hist.by[k] \cup {s \in Stages : st[s].key = k}
Quiet == \A s \in Stages : st[s].at \in {"route", "weigh"}

\* The attempt of a step under way is in attempt_count already.
Counted(s) == st[s].at \in {"ema", "write"}

MemoryAccounts ==
  \A k \in Keys :
    /\ Stats(k).n <= hist.seen[k] + Cardinality({s \in Stages : Counted(s) /\ st[s].key = k})
    /\ Cardinality(Users(k)) <= 1 /\ Quiet => Stats(k).n = hist.seen[k]
    /\ Quiet /\ hist.seen[k] > 0 => Stats(k).n > 0

-----------------------------------------------------------------------------
\* "Capture state BEFORE the step mutates the graph": the score credits every
\* attribute that the tool wrote.
CreditsDelta ==
  \A s \in Stages : st[s].outcome # None =>
    Score(st[s].outcome) = ScoreOf(st[s].outcome, st[s].outcome.made + st[s].outcome.extended)

\* "reject if composite below this": a tool is not run with a confidence below
\* the min_confidence of the goal's hint.
MinConfidenceRejects ==
  \A s \in Stages, g \in Goals, t \in Tools :
    st[s].at = "tool" /\ st[s].key = <<g, t>> /\ t = Match[g].tool =>
      Composite(Match[g].conf, st[s].session[<<g, t>>], Stats(<<g, t>>)) >= hints[g].floor
=============================================================================
