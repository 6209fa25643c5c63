------------------------ MODULE ConfidentRoutingProofs ------------------------
(***************************************************************************)
(* Learned routing for any stages, programs, tools, hints and outcomes,    *)
(* and any number of runs: sessions are the stages' own, and what the      *)
(* threads make of the shared statistics is bounded by what was observed.  *)
(***************************************************************************)
EXTENDS ConfidentRouting, FiniteSetTheorems, SequenceTheorems, TLAPS

-----------------------------------------------------------------------------
(* Where a step is, and what it has in hand there.                         *)

Fetching == {"attempt", "count", "ema", "write"}

\* A goal that is being routed has no key; a step of a tool has one, from its
\* return on an outcome, and from the fetch on an object of that key.
InHand(s, r) ==
  /\ IF r.at \in {"route", "weigh"} THEN r.key = None ELSE r.key \in Keys
  /\ r.at \notin {"route", "weigh", "tool"} => r.outcome \in Outcomes
  /\ r.at \in Fetching => r.obj \in Objects /\ r.obj[2] = r.key
  /\ r.at = "write" => r.val \in Thousandths
  /\ Len(r.log) <= Len(Program[s])
  /\ r.at # "route" => Len(r.log) < Len(Program[s])

\* An object is in hand only where the key has an entry.
Typed ==
  /\ TypeOK
  /\ \A s \in Stages : /\ InHand(s, st[s])
                       /\ st[s].at \in {"fetch"} \cup Fetching => mem[st[s].key] # None
  /\ \A k \in Keys : mem[k] # None => mem[k][2] = k

-----------------------------------------------------------------------------
(* The shared statistics.                                                  *)

Counting(k) == {s \in Stages : Counted(s) /\ st[s].key = k}

\* What was observed of a key: recorded, or counted by a step under way.
Total(k) == hist.seen[k] + Cardinality(Counting(k))

\* No object and no thread has a count beyond what was observed.
Bounded(k) ==
  /\ \A o \in Objects : o[2] = k => heap[o].n <= Total(k)
  /\ \A s \in Stages : st[s].at = "count" /\ st[s].key = k => st[s].val <= Total(k)

\* With one user, its object is the entry and the entry's count is exact.
Exact(k) ==
  (\A s, t \in Users(k) : s = t) =>
    /\ Stats(k).n = Total(k)
    /\ \A s \in Stages : st[s].key = k =>
         /\ st[s].at = "create" => mem[k] = None
         /\ st[s].at \in Fetching => st[s].obj = mem[k]
         /\ st[s].at = "count" => st[s].val = Total(k)

\* s will count up the object o, which is the entry of k.
WillCount(s, k, o) ==
  /\ st[s].key = k
  /\ \/ st[s].at = "fetch"
     \/ st[s].at \in {"attempt", "count"} /\ st[s].obj = o

\* A key without an entry was never observed, and an entry that nobody has
\* counted up yet will be.
Noted(k) ==
  IF mem[k] = None
  THEN hist.seen[k] = 0
  ELSE heap[mem[k]].n > 0 \/ \E s \in Stages : WillCount(s, k, mem[k])

MemoryInv == \A k \in Keys : Bounded(k) /\ Exact(k) /\ Noted(k)

-----------------------------------------------------------------------------
(* Operators.                                                              *)

\* Whatever the confidence is, a goal goes to a tool or to the LLM.
LEMMA RoutesToTools ==
  ASSUME hints \in HintTables, NEW g \in Goals, NEW session, NEW stats
  PROVE  RouteTool(g, session, stats) \in Tools \cup {None}
<1>1. hints[g] \in HintRecords /\ Match[g].tool \in Tools \cup {None}
  BY ConfidentRoutingAssumption
<1>2. \A d : d.tool \in Tools \cup {None} =>
        /\ Floored(hints[g], d).tool \in Tools \cup {None}
        /\ \A c : Required(hints[g], d, c).tool \in Tools \cup {None}
  BY <1>1 DEF Floored, Required, HintRecords
<1>3. Decide(g, session, stats).tool \in Tools \cup {None}
  <2> DEFINE d == [tool |-> Match[g].tool,
                   conf |-> Composite(Match[g].conf, session[<<g, Match[g].tool>>], stats)]
  <2>1. d.tool \in Tools \cup {None}
    BY <1>1
  <2>2. Decide(g, session, stats).tool = None
        \/ Decide(g, session, stats) = Floored(hints[g], Required(hints[g], d, Match[g].conf))
    BY DEF Decide
  <2> HIDE DEF d
  <2> QED BY <2>1, <2>2, <1>2
<1> QED BY <1>3 DEF RouteTool

LEMMA ScoreTyped == ASSUME NEW out \in Outcomes PROVE Score(out) \in Thousandths
<1>1. out.ok \in BOOLEAN /\ out.made \in Nat /\ out.relevant \in BOOLEAN
  BY ConfidentRoutingAssumption DEF OutcomeRecords
<1> QED BY <1>1 DEF Score, ScoreOf, SeenNew, Min2, Thousandths

LEMMA UpdatedTyped ==
  ASSUME NEW ema \in Thousandths, NEW score \in Thousandths PROVE Updated(ema, score) \in Thousandths
BY DEF Updated, Thousandths

LEMMA BeginTyped == Begin \in StageRecords
<1>1. [k \in Keys |-> <<>>] \in [Keys -> Seq(Thousandths)] /\ <<>> \in Seq(LogEntries)
  OBVIOUS
<1> QED BY <1>1 DEF Begin, StageRecords, Phases

-----------------------------------------------------------------------------
(* Types.                                                                  *)

\* What a step of s leaves alone: the other stages.
Others(s) == \A u \in Stages \ {s} : st'[u] = st[u]

\* Where a stage becomes a record that has in hand what it should, and the entries
\* and the rest keep their types, the types are kept.
LEMMA TypedAgain ==
  ASSUME Typed, NEW s \in Stages, NEW r \in StageRecords, Become(s, r), InHand(s, r), hints' = hints,
         heap' \in [Objects -> Entries], mem' \in [Keys -> Objects \cup {None}],
         \A k \in Keys : mem'[k] # None => mem'[k][2] = k,
         \A k \in Keys : mem[k] # None => mem'[k] # None,
         r.at \in {"fetch"} \cup Fetching => mem'[r.key] # None,
         hist' \in [seen : [Keys -> Nat], by : [Keys -> SUBSET Stages], runs : Nat, lost : Nat]
  PROVE  Typed' /\ st'[s] = r /\ Others(s)
<1>1. st' \in [Stages -> StageRecords] /\ st'[s] = r /\ Others(s)
  BY DEF Become, Typed, TypeOK, Others
<1>2. \A t \in Stages : InHand(t, st'[t])
  BY <1>1 DEF Typed, Others
<1>3. \A t \in Stages : Len(st'[t].log) <= Len(Program[t])
  BY <1>2 DEF InHand
<1>4. \A t \in Stages : st'[t].at \in {"fetch"} \cup Fetching => mem'[st'[t].key] # None
  <2>1. \A t \in Stages \ {s} : st'[t] = st[t] /\ InHand(t, st[t])
          /\ (st[t].at \in {"fetch"} \cup Fetching => mem[st[t].key] # None)
    BY <1>1 DEF Typed, Others
  <2>2. \A t \in Stages \ {s} : st[t].at \in {"fetch"} \cup Fetching => mem'[st[t].key] # None
    BY <2>1 DEF InHand, Fetching
  <2> QED BY <1>1, <2>1, <2>2
<1> QED BY <1>1, <1>2, <1>3, <1>4 DEF Typed, TypeOK, InHand

\* The same where nothing but the stage changes.
LEMMA StageTyped ==
  ASSUME Typed, NEW s \in Stages, NEW r \in StageRecords, Become(s, r), InHand(s, r),
         r.at \in {"fetch"} \cup Fetching => mem[r.key] # None,
         UNCHANGED <<hints, heap, mem, hist>>
  PROVE  Typed' /\ st'[s] = r /\ Others(s)
BY TypedAgain DEF Typed, TypeOK

LEMMA StageIs ==
  ASSUME Typed, NEW s \in Stages
  PROVE  /\ st[s] \in StageRecords /\ InHand(s, st[s])
         /\ Program[s] \in Seq(Goals) /\ Len(Program[s]) \in Nat
         /\ st[s].log \in Seq(LogEntries) /\ Len(st[s].log) \in Nat
BY ConfidentRoutingAssumption DEF Typed, TypeOK, StageRecords

\* A goal of a stage that has not done all.
LEMMA GoalTyped ==
  ASSUME Typed, NEW s \in Stages, Len(st[s].log) < Len(Program[s])
  PROVE  Goal(s) \in Goals
BY StageIs DEF Goal

\* A goal that is dispatched: the LLM's step is over, a tool's begins.
LEMMA DispatchTyped ==
  ASSUME Typed, NEW s \in Stages, st[s].at \in {"route", "weigh"}, ~Done(s),
         NEW t \in Tools \cup {None}, Dispatch(s, t), UNCHANGED <<hints, heap, mem, hist>>
  PROVE  /\ Typed' /\ Others(s)
         /\ st'[s].session = st[s].session
         /\ \/ /\ st'[s].at = "tool" /\ st'[s].key \in Keys /\ st'[s].log = st[s].log
            \/ /\ st'[s].at = "route" /\ st'[s].key = None
               /\ \E k : k \notin Keys /\ st'[s].log = Append(st[s].log, [key |-> k, score |-> 0])
<1> DEFINE k == <<Goal(s), t>>
           e == [key |-> k, score |-> 0]
           llm == [st[s] EXCEPT !.at = "route", !.val = 0, !.log = Append(@, e)]
           tool == [st[s] EXCEPT !.at = "tool", !.val = 0, !.key = k]
<1>1. st[s].key = None /\ Len(st[s].log) < Len(Program[s])
  BY StageIs DEF InHand, Done
<1>2. Goal(s) \in Goals
  BY <1>1, GoalTyped
<1>3. None \notin Tools
  BY ConfidentRoutingAssumption
<1>4. CASE t = None
  <2>1. e \in LogEntries /\ k \notin Keys
    BY <1>2, <1>3, <1>4 DEF LogEntries, Keys, Thousandths
  <2>2. Append(st[s].log, e) \in Seq(LogEntries) /\ Len(Append(st[s].log, e)) = Len(st[s].log) + 1
    BY <2>1, StageIs
  <2>3. llm \in StageRecords
    <3>1. st[s] \in StageRecords /\ Append(st[s].log, e) \in Seq(LogEntries)
      BY <2>2, StageIs
    <3> QED BY <3>1 DEF StageRecords, Phases
  <2>4. llm.at = "route" /\ llm.log = Append(st[s].log, e)
        /\ llm.session = st[s].session /\ llm.key = None
    BY <1>1, StageIs DEF StageRecords
  <2>5. Become(s, llm)
    BY <1>4 DEF Dispatch
  <2> HIDE DEF e, llm, tool
  <2>6. Len(llm.log) <= Len(Program[s])
    BY <1>1, <2>2, <2>4, StageIs
  <2>7. InHand(s, llm)
    BY <2>4, <2>6 DEF InHand, Fetching
  <2>8. Typed' /\ st'[s] = llm /\ Others(s)
    BY <2>3, <2>4, <2>5, <2>7, StageTyped DEF Fetching
  <2> QED BY <2>1, <2>4, <2>8 DEF e
<1>5. CASE t # None
  <2>1. k \in Keys
    BY <1>2, <1>5 DEF Keys
  <2>2. tool \in StageRecords
    <3>1. st[s] \in StageRecords
      BY StageIs
    <3> QED BY <2>1, <3>1 DEF StageRecords, Phases
  <2>3. tool.at = "tool" /\ tool.key = k /\ tool.log = st[s].log /\ tool.session = st[s].session
    BY StageIs DEF StageRecords
  <2>4. Become(s, tool)
    BY <1>5 DEF Dispatch
  <2> HIDE DEF e, llm, tool
  <2>5. InHand(s, tool)
    BY <1>1, <2>1, <2>3, StageIs DEF InHand, Fetching
  <2>6. Typed' /\ st'[s] = tool /\ Others(s)
    BY <2>2, <2>3, <2>4, <2>5, StageTyped DEF Fetching
  <2> QED BY <2>1, <2>3, <2>6
<1> QED BY <1>4, <1>5
LEMMA StatsTyped == ASSUME Typed, NEW k \in Keys PROVE Stats(k) \in Entries
BY DEF Typed, TypeOK, Stats, Prior, Entries, Thousandths

\* A step of the router: the LLM's step is over, a tool's begins, or the tier of
\* the memory is being weighed.
LEMMA RouterTyped ==
  ASSUME Typed, NEW s \in Stages, Consult(s) \/ Weigh(s)
  PROVE  /\ Typed' /\ Others(s)
         /\ st[s].at \in {"route", "weigh"} /\ st[s].key = None
         /\ st'[s].session = st[s].session
         /\ \/ /\ st'[s].at = "tool" /\ st'[s].key \in Keys /\ st'[s].log = st[s].log
            \/ /\ st'[s].at = "route" /\ st'[s].key = None
               /\ \E k : k \notin Keys /\ st'[s].log = Append(st[s].log, [key |-> k, score |-> 0])
            \/ /\ st'[s].at = "weigh" /\ st'[s].key = None /\ st'[s].log = st[s].log
<1>1. st[s].at \in {"route", "weigh"} /\ ~Done(s) /\ st[s].key = None
      /\ Len(st[s].log) < Len(Program[s]) /\ UNCHANGED <<hints, heap, mem, hist>>
  BY StageIs DEF Consult, Weigh, Done, InHand
<1>2. ASSUME NEW session, NEW stats, Dispatch(s, RouteTool(Goal(s), session, stats))
      PROVE  \E t \in Tools \cup {None} : Dispatch(s, t)
  BY <1>1, <1>2, GoalTyped, RoutesToTools DEF Typed, TypeOK
<1>3. CASE \E t \in Tools \cup {None} : Dispatch(s, t)
  BY <1>1, <1>3, DispatchTyped
<1>4. CASE Weigh(s)
  BY <1>2, <1>3, <1>4 DEF Weigh
<1>5. CASE Consult(s)
  <2> DEFINE m == Match[Goal(s)].tool
             stats == IF m = None THEN Prior ELSE Stats(<<Goal(s), m>>)
             r == [st[s] EXCEPT !.at = "weigh", !.val = stats.ema]
  <2>1. CASE stats.n = 0
    BY <1>2, <1>3, <1>5, <2>1 DEF Consult
  <2>2. CASE stats.n # 0
    <3>1. Goal(s) \in Goals /\ m \in Tools \cup {None} /\ Prior.ema \in Nat
      BY <1>1, GoalTyped, ConfidentRoutingAssumption DEF Prior
    <3>2. stats.ema \in Nat
      BY <3>1, StatsTyped DEF Entries, Keys, Thousandths
    <3>3. Become(s, r)
      BY <1>5, <2>2 DEF Consult
    <3> HIDE DEF stats
    <3>4. r \in StageRecords
      <4>1. st[s] \in StageRecords
        BY StageIs
      <4> QED BY <3>2, <4>1 DEF StageRecords, Phases
    <3>5. r.at = "weigh" /\ r.log = st[s].log /\ r.session = st[s].session /\ r.key = None
      BY <1>1, StageIs DEF StageRecords
    <3> HIDE DEF r
    <3>6. InHand(s, r)
      BY <1>1, <3>5 DEF InHand, Fetching
    <3>7. Typed' /\ st'[s] = r /\ Others(s)
      BY <1>1, <3>3, <3>4, <3>5, <3>6, StageTyped DEF Fetching
    <3> QED BY <1>1, <3>5, <3>7
  <2> QED BY <2>1, <2>2
<1> QED BY <1>4, <1>5
\* The steps of a tool: nothing but the place, the outcome and what is in hand
\* changes until the outcome is recorded.
Kept(s) ==
  /\ Others(s)
  /\ st'[s].key = st[s].key /\ st'[s].session = st[s].session /\ st'[s].log = st[s].log

LEMMA ToolReturnsTyped ==
  ASSUME Typed, NEW s \in Stages, NEW out \in Outcomes, ToolReturns(s, out)
  PROVE  /\ Typed' /\ Kept(s)
         /\ IF mem[st[s].key] = None THEN st'[s].at = "create"
            ELSE st'[s].at = "attempt" /\ st'[s].obj = mem[st[s].key]
<1> DEFINE o == mem[st[s].key]
           new == [st[s] EXCEPT !.at = "create", !.outcome = out]
           old == [st[s] EXCEPT !.at = "attempt", !.outcome = out, !.obj = o]
<1>0. st[s] \in StageRecords
  BY StageIs
<1>1. st[s].at = "tool" /\ st[s].key \in Keys /\ UNCHANGED <<hints, heap, mem, hist>>
  BY StageIs DEF ToolReturns, InHand
<1>2. o # None => o \in Objects /\ o[2] = st[s].key
  BY <1>1 DEF Typed, TypeOK
<1>3. CASE o = None
  <2>1. new \in StageRecords
    BY <1>0 DEF StageRecords, Phases
  <2>2. new.at = "create" /\ new.outcome = out /\ new.key = st[s].key
        /\ new.session = st[s].session /\ new.log = st[s].log
    BY StageIs DEF StageRecords
  <2>3. Become(s, new)
    BY <1>3 DEF ToolReturns
  <2> HIDE DEF new
  <2>4. InHand(s, new)
    BY <1>1, <2>2, StageIs DEF InHand, Fetching
  <2>5. Typed' /\ st'[s] = new /\ Others(s)
    BY <1>1, <2>1, <2>2, <2>3, <2>4, StageTyped DEF Fetching
  <2> QED BY <1>3, <2>2, <2>5 DEF Kept
<1>4. CASE o # None
  <2>1. old \in StageRecords
    BY <1>0, <1>2, <1>4 DEF StageRecords, Phases
  <2>2. old.at = "attempt" /\ old.outcome = out /\ old.obj = o /\ old.key = st[s].key
        /\ old.session = st[s].session /\ old.log = st[s].log
    BY StageIs DEF StageRecords
  <2>3. Become(s, old)
    BY <1>4 DEF ToolReturns
  <2> HIDE DEF old
  <2>4. InHand(s, old)
    BY <1>1, <1>2, <1>4, <2>2, StageIs DEF InHand, Fetching
  <2>5. Typed' /\ st'[s] = old /\ Others(s)
    BY <1>1, <1>4, <2>1, <2>2, <2>3, <2>4, StageTyped
  <2> QED BY <1>4, <2>2, <2>5 DEF Kept
<1> QED BY <1>3, <1>4

LEMMA CreateTyped ==
  ASSUME Typed, NEW s \in Stages, Create(s)
  PROVE  Typed' /\ Kept(s) /\ st'[s].at = "fetch" /\ st[s].key \in Keys /\ <<s, st[s].key>> \in Objects
<1> DEFINE o == <<s, st[s].key>>
           r == [st[s] EXCEPT !.at = "fetch"]
<1>0. st[s] \in StageRecords
  BY StageIs
<1>1. st[s].at = "create" /\ st[s].key \in Keys /\ st[s].outcome \in Outcomes
      /\ UNCHANGED <<hints, hist>> /\ Len(st[s].log) < Len(Program[s])
  BY StageIs DEF Create, InHand
<1>2. o \in Objects /\ o[2] = st[s].key /\ o # None
  BY <1>1, ConfidentRoutingAssumption DEF Objects
<1>3. r \in StageRecords
  BY <1>0 DEF StageRecords, Phases
<1>4. r.at = "fetch" /\ r.outcome = st[s].outcome /\ r.key = st[s].key
      /\ r.session = st[s].session /\ r.log = st[s].log
  BY StageIs DEF StageRecords
<1>5. Become(s, r) /\ heap' = [heap EXCEPT ![o] = Prior] /\ mem' = [mem EXCEPT ![st[s].key] = o]
  BY DEF Create
<1> HIDE DEF r, o
<1>6. InHand(s, r)
  BY <1>1, <1>4 DEF InHand, Fetching
<1>7. Prior \in Entries
  BY DEF Prior, Entries, Thousandths
<1>8. heap' \in [Objects -> Entries] /\ mem' \in [Keys -> Objects \cup {None}]
  BY <1>1, <1>2, <1>5, <1>7 DEF Typed, TypeOK
<1>9. /\ \A k \in Keys : mem'[k] # None => mem'[k][2] = k
      /\ \A k \in Keys : mem[k] # None => mem'[k] # None
      /\ mem'[st[s].key] # None
  BY <1>1, <1>2, <1>5 DEF Typed, TypeOK
<1>10. Typed' /\ st'[s] = r /\ Others(s)
  BY <1>1, <1>3, <1>4, <1>5, <1>6, <1>8, <1>9, TypedAgain DEF Typed, TypeOK
<1> QED BY <1>1, <1>2, <1>4, <1>10 DEF Kept, o
LEMMA FetchTyped ==
  ASSUME Typed, NEW s \in Stages, Fetch(s)
  PROVE  Typed' /\ Kept(s) /\ st'[s].at = "attempt" /\ st'[s].obj = mem[st[s].key]
<1> DEFINE r == [st[s] EXCEPT !.at = "attempt", !.obj = mem[st[s].key]]
<1>1. st[s].at = "fetch" /\ st[s].key \in Keys /\ st[s].outcome \in Outcomes
      /\ UNCHANGED <<hints, heap, mem, hist>> /\ Len(st[s].log) < Len(Program[s])
  BY StageIs DEF Fetch, InHand, Fetching
<1>2. mem[st[s].key] \in Objects \cup {None} /\ (mem[st[s].key] # None => mem[st[s].key][2] = st[s].key)
  BY <1>1 DEF Typed, TypeOK, Entries
<1>3. st[s] \in StageRecords /\ mem[st[s].key] # None
  BY <1>1, StageIs DEF Typed, Fetching
<1>4. r \in StageRecords
  BY <1>2, <1>3 DEF StageRecords, Phases
<1>5. r.at = "attempt" /\ r.outcome = st[s].outcome /\ r.key = st[s].key /\ r.obj = mem[st[s].key]
      /\ r.session = st[s].session /\ r.log = st[s].log
  BY <1>3 DEF StageRecords
<1>6. Become(s, r)
  BY DEF Fetch
<1> HIDE DEF r
<1>7. InHand(s, r)
  BY <1>1, <1>2, <1>3, <1>5 DEF InHand, Fetching
<1>8. Typed' /\ st'[s] = r /\ Others(s)
  BY <1>1, <1>3, <1>4, <1>5, <1>6, <1>7, StageTyped
<1> QED BY <1>5, <1>8 DEF Kept

LEMMA ReadCountTyped ==
  ASSUME Typed, NEW s \in Stages, ReadCount(s)
  PROVE  Typed' /\ Kept(s) /\ st'[s].at = "count" /\ st'[s].obj = st[s].obj /\ st'[s].val = heap[st[s].obj].n
<1> DEFINE r == [st[s] EXCEPT !.at = "count", !.val = heap[st[s].obj].n]
<1>1. st[s].at = "attempt" /\ st[s].key \in Keys /\ st[s].outcome \in Outcomes
      /\ UNCHANGED <<hints, heap, mem, hist>> /\ Len(st[s].log) < Len(Program[s])
      /\ st[s].obj \in Objects /\ st[s].obj[2] = st[s].key
  BY StageIs DEF ReadCount, InHand, Fetching
<1>2. heap[st[s].obj].n \in Nat
  BY <1>1 DEF Typed, TypeOK, Entries
<1>3. st[s] \in StageRecords /\ mem[st[s].key] # None
  BY <1>1, StageIs DEF Typed, Fetching
<1>4. r \in StageRecords
  BY <1>2, <1>3 DEF StageRecords, Phases
<1>5. r.at = "count" /\ r.outcome = st[s].outcome /\ r.key = st[s].key /\ r.obj = st[s].obj
      /\ r.val = heap[st[s].obj].n
      /\ r.session = st[s].session /\ r.log = st[s].log
  BY <1>3 DEF StageRecords
<1>6. Become(s, r)
  BY DEF ReadCount
<1> HIDE DEF r
<1>7. InHand(s, r)
  BY <1>1, <1>2, <1>3, <1>5 DEF InHand, Fetching
<1>8. Typed' /\ st'[s] = r /\ Others(s)
  BY <1>1, <1>3, <1>4, <1>5, <1>6, <1>7, StageTyped
<1> QED BY <1>5, <1>8 DEF Kept

LEMMA ReadEmaTyped ==
  ASSUME Typed, NEW s \in Stages, ReadEma(s)
  PROVE  Typed' /\ Kept(s) /\ st'[s].at = "write" /\ st'[s].obj = st[s].obj
<1> DEFINE r == [st[s] EXCEPT !.at = "write", !.val = heap[st[s].obj].ema]
<1>1. st[s].at = "ema" /\ st[s].key \in Keys /\ st[s].outcome \in Outcomes
      /\ UNCHANGED <<hints, heap, mem, hist>> /\ Len(st[s].log) < Len(Program[s])
      /\ st[s].obj \in Objects /\ st[s].obj[2] = st[s].key
  BY StageIs DEF ReadEma, InHand, Fetching
<1>2. heap[st[s].obj].ema \in Thousandths /\ heap[st[s].obj].ema \in Nat
  <2>1. heap[st[s].obj] \in Entries
    BY <1>1 DEF Typed, TypeOK
  <2>2. heap[st[s].obj].ema \in Thousandths
    BY <2>1 DEF Entries
  <2>3. Thousandths \subseteq Nat
    BY DEF Thousandths
  <2> QED BY <2>2, <2>3
<1>3. st[s] \in StageRecords /\ mem[st[s].key] # None
  BY <1>1, StageIs DEF Typed, Fetching
<1>4. r \in StageRecords
  BY <1>2, <1>3 DEF StageRecords, Phases
<1>5. r.at = "write" /\ r.outcome = st[s].outcome /\ r.key = st[s].key /\ r.obj = st[s].obj
      /\ r.val = heap[st[s].obj].ema
      /\ r.session = st[s].session /\ r.log = st[s].log
  BY <1>3 DEF StageRecords
<1>6. Become(s, r)
  BY DEF ReadEma
<1> HIDE DEF r
<1>7. InHand(s, r)
  BY <1>1, <1>2, <1>3, <1>5 DEF InHand, Fetching
<1>8. Typed' /\ st'[s] = r /\ Others(s)
  BY <1>1, <1>3, <1>4, <1>5, <1>6, <1>7, StageTyped
<1> QED BY <1>5, <1>8 DEF Kept

LEMMA WriteCountTyped ==
  ASSUME Typed, NEW s \in Stages, WriteCount(s)
  PROVE  /\ Typed' /\ Kept(s) /\ st'[s].at = "ema" /\ st'[s].obj = st[s].obj
         /\ st[s].obj \in Objects /\ st[s].obj[2] = st[s].key /\ st[s].key \in Keys
         /\ st[s].val \in Nat /\ mem[st[s].key] # None
         /\ heap'[st[s].obj].n = st[s].val + 1
         /\ \A o \in Objects \ {st[s].obj} : heap'[o] = heap[o]
<1> DEFINE r == [st[s] EXCEPT !.at = "ema", !.val = 0]
<1>1. st[s].at = "count" /\ st[s].key \in Keys /\ st[s].outcome \in Outcomes
      /\ UNCHANGED <<hints, mem, hist>> /\ Len(st[s].log) < Len(Program[s])
      /\ st[s].obj \in Objects /\ st[s].obj[2] = st[s].key
  BY StageIs DEF WriteCount, InHand, Fetching
<1>2. st[s] \in StageRecords /\ mem[st[s].key] # None
  BY <1>1, StageIs DEF Typed, Fetching
<1>3. st[s].val \in Nat
  BY <1>2 DEF StageRecords
<1>4. r \in StageRecords
  BY <1>2 DEF StageRecords, Phases
<1>5. r.at = "ema" /\ r.outcome = st[s].outcome /\ r.key = st[s].key /\ r.obj = st[s].obj
      /\ r.session = st[s].session /\ r.log = st[s].log
  BY <1>2 DEF StageRecords
<1>6. Become(s, r) /\ heap' = [heap EXCEPT ![st[s].obj].n = st[s].val + 1]
  BY DEF WriteCount
<1> HIDE DEF r
<1>7. InHand(s, r)
  BY <1>1, <1>5 DEF InHand, Fetching
<1>8. /\ heap' \in [Objects -> Entries] /\ heap'[st[s].obj].n = st[s].val + 1
      /\ \A o \in Objects \ {st[s].obj} : heap'[o] = heap[o]
  <2> DEFINE o == st[s].obj
             e == [heap[o] EXCEPT !.n = st[s].val + 1]
  <2>1. heap[o] \in Entries /\ heap \in [Objects -> Entries]
    BY <1>1 DEF Typed, TypeOK
  <2>2. e \in Entries /\ e.n = st[s].val + 1
    BY <1>3, <2>1 DEF Entries
  <2>3. heap' = [heap EXCEPT ![o] = e]
    BY <1>6
  <2> HIDE DEF e
  <2> QED BY <1>1, <2>1, <2>2, <2>3
<1>9. Typed' /\ st'[s] = r /\ Others(s)
  BY <1>1, <1>2, <1>4, <1>5, <1>6, <1>7, <1>8, TypedAgain DEF Typed, TypeOK
<1> QED BY <1>1, <1>2, <1>3, <1>5, <1>8, <1>9 DEF Kept

LEMMA RecordTyped ==
  ASSUME Typed, NEW s \in Stages, Record(s)
  PROVE  /\ Typed' /\ Others(s) /\ st'[s].at = "route" /\ st'[s].key = None
         /\ st[s].at = "write" /\ st[s].key \in Keys /\ mem[st[s].key] # None
         /\ \E score \in Thousandths :
              /\ st'[s].session = [st[s].session EXCEPT ![st[s].key] = Append(@, score)]
              /\ st'[s].log = Append(st[s].log, [key |-> st[s].key, score |-> score])
         /\ \A o \in Objects : heap'[o].n = heap[o].n
         /\ hist'.seen = [hist.seen EXCEPT ![st[s].key] = @ + 1]
         /\ hist'.by = [hist.by EXCEPT ![st[s].key] = @ \cup {s}]
<1> DEFINE score == Score(st[s].outcome)
           k == st[s].key
           e == [key |-> k, score |-> score]
           session == [st[s].session EXCEPT ![k] = Append(@, score)]
           log == Append(st[s].log, e)
           r == [Begin EXCEPT !.session = session, !.log = log]
<1>1. st[s].at = "write" /\ k \in Keys /\ st[s].outcome \in Outcomes
      /\ UNCHANGED <<hints, mem>> /\ Len(st[s].log) < Len(Program[s])
      /\ st[s].obj \in Objects /\ st[s].obj[2] = k /\ st[s].val \in Thousandths
  BY StageIs DEF Record, InHand, Fetching
<1>2. st[s] \in StageRecords /\ mem[k] # None
  BY <1>1, StageIs DEF Typed, Fetching
<1>3. score \in Thousandths
  BY <1>1, ScoreTyped
<1>4. e \in LogEntries
  BY <1>1, <1>3 DEF LogEntries, Keys
<1>5. /\ Become(s, r)
      /\ heap' = [heap EXCEPT ![st[s].obj].ema = Updated(st[s].val, score)]
      /\ hist' = [hist EXCEPT !.seen[k] = @ + 1, !.by[k] = @ \cup {s}]
  BY DEF Record
<1>6. Updated(st[s].val, score) \in Thousandths
  BY <1>1, <1>3, UpdatedTyped
<1> HIDE DEF score, k, e
<1>7. session \in [Keys -> Seq(Thousandths)] /\ log \in Seq(LogEntries) /\ Len(log) = Len(st[s].log) + 1
  BY <1>1, <1>2, <1>3, <1>4, StageIs DEF StageRecords
<1> HIDE DEF session, log
<1>8. r \in StageRecords
  BY <1>7, BeginTyped DEF StageRecords
<1>9. r.at = "route" /\ r.key = None /\ r.session = session /\ r.log = log
  BY DEF Begin
<1> HIDE DEF r
<1>10. InHand(s, r)
  BY <1>1, <1>7, <1>9, StageIs DEF InHand, Fetching
<1>11. heap' \in [Objects -> Entries] /\ \A o \in Objects : heap'[o].n = heap[o].n
  BY <1>1, <1>5, <1>6 DEF Typed, TypeOK, Entries
<1>12. /\ hist'.seen = [hist.seen EXCEPT ![k] = @ + 1] /\ hist'.by = [hist.by EXCEPT ![k] = @ \cup {s}]
       /\ hist'.runs = hist.runs /\ hist'.lost = hist.lost
  BY <1>5 DEF Typed, TypeOK
<1>13. hist' \in [seen : [Keys -> Nat], by : [Keys -> SUBSET Stages], runs : Nat, lost : Nat]
  <2>1. /\ hist \in [seen : [Keys -> Nat], by : [Keys -> SUBSET Stages], runs : Nat, lost : Nat]
        /\ [hist.seen EXCEPT ![k] = @ + 1] \in [Keys -> Nat]
        /\ [hist.by EXCEPT ![k] = @ \cup {s}] \in [Keys -> SUBSET Stages]
    BY <1>1 DEF Typed, TypeOK
  <2>2. hist' = [hist EXCEPT !.seen = [hist.seen EXCEPT ![k] = @ + 1],
                             !.by = [hist.by EXCEPT ![k] = @ \cup {s}]]
    BY <1>5
  <2> QED BY <2>1, <2>2
<1>14. Typed' /\ st'[s] = r /\ Others(s)
  BY <1>1, <1>2, <1>5, <1>8, <1>9, <1>10, <1>11, <1>13, TypedAgain DEF Typed, TypeOK, Fetching
<1> QED BY <1>1, <1>2, <1>3, <1>9, <1>11, <1>12, <1>14 DEF session, log, e, k
\* A run that begins: all stages are at their first goal.
LEMMA NextRunTyped ==
  ASSUME Typed, NextRun \/ NextRunAnew
  PROVE  Typed' /\ st' = [s \in Stages |-> Begin]
<1>1. st' = [s \in Stages |-> Begin] /\ hints' = hints
  BY DEF NextRun, NextRunAnew
<1>2. Begin.at = "route" /\ Begin.key = None /\ Begin.log = <<>>
  BY DEF Begin
<1>3. st' \in [Stages -> StageRecords]
  BY <1>1, BeginTyped
<1>4. \A s \in Stages : Len(Program[s]) \in Nat
  BY ConfidentRoutingAssumption
<1>5. \A s \in Stages : InHand(s, st'[s]) /\ st'[s].at = "route" /\ Len(st'[s].log) <= Len(Program[s])
  BY <1>1, <1>2, <1>4 DEF InHand, Fetching
<1>6. heap' \in [Objects -> Entries] /\ mem' \in [Keys -> Objects \cup {None}]
      /\ \A k \in Keys : mem'[k] # None => mem'[k][2] = k
  <2>1. CASE NextRun
    BY <2>1 DEF NextRun, Typed, TypeOK
  <2>2. CASE NextRunAnew
    <3>1. Prior \in Entries
      BY DEF Prior, Entries, Thousandths
    <3> QED BY <2>2, <3>1 DEF NextRunAnew
  <2> QED BY <2>1, <2>2
<1>7. hist' \in [seen : [Keys -> Nat], by : [Keys -> SUBSET Stages], runs : Nat, lost : Nat]
  BY DEF NextRun, NextRunAnew, Typed, TypeOK
<1> QED BY <1>1, <1>3, <1>5, <1>6, <1>7 DEF Typed, TypeOK, InHand, Fetching

LEMMA InitTyped == Init => Typed
<1> SUFFICES ASSUME Init PROVE Typed
  OBVIOUS
<1>1. Begin.at = "route" /\ Begin.key = None /\ Begin.log = <<>>
  BY DEF Begin
<1>2. st \in [Stages -> StageRecords]
  BY BeginTyped DEF Init
<1>3. \A s \in Stages : Len(Program[s]) \in Nat
  BY ConfidentRoutingAssumption
<1>4. \A s \in Stages : InHand(s, st[s]) /\ st[s].at = "route" /\ Len(st[s].log) <= Len(Program[s])
  BY <1>1, <1>3 DEF Init, InHand, Fetching
<1>5. Prior \in Entries
  BY DEF Prior, Entries, Thousandths
<1> QED BY <1>2, <1>4, <1>5 DEF Init, Typed, TypeOK, Fetching

LEMMA NextTyped == Typed /\ [Next]_vars => Typed'
<1> SUFFICES ASSUME Typed, [Next]_vars PROVE Typed'
  OBVIOUS
<1>1. CASE NextRun \/ NextRunAnew
  BY <1>1, NextRunTyped
<1>2. ASSUME NEW s \in Stages, Step(s) PROVE Typed'
  BY <1>2, RouterTyped, ToolReturnsTyped, CreateTyped, FetchTyped, ReadCountTyped, WriteCountTyped,
     ReadEmaTyped, RecordTyped DEF Step
<1>3. CASE UNCHANGED vars
  BY <1>3 DEF vars, Typed, TypeOK
<1> QED BY <1>1, <1>2, <1>3 DEF Next

-----------------------------------------------------------------------------
(* The sessions.                                                           *)

\* What a session has of a key, for the steps of a log.
Holds(log, k, session) ==
  /\ Len(session) = Cardinality(Own(log, k, Len(log)))
  /\ \A i \in Own(log, k, Len(log)) : session[Cardinality(Own(log, k, i))] = log[i].score

LEMMA OwnFinite ==
  ASSUME NEW log, NEW k, NEW n \in Nat
  PROVE  IsFiniteSet(Own(log, k, n)) /\ Cardinality(Own(log, k, n)) \in Nat
<1>1. IsFiniteSet(1..n) /\ Own(log, k, n) \subseteq 1..n
  BY FS_Interval DEF Own
<1> QED BY <1>1, FS_Subset, FS_CardinalityType

\* One more step adds itself to its own key, and nothing to the steps before it.
LEMMA OwnAppended ==
  ASSUME NEW log \in Seq(LogEntries), NEW e \in LogEntries, NEW k
  PROVE  /\ \A n \in 0..Len(log) : Own(Append(log, e), k, n) = Own(log, k, n)
         /\ Own(Append(log, e), k, Len(log) + 1)
              = IF e.key = k THEN Own(log, k, Len(log)) \cup {Len(log) + 1} ELSE Own(log, k, Len(log))
BY DEF Own

LEMMA HoldsOther ==
  ASSUME NEW log \in Seq(LogEntries), NEW e \in LogEntries, NEW k, NEW session,
         e.key # k, Holds(log, k, session)
  PROVE  Holds(Append(log, e), k, session)
<1>1. Len(Append(log, e)) = Len(log) + 1 /\ Len(log) \in Nat
  OBVIOUS
<1>2. Own(Append(log, e), k, Len(log) + 1) = Own(log, k, Len(log))
  BY OwnAppended
<1>3. \A i \in Own(log, k, Len(log)) : i \in 1..Len(log)
  BY DEF Own
<1>4. \A i \in Own(log, k, Len(log)) :
        Own(Append(log, e), k, i) = Own(log, k, i) /\ Append(log, e)[i] = log[i]
  <2> SUFFICES ASSUME NEW i \in 1..Len(log)
               PROVE  Own(Append(log, e), k, i) = Own(log, k, i) /\ Append(log, e)[i] = log[i]
    BY <1>3
  <2>1. i \in 0..Len(log)
    OBVIOUS
  <2>2. \A n \in 0..Len(log) : Own(Append(log, e), k, n) = Own(log, k, n)
    BY OwnAppended
  <2>3. Own(Append(log, e), k, i) = Own(log, k, i)
    BY <2>1, <2>2
  <2> QED BY <2>3
<1> QED BY <1>1, <1>2, <1>4 DEF Holds

LEMMA HoldsOwn ==
  ASSUME NEW log \in Seq(LogEntries), NEW e \in LogEntries, NEW session \in Seq(Thousandths),
         Holds(log, e.key, session)
  PROVE  Holds(Append(log, e), e.key, Append(session, e.score))
<1> DEFINE k == e.key
           n == Len(log)
           own(i) == Own(log, k, i)
<1>1. Len(Append(log, e)) = n + 1 /\ n \in Nat /\ Append(log, e)[n + 1] = e
  OBVIOUS
<1>2. Own(Append(log, e), k, n + 1) = own(n) \cup {n + 1}
  BY OwnAppended
<1>3. IsFiniteSet(own(n)) /\ n + 1 \notin own(n) /\ Len(session) = Cardinality(own(n))
  <2>1. IsFiniteSet(own(n))
    BY <1>1, OwnFinite
  <2>2. n + 1 \notin own(n)
    BY <1>1 DEF Own
  <2> QED BY <2>1, <2>2 DEF Holds
<1>4. Cardinality(own(n) \cup {n + 1}) = Len(session) + 1
  BY <1>3, FS_AddElement
<1>5. ASSUME NEW i \in own(n)
      PROVE  /\ Own(Append(log, e), k, i) = own(i) /\ Append(log, e)[i] = log[i]
             /\ Append(session, e.score)[Cardinality(own(i))] = log[i].score
  <2>1. i \in 1..n /\ i \in own(i) /\ own(i) \subseteq own(n)
    BY <1>1 DEF Own
  <2>2. IsFiniteSet(own(i)) /\ Cardinality(own(i)) \in Nat
    BY <2>1, OwnFinite
  <2>3. Cardinality(own(i)) # 0 /\ Cardinality(own(i)) <= Len(session)
    BY <1>3, <2>1, <2>2, FS_EmptySet, FS_Subset
  <2>4. session[Cardinality(own(i))] = log[i].score
    BY DEF Holds
  <2>5. Own(Append(log, e), k, i) = own(i)
    <3>1. i \in 0..Len(log)
      BY <1>1, <2>1
    <3> QED BY <3>1, OwnAppended
  <2> HIDE DEF own
  <2> QED BY <1>1, <2>1, <2>2, <2>3, <2>4, <2>5
<1>6. e.score \in Thousandths /\ Append(session, e.score)[Len(session) + 1] = e.score
      /\ Len(Append(session, e.score)) = Len(session) + 1
  BY DEF LogEntries
<1> HIDE DEF own
<1> QED BY <1>1, <1>2, <1>4, <1>5, <1>6 DEF Holds
\* What a step of a stage does to its sessions: nothing, or what is recorded of a
\* tool goes to the session of that tool and to the log.
LEMMA SessionsKept ==
  ASSUME SessionIsOwn, Typed', NEW s \in Stages, Others(s),
         \/ st'[s].session = st[s].session /\ st'[s].log = st[s].log
         \/ \E k : /\ k \notin Keys /\ st'[s].session = st[s].session
                   /\ st'[s].log = Append(st[s].log, [key |-> k, score |-> 0])
         \/ \E k \in Keys, score \in Thousandths :
              /\ st'[s].session = [st[s].session EXCEPT ![k] = Append(@, score)]
              /\ st'[s].log = Append(st[s].log, [key |-> k, score |-> score])
  PROVE  SessionIsOwn'
<1>1. TypeOK' /\ TypeOK
  BY DEF Typed, SessionIsOwn
<1>2. ASSUME NEW t \in Stages, NEW k \in Keys PROVE Holds(st[t].log, k, st[t].session[k])
  BY DEF SessionIsOwn, Holds
<1>3. SUFFICES ASSUME NEW t \in Stages, NEW k \in Keys PROVE Holds(st'[t].log, k, st'[t].session[k])
  BY <1>1 DEF SessionIsOwn, Holds
<1>4. CASE t # s
  BY <1>2, <1>4 DEF Others
<1>5. CASE st'[s].session = st[s].session /\ st'[s].log = st[s].log
  BY <1>2, <1>4, <1>5
<1>6. /\ st[s].log \in Seq(LogEntries) /\ st'[s].log \in Seq(LogEntries)
      /\ st[s].session \in [Keys -> Seq(Thousandths)]
  BY <1>1 DEF TypeOK, StageRecords
<1>7. ASSUME NEW key, NEW score, st'[s].log = Append(st[s].log, [key |-> key, score |-> score])
      PROVE  [key |-> key, score |-> score] \in LogEntries
  <2>1. st'[s].log[Len(st[s].log) + 1] = [key |-> key, score |-> score]
        /\ Len(st[s].log) + 1 \in 1..Len(st'[s].log)
    BY <1>6, <1>7
  <2> QED BY <1>6, <2>1
<1>8. ASSUME t = s, NEW key, key \notin Keys, st'[s].session = st[s].session,
             st'[s].log = Append(st[s].log, [key |-> key, score |-> 0])
      PROVE  Holds(st'[t].log, k, st'[t].session[k])
  <2> DEFINE e == [key |-> key, score |-> 0]
  <2>1. e \in LogEntries /\ e.key # k
    BY <1>7, <1>8
  <2> HIDE DEF e
  <2>2. Holds(Append(st[s].log, e), k, st[s].session[k])
    BY <1>2, <1>6, <2>1, HoldsOther
  <2> QED BY <1>8, <2>2 DEF e
<1>9. ASSUME t = s, NEW key \in Keys, NEW score \in Thousandths,
             st'[s].session = [st[s].session EXCEPT ![key] = Append(@, score)],
             st'[s].log = Append(st[s].log, [key |-> key, score |-> score])
      PROVE  Holds(st'[t].log, k, st'[t].session[k])
  <2> DEFINE e == [key |-> key, score |-> score]
  <2>1. e \in LogEntries /\ e.key = key /\ e.score = score
    BY <1>7, <1>9
  <2>2. st'[s].session[k] = IF k = key THEN Append(st[s].session[k], score) ELSE st[s].session[k]
    BY <1>6, <1>9
  <2>3. st'[s].log = Append(st[s].log, e)
    BY <1>9
  <2> HIDE DEF e
  <2>4. CASE k = key
    <3>1. Holds(st[s].log, e.key, st[s].session[k]) /\ st[s].session[k] \in Seq(Thousandths)
      BY <1>2, <1>6, <2>1, <2>4
    <3>2. Holds(Append(st[s].log, e), e.key, Append(st[s].session[k], e.score))
      BY <1>6, <2>1, <3>1, HoldsOwn
    <3> QED BY <1>9, <2>1, <2>2, <2>3, <2>4, <3>2
  <2>5. CASE k # key
    <3>1. Holds(Append(st[s].log, e), k, st[s].session[k])
      BY <1>2, <1>6, <2>1, <2>5, HoldsOther
    <3> QED BY <1>9, <2>2, <2>3, <2>5, <3>1
  <2> QED BY <2>4, <2>5
<1> QED BY <1>4, <1>5, <1>8, <1>9

LEMMA HoldsNothing == ASSUME NEW k PROVE Holds(<<>>, k, <<>>)
<1>1. Own(<<>>, k, 0) = {} /\ Len(<<>>) = 0
  BY DEF Own
<1> QED BY <1>1, FS_EmptySet DEF Holds

LEMMA SessionsAnew ==
  ASSUME Typed', st' = [s \in Stages |-> Begin]
  PROVE  SessionIsOwn'
<1>1. Begin.log = <<>> /\ Begin.session = [k \in Keys |-> <<>>]
  BY DEF Begin
<1>2. \A s \in Stages, k \in Keys : Holds(st'[s].log, k, st'[s].session[k])
  BY <1>1, HoldsNothing
<1> QED BY <1>2 DEF Typed, SessionIsOwn, Holds

\* What a session holds of a tool is what the tool brought in this run, for any
\* number of stages, runs and tools, and however their steps interleave.
THEOREM SessionsAreOwn == Spec => []SessionIsOwn
<1>1. Init => SessionIsOwn
  <2> SUFFICES ASSUME Init PROVE SessionIsOwn
    OBVIOUS
  <2>1. Begin.log = <<>> /\ Begin.session = [k \in Keys |-> <<>>]
    BY DEF Begin
  <2>2. \A s \in Stages, k \in Keys : Holds(st[s].log, k, st[s].session[k])
    BY <2>1, HoldsNothing DEF Init
  <2> QED BY <2>2, InitTyped DEF Typed, SessionIsOwn, Holds
<1>2. Typed /\ SessionIsOwn /\ [Next]_vars => SessionIsOwn'
  <2> SUFFICES ASSUME Typed, SessionIsOwn, [Next]_vars PROVE SessionIsOwn'
    OBVIOUS
  <2>1. Typed'
    BY NextTyped
  <2>2. CASE NextRun \/ NextRunAnew
    BY <2>2, NextRunTyped, SessionsAnew
  <2>3. ASSUME NEW s \in Stages, Consult(s) \/ Weigh(s) PROVE SessionIsOwn'
    BY <2>1, <2>3, RouterTyped, SessionsKept
  <2>4. ASSUME NEW s \in Stages, Kept(s) PROVE SessionIsOwn'
    BY <2>1, <2>4, SessionsKept DEF Kept
  <2>5. ASSUME NEW s \in Stages, Record(s) PROVE SessionIsOwn'
    BY <2>1, <2>5, RecordTyped, SessionsKept
  <2>6. ASSUME NEW s \in Stages, Step(s) PROVE SessionIsOwn'
    BY <2>3, <2>4, <2>5, <2>6, ToolReturnsTyped, CreateTyped, FetchTyped, ReadCountTyped,
       WriteCountTyped, ReadEmaTyped DEF Step
  <2>7. CASE UNCHANGED vars
    BY <2>1, <2>7 DEF vars, SessionIsOwn, Typed
  <2> QED BY <2>2, <2>6, <2>7 DEF Next
<1> QED BY <1>1, <1>2, InitTyped, NextTyped, PTL DEF Spec
-----------------------------------------------------------------------------
(* The memory.                                                             *)

KeyInv(k) == Bounded(k) /\ Exact(k) /\ Noted(k)

LEMMA TotalTyped ==
  ASSUME Typed, NEW k \in Keys
  PROVE  IsFiniteSet(Counting(k)) /\ hist.seen[k] \in Nat /\ Total(k) \in Nat
<1>1. IsFiniteSet(Stages) /\ Counting(k) \subseteq Stages
  BY ConfidentRoutingAssumption DEF Counting
<1>2. IsFiniteSet(Counting(k)) /\ Cardinality(Counting(k)) \in Nat
  BY <1>1, FS_Subset, FS_CardinalityType
<1>3. hist.seen[k] \in Nat
  BY DEF Typed, TypeOK
<1> QED BY <1>2, <1>3 DEF Total

\* A step that counts nothing and records nothing leaves the total.
LEMMA TotalSame ==
  ASSUME NEW k \in Keys, NEW s \in Stages, Others(s), hist'.seen[k] = hist.seen[k],
         st[s].key = k /\ st[s].at \in {"ema", "write"} <=> st'[s].key = k /\ st'[s].at \in {"ema", "write"}
  PROVE  Total(k)' = Total(k)
<1>1. \A t \in Stages : st[t].key = k /\ Counted(t) <=> st'[t].key = k /\ Counted(t)'
  BY DEF Others, Counted
<1>2. Counting(k)' = Counting(k)
  BY <1>1 DEF Counting
<1> QED BY <1>2 DEF Total

\* A step that changes no count of a key's objects, and after which the stage is
\* where the invariant lets it be, keeps what holds of the key.
LEMMA KeyKept ==
  ASSUME Typed, Typed', NEW k \in Keys, KeyInv(k), NEW s \in Stages, Others(s), mem'[k] = mem[k],
         \A o \in Objects : o[2] = k => heap'[o].n = heap[o].n,
         Total(k)' = Total(k), Users(k) \subseteq Users(k)',
         mem[k] = None => hist'.seen[k] = hist.seen[k],
         WillCount(s, k, mem[k]) => WillCount(s, k, mem[k])',
         st'[s].key = k /\ st'[s].at = "count" => st'[s].val <= Total(k),
         st'[s].key = k /\ (\A t, u \in Users(k) : t = u) =>
           /\ st'[s].at = "create" => mem[k] = None
           /\ st'[s].at \in Fetching => st'[s].obj = mem[k]
           /\ st'[s].at = "count" => st'[s].val = Total(k)
  PROVE  KeyInv(k)'
<1>1. \A t \in Stages \ {s} : st'[t] = st[t]
  BY DEF Others
<1>2. Bounded(k)'
  <2>1. \A o \in Objects : o[2] = k => heap'[o].n <= Total(k)'
    BY DEF KeyInv, Bounded
  <2>2. \A t \in Stages \ {s} : st'[t].at = "count" /\ st'[t].key = k => st'[t].val <= Total(k)'
    BY <1>1 DEF KeyInv, Bounded
  <2> QED BY <2>1, <2>2 DEF Bounded
<1>3. mem[k] # None => mem[k] \in Objects /\ mem[k][2] = k
  BY DEF Typed, TypeOK
<1>4. Stats(k)'.n = Stats(k).n
  BY <1>3 DEF Stats
<1>5. Exact(k)'
  <2> SUFFICES ASSUME \A t, u \in Users(k)' : t = u
               PROVE  /\ Stats(k)'.n = Total(k)'
                      /\ \A t \in Stages : st'[t].key = k =>
                           /\ st'[t].at = "create" => mem'[k] = None
                           /\ st'[t].at \in Fetching => st'[t].obj = mem'[k]
                           /\ st'[t].at = "count" => st'[t].val = Total(k)'
    BY DEF Exact
  <2>1. \A t, u \in Users(k) : t = u
    OBVIOUS
  <2>2. Stats(k).n = Total(k)
    BY <2>1 DEF KeyInv, Exact
  <2>3. \A t \in Stages \ {s} : st'[t].key = k =>
          /\ st'[t].at = "create" => mem[k] = None
          /\ st'[t].at \in Fetching => st'[t].obj = mem[k]
          /\ st'[t].at = "count" => st'[t].val = Total(k)
    BY <1>1, <2>1 DEF KeyInv, Exact
  <2> QED BY <1>4, <2>1, <2>2, <2>3
<1>6. Noted(k)'
  <2>1. CASE mem[k] = None
    BY <2>1 DEF KeyInv, Noted
  <2>2. CASE mem[k] # None
    <3>1. heap'[mem[k]].n = heap[mem[k]].n
      BY <1>3, <2>2
    <3>2. CASE heap[mem[k]].n > 0
      BY <2>2, <3>1, <3>2 DEF Noted
    <3>3. CASE \E t \in Stages : WillCount(t, k, mem[k])
      <4>1. \A t \in Stages \ {s} : WillCount(t, k, mem[k]) => WillCount(t, k, mem[k])'
        BY <1>1 DEF WillCount
      <4>2. \E t \in Stages : WillCount(t, k, mem[k])'
        BY <3>3, <4>1
      <4> QED BY <2>2, <4>2 DEF Noted
    <3> QED BY <2>2, <3>2, <3>3 DEF KeyInv, Noted
  <2> QED BY <2>1, <2>2
<1> QED BY <1>2, <1>5, <1>6 DEF KeyInv

\* The users of a key are those who recorded an outcome and those at it.
LEMMA UsersGrow ==
  ASSUME NEW k \in Keys, NEW s \in Stages, Others(s), hist' = hist, st[s].key = k => st'[s].key = k
  PROVE  Users(k) \subseteq Users(k)'
BY DEF Users, Others

LEMMA RouterKeeps ==
  ASSUME Typed, NEW k \in Keys, KeyInv(k), NEW s \in Stages, Consult(s) \/ Weigh(s)
  PROVE  KeyInv(k)'
<1>1. /\ Typed' /\ Others(s) /\ st[s].key = None /\ st[s].at \in {"route", "weigh"}
      /\ st'[s].at \in {"route", "tool", "weigh"}
  BY RouterTyped
<1>2. UNCHANGED <<heap, mem, hist>> /\ None # k
  BY ConfidentRoutingAssumption DEF Consult, Weigh
<1>3. Total(k)' = Total(k)
  BY <1>1, <1>2, TotalSame
<1>4. Users(k) \subseteq Users(k)'
  BY <1>1, <1>2, UsersGrow
<1> QED BY <1>1, <1>2, <1>3, <1>4, KeyKept DEF WillCount, Fetching

LEMMA ToolReturnsKeeps ==
  ASSUME Typed, NEW k \in Keys, KeyInv(k), NEW s \in Stages, NEW out \in Outcomes, ToolReturns(s, out)
  PROVE  KeyInv(k)'
<1>1. /\ Typed' /\ Others(s) /\ st'[s].key = st[s].key
      /\ IF mem[st[s].key] = None THEN st'[s].at = "create"
         ELSE st'[s].at = "attempt" /\ st'[s].obj = mem[st[s].key]
  BY ToolReturnsTyped DEF Kept
<1>2. UNCHANGED <<heap, mem, hist>> /\ st[s].at = "tool"
  BY DEF ToolReturns
<1>3. Total(k)' = Total(k)
  BY <1>1, <1>2, TotalSame
<1>4. Users(k) \subseteq Users(k)'
  BY <1>1, <1>2, UsersGrow
<1> QED BY <1>1, <1>2, <1>3, <1>4, KeyKept DEF WillCount, Fetching

LEMMA FetchKeeps ==
  ASSUME Typed, NEW k \in Keys, KeyInv(k), NEW s \in Stages, Fetch(s)
  PROVE  KeyInv(k)'
<1>1. Typed' /\ Others(s) /\ st'[s].key = st[s].key /\ st'[s].at = "attempt" /\ st'[s].obj = mem[st[s].key]
  BY FetchTyped DEF Kept
<1>2. UNCHANGED <<heap, mem, hist>> /\ st[s].at = "fetch"
  BY DEF Fetch
<1>3. Total(k)' = Total(k)
  BY <1>1, <1>2, TotalSame
<1>4. Users(k) \subseteq Users(k)'
  BY <1>1, <1>2, UsersGrow
<1> QED BY <1>1, <1>2, <1>3, <1>4, KeyKept DEF WillCount, Fetching

LEMMA ReadCountKeeps ==
  ASSUME Typed, NEW k \in Keys, KeyInv(k), NEW s \in Stages, ReadCount(s)
  PROVE  KeyInv(k)'
<1>1. /\ Typed' /\ Others(s) /\ st'[s].key = st[s].key /\ st'[s].at = "count"
      /\ st'[s].obj = st[s].obj /\ st'[s].val = heap[st[s].obj].n
  BY ReadCountTyped DEF Kept
<1>2. UNCHANGED <<heap, mem, hist>> /\ st[s].at = "attempt"
  BY DEF ReadCount
<1>3. st[s].obj \in Objects /\ st[s].obj[2] = st[s].key /\ mem[st[s].key] # None
  BY <1>2, StageIs DEF Typed, InHand, Fetching
<1>4. Total(k)' = Total(k)
  BY <1>1, <1>2, TotalSame
<1>5. Users(k) \subseteq Users(k)'
  BY <1>1, <1>2, UsersGrow
<1>6. st[s].key = k => st'[s].val <= Total(k)
  BY <1>1, <1>3 DEF KeyInv, Bounded
<1>7. st[s].key = k /\ (\A t, u \in Users(k) : t = u) => st[s].obj = mem[k] /\ st'[s].val = Total(k)
  BY <1>1, <1>2, <1>3 DEF KeyInv, Exact, Stats, Fetching
<1> QED BY <1>1, <1>2, <1>4, <1>5, <1>6, <1>7, KeyKept DEF WillCount, Fetching

LEMMA ReadEmaKeeps ==
  ASSUME Typed, NEW k \in Keys, KeyInv(k), NEW s \in Stages, ReadEma(s)
  PROVE  KeyInv(k)'
<1>1. Typed' /\ Others(s) /\ st'[s].key = st[s].key /\ st'[s].at = "write" /\ st'[s].obj = st[s].obj
  BY ReadEmaTyped DEF Kept
<1>2. UNCHANGED <<heap, mem, hist>> /\ st[s].at = "ema"
  BY DEF ReadEma
<1>3. Total(k)' = Total(k)
  BY <1>1, <1>2, TotalSame
<1>4. Users(k) \subseteq Users(k)'
  BY <1>1, <1>2, UsersGrow
<1>5. st[s].key = k /\ (\A t, u \in Users(k) : t = u) => st[s].obj = mem[k]
  BY <1>2 DEF KeyInv, Exact, Fetching
<1> QED BY <1>1, <1>2, <1>3, <1>4, <1>5, KeyKept DEF WillCount, Fetching
\* A new entry has no count yet: its stage will count it up, and a key that two
\* stages use may have lost the entry there was.
LEMMA CreateKeeps ==
  ASSUME Typed, NEW k \in Keys, KeyInv(k), NEW s \in Stages, Create(s)
  PROVE  KeyInv(k)'
<1> DEFINE key == st[s].key
           o == <<s, key>>
<1>1. Typed' /\ Others(s) /\ st'[s].key = key /\ st'[s].at = "fetch" /\ key \in Keys /\ o \in Objects
  BY CreateTyped DEF Kept
<1>2. /\ st[s].at = "create" /\ hist' = hist
      /\ heap' = [heap EXCEPT ![o] = Prior] /\ mem' = [mem EXCEPT ![key] = o]
  BY DEF Create
<1>3. o[2] = key /\ o # None
  BY <1>1, ConfidentRoutingAssumption
<1> HIDE DEF o
<1>4. heap'[o] = Prior /\ \A p \in Objects \ {o} : heap'[p] = heap[p]
  BY <1>1, <1>2 DEF Typed, TypeOK
<1>5. mem'[key] = o /\ (k # key => mem'[k] = mem[k])
  BY <1>1, <1>2 DEF Typed, TypeOK
<1>6. Total(k)' = Total(k)
  BY <1>1, <1>2, TotalSame
<1>7. Users(k) \subseteq Users(k)'
  BY <1>1, <1>2, UsersGrow
<1>8. CASE k # key
  BY <1>1, <1>2, <1>3, <1>4, <1>5, <1>6, <1>7, <1>8, KeyKept DEF WillCount, Fetching
<1>9. CASE k = key
  <2>1. Total(k) \in Nat /\ Prior.n = 0
    BY TotalTyped DEF Prior
  <2>2. \A t \in Stages \ {s} : st'[t] = st[t]
    BY <1>1 DEF Others
  <2>3. Bounded(k)'
    <3>1. \A p \in Objects : p[2] = k => heap'[p].n <= Total(k)'
      BY <1>4, <1>6, <2>1 DEF KeyInv, Bounded
    <3>2. \A t \in Stages : st'[t].at = "count" /\ st'[t].key = k => st'[t].val <= Total(k)'
      BY <1>1, <1>6, <2>2 DEF KeyInv, Bounded
    <3> QED BY <3>1, <3>2 DEF Bounded
  <2>4. Stats(k)'.n = 0
    BY <1>3, <1>4, <1>5, <1>9, <2>1 DEF Stats
  <2>5. Exact(k)'
    <3> SUFFICES ASSUME \A t, u \in Users(k)' : t = u
                 PROVE  /\ Stats(k)'.n = Total(k)'
                        /\ \A t \in Stages : st'[t].key = k =>
                             /\ st'[t].at = "create" => mem'[k] = None
                             /\ st'[t].at \in Fetching => st'[t].obj = mem'[k]
                             /\ st'[t].at = "count" => st'[t].val = Total(k)'
      BY DEF Exact
    <3>1. \A t \in Stages : st'[t].key = k => t = s
      BY <1>1, <1>9 DEF Users
    <3>2. Total(k) = 0
      BY <1>2, <1>7, <1>9, <2>1 DEF KeyInv, Exact, Stats
    <3> QED BY <1>1, <1>6, <2>4, <3>1, <3>2 DEF Fetching
  <2>6. Noted(k)'
    BY <1>1, <1>3, <1>5, <1>9 DEF Noted, WillCount
  <2> QED BY <2>3, <2>5, <2>6 DEF KeyInv
<1> QED BY <1>8, <1>9

\* The count that is written is at most one more than what was observed before,
\* and the attempt counts as observed now.
LEMMA WriteCountKeeps ==
  ASSUME Typed, NEW k \in Keys, KeyInv(k), NEW s \in Stages, WriteCount(s)
  PROVE  KeyInv(k)'
<1> DEFINE key == st[s].key
           o == st[s].obj
           val == st[s].val
<1>1. /\ Typed' /\ Others(s) /\ st'[s].key = key /\ st'[s].at = "ema" /\ st'[s].obj = o
      /\ o \in Objects /\ o[2] = key /\ key \in Keys /\ val \in Nat /\ mem[key] # None
      /\ heap'[o].n = val + 1 /\ \A p \in Objects \ {o} : heap'[p] = heap[p]
  BY WriteCountTyped DEF Kept
<1>2. st[s].at = "count" /\ UNCHANGED <<mem, hist>>
  BY DEF WriteCount
<1>3. Users(k) \subseteq Users(k)'
  BY <1>1, <1>2, UsersGrow
<1>4. CASE k # key
  <2>1. Total(k)' = Total(k)
    BY <1>1, <1>2, <1>4, TotalSame
  <2> QED BY <1>1, <1>2, <1>3, <1>4, <2>1, KeyKept DEF WillCount, Fetching
<1>5. CASE k = key
  <2>1. Total(k) \in Nat /\ Total(k)' = Total(k) + 1
    <3>1. \A t \in Stages \ {s} : st'[t] = st[t]
      BY <1>1 DEF Others
    <3>2. Counting(k)' = Counting(k) \cup {s} /\ s \notin Counting(k)
      BY <1>1, <1>2, <1>5, <3>1 DEF Counting, Counted
    <3>3. Cardinality(Counting(k) \cup {s}) = Cardinality(Counting(k)) + 1
      BY <3>2, TotalTyped, FS_AddElement
    <3>4. Cardinality(Counting(k)) \in Nat /\ hist.seen[k] \in Nat
      BY TotalTyped, FS_CardinalityType
    <3> QED BY <1>2, <3>2, <3>3, <3>4 DEF Total
  <2>2. \A t \in Stages \ {s} : st'[t] = st[t]
    BY <1>1 DEF Others
  <2>3. Bounded(k)'
    <3>1. val <= Total(k)
      BY <1>2, <1>5 DEF KeyInv, Bounded
    <3>2. \A p \in Objects \ {o} : p[2] = k => heap'[p].n <= Total(k)'
      <4>1. \A p \in Objects \ {o} : p[2] = k => heap'[p].n <= Total(k) /\ heap'[p].n \in Nat
        BY <1>1 DEF KeyInv, Bounded, Typed, TypeOK, Entries
      <4> QED BY <2>1, <4>1
    <3>3. heap'[o].n <= Total(k)'
      BY <1>1, <2>1, <3>1
    <3>4. \A t \in Stages \ {s} : st'[t].at = "count" /\ st'[t].key = k => st'[t].val <= Total(k)'
      <4>1. \A t \in Stages \ {s} : st'[t].at = "count" /\ st'[t].key = k =>
              st'[t].val <= Total(k) /\ st'[t].val \in Nat
        BY <2>2 DEF KeyInv, Bounded, Typed, TypeOK, StageRecords
      <4> QED BY <2>1, <4>1
    <3> QED BY <1>1, <3>2, <3>3, <3>4 DEF Bounded
  <2>4. Exact(k)'
    <3> SUFFICES ASSUME \A t, u \in Users(k)' : t = u
                 PROVE  /\ Stats(k)'.n = Total(k)'
                        /\ \A t \in Stages : st'[t].key = k =>
                             /\ st'[t].at = "create" => mem'[k] = None
                             /\ st'[t].at \in Fetching => st'[t].obj = mem'[k]
                             /\ st'[t].at = "count" => st'[t].val = Total(k)'
      BY DEF Exact
    <3>1. \A t \in Stages : st'[t].key = k => t = s
      BY <1>1, <1>5 DEF Users
    <3>2. o = mem[k] /\ val = Total(k)
      BY <1>2, <1>3, <1>5 DEF KeyInv, Exact, Fetching
    <3>3. Stats(k)'.n = Total(k)'
      BY <1>1, <1>2, <1>5, <2>1, <3>2 DEF Stats
    <3> QED BY <1>1, <1>2, <3>1, <3>2, <3>3 DEF Fetching
  <2>5. Noted(k)'
    <3>1. mem[k] \in Objects
      BY <1>1, <1>5 DEF Typed, TypeOK
    <3>2. CASE mem[k] = o
      BY <1>1, <1>2, <1>5, <3>2 DEF Noted
    <3>3. CASE mem[k] # o
      <4>1. heap'[mem[k]] = heap[mem[k]]
        BY <1>1, <3>1, <3>3
      <4>2. \A t \in Stages : WillCount(t, k, mem[k]) => WillCount(t, k, mem[k])'
        BY <1>2, <2>2, <3>3 DEF WillCount
      <4> QED BY <1>1, <1>2, <1>5, <4>1, <4>2 DEF KeyInv, Noted
    <3> QED BY <3>2, <3>3
  <2> QED BY <2>3, <2>4, <2>5 DEF KeyInv
<1> QED BY <1>4, <1>5

\* What is recorded was counted: the total stays.
LEMMA RecordKeeps ==
  ASSUME Typed, NEW k \in Keys, KeyInv(k), NEW s \in Stages, Record(s)
  PROVE  KeyInv(k)'
<1> DEFINE key == st[s].key
<1>1. /\ Typed' /\ Others(s) /\ st'[s].at = "route" /\ st'[s].key = None
      /\ st[s].at = "write" /\ key \in Keys /\ mem[key] # None
      /\ \A o \in Objects : heap'[o].n = heap[o].n
      /\ hist'.seen = [hist.seen EXCEPT ![key] = @ + 1]
      /\ hist'.by = [hist.by EXCEPT ![key] = @ \cup {s}]
  BY RecordTyped
<1>2. mem' = mem /\ None # k
  BY ConfidentRoutingAssumption DEF Record
<1>3. /\ hist.seen \in [Keys -> Nat] /\ hist.by \in [Keys -> SUBSET Stages]
  BY DEF Typed, TypeOK
<1>4. k # key => hist'.seen[k] = hist.seen[k]
  BY <1>1, <1>3
<1>5. Total(k)' = Total(k)
  <2>1. CASE k # key
    BY <1>1, <1>2, <1>4, <2>1, TotalSame
  <2>2. CASE k = key
    <3>1. \A t \in Stages \ {s} : st'[t] = st[t]
      BY <1>1 DEF Others
    <3>2. Counting(k)' = Counting(k) \ {s} /\ s \in Counting(k)
      BY <1>1, <1>2, <2>2, <3>1 DEF Counting, Counted
    <3>3. Cardinality(Counting(k) \ {s}) = Cardinality(Counting(k)) - 1
      BY <3>2, TotalTyped, FS_RemoveElement
    <3>4. Cardinality(Counting(k)) \in Nat /\ hist.seen[k] \in Nat
      BY TotalTyped, FS_CardinalityType
    <3>5. hist'.seen[k] = hist.seen[k] + 1
      BY <1>1, <1>3, <2>2
    <3> QED BY <3>2, <3>3, <3>4, <3>5 DEF Total
  <2> QED BY <2>1, <2>2
<1>6. Users(k) \subseteq Users(k)'
  <2>1. hist'.by[k] = IF k = key THEN hist.by[k] \cup {s} ELSE hist.by[k]
    BY <1>1, <1>3
  <2>2. \A t \in Stages \ {s} : st'[t] = st[t]
    BY <1>1 DEF Others
  <2> QED BY <2>1, <2>2 DEF Users
<1> QED BY <1>1, <1>2, <1>4, <1>5, <1>6, KeyKept DEF WillCount, Fetching

\* Between runs no step is under way.
LEMMA NextRunKeeps ==
  ASSUME Typed, NEW k \in Keys, KeyInv(k), NextRun \/ NextRunAnew
  PROVE  KeyInv(k)'
<1>1. \A s \in Stages : st[s].at = "route" /\ st[s].key = None
  BY StageIs DEF NextRun, NextRunAnew, Done, InHand
<1>2. \A s \in Stages : st'[s].at = "route" /\ st'[s].key = None
  BY NextRunTyped DEF Begin
<1>3. None # k /\ Typed'
  BY ConfidentRoutingAssumption, NextRunTyped
<1>4. Counting(k) = {} /\ Counting(k)' = {} /\ Users(k) = hist.by[k] /\ Users(k)' = hist'.by[k]
  BY <1>1, <1>2, <1>3 DEF Counting, Counted, Users
<1>5. Total(k) = hist.seen[k] /\ Total(k)' = hist'.seen[k]
  <2>1. Cardinality({}) = 0 /\ hist.seen[k] \in Nat /\ hist'.seen[k] \in Nat
    BY <1>3, FS_EmptySet DEF Typed, TypeOK
  <2> QED BY <1>4, <2>1 DEF Total
<1>6. CASE NextRun
  <2>1. UNCHANGED <<heap, mem>> /\ hist'.seen = hist.seen /\ hist'.by = hist.by
    BY <1>6 DEF NextRun, Typed, TypeOK
  <2>2. Bounded(k)'
    BY <1>2, <1>5, <2>1 DEF KeyInv, Bounded
  <2>3. Exact(k)'
    BY <1>2, <1>3, <1>4, <1>5, <2>1 DEF KeyInv, Exact, Stats
  <2>4. Noted(k)'
    BY <1>1, <1>3, <2>1 DEF KeyInv, Noted, WillCount
  <2> QED BY <2>2, <2>3, <2>4 DEF KeyInv
<1>7. CASE NextRunAnew
  <2>1. /\ mem'[k] = None /\ hist'.seen[k] = 0 /\ Prior.n = 0
        /\ \A o \in Objects : heap'[o].n = 0
    BY <1>7 DEF NextRunAnew, Prior
  <2>2. Bounded(k)'
    BY <1>2, <1>5, <2>1 DEF Bounded
  <2>3. Exact(k)'
    BY <1>2, <1>3, <1>5, <2>1 DEF Exact, Stats
  <2>4. Noted(k)'
    BY <2>1 DEF Noted
  <2> QED BY <2>2, <2>3, <2>4 DEF KeyInv
<1> QED BY <1>6, <1>7

LEMMA InitMemory == ASSUME Init, NEW k \in Keys PROVE KeyInv(k)
<1>1. \A s \in Stages : st[s].at = "route" /\ st[s].key = None
  BY DEF Init, Begin
<1>2. /\ mem[k] = None /\ hist.seen[k] = 0 /\ Prior.n = 0
      /\ \A o \in Objects : heap[o].n = 0
  BY DEF Init, Prior
<1>3. None # k
  BY ConfidentRoutingAssumption
<1>4. Total(k) = 0
  <2>1. Counting(k) = {}
    BY <1>1 DEF Counting, Counted
  <2> QED BY <1>2, <2>1, FS_EmptySet DEF Total
<1>5. Bounded(k)
  BY <1>1, <1>2, <1>4 DEF Bounded
<1>6. Exact(k)
  BY <1>1, <1>2, <1>3, <1>4 DEF Exact, Stats
<1> QED BY <1>2, <1>5, <1>6 DEF KeyInv, Noted

\* What the threads make of the shared statistics, for any number of them: no
\* count exceeds what was observed, the count of a key that one stage uses is
\* exact, and a key that was observed is not forgotten.
THEOREM MemoryIsAccounted == Spec => []MemoryAccounts
<1>1. Init => MemoryInv
  BY InitMemory DEF MemoryInv, KeyInv
<1>2. Typed /\ MemoryInv /\ [Next]_vars => MemoryInv'
  <2> SUFFICES ASSUME Typed, MemoryInv, [Next]_vars, NEW k \in Keys PROVE KeyInv(k)'
    BY DEF MemoryInv, KeyInv
  <2>1. KeyInv(k)
    BY DEF MemoryInv, KeyInv
  <2>2. CASE NextRun \/ NextRunAnew
    BY <2>1, <2>2, NextRunKeeps
  <2>3. ASSUME NEW s \in Stages, Step(s) PROVE KeyInv(k)'
    BY <2>1, <2>3, RouterKeeps, ToolReturnsKeeps, CreateKeeps, FetchKeeps, ReadCountKeeps,
       WriteCountKeeps, ReadEmaKeeps, RecordKeeps DEF Step
  <2>4. CASE UNCHANGED vars
    BY <2>1, <2>4 DEF vars, KeyInv, Bounded, Exact, Noted, Users, Total, Counting, Counted, Stats,
       WillCount, Fetching
  <2> QED BY <2>2, <2>3, <2>4 DEF Next
<1>3. Typed /\ MemoryInv => MemoryAccounts
  <2> SUFFICES ASSUME Typed, NEW k \in Keys, KeyInv(k)
               PROVE  /\ Stats(k).n <= Total(k)
                      /\ Cardinality(Users(k)) <= 1 /\ Quiet => Stats(k).n = hist.seen[k]
                      /\ Quiet /\ hist.seen[k] > 0 => Stats(k).n > 0
    BY DEF MemoryAccounts, MemoryInv, KeyInv, Total, Counting
  <2>1. Total(k) \in Nat /\ hist.seen[k] \in Nat
    BY TotalTyped
  <2>2. Stats(k).n <= Total(k)
    <3>1. mem[k] # None => mem[k] \in Objects /\ mem[k][2] = k
      BY DEF Typed, TypeOK
    <3> QED BY <2>1, <3>1 DEF KeyInv, Bounded, Stats, Prior
  <2>3. ASSUME Quiet PROVE Total(k) = hist.seen[k]
    <3>1. Counting(k) = {}
      BY <2>3 DEF Quiet, Counting, Counted
    <3> QED BY <2>1, <3>1, FS_EmptySet DEF Total
  <2>4. ASSUME Cardinality(Users(k)) <= 1 PROVE \A t, u \in Users(k) : t = u
    <3>1. Users(k) \subseteq Stages /\ IsFiniteSet(Stages)
      BY ConfidentRoutingAssumption DEF Users, Typed, TypeOK
    <3>2. IsFiniteSet(Users(k)) /\ Cardinality(Users(k)) \in Nat
      BY <3>1, FS_Subset, FS_CardinalityType
    <3>3. Cardinality(Users(k)) = 0 \/ Cardinality(Users(k)) = 1
      BY <2>4, <3>2
    <3>4. CASE Cardinality(Users(k)) = 0
      BY <3>2, <3>4, FS_EmptySet
    <3>5. CASE Cardinality(Users(k)) = 1
      BY <3>2, <3>5, FS_Singleton
    <3> QED BY <3>3, <3>4, <3>5
  <2>5. ASSUME Quiet, hist.seen[k] > 0 PROVE Stats(k).n > 0
    <3>1. mem[k] # None
      BY <2>5 DEF KeyInv, Noted
    <3>2. \A s \in Stages : ~WillCount(s, k, mem[k])
      BY <2>5 DEF Quiet, WillCount
    <3> QED BY <3>1, <3>2 DEF KeyInv, Noted, Stats
  <2> QED BY <2>2, <2>3, <2>4, <2>5 DEF KeyInv, Exact
<1> QED BY <1>1, <1>2, <1>3, InitTyped, NextTyped, PTL DEF Spec
=============================================================================
