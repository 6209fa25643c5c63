------------------------------ MODULE LLMStack ------------------------------
(***************************************************************************)
(* The LLM provider of a run: RetryManager around a base provider, and     *)
(* TrackingProvider with its CostGuard around RetryManager ("outside", as  *)
(* the command line composes them) or around the base provider ("inside"). *)
(*                                                                         *)
(* The callers are the threads of a fan-out group, which share the         *)
(* provider; each makes its requests one after the other and, as           *)
(* Orchestrator does, goes on after an exception.  What the base provider  *)
(* and the fallback provider answer or raise is chosen by the environment. *)
(* Token counts are abstracted to one number per answer.                   *)
(***************************************************************************)
EXTENDS Naturals, Sequences, FiniteSets

CONSTANTS
  Callers,
  Requests,    \* bound: requests each caller makes
  MaxRetries,  \* RetryConfig.max_retries
  MaxParse,    \* RetryConfig.max_parse_retries
  RetryOn,     \* RetryConfig.retry_on, with the subclasses of its members
  Errors,      \* what the providers may raise
  Answers,     \* what they may answer
  BaseDelay,   \* RetryConfig.base_delay_s, counted in units of half of it
  MaxDelay,    \* RetryConfig.max_delay_s, in the same units
  MaxCalls, MaxTokens, \* the limits of the CostGuard
  Configs,     \* the compositions and configurations considered
  None

\* "tool": acceptable for its tool_calls only; "malformed": the JSON path of
\* ResponseParser raises on it.
Kinds == {"valid", "tool", "prose", "malformed"}
ErrorKinds == {"provider", "auth", "context", "other", "budget"}

\* own: the tokens are reported by extract_usage of the base provider only.
AnswerRecords == [kind : Kinds, tokens : Nat, own : BOOLEAN]
ConfigRecords == [tracked : {"outside", "inside"}, fallback : BOOLEAN, onParse : BOOLEAN,
                  mode : {"json", "rl", "raw"},
                  backoff : {"constant", "linear", "exponential", "jittered"}]

ASSUME LLMStackAssumption ==
  /\ Requests \in Nat /\ MaxRetries \in Nat /\ MaxParse \in Nat
  /\ MaxCalls \in Nat /\ MaxTokens \in Nat
  /\ BaseDelay \in Nat \ {0} /\ MaxDelay \in Nat
  /\ RetryOn \subseteq ErrorKinds /\ Errors \subseteq ErrorKinds
  /\ Answers \subseteq AnswerRecords /\ None \notin Answers
  /\ Configs \subseteq ConfigRecords
  /\ IsFiniteSet(Callers)

VARIABLES
  cfg,
  st,      \* the calls in progress, one record per caller, see Fresh
  ledger,  \* UsageAccumulator: call_count and total_tokens
  passed,  \* the answers that CostGuard.check let pass: their number and tokens
  refused  \* the answers it raised BudgetExceededError for

vars == <<cfg, st, ledger, passed, refused>>

Zero == [calls |-> 0, tokens |-> 0]
Plus(sum, n) == [calls |-> sum.calls + 1, tokens |-> sum.tokens + n]

\* at: where the call is; from: whose answer the tracker holds; attempt and
\* reparse: the two loop counters; best: the answer that is returned when the
\* parse retries give up; trace: what the request met so far; made and last:
\* the finished requests and the result of the last one.
Fresh == [at |-> "idle", from |-> "request", attempt |-> 0, reparse |-> 0, hold |-> None,
          best |-> None, trace |-> <<>>, delays |-> <<>>, made |-> 0, last |-> "none"]

Init ==
  /\ cfg \in Configs
  /\ st = [c \in Callers |-> Fresh]
  /\ ledger = Zero /\ passed = Zero /\ refused = 0

-----------------------------------------------------------------------------
(* ResponseParser.parse as RetryManager uses it.                           *)
Checked == cfg.onParse /\ cfg.mode # "raw"
Accepts(kind, withTools) ==
  kind = "valid" \/ (kind = "tool" /\ withTools /\ cfg.mode = "json")
Breaks(kind) == Checked /\ kind = "malformed" /\ cfg.mode = "json"

\* AuthError and ContextLimitError are raised before retry_on is looked at.
Retried(e) == e \in RetryOn \ {"auth", "context"}

\* _compute_delay before the cap, in units of half of base_delay_s.
Delay(k) ==
  CASE cfg.backoff = "constant" -> {2 * BaseDelay}
    [] cfg.backoff = "linear" -> {2 * BaseDelay * (k + 1)}
    [] cfg.backoff = "exponential" -> {2 * BaseDelay * 2^k}
    [] OTHER -> (BaseDelay * 2^k)..(2 * BaseDelay * 2^k - 1)

Waits(k) == {IF d < MaxDelay THEN d ELSE MaxDelay : d \in Delay(k)}

-----------------------------------------------------------------------------
(* RetryManager.complete, as what becomes of a call s: Failed, Received    *)
(* and so on are the sets of its possible next states.                     *)
Heard(s, who, what) == [s EXCEPT !.trace = Append(@, [who |-> who, what |-> what])]
Finish(s, result) == [s EXCEPT !.at = "idle", !.made = @ + 1, !.last = result]
ToTracker(s, from, a) == [s EXCEPT !.at = "record", !.from = from, !.hold = a]

\* complete() returns: to the tracker, or to the run.
Return(s, a) == IF cfg.tracked = "outside" THEN ToTracker(s, "request", a)
                ELSE Finish(s, a.kind)

\* The primary provider raised e, in this attempt.
Failed(s, e) ==
  IF ~Retried(e) THEN {Finish(s, e)}
  ELSE IF s.attempt < MaxRetries
  THEN {[s EXCEPT !.at = "sleep", !.delays = Append(@, d)] : d \in Waits(s.attempt)}
  ELSE {IF cfg.fallback THEN [s EXCEPT !.at = "fallback"] ELSE Finish(s, e)}

\* The primary provider answered a.
Answered(s, a) ==
  IF Breaks(a.kind) THEN Failed(s, "other")
  ELSE IF ~Checked \/ Accepts(a.kind, TRUE) \/ MaxParse = 0 THEN {Return(s, a)}
  ELSE {[s EXCEPT !.at = "amended", !.reparse = 0, !.best = a]}

\* A parse retry brought nothing: the next one, or the best effort.
Reparse(s, best) ==
  IF s.reparse + 1 < MaxParse
  THEN [s EXCEPT !.at = "amended", !.reparse = @ + 1, !.best = best]
  ELSE Return(s, best)

\* Mutant: the answer of a parse retry that is not accepted is forgotten.
ReceivedFirst(s, who, a) ==
  LET h == Heard(s, who, a.kind)
  IN IF who = "primary" THEN Answered(h, a)
     ELSE {IF Accepts(a.kind, FALSE) THEN Return(h, a) ELSE Reparse(h, h.best)}

\* An answer reaches RetryManager.  Parse retries are judged without tool_calls.
Received(s, who, a) ==
  LET h == Heard(s, who, a.kind)
  IN IF who = "primary" THEN Answered(h, a)
     ELSE {IF Accepts(a.kind, FALSE) THEN Return(h, a) ELSE Reparse(h, a)}

\* So does an exception.  In a parse retry every one is swallowed.
Thrown(s, who, e) ==
  LET h == Heard(s, who, e)
  IN IF who = "primary" THEN Failed(h, e) ELSE {Reparse(h, h.best)}

-----------------------------------------------------------------------------
Become(c, s) == st' = [st EXCEPT ![c] = s]

Begin(c) ==
  /\ st[c].at = "idle" /\ st[c].made < Requests
  /\ Become(c, [Fresh EXCEPT !.at = "primary", !.made = st[c].made, !.last = st[c].last])
  /\ UNCHANGED <<cfg, ledger, passed, refused>>

Calling(c) == st[c].at \in {"primary", "amended"}

ProviderRaises(c, e) ==
  /\ Calling(c)
  /\ \E s \in Thrown(st[c], st[c].at, e) : Become(c, s)
  /\ UNCHANGED <<cfg, ledger, passed, refused>>

ProviderAnswers(c, a) ==
  /\ Calling(c)
  /\ IF cfg.tracked = "inside" THEN Become(c, ToTracker(st[c], st[c].at, a))
     ELSE \E s \in Received(st[c], st[c].at, a) : Become(c, s)
  /\ UNCHANGED <<cfg, ledger, passed, refused>>

Wake(c) ==
  /\ st[c].at = "sleep"
  /\ Become(c, [st[c] EXCEPT !.at = "primary", !.attempt = @ + 1])
  /\ UNCHANGED <<cfg, ledger, passed, refused>>

FallbackAnswers(c, a) ==
  /\ st[c].at = "fallback"
  /\ Become(c, Return(Heard(st[c], "fallback", a.kind), a))
  /\ UNCHANGED <<cfg, ledger, passed, refused>>

\* Whatever the fallback raises becomes a ProviderError.
FallbackRaises(c, e) ==
  /\ st[c].at = "fallback"
  /\ Become(c, Finish(Heard(st[c], "fallback", e), "provider"))
  /\ UNCHANGED <<cfg, ledger, passed, refused>>

-----------------------------------------------------------------------------
(* TrackingProvider.complete: record the answer, then check the budget.    *)
(* Another caller may record in between.                                   *)

\* RetryManager does not hand extract_usage on to the provider it wraps.
Reported(a) == IF a.own /\ cfg.tracked = "outside" THEN 0 ELSE a.tokens

Record(c) ==
  /\ st[c].at = "record"
  /\ ledger' = Plus(ledger, Reported(st[c].hold))
  /\ Become(c, [st[c] EXCEPT !.at = "check"])
  /\ UNCHANGED <<cfg, passed, refused>>

\* CostGuard.check reads call_count first and sums up total_tokens afterwards:
\* another caller may record in between, too.

\* Mutant: the limit on calls is one too high.
CallsOverByTwo == ledger.calls > MaxCalls + 1

CallsOver == ledger.calls > MaxCalls

TokensOver == ledger.tokens > MaxTokens

CallsPass(c) ==
  /\ st[c].at = "check" /\ ~CallsOver
  /\ Become(c, [st[c] EXCEPT !.at = "weigh"])
  /\ UNCHANGED <<cfg, ledger, passed, refused>>

CheckPasses(c) ==
  /\ st[c].at = "weigh" /\ ~TokensOver
  /\ passed' = Plus(passed, Reported(st[c].hold))
  /\ IF st[c].from = "request" THEN Become(c, Finish(st[c], st[c].hold.kind))
     ELSE \E s \in Received(st[c], st[c].from, st[c].hold) : Become(c, s)
  /\ UNCHANGED <<cfg, ledger, refused>>

Refused(c) == (st[c].at = "check" /\ CallsOver) \/ (st[c].at = "weigh" /\ TokensOver)

Refuse(c) ==
  /\ refused' = refused + 1
  /\ IF st[c].from = "request" THEN Become(c, Finish(st[c], "budget"))
     ELSE \E s \in Thrown(st[c], st[c].from, "budget") : Become(c, s)

\* BudgetExceededError: to RetryManager or to the run.
CheckRaises(c) ==
  /\ Refused(c) /\ Refuse(c)
  /\ UNCHANGED <<cfg, ledger, passed>>

Step(c) ==
  \/ Begin(c) \/ Wake(c) \/ Record(c)
  \/ CallsPass(c) \/ CheckPasses(c) \/ CheckRaises(c)
  \/ \E e \in Errors : ProviderRaises(c, e) \/ FallbackRaises(c, e)
  \/ \E a \in Answers : ProviderAnswers(c, a) \/ FallbackAnswers(c, a)

Next == \E c \in Callers : Step(c)

Spec == Init /\ [][Next]_vars

-----------------------------------------------------------------------------
Outcomes == Kinds \cup ErrorKinds
TraceRecords == [who : {"primary", "amended", "fallback"}, what : Outcomes]

Calls ==
  [at : {"idle", "primary", "amended", "sleep", "fallback", "record", "check", "weigh"},
   from : {"request", "primary", "amended"}, attempt : 0..MaxRetries, reparse : 0..MaxParse,
   hold : Answers \cup {None}, best : Answers \cup {None}, trace : Seq(TraceRecords),
   delays : Seq(0..MaxDelay), made : 0..Requests, last : Outcomes \cup {"none"}]

Sums == [calls : Nat, tokens : Nat]

TypeOK ==
  /\ cfg \in Configs
  /\ st \in [Callers -> Calls]
  /\ ledger \in Sums /\ passed \in Sums /\ refused \in Nat

\* How a request may go.  The primary provider is called at most max_retries + 1
\* times, again only after an error that may be retried; at most
\* max_parse_retries amended calls follow an answer that was not accepted, and
\* nothing follows one that was; the fallback is the last resort, after every
\* primary call failed.
Raised(what) == IF Breaks(what) THEN "other" ELSE what
Who(s, w) == {i \in DOMAIN s.trace : s.trace[i].who = w}

CallsMade(s) ==
  LET t == s.trace
      primary == Who(s, "primary")
      amended == Who(s, "amended")
      fallback == Who(s, "fallback")
  IN /\ primary = 1..Cardinality(primary) /\ Cardinality(primary) <= MaxRetries + 1
     /\ \A i \in primary :
          /\ i + 1 \in primary \cup fallback => Retried(Raised(t[i].what))
          /\ i + 1 \in amended => t[i].what \in Kinds /\ ~Accepts(t[i].what, TRUE)
     /\ Cardinality(amended) <= MaxParse
     /\ \A i \in amended : i < Len(t) => i + 1 \in amended /\ ~Accepts(t[i].what, FALSE)
     /\ fallback # {} => fallback = {MaxRetries + 2} /\ Len(t) = MaxRetries + 2

CallStory == \A c \in Callers : CallsMade(st[c])

\* What a request yields: the last answer that came back and did not break the
\* parser, unless the budget is exceeded; without such an answer the last
\* error, which after the fallback is a ProviderError.
Usable(t) == {i \in DOMAIN t : t[i].what \in Kinds /\ (t[i].who = "primary" => ~Breaks(t[i].what))}

Yields(s) ==
  LET t == s.trace
      ok == Usable(t)
  IN s.at = "idle" /\ t # <<>> =>
       \/ cfg.tracked = "outside" /\ ok # {} /\ s.last = "budget"
       \/ \E i \in ok : (\A j \in ok : j <= i) /\ s.last = t[i].what
       \/ /\ ok = {}
          /\ s.last = IF t[Len(t)].who = "fallback" THEN "provider" ELSE Raised(t[Len(t)].what)

ResultStory == \A c \in Callers : Yields(st[c])

\* With several callers on one accumulator, the answers that pass stay within
\* the budget: no interleaving of records and of the two reads of a check lets
\* one more through.
BudgetHolds == passed.calls <= MaxCalls /\ passed.tokens <= MaxTokens

\* The waits of a request never shrink and never exceed max_delay_s, jitter
\* included, and there is none after the last attempt.
Waited(s) ==
  /\ Len(s.delays) = s.attempt + (IF s.at = "sleep" THEN 1 ELSE 0)
  /\ Len(s.delays) <= MaxRetries
  /\ \A i \in DOMAIN s.delays : s.delays[i] <= MaxDelay
  /\ \A i, j \in DOMAIN s.delays : i <= j => s.delays[i] <= s.delays[j]

Backoff == \A c \in Callers : Waited(st[c])

\* What happens to a request: its calls, its waits and its result.
Story == TypeOK /\ CallStory /\ ResultStory /\ Backoff
=============================================================================
