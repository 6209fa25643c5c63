--------------------------- MODULE LLMProofs ---------------------------
(***************************************************************************)
(* The budget of LLMStack and the story of each of its requests, for any   *)
(* number of threads and requests, any answers and limits and both         *)
(* compositions; the program that LLMPlayer has the LLM answer, in any     *)
(* workflow of BuiltinTools; and the scripts such a workflow generates.    *)
(***************************************************************************)
EXTENDS LLMStack, BuiltinTools, FiniteSetTheorems, SequenceTheorems, WellFoundedInduction, TLAPS

-----------------------------------------------------------------------------
(* Calls in progress.                                                      *)

IsCall(s) == {"at", "from", "hold", "best"} \subseteq DOMAIN s

IsFrom(s) == IsCall(s) /\ s.from \in {"request", "primary", "amended"}

Counted == {"check", "weigh"}
Tracked == {"record"} \cup Counted

\* The tracker holds an answer, and a parse retry has one to fall back on.
Sound(s) ==
  /\ IsFrom(s)
  /\ s.at \in Tracked => s.hold \in Answers
  /\ s.at = "amended" \/ (s.at \in Tracked /\ s.from = "amended") => s.best \in Answers

\* What a step of RetryManager makes of a call.
Uncounted(s) == Sound(s) /\ s.at \notin Counted

\* Fields that say nothing of the answers.
LEMMA FieldsFree ==
  ASSUME NEW s, IsFrom(s), NEW t, NEW m, NEW l
  PROVE  /\ LET h == [s EXCEPT !.trace = t]
            IN IsFrom(h) /\ h.best = s.best /\ h.hold = s.hold /\ h.at = s.at
         /\ Uncounted([s EXCEPT !.at = "idle", !.made = m, !.last = l])
<1>1. LET h == [s EXCEPT !.trace = t]
      IN IsFrom(h) /\ h.best = s.best /\ h.hold = s.hold /\ h.at = s.at
  BY DEF IsFrom, IsCall
<1>2. Uncounted([s EXCEPT !.at = "idle", !.made = m, !.last = l])
  BY DEF IsFrom, IsCall, Uncounted, Sound, Tracked, Counted
<1> QED BY <1>1, <1>2

LEMMA HeardSound ==
  ASSUME NEW s, IsFrom(s), NEW who, NEW what
  PROVE  LET h == Heard(s, who, what)
         IN IsFrom(h) /\ h.best = s.best /\ h.hold = s.hold /\ h.at = s.at
BY FieldsFree DEF Heard

LEMMA FinishSound == ASSUME NEW s, IsFrom(s), NEW result PROVE Uncounted(Finish(s, result))
BY FieldsFree DEF Finish

LEMMA ReturnSound == ASSUME NEW s, IsFrom(s), NEW a \in Answers PROVE Uncounted(Return(s, a))
<1>1. CASE cfg.tracked = "outside"
  BY <1>1 DEF Return, ToTracker, IsFrom, IsCall, Uncounted, Sound, Tracked, Counted
<1>2. CASE cfg.tracked # "outside"
  BY <1>2, FinishSound DEF Return
<1> QED BY <1>1, <1>2

LEMMA FailedSound ==
  ASSUME NEW s, IsFrom(s), NEW e, NEW r \in Failed(s, e) PROVE Uncounted(r)
<1>1. CASE r = Finish(s, e)
  BY <1>1, FinishSound
<1>2. CASE r = [s EXCEPT !.at = "fallback"]
  BY <1>2 DEF IsFrom, IsCall, Uncounted, Sound, Tracked, Counted
<1>3. CASE \E d : r = [s EXCEPT !.at = "sleep", !.delays = Append(@, d)]
  BY <1>3 DEF IsFrom, IsCall, Uncounted, Sound, Tracked, Counted
<1> QED BY <1>1, <1>2, <1>3 DEF Failed

LEMMA AnsweredSound ==
  ASSUME NEW s, IsFrom(s), NEW a \in Answers, NEW r \in Answered(s, a) PROVE Uncounted(r)
<1>1. CASE r \in Failed(s, "other")
  BY <1>1, FailedSound
<1>2. CASE r = Return(s, a)
  BY <1>2, ReturnSound
<1>3. CASE r = [s EXCEPT !.at = "amended", !.reparse = 0, !.best = a]
  BY <1>3 DEF IsFrom, IsCall, Uncounted, Sound, Tracked, Counted
<1> QED BY <1>1, <1>2, <1>3 DEF Answered

LEMMA ReparseSound ==
  ASSUME NEW s, IsFrom(s), NEW best \in Answers PROVE Uncounted(Reparse(s, best))
<1>1. CASE s.reparse + 1 < MaxParse
  BY <1>1 DEF Reparse, IsFrom, IsCall, Uncounted, Sound, Tracked, Counted
<1>2. CASE ~ (s.reparse + 1 < MaxParse)
  BY <1>2, ReturnSound DEF Reparse
<1> QED BY <1>1, <1>2

LEMMA ReceivedSound ==
  ASSUME NEW s, IsFrom(s), NEW who, NEW a \in Answers, NEW r \in Received(s, who, a)
  PROVE  Uncounted(r)
<1> DEFINE h == Heard(s, who, a.kind)
<1>1. IsFrom(h)
  BY HeardSound
<1> HIDE DEF h
<1>2. CASE r \in Answered(h, a)
  BY <1>1, <1>2, AnsweredSound
<1>3. CASE r = Return(h, a)
  BY <1>1, <1>3, ReturnSound
<1>4. CASE r = Reparse(h, a)
  BY <1>1, <1>4, ReparseSound
<1> QED BY <1>2, <1>3, <1>4 DEF Received, h

LEMMA ThrownSound ==
  ASSUME NEW s, IsFrom(s), NEW who, who = "primary" \/ s.best \in Answers, NEW e,
         NEW r \in Thrown(s, who, e)
  PROVE  Uncounted(r)
<1> DEFINE h == Heard(s, who, e)
<1>1. IsFrom(h) /\ h.best = s.best
  BY HeardSound
<1> HIDE DEF h
<1>2. CASE who = "primary" /\ r \in Failed(h, e)
  BY <1>1, <1>2, FailedSound
<1>3. CASE who # "primary" /\ r = Reparse(h, h.best)
  BY <1>1, <1>3, ReparseSound
<1> QED BY <1>2, <1>3 DEF Thrown, h

-----------------------------------------------------------------------------
(* The invariant: the answers that passed, and those that may still pass,  *)
(* are among the recorded ones.  Tokens are counted one by one.            *)

Holding(S) == {c \in Callers : st[c].at \in S}
OpenTokens == {x \in Callers \X Nat : x[1] \in Holding(Counted) /\ x[2] \in 1..Reported(st[x[1]].hold)}

Budget ==
  /\ cfg \in Configs
  /\ DOMAIN st = Callers /\ \A c \in Callers : Sound(st[c])
  /\ ledger \in Sums /\ passed \in Sums
  /\ passed.calls + Cardinality(Holding(Counted)) <= ledger.calls
  /\ passed.calls + Cardinality(Holding({"weigh"})) <= MaxCalls
  /\ IsFiniteSet(OpenTokens)
  /\ passed.tokens + Cardinality(OpenTokens) <= ledger.tokens
  /\ passed.tokens <= MaxTokens

LEMMA FiniteHolding ==
  \A S : IsFiniteSet(Holding(S)) /\ Cardinality(Holding(S)) \in Nat
<1> TAKE S
<1>1. Holding(S) \in SUBSET Callers /\ IsFiniteSet(Callers)
  BY LLMStackAssumption DEF Holding
<1> QED BY <1>1, FS_Subset, FS_CardinalityType

LEMMA ReportedNat == \A a \in Answers : Reported(a) \in Nat
BY LLMStackAssumption DEF Reported, AnswerRecords

\* The tokens of one answer.
LEMMA OneAnswer ==
  ASSUME NEW c, NEW n \in Nat
  PROVE  IsFiniteSet({c} \X (1..n)) /\ Cardinality({c} \X (1..n)) = n
<1>1. IsFiniteSet({c}) /\ Cardinality({c}) = 1
  BY FS_Singleton
<1>2. IsFiniteSet(1..n) /\ Cardinality(1..n) = n
  BY FS_Interval
<1>3. /\ IsFiniteSet({c} \X (1..n))
      /\ Cardinality({c} \X (1..n)) = Cardinality({c}) * Cardinality(1..n)
  BY <1>1, <1>2, FS_Product
<1>4. 1 * n = n
  OBVIOUS
<1> QED BY <1>1, <1>2, <1>3, <1>4

-----------------------------------------------------------------------------
(* The steps.                                                              *)

LEMMA InitBudget == Init => Budget
<1> SUFFICES ASSUME Init PROVE Budget
  OBVIOUS
<1>1. \A c \in Callers : st[c] = Fresh /\ st[c].at = "idle"
  BY DEF Init, Fresh
<1>2. \A c \in Callers : Sound(st[c])
  BY <1>1 DEF Fresh, Sound, IsFrom, IsCall, Tracked, Counted
<1>3. Holding(Counted) = {} /\ Holding({"weigh"}) = {} /\ OpenTokens = {}
  BY <1>1 DEF Holding, OpenTokens, Counted
<1>4. ledger = [calls |-> 0, tokens |-> 0] /\ passed = [calls |-> 0, tokens |-> 0]
  BY DEF Init, Zero
<1>5. IsFiniteSet({}) /\ Cardinality({}) = 0
  BY FS_EmptySet
<1> QED BY <1>2, <1>3, <1>4, <1>5, LLMStackAssumption DEF Init, Budget, Sums

\* What Become does.
LEMMA Became ==
  ASSUME DOMAIN st = Callers, \A d \in Callers : Sound(st[d]),
         NEW c \in Callers, NEW r, Sound(r), Become(c, r)
  PROVE  /\ st'[c] = r /\ \A d \in Callers \ {c} : st'[d] = st[d]
         /\ DOMAIN st' = Callers /\ \A d \in Callers : Sound(st'[d])
<1>1. st' = [st EXCEPT ![c] = r]
  BY DEF Become
<1> QED BY <1>1

\* A call that is not being checked goes on.
LEMMA OtherStep ==
  ASSUME Budget, NEW c \in Callers, NEW r, Uncounted(r), Become(c, r),
         st[c].at \notin Counted, UNCHANGED <<cfg, ledger, passed>>
  PROVE  Budget'
<1> USE DEF Budget
<1>1. /\ st'[c] = r /\ \A d \in Callers \ {c} : st'[d] = st[d]
      /\ DOMAIN st' = Callers /\ \A d \in Callers : Sound(st[d])'
  BY Became DEF Uncounted
<1>2. Holding(Counted)' = Holding(Counted) /\ Holding({"weigh"})' = Holding({"weigh"})
  BY <1>1 DEF Holding, Uncounted, Counted
<1>3. \A d \in Holding(Counted) : Reported(st[d].hold)' = Reported(st[d].hold)
  BY <1>1, <1>2 DEF Holding, Uncounted, Reported
<1>4. OpenTokens' = OpenTokens
  BY <1>2, <1>3 DEF OpenTokens
<1> QED BY <1>1, <1>2, <1>4

LEMMA RecordKeeps == ASSUME Budget, NEW c \in Callers, Record(c) PROVE Budget'
<1> USE DEF Budget
<1> DEFINE n == Reported(st[c].hold)
           r == [st[c] EXCEPT !.at = "check"]
<1>1. Sound(st[c]) /\ st[c].at = "record" /\ n \in Nat
  BY ReportedNat DEF Record, Sound, Tracked
<1>2. Sound(r) /\ r.at = "check" /\ r.hold = st[c].hold
  BY <1>1 DEF Sound, IsFrom, IsCall, Tracked, Counted
<1>3. Become(c, r) /\ ledger' = Plus(ledger, n) /\ UNCHANGED <<cfg, passed>>
  BY DEF Record
<1>4. /\ st'[c] = r /\ \A d \in Callers \ {c} : st'[d] = st[d]
      /\ DOMAIN st' = Callers /\ \A d \in Callers : Sound(st[d])'
  BY <1>2, <1>3, Became
<1> HIDE DEF r
<1>5. /\ Holding(Counted)' = Holding(Counted) \cup {c} /\ c \notin Holding(Counted)
      /\ Holding({"weigh"})' = Holding({"weigh"})
  BY <1>1, <1>2, <1>4 DEF Holding, Counted
<1>6. Reported(st[c].hold)' = n /\ \A d \in Holding(Counted) : Reported(st[d].hold)' = Reported(st[d].hold)
  BY <1>2, <1>3, <1>4, <1>5 DEF Reported, Holding
<1> DEFINE new == {c} \X (1..n)
<1>7. OpenTokens' = OpenTokens \cup new /\ OpenTokens \cap new = {}
  <2> HIDE DEF n
  <2>1. \A x \in Callers \X Nat : x \in OpenTokens' <=> x \in OpenTokens \/ x \in new
    BY <1>1, <1>5, <1>6 DEF OpenTokens
  <2>2. new \subseteq Callers \X Nat
    BY <1>1
  <2>3. OpenTokens \subseteq Callers \X Nat /\ OpenTokens' \subseteq Callers \X Nat
    BY DEF OpenTokens
  <2>4. OpenTokens \cap new = {}
    BY <1>5 DEF OpenTokens
  <2> QED BY <2>1, <2>2, <2>3, <2>4
<1>8. IsFiniteSet(new) /\ Cardinality(new) = n
  BY <1>1, OneAnswer
<1> HIDE DEF new, n
<1>9. IsFiniteSet(OpenTokens') /\ Cardinality(OpenTokens') = Cardinality(OpenTokens) + n
      /\ Cardinality(OpenTokens) \in Nat
  <2>1. /\ IsFiniteSet(OpenTokens \cup new)
        /\ Cardinality(OpenTokens \cup new)
             = Cardinality(OpenTokens) + Cardinality(new) - Cardinality(OpenTokens \cap new)
    BY <1>8, FS_Union
  <2>2. Cardinality(OpenTokens \cap new) = 0 /\ Cardinality(OpenTokens) \in Nat
    BY <1>7, FS_EmptySet, FS_CardinalityType
  <2> QED BY <1>1, <1>7, <1>8, <2>1, <2>2
<1>10. Cardinality(Holding(Counted)') = Cardinality(Holding(Counted)) + 1
       /\ Cardinality(Holding(Counted)) \in Nat
  BY <1>5, FiniteHolding, FS_AddElement
<1>11. /\ ledger.calls \in Nat /\ ledger.tokens \in Nat /\ passed.calls \in Nat /\ passed.tokens \in Nat
       /\ ledger' = [calls |-> ledger.calls + 1, tokens |-> ledger.tokens + n]
  BY <1>3 DEF Sums, Plus
<1>12. ledger' \in Sums /\ ledger'.calls = ledger.calls + 1 /\ ledger'.tokens = ledger.tokens + n
  BY <1>1, <1>11 DEF Sums
<1> QED BY <1>1, <1>3, <1>4, <1>5, <1>9, <1>10, <1>11, <1>12

LEMMA CallsPassKeeps == ASSUME Budget, NEW c \in Callers, CallsPass(c) PROVE Budget'
<1> USE DEF Budget
<1> DEFINE r == [st[c] EXCEPT !.at = "weigh"]
<1>1. Sound(st[c]) /\ st[c].at = "check" /\ ~ CallsOver
  BY DEF CallsPass
<1>2. Sound(r) /\ r.at = "weigh" /\ r.hold = st[c].hold
  BY <1>1 DEF Sound, IsFrom, IsCall, Tracked, Counted
<1>3. Become(c, r) /\ UNCHANGED <<cfg, ledger, passed>>
  BY DEF CallsPass
<1>4. /\ st'[c] = r /\ \A d \in Callers \ {c} : st'[d] = st[d]
      /\ DOMAIN st' = Callers /\ \A d \in Callers : Sound(st[d])'
  BY <1>2, <1>3, Became
<1> HIDE DEF r
<1>5. Holding(Counted)' = Holding(Counted)
  BY <1>1, <1>2, <1>4 DEF Holding, Counted
<1>6. \A d \in Holding(Counted) : Reported(st[d].hold)' = Reported(st[d].hold)
  BY <1>2, <1>3, <1>4 DEF Reported, Holding
<1>7. OpenTokens' = OpenTokens
  BY <1>5, <1>6 DEF OpenTokens
<1>8. Holding({"weigh"})' \subseteq Holding(Counted)
  BY <1>5 DEF Holding, Counted
<1>9. /\ Cardinality(Holding({"weigh"})') <= Cardinality(Holding(Counted))
      /\ Cardinality(Holding({"weigh"})') \in Nat
  BY <1>8, FiniteHolding, FS_Subset, FS_CardinalityType
<1>10. ledger.calls <= MaxCalls /\ ledger.calls \in Nat /\ passed.calls \in Nat
  BY <1>1, LLMStackAssumption DEF CallsOver, Sums
<1>11. passed.calls + Cardinality(Holding({"weigh"})') <= MaxCalls
  BY <1>9, <1>10, FiniteHolding, LLMStackAssumption
<1> QED BY <1>3, <1>4, <1>5, <1>7, <1>11

\* An answer that was checked is no longer open.
LEMMA Leaves ==
  ASSUME Budget, NEW c \in Callers, NEW r, Uncounted(r), Become(c, r), st[c].at \in Counted, UNCHANGED cfg
  PROVE  /\ DOMAIN st' = Callers /\ \A d \in Callers : Sound(st[d])'
         /\ Reported(st[c].hold) \in Nat
         /\ Cardinality(Holding(Counted)') = Cardinality(Holding(Counted)) - 1
         /\ Cardinality(Holding({"weigh"})')
              = IF st[c].at = "weigh" THEN Cardinality(Holding({"weigh"})) - 1
                ELSE Cardinality(Holding({"weigh"}))
         /\ IsFiniteSet(OpenTokens')
         /\ Cardinality(OpenTokens') = Cardinality(OpenTokens) - Reported(st[c].hold)
<1> USE DEF Budget
<1> DEFINE n == Reported(st[c].hold)
           old == {c} \X (1..n)
<1>1. n \in Nat
  BY ReportedNat DEF Sound, Tracked
<1>2. /\ st'[c] = r /\ \A d \in Callers \ {c} : st'[d] = st[d]
      /\ DOMAIN st' = Callers /\ \A d \in Callers : Sound(st[d])'
  BY Became DEF Uncounted
<1>3. /\ Holding(Counted)' = Holding(Counted) \ {c} /\ c \in Holding(Counted)
      /\ Holding({"weigh"})' = Holding({"weigh"}) \ {c}
      /\ c \in Holding({"weigh"}) <=> st[c].at = "weigh"
  BY <1>2 DEF Holding, Counted, Uncounted
<1>4. Cardinality(Holding(Counted)') = Cardinality(Holding(Counted)) - 1
  <2> HIDE DEF Budget
  <2>1. IsFiniteSet(Holding(Counted))
    BY FiniteHolding
  <2>2. Cardinality(Holding(Counted) \ {c}) = Cardinality(Holding(Counted)) - 1
    BY <1>3, <2>1, FS_RemoveElement
  <2> QED BY <1>3, <2>2
<1>5. Cardinality(Holding({"weigh"})')
        = IF st[c].at = "weigh" THEN Cardinality(Holding({"weigh"})) - 1
          ELSE Cardinality(Holding({"weigh"}))
  <2> HIDE DEF Budget
  <2>1. IsFiniteSet(Holding({"weigh"}))
    BY FiniteHolding
  <2>2. c \in Holding({"weigh"})
          => Cardinality(Holding({"weigh"}) \ {c}) = Cardinality(Holding({"weigh"})) - 1
    BY <2>1, FS_RemoveElement
  <2>3. c \notin Holding({"weigh"}) => Holding({"weigh"}) \ {c} = Holding({"weigh"})
    OBVIOUS
  <2> QED BY <1>3, <2>2, <2>3
<1>6. \A d \in Holding(Counted) \ {c} : Reported(st[d].hold)' = Reported(st[d].hold)
  BY <1>2 DEF Reported, Holding
<1> HIDE DEF n
<1>7. OpenTokens = OpenTokens' \cup old /\ OpenTokens' \cap old = {}
  <2>1. \A x \in Callers \X Nat : x \in OpenTokens <=> x \in OpenTokens' \/ x \in old
    BY <1>1, <1>3, <1>6 DEF OpenTokens, n
  <2>2. old \subseteq Callers \X Nat
    BY <1>1
  <2>3. OpenTokens \subseteq Callers \X Nat /\ OpenTokens' \subseteq Callers \X Nat
    BY DEF OpenTokens
  <2>4. OpenTokens' \cap old = {}
    BY <1>3 DEF OpenTokens
  <2> QED BY <2>1, <2>2, <2>3, <2>4
<1>8. IsFiniteSet(old) /\ Cardinality(old) = n
  BY <1>1, OneAnswer
<1> HIDE DEF old
<1>9. IsFiniteSet(OpenTokens')
  BY <1>7, FS_Subset
<1>10. Cardinality(OpenTokens) = Cardinality(OpenTokens') + n
  <2>1. Cardinality(OpenTokens' \cup old)
          = Cardinality(OpenTokens') + Cardinality(old) - Cardinality(OpenTokens' \cap old)
    BY <1>8, <1>9, FS_Union
  <2>2. Cardinality(OpenTokens' \cap old) = 0 /\ Cardinality(OpenTokens') \in Nat
    BY <1>7, <1>9, FS_EmptySet, FS_CardinalityType
  <2> QED BY <1>1, <1>7, <1>8, <2>1, <2>2
<1>11. Cardinality(OpenTokens') \in Nat
  BY <1>9, FS_CardinalityType
<1> QED BY <1>1, <1>2, <1>4, <1>5, <1>9, <1>10, <1>11 DEF n

LEMMA CheckPassesKeeps == ASSUME Budget, NEW c \in Callers, CheckPasses(c) PROVE Budget'
<1> DEFINE n == Reported(st[c].hold)
<1>1. Sound(st[c]) /\ st[c].at = "weigh" /\ ~ TokensOver /\ st[c].hold \in Answers
  BY DEF Budget, CheckPasses, Sound, Tracked, Counted
<1>2. PICK r : Uncounted(r) /\ Become(c, r)
  <2>1. CASE st[c].from = "request"
    BY <1>1, <2>1, FinishSound DEF CheckPasses, Sound
  <2>2. CASE st[c].from # "request"
    BY <1>1, <2>2, ReceivedSound DEF CheckPasses, Sound
  <2> QED BY <2>1, <2>2
<1>3. passed' = Plus(passed, n) /\ UNCHANGED <<cfg, ledger>>
  BY DEF CheckPasses
<1>4. /\ DOMAIN st' = Callers /\ \A d \in Callers : Sound(st[d])'
      /\ n \in Nat
      /\ Cardinality(Holding(Counted)') = Cardinality(Holding(Counted)) - 1
      /\ Cardinality(Holding({"weigh"})') = Cardinality(Holding({"weigh"})) - 1
      /\ IsFiniteSet(OpenTokens')
      /\ Cardinality(OpenTokens') = Cardinality(OpenTokens) - n
  BY <1>1, <1>2, <1>3, Leaves DEF Counted
<1>5. /\ ledger.calls \in Nat /\ ledger.tokens \in Nat /\ passed.calls \in Nat /\ passed.tokens \in Nat
      /\ passed' = [calls |-> passed.calls + 1, tokens |-> passed.tokens + n]
  BY <1>3 DEF Budget, Sums, Plus
<1>6. ledger.tokens <= MaxTokens /\ MaxTokens \in Nat /\ MaxCalls \in Nat
  BY <1>1, <1>5, LLMStackAssumption DEF TokensOver
<1>7. Cardinality(OpenTokens) \in Nat /\ Cardinality(OpenTokens') \in Nat
  BY <1>4, FS_CardinalityType DEF Budget
<1>8. Cardinality(Holding(Counted)) \in Nat /\ Cardinality(Holding({"weigh"})) \in Nat
  BY FiniteHolding
<1> HIDE DEF n
<1>9. passed' \in Sums /\ passed'.calls = passed.calls + 1 /\ passed'.tokens = passed.tokens + n
  BY <1>4, <1>5 DEF Sums
<1> QED BY <1>3, <1>4, <1>5, <1>6, <1>7, <1>8, <1>9 DEF Budget

LEMMA CheckRaisesKeeps == ASSUME Budget, NEW c \in Callers, CheckRaises(c) PROVE Budget'
<1> DEFINE n == Reported(st[c].hold)
<1>1. Sound(st[c]) /\ st[c].at \in Counted
  BY DEF Budget, CheckRaises, Refused, Counted
<1>2. PICK r : Uncounted(r) /\ Become(c, r)
  <2>1. CASE st[c].from = "request"
    BY <1>1, <2>1, FinishSound DEF CheckRaises, Refuse, Sound
  <2>2. CASE st[c].from # "request"
    <3>1. PICK r \in Thrown(st[c], st[c].from, "budget") : Become(c, r)
      BY <2>2 DEF CheckRaises, Refuse
    <3>2. st[c].from = "primary" \/ st[c].best \in Answers
      BY <1>1, <2>2 DEF Sound, IsFrom, Tracked
    <3> QED BY <1>1, <3>1, <3>2, ThrownSound DEF Sound
  <2> QED BY <2>1, <2>2
<1>3. UNCHANGED <<cfg, ledger, passed>>
  BY DEF CheckRaises
<1>4. /\ DOMAIN st' = Callers /\ \A d \in Callers : Sound(st[d])'
      /\ n \in Nat
      /\ Cardinality(Holding(Counted)') = Cardinality(Holding(Counted)) - 1
      /\ \/ Cardinality(Holding({"weigh"})') = Cardinality(Holding({"weigh"})) - 1
         \/ Cardinality(Holding({"weigh"})') = Cardinality(Holding({"weigh"}))
      /\ IsFiniteSet(OpenTokens')
      /\ Cardinality(OpenTokens') = Cardinality(OpenTokens) - n
  BY <1>1, <1>2, <1>3, Leaves
<1>5. ledger.calls \in Nat /\ ledger.tokens \in Nat /\ passed.calls \in Nat /\ passed.tokens \in Nat
  BY DEF Budget, Sums
<1>6. Cardinality(OpenTokens) \in Nat /\ Cardinality(OpenTokens') \in Nat
  BY <1>4, FS_CardinalityType DEF Budget
<1>7. Cardinality(Holding(Counted)) \in Nat /\ Cardinality(Holding({"weigh"})) \in Nat
  BY FiniteHolding
<1> HIDE DEF n
<1> QED BY <1>3, <1>4, <1>5, <1>6, <1>7, LLMStackAssumption DEF Budget

\* The steps of RetryManager and the providers.
LEMMA ProviderKeeps ==
  ASSUME Budget, NEW c \in Callers,
         \/ Begin(c) \/ Wake(c)
         \/ \E e \in Errors : ProviderRaises(c, e) \/ FallbackRaises(c, e)
         \/ \E a \in Answers : ProviderAnswers(c, a) \/ FallbackAnswers(c, a)
  PROVE  Budget'
<1>1. Sound(st[c]) /\ IsFrom(st[c])
  BY DEF Budget, Sound
<1>2. CASE Begin(c)
  <2> DEFINE r == [Fresh EXCEPT !.at = "primary", !.made = st[c].made, !.last = st[c].last]
  <2>1. Uncounted(r)
    BY DEF Fresh, Uncounted, Sound, IsFrom, IsCall, Tracked, Counted
  <2> QED BY <1>2, <2>1, OtherStep DEF Begin, Counted
<1>3. CASE Wake(c)
  <2> DEFINE s == st[c]
             r == [s EXCEPT !.at = "primary", !.attempt = s.attempt + 1]
  <2>1. Uncounted(r)
    <3>1. IsFrom(s)
      BY <1>1
    <3> HIDE DEF s
    <3> QED BY <3>1 DEF Uncounted, Sound, IsFrom, IsCall, Tracked, Counted
  <2> QED BY <1>3, <2>1, OtherStep DEF Wake, Counted
<1>4. ASSUME NEW e \in Errors, ProviderRaises(c, e) PROVE Budget'
  <2>1. st[c].at \notin Counted /\ (st[c].at = "primary" \/ st[c].best \in Answers)
    BY <1>1, <1>4 DEF ProviderRaises, Calling, Counted, Sound
  <2>2. PICK r \in Thrown(st[c], st[c].at, e) : Become(c, r)
    BY <1>4 DEF ProviderRaises
  <2>3. Uncounted(r)
    BY <1>1, <2>1, <2>2, ThrownSound
  <2> QED BY <1>4, <2>1, <2>2, <2>3, OtherStep DEF ProviderRaises
<1>5. ASSUME NEW a \in Answers, ProviderAnswers(c, a) PROVE Budget'
  <2>1. st[c].at \notin Counted /\ st[c].at \in {"primary", "amended"}
    BY <1>5 DEF ProviderAnswers, Calling, Counted
  <2>2. PICK r : Become(c, r) /\ Uncounted(r)
    <3>1. CASE cfg.tracked = "inside"
      <4>1. Uncounted(ToTracker(st[c], st[c].at, a))
        <5> DEFINE s == st[c]
                   r == ToTracker(s, s.at, a)
        <5>1. Sound(s) /\ s.at \in {"primary", "amended"}
          BY <1>1, <2>1
        <5> HIDE DEF s
        <5>2. Uncounted(r)
          BY <5>1 DEF ToTracker, Uncounted, Sound, IsFrom, IsCall, Tracked, Counted
        <5> QED BY <5>2 DEF s
      <4> QED BY <1>5, <3>1, <4>1 DEF ProviderAnswers
    <3>2. CASE cfg.tracked # "inside"
      BY <1>1, <1>5, <3>2, ReceivedSound DEF ProviderAnswers
    <3> QED BY <3>1, <3>2
  <2> QED BY <1>5, <2>1, <2>2, OtherStep DEF ProviderAnswers
<1>6. ASSUME NEW a \in Answers, FallbackAnswers(c, a) PROVE Budget'
  <2> DEFINE r == Return(Heard(st[c], "fallback", a.kind), a)
  <2>1. Uncounted(r)
    BY <1>1, HeardSound, ReturnSound
  <2> QED BY <1>6, <2>1, OtherStep DEF FallbackAnswers, Counted
<1>7. ASSUME NEW e \in Errors, FallbackRaises(c, e) PROVE Budget'
  <2> DEFINE r == Finish(Heard(st[c], "fallback", e), "provider")
  <2>1. Uncounted(r)
    BY <1>1, HeardSound, FinishSound
  <2> QED BY <1>7, <2>1, OtherStep DEF FallbackRaises, Counted
<1> QED BY <1>2, <1>3, <1>4, <1>5, <1>6, <1>7

LEMMA NextBudget == Budget /\ [Next]_vars => Budget'
<1> SUFFICES ASSUME Budget, [Next]_vars PROVE Budget'
  OBVIOUS
<1>1. CASE UNCHANGED vars
  BY <1>1 DEF vars, Budget, Holding, OpenTokens, Reported
<1>2. CASE Next
  <2>1. PICK c \in Callers : Step(c)
    BY <1>2 DEF Next
  <2> QED BY <2>1, RecordKeeps, CallsPassKeeps, CheckPassesKeeps, CheckRaisesKeeps, ProviderKeeps DEF Step
<1> QED BY <1>1, <1>2

\* However many threads share the accumulator, and however their records and the
\* two reads of their checks interleave, the answers that pass stay within the budget.
THEOREM BudgetKept == Spec => []BudgetHolds
<1>1. Budget => BudgetHolds
  <2> SUFFICES ASSUME Budget PROVE BudgetHolds
    OBVIOUS
  <2>1. passed.calls \in Nat /\ Cardinality(Holding({"weigh"})) \in Nat /\ MaxCalls \in Nat
    BY FiniteHolding, LLMStackAssumption DEF Budget, Sums
  <2> QED BY <2>1 DEF Budget, BudgetHolds
<1> QED BY <1>1, InitBudget, NextBudget, PTL DEF Spec

-----------------------------------------------------------------------------
(* The waits: powers of two, counted as sets, and the delays made of them. *)

\* A power of two counts the subsets of an interval.
LEMMA CountedPower ==
  ASSUME NEW k \in Nat
  PROVE  IsFiniteSet(SUBSET (1..k)) /\ Cardinality(SUBSET (1..k)) = 2^k /\ 2^k \in Nat
<1>1. IsFiniteSet(1..k) /\ Cardinality(1..k) = k
  BY FS_Interval
<1>2. IsFiniteSet(SUBSET (1..k)) /\ Cardinality(SUBSET (1..k)) = 2^k
  BY <1>1, FS_SUBSET
<1> QED BY <1>2, FS_CardinalityType

LEMMA PowerGrows ==
  ASSUME NEW i \in Nat, NEW j \in Nat, i <= j PROVE 2^i <= 2^j
<1>1. SUBSET (1..i) \subseteq SUBSET (1..j)
  OBVIOUS
<1>2. IsFiniteSet(SUBSET (1..j)) /\ Cardinality(SUBSET (1..j)) = 2^j /\ Cardinality(SUBSET (1..i)) = 2^i
  BY CountedPower
<1>3. Cardinality(SUBSET (1..i)) <= Cardinality(SUBSET (1..j))
  BY <1>1, <1>2, FS_Subset
<1> QED BY <1>2, <1>3

LEMMA PowerDoubles == ASSUME NEW k \in Nat PROVE 2^(k + 1) = 2 * 2^k
<1> DEFINE low == SUBSET (1..k)
           high == {T \in SUBSET (1..(k + 1)) : k + 1 \in T}
           f == [T \in low |-> T \cup {k + 1}]
<1>1. SUBSET (1..(k + 1)) = low \cup high /\ low \cap high = {}
  <2>1. 1..(k + 1) = (1..k) \cup {k + 1} /\ k + 1 \notin 1..k
    OBVIOUS
  <2> QED BY <2>1
<1>2. ExistsBijection(low, high)
  <2>1. f \in [low -> high]
    OBVIOUS
  <2>2. ASSUME NEW S \in low, NEW T \in low, f[S] = f[T] PROVE S = T
    <3>1. k + 1 \notin S /\ k + 1 \notin T
      OBVIOUS
    <3>2. S \cup {k + 1} = T \cup {k + 1}
      BY <2>2
    <3> QED BY <3>1, <3>2
  <2>3. ASSUME NEW T \in high PROVE \E S \in low : f[S] = T
    <3>1. T \ {k + 1} \in low
      <4>1. \A x \in 1..(k + 1) : x # k + 1 => x \in 1..k
        OBVIOUS
      <4> QED BY <4>1
    <3>2. (T \ {k + 1}) \cup {k + 1} = T
      OBVIOUS
    <3> QED BY <3>1, <3>2
  <2> HIDE DEF f, low, high
  <2>4. f \in Injection(low, high)
    BY <2>1, <2>2 DEF Injection, IsInjective
  <2>5. f \in Surjection(low, high)
    BY <2>1, <2>3 DEF Surjection
  <2> QED BY <2>4, <2>5 DEF ExistsBijection, Bijection
<1>3. IsFiniteSet(low) /\ Cardinality(low) = 2^k /\ 2^k \in Nat
  BY CountedPower
<1>4. IsFiniteSet(SUBSET (1..(k + 1))) /\ Cardinality(SUBSET (1..(k + 1))) = 2^(k + 1)
  <2>1. k + 1 \in Nat
    OBVIOUS
  <2> QED BY <2>1, CountedPower
<1> HIDE DEF low, high
<1>5. IsFiniteSet(high) /\ Cardinality(high) = 2^k
  BY <1>2, <1>3, FS_Bijection
<1>6. Cardinality(low \cup high) = Cardinality(low) + Cardinality(high) - Cardinality(low \cap high)
  BY <1>3, <1>5, FS_Union
<1>7. Cardinality(low \cap high) = 0
  BY <1>1, FS_EmptySet
<1> DEFINE n == 2^k
<1>8. n \in Nat /\ Cardinality(low \cup high) = n + n - 0
  BY <1>3, <1>5, <1>6, <1>7
<1>9. Cardinality(low \cup high) = 2^(k + 1)
  BY <1>1, <1>4
<1> HIDE DEF n
<1>10. Cardinality(low \cup high) = 2 * n
  BY <1>8
<1> QED BY <1>9, <1>10 DEF n

LEMMA Times ==
  ASSUME NEW b \in Nat, NEW x \in Nat, NEW y \in Nat, x <= y PROVE b * x \in Nat /\ b * x <= b * y
OBVIOUS

\* The delays before the cap, and that they do not shrink.
LEMMA DelayRange ==
  ASSUME cfg \in Configs, NEW k \in Nat, NEW d \in Delay(k)
  PROVE  /\ d \in Nat
         /\ \/ cfg.backoff = "constant" /\ d = 2 * BaseDelay
            \/ cfg.backoff = "linear" /\ d = 2 * BaseDelay * (k + 1)
            \/ cfg.backoff = "exponential" /\ d = 2 * BaseDelay * 2^k
            \/ cfg.backoff = "jittered" /\ BaseDelay * 2^k <= d /\ d < 2 * BaseDelay * 2^k
<1> DEFINE n == 2^k
<1>1. n \in Nat /\ BaseDelay \in Nat
  BY CountedPower, LLMStackAssumption
<1>2. cfg.backoff \in {"constant", "linear", "exponential", "jittered"}
  BY LLMStackAssumption DEF ConfigRecords
<1> HIDE DEF n
<1>3. /\ 2 * BaseDelay \in Nat /\ 2 * BaseDelay * (k + 1) \in Nat /\ 2 * BaseDelay * n \in Nat
      /\ BaseDelay * n \in Nat
  BY <1>1
<1>4. CASE cfg.backoff = "constant"
  BY <1>3, <1>4 DEF Delay
<1>5. CASE cfg.backoff = "linear"
  BY <1>3, <1>5 DEF Delay
<1>6. CASE cfg.backoff = "exponential"
  BY <1>3, <1>6 DEF Delay, n
<1>7. CASE cfg.backoff = "jittered"
  <2>1. d \in (BaseDelay * n)..(2 * BaseDelay * n - 1)
    BY <1>7 DEF Delay, n
  <2>2. d \in Nat /\ BaseDelay * n <= d /\ d < 2 * BaseDelay * n
    BY <1>3, <2>1
  <2> QED BY <1>7, <2>2 DEF n
<1> QED BY <1>2, <1>4, <1>5, <1>6, <1>7

LEMMA DelayGrows ==
  ASSUME cfg \in Configs, NEW i \in Nat, NEW j \in Nat, i < j, NEW d \in Delay(i), NEW e \in Delay(j)
  PROVE  d <= e
<1> DEFINE x == 2^i
           y == 2^j
<1>1. x \in Nat /\ y \in Nat /\ x <= y /\ 2 * x <= y
  <2>1. 2^(i + 1) <= 2^j /\ i + 1 \in Nat
    BY PowerGrows
  <2>2. 2^(i + 1) = 2 * 2^i
    BY PowerDoubles
  <2>3. 2^i \in Nat /\ 2^j \in Nat
    BY CountedPower
  <2>4. 2 * 2^i <= 2^j
    BY <2>1, <2>2
  <2> HIDE DEF x, y
  <2>5. x \in Nat /\ y \in Nat /\ 2 * x <= y
    BY <2>3, <2>4 DEF x, y
  <2> QED BY <2>5
<1>2. /\ d \in Nat /\ e \in Nat
      /\ \/ cfg.backoff = "constant" /\ d = 2 * BaseDelay /\ e = d
         \/ cfg.backoff = "linear" /\ d = 2 * BaseDelay * (i + 1) /\ e = 2 * BaseDelay * (j + 1)
         \/ cfg.backoff = "exponential" /\ d = 2 * BaseDelay * x /\ e = 2 * BaseDelay * y
         \/ cfg.backoff = "jittered" /\ d < 2 * BaseDelay * x /\ BaseDelay * y <= e
  BY DelayRange
<1> HIDE DEF x, y
<1>3. BaseDelay \in Nat /\ 2 * BaseDelay \in Nat
  BY LLMStackAssumption
<1>4. 2 * BaseDelay * (i + 1) <= 2 * BaseDelay * (j + 1)
  BY <1>3, Times
<1>5. 2 * BaseDelay * x <= 2 * BaseDelay * y
  BY <1>1, <1>3, Times
<1>6. 2 * BaseDelay * x = BaseDelay * (2 * x) /\ BaseDelay * (2 * x) <= BaseDelay * y
      /\ BaseDelay * y \in Nat /\ BaseDelay * (2 * x) \in Nat
  BY <1>1, <1>3, Times
<1> QED BY <1>2, <1>4, <1>5, <1>6

LEMMA WaitsKept ==
  ASSUME cfg \in Configs, NEW k \in Nat
  PROVE  Waits(k) \subseteq 0..MaxDelay
<1> SUFFICES ASSUME NEW d \in Delay(k) PROVE (IF d < MaxDelay THEN d ELSE MaxDelay) \in 0..MaxDelay
  BY DEF Waits
<1>1. d \in Nat /\ MaxDelay \in Nat
  BY DelayRange, LLMStackAssumption
<1> QED BY <1>1

LEMMA WaitsGrow ==
  ASSUME cfg \in Configs, NEW i \in Nat, NEW j \in Nat, i < j, NEW d \in Waits(i), NEW e \in Waits(j)
  PROVE  d <= e
<1>1. PICK x \in Delay(i) : d = IF x < MaxDelay THEN x ELSE MaxDelay
  BY DEF Waits
<1>2. PICK y \in Delay(j) : e = IF y < MaxDelay THEN y ELSE MaxDelay
  BY DEF Waits
<1>3. x \in Nat /\ y \in Nat /\ x <= y /\ MaxDelay \in Nat
  BY DelayRange, DelayGrows, LLMStackAssumption
<1> QED BY <1>1, <1>2, <1>3

-----------------------------------------------------------------------------
(***************************************************************************)
(* The story of a request: where it is says how far its trace and its      *)
(* waits have come.                                                        *)
(***************************************************************************)

\* The first n calls went to the primary provider and failed with an error that
\* may be retried.
Tried(t, n) ==
  \A i \in 1..n : t[i].who = "primary" /\ Retried(Raised(t[i].what))

\* Answers that do not do, of the primary call and of a parse retry.
Unfit(what) == ~Accepts(what, TRUE)
StillUnfit(what) == ~Accepts(what, FALSE)

\* The p-th answered what was not accepted, and what follows are parse retries.
Amended(t, p) ==
  /\ t[p].what \in Kinds /\ ~Breaks(t[p].what) /\ Unfit(t[p].what)
  /\ \A i \in (p + 1)..Len(t) : t[i].who = "amended"

\* A trace that may end here.
Ended(t) ==
  \E p \in 1..(MaxRetries + 1) :
    /\ p <= Len(t) /\ Tried(t, p - 1) /\ t[p].who = "primary"
    /\ \/ Len(t) = p
       \/ /\ Amended(t, p) /\ Len(t) - p \in 1..MaxParse
          /\ \A i \in (p + 1)..(Len(t) - 1) : StillUnfit(t[i].what)
       \/ /\ p = MaxRetries + 1 /\ Len(t) = p + 1 /\ Tried(t, p)
          /\ t[p + 1].who = "fallback"

\* The last usable answer is one of this kind.
Best(t, kind) == \E i \in Usable(t) : (\A j \in Usable(t) : j <= i) /\ t[i].what = kind

Amending(s) ==
  LET t == s.trace
      p == s.attempt + 1
  IN /\ Len(t) = p + s.reparse /\ s.reparse < MaxParse
     /\ Tried(t, p - 1) /\ t[p].who = "primary" /\ Amended(t, p)
     /\ \A i \in (p + 1)..Len(t) : StillUnfit(t[i].what)
     /\ Best(t, s.best.kind)

DelayedBy(s, n) == Len(s.delays) = n /\ \A i \in 1..n : s.delays[i] \in Waits(i - 1)

\* Where RetryManager is, while the tracker may hold an answer for it.
Phase(s) == IF s.at \in Tracked THEN s.from ELSE s.at

Known(s) ==
  LET t == s.trace
      p == Phase(s)
  IN /\ s \in Calls
     /\ s.at # "idle" => s.made < Requests
     /\ DelayedBy(s, s.attempt + (IF s.at = "sleep" THEN 1 ELSE 0))
     /\ p = "primary" => Len(t) = s.attempt /\ Tried(t, s.attempt)
     /\ p = "sleep" => s.attempt < MaxRetries /\ Len(t) = s.attempt + 1 /\ Tried(t, s.attempt + 1)
     /\ p = "fallback" => s.attempt = MaxRetries /\ Len(t) = s.attempt + 1 /\ Tried(t, s.attempt + 1)
     /\ p = "amended" => Amending(s)
     /\ p = "request" => cfg.tracked = "outside" /\ Ended(t) /\ Best(t, s.hold.kind)
     /\ p = "idle" => t = <<>> \/ (Ended(t) /\ Yields(s))

-----------------------------------------------------------------------------
(* What is known makes the story.                                          *)

LEMMA Types ==
  ASSUME NEW s \in Calls
  PROVE  /\ s.attempt \in 0..MaxRetries /\ s.reparse \in 0..MaxParse
         /\ MaxRetries \in Nat /\ MaxParse \in Nat
         /\ s.trace \in Seq(TraceRecords) /\ Len(s.trace) \in Nat /\ DOMAIN s.trace = 1..Len(s.trace)
         /\ s.delays \in Seq(0..MaxDelay) /\ Len(s.delays) \in Nat /\ DOMAIN s.delays = 1..Len(s.delays)
         /\ \A i \in 1..Len(s.trace) : s.trace[i] \in TraceRecords
BY LLMStackAssumption, ElementOfSeq DEF Calls

\* Errors that are retried are no answers, and are never accepted.
LEMMA RetriedUnusable ==
  ASSUME NEW what, Retried(Raised(what)) PROVE ~ (what \in Kinds /\ ~Breaks(what))
BY LLMStackAssumption DEF Retried, Raised, Kinds, ErrorKinds

LEMMA ErrorsUnusable ==
  ASSUME NEW e \in ErrorKinds
  PROVE  e \notin Kinds /\ Raised(e) = e /\ StillUnfit(e)
BY DEF ErrorKinds, Kinds, Raised, Breaks, Accepts, StillUnfit

\* Who made the calls of a trace that ended.
LEMMA EndedCalls ==
  ASSUME NEW s \in Calls, Ended(s.trace) PROVE CallsMade(s)
<1> DEFINE t == s.trace
           n == Len(t)
           P == Who(s, "primary")
           A == Who(s, "amended")
           F == Who(s, "fallback")
<1>1. PICK p \in 1..(MaxRetries + 1) :
    /\ p <= n /\ Tried(t, p - 1) /\ t[p].who = "primary"
    /\ \/ n = p
       \/ /\ Amended(t, p) /\ n - p \in 1..MaxParse
          /\ \A i \in (p + 1)..(n - 1) : StillUnfit(t[i].what)
       \/ /\ p = MaxRetries + 1 /\ n = p + 1 /\ Tried(t, p)
          /\ t[p + 1].who = "fallback"
  BY DEF Ended
<1>2. p \in Nat /\ p > 0 /\ n \in Nat /\ MaxRetries \in Nat /\ MaxParse \in Nat
      /\ p <= MaxRetries + 1 /\ DOMAIN t = 1..n
  BY Types
<1>3. \A i \in 1..p : t[i].who = "primary"
  BY <1>1, <1>2 DEF Tried
<1>4. \A i \in 1..(p - 1) : Retried(Raised(t[i].what))
  BY <1>1 DEF Tried
<1>5. \A w, i : i \in Who(s, w) <=> i \in 1..n /\ t[i].who = w
  BY <1>2 DEF Who
<1>6. Cardinality(1..p) = p
  BY <1>2, FS_Interval
<1> SUFFICES /\ P = 1..Cardinality(P) /\ Cardinality(P) <= MaxRetries + 1
             /\ \A i \in P :
                  /\ i + 1 \in P \cup F => Retried(Raised(t[i].what))
                  /\ i + 1 \in A => t[i].what \in Kinds /\ Unfit(t[i].what)
             /\ Cardinality(A) <= MaxParse
             /\ \A i \in A : i < n => i + 1 \in A /\ StillUnfit(t[i].what)
             /\ F # {} => F = {MaxRetries + 2} /\ n = MaxRetries + 2
  BY DEF CallsMade, Unfit, StillUnfit
<1>7. \A i : i \in 1..n => i \in 1..p \/ i \in (p + 1)..n
  BY <1>1, <1>2
<1>8. \A i \in 1..p : i \in 1..n
  BY <1>1, <1>2
<1> HIDE DEF t, n
<1>9. CASE n = p
  <2>1. P = 1..p
    BY <1>2, <1>3, <1>5, <1>9
  <2>2. A = {} /\ F = {}
    BY <1>2, <1>3, <1>5, <1>9
  <2>3. Cardinality(A) <= MaxParse
    BY <1>2, <2>2, FS_EmptySet, SMTT(20)
  <2> HIDE DEF P, A, F
  <2> QED BY <1>2, <1>4, <1>6, <2>1, <2>2, <2>3
<1>10. CASE /\ Amended(t, p) /\ n - p \in 1..MaxParse
            /\ \A i \in (p + 1)..(n - 1) : StillUnfit(t[i].what)
  <2>1. \A i \in (p + 1)..n : t[i].who = "amended"
    BY <1>10 DEF Amended, n
  <2>2. P = 1..p
    BY <1>3, <1>5, <1>7, <1>8, <2>1
  <2>3. A = (p + 1)..n
    <3>1. \A i \in (p + 1)..n : i \in 1..n
      BY <1>2
    <3> QED BY <1>3, <1>5, <1>7, <2>1, <3>1
  <2>4. F = {}
    BY <1>3, <1>5, <1>7, <2>1
  <2>5. Cardinality(A) <= MaxParse
    <3>1. Cardinality((p + 1)..n) = n - (p + 1) + 1
      BY <1>2, <1>10, FS_Interval
    <3> QED BY <1>2, <1>10, <2>3, <3>1
  <2>6. t[p].what \in Kinds /\ Unfit(t[p].what)
    BY <1>10 DEF Amended
  <2>7. \A i \in 1..p : i + 1 \in (p + 1)..n => i = p
    BY <1>2
  <2>8. \A i \in 1..p : i + 1 \in 1..p => i \in 1..(p - 1)
    BY <1>2
  <2>9. \A i \in (p + 1)..n : i < n => i + 1 \in (p + 1)..n /\ i \in (p + 1)..(n - 1)
    BY <1>2
  <2> HIDE DEF P, A, F
  <2> QED BY <1>2, <1>4, <1>6, <1>10, <2>2, <2>3, <2>4, <2>5, <2>6, <2>7, <2>8, <2>9
<1>11. CASE p = MaxRetries + 1 /\ n = p + 1 /\ Tried(t, p) /\ t[p + 1].who = "fallback"
  <2>1. \A i : i \in 1..n <=> i \in 1..p \/ i = p + 1
    BY <1>2, <1>11
  <2>2. P = 1..p
    BY <1>3, <1>5, <1>11, <2>1
  <2>3. A = {}
    BY <1>3, <1>5, <1>11, <2>1
  <2>4. F = {p + 1} /\ p + 1 = MaxRetries + 2
    BY <1>2, <1>3, <1>5, <1>11, <2>1
  <2>5. Cardinality(A) <= MaxParse
    <3>1. Cardinality(A) = 0
      BY <2>3, FS_EmptySet
    <3> QED BY <1>2, <3>1
  <2>6. \A i \in 1..p : Retried(Raised(t[i].what))
    BY <1>11 DEF Tried
  <2> HIDE DEF P, A, F
  <2> QED BY <1>2, <1>6, <1>11, <2>2, <2>3, <2>4, <2>5, <2>6
<1> QED BY <1>1, <1>9, <1>10, <1>11

LEMMA NoCalls == ASSUME NEW s \in Calls, s.trace = <<>> PROVE CallsMade(s)
<1>1. DOMAIN s.trace = 1..0 /\ MaxRetries \in Nat /\ MaxParse \in Nat
  BY Types
<1>2. \A w : Who(s, w) = {}
  BY <1>1 DEF Who
<1>3. Cardinality({}) = 0 /\ 1..0 = {}
  BY FS_EmptySet
<1> DEFINE P == Who(s, "primary")
           A == Who(s, "amended")
           F == Who(s, "fallback")
<1>4. P = {} /\ A = {} /\ F = {}
  BY <1>2
<1> HIDE DEF P, A, F
<1>5. /\ P = 1..Cardinality(P) /\ Cardinality(P) <= MaxRetries + 1
      /\ Cardinality(A) <= MaxParse
  BY <1>1, <1>3, <1>4
<1> QED BY <1>4, <1>5 DEF CallsMade, P, A, F

LEMMA KnownTells ==
  ASSUME cfg \in Configs, NEW s, Known(s) PROVE CallsMade(s) /\ Yields(s) /\ Waited(s)
<1> DEFINE t == s.trace
           n == s.attempt
           p == n + 1
<1>1. /\ s \in Calls /\ n \in 0..MaxRetries /\ MaxRetries \in Nat /\ MaxParse \in Nat /\ Len(t) \in Nat
      /\ s.reparse \in 0..MaxParse
  BY Types DEF Known
<1>2. Phase(s) \in {"primary", "sleep", "fallback", "amended", "request", "idle"}
  BY <1>1 DEF Phase, Tracked, Counted, Calls
<1>3. t = <<>> \/ Ended(t)
  <2>1. CASE Phase(s) \in {"request", "idle"}
    BY <2>1 DEF Known
  <2>2. CASE Phase(s) = "primary"
    <3>1. Len(t) = n /\ Tried(t, n) /\ t \in Seq(TraceRecords)
      BY <1>1, <2>2, Types DEF Known
    <3> HIDE DEF t, n
    <3>2. CASE n = 0
      BY <1>1, <3>1, <3>2, EmptySeq
    <3>3. CASE n > 0
      <4>1. n \in 1..(MaxRetries + 1) /\ Tried(t, n - 1) /\ t[n].who = "primary"
        BY <1>1, <3>1, <3>3 DEF Tried
      <4>2. n <= Len(t)
        BY <1>1, <3>1
      <4> QED BY <3>1, <4>1, <4>2 DEF Ended
    <3> QED BY <1>1, <3>2, <3>3
  <2>3. CASE Phase(s) \in {"sleep", "fallback"}
    <3>1. Len(t) = p /\ Tried(t, p) /\ p \in 1..(MaxRetries + 1)
      BY <1>1, <2>3 DEF Known
    <3> HIDE DEF t, n
    <3>2. Tried(t, p - 1) /\ t[p].who = "primary"
      BY <1>1, <3>1 DEF Tried
    <3>3. p <= Len(t)
      BY <1>1, <3>1
    <3> HIDE DEF p
    <3> QED BY <3>1, <3>2, <3>3 DEF Ended
  <2>4. CASE Phase(s) = "amended"
    <3>1. /\ Len(t) = p + s.reparse /\ s.reparse < MaxParse
          /\ Tried(t, p - 1) /\ t[p].who = "primary" /\ Amended(t, p)
          /\ \A i \in (p + 1)..Len(t) : StillUnfit(t[i].what)
          /\ p \in 1..(MaxRetries + 1)
      <4>1. Amending(s)
        BY <2>4 DEF Known
      <4>2. p \in 1..(MaxRetries + 1)
        BY <1>1
      <4> QED BY <4>1, <4>2 DEF Amending
    <3> HIDE DEF t, n
    <3>2. Len(t) = p \/ Len(t) - p \in 1..MaxParse
      BY <1>1, <3>1
    <3>3. \A i \in (p + 1)..(Len(t) - 1) : i \in (p + 1)..Len(t)
      BY <1>1
    <3>4. p <= Len(t)
      BY <1>1, <3>1
    <3> QED BY <3>1, <3>2, <3>3, <3>4 DEF Ended
  <2> QED BY <1>2, <2>1, <2>2, <2>3, <2>4
<1>4. CallsMade(s)
  BY <1>1, <1>3, NoCalls, EndedCalls
<1>5. Yields(s)
  BY DEF Known, Phase, Tracked, Counted, Yields
<1>6. Waited(s)
  <2> DEFINE k == n + (IF s.at = "sleep" THEN 1 ELSE 0)
             d == s.delays
  <2>1. Len(d) = k /\ \A i \in 1..k : d[i] \in Waits(i - 1)
    BY DEF Known, DelayedBy
  <2>2. k <= MaxRetries /\ k \in Nat
    <3>1. s.at = "sleep" => n < MaxRetries
      BY DEF Known, Phase, Tracked, Counted
    <3> QED BY <1>1, <3>1
  <2>3. DOMAIN d = 1..k
    BY <1>1, <2>1, Types
  <2> HIDE DEF d, k
  <2>4. \A i \in 1..k : d[i] \in 0..MaxDelay /\ d[i] <= MaxDelay
    <3>1. \A i \in 1..k : i - 1 \in Nat
      BY <2>2
    <3> QED BY <2>1, <3>1, WaitsKept, LLMStackAssumption
  <2>5. ASSUME NEW i \in 1..k, NEW j \in 1..k, i <= j PROVE d[i] <= d[j]
    <3>1. CASE i = j
      BY <2>4, <3>1, LLMStackAssumption
    <3>2. CASE i < j
      <4>1. i - 1 \in Nat /\ j - 1 \in Nat /\ i - 1 < j - 1
        BY <2>2, <3>2
      <4> QED BY <2>1, <4>1, WaitsGrow
    <3> QED BY <2>2, <2>5, <3>1, <3>2
  <2> QED BY <2>1, <2>2, <2>3, <2>4, <2>5 DEF Waited, d, k
<1> QED BY <1>4, <1>5, <1>6

-----------------------------------------------------------------------------
(* One more answer or exception in the trace.                              *)

LEMMA Hearing ==
  ASSUME NEW s \in Calls, NEW who \in {"primary", "amended", "fallback"}, NEW what \in Outcomes
  PROVE  LET h == Heard(s, who, what)
             n == Len(s.trace)
         IN /\ h \in Calls
            /\ h.at = s.at /\ h.from = s.from /\ h.attempt = s.attempt /\ h.reparse = s.reparse
            /\ h.hold = s.hold /\ h.best = s.best /\ h.delays = s.delays
            /\ h.made = s.made /\ h.last = s.last
            /\ n \in Nat /\ Len(h.trace) = n + 1 /\ h.trace[n + 1] = [who |-> who, what |-> what]
            /\ \A i \in 1..n : h.trace[i] = s.trace[i]
<1> DEFINE e == [who |-> who, what |-> what]
           u == Append(s.trace, e)
<1>1. e \in TraceRecords /\ s.trace \in Seq(TraceRecords)
  BY Types DEF TraceRecords
<1> HIDE DEF e
<1>2. /\ u \in Seq(TraceRecords) /\ Len(s.trace) \in Nat /\ Len(u) = Len(s.trace) + 1
      /\ u[Len(s.trace) + 1] = e /\ \A i \in 1..Len(s.trace) : u[i] = s.trace[i]
  BY <1>1, AppendProperties
<1> HIDE DEF u
<1>3. Heard(s, who, what) = [s EXCEPT !.trace = u]
  BY DEF Heard, u, e
<1>4. LET h == [s EXCEPT !.trace = u]
      IN /\ h \in Calls /\ h.trace = u
         /\ h.at = s.at /\ h.from = s.from /\ h.attempt = s.attempt /\ h.reparse = s.reparse
         /\ h.hold = s.hold /\ h.best = s.best /\ h.delays = s.delays
         /\ h.made = s.made /\ h.last = s.last
  BY <1>2 DEF Calls
<1> QED BY <1>2, <1>3, <1>4 DEF e

\* A longer trace keeps what was tried; its usable answers are the old ones and
\* perhaps the new one.
LEMMA TriedStays ==
  ASSUME NEW t, NEW u, Len(t) \in Nat, \A i \in 1..Len(t) : u[i] = t[i],
         NEW n \in Nat, n <= Len(t), Tried(t, n)
  PROVE  Tried(u, n)
BY DEF Tried

LEMMA TriedUnusable ==
  ASSUME NEW s \in Calls, Tried(s.trace, Len(s.trace)) PROVE Usable(s.trace) = {}
<1>1. DOMAIN s.trace = 1..Len(s.trace)
  BY Types
<1> QED BY <1>1, RetriedUnusable DEF Usable, Tried

LEMMA UsableGrows ==
  ASSUME NEW s \in Calls, NEW h \in Calls, NEW who, NEW what,
         Len(h.trace) = Len(s.trace) + 1, h.trace[Len(s.trace) + 1] = [who |-> who, what |-> what],
         \A i \in 1..Len(s.trace) : h.trace[i] = s.trace[i]
  PROVE  /\ what \in Kinds /\ (who = "primary" => ~Breaks(what)) => Best(h.trace, what)
         /\ ~ (what \in Kinds /\ (who = "primary" => ~Breaks(what)))
              => /\ Usable(h.trace) = Usable(s.trace)
                 /\ \A k : Best(s.trace, k) => Best(h.trace, k)
<1> DEFINE t == s.trace
           u == h.trace
           n == Len(t)
<1>1. n \in Nat /\ DOMAIN t = 1..n /\ DOMAIN u = 1..(n + 1) /\ u[n + 1] = [who |-> who, what |-> what]
  BY Types
<1>2. /\ \A i \in 1..(n + 1) : i \in 1..n \/ i = n + 1
      /\ \A i \in 1..n : i \in 1..(n + 1) /\ i <= n + 1 /\ i # n + 1
      /\ n + 1 \in 1..(n + 1) /\ n + 1 <= n + 1
  BY <1>1
<1>3. \A i \in 1..n : u[i] = t[i]
  OBVIOUS
<1> HIDE DEF t, u, n
<1>4. \A i \in 1..n : i \in Usable(u) <=> i \in Usable(t)
  BY <1>1, <1>2, <1>3 DEF Usable
<1>5. n + 1 \in Usable(u) <=> what \in Kinds /\ (who = "primary" => ~Breaks(what))
  BY <1>1, <1>2 DEF Usable
<1>6. Usable(u) \subseteq 1..(n + 1) /\ Usable(t) \subseteq 1..n
  BY <1>1 DEF Usable
<1>7. ASSUME n + 1 \in Usable(u) PROVE Best(u, what)
  <2>1. \A j \in Usable(u) : j <= n + 1
    BY <1>1, <1>6
  <2> QED BY <1>1, <1>7, <2>1 DEF Best
<1>8. ASSUME n + 1 \notin Usable(u)
      PROVE  Usable(u) = Usable(t) /\ \A k : Best(t, k) => Best(u, k)
  <2>1. Usable(u) = Usable(t)
    BY <1>2, <1>4, <1>6, <1>8
  <2>2. \A i \in Usable(t) : u[i] = t[i]
    BY <1>3, <1>6
  <2> QED BY <2>1, <2>2 DEF Best
<1> QED BY <1>5, <1>7, <1>8 DEF t, u

-----------------------------------------------------------------------------
(* The steps of RetryManager.                                              *)

\* What is known of a call that has just heard from the primary provider, and
\* of one that may return.
HeardPrimary(s, what) ==
  /\ s \in Calls /\ s.made < Requests /\ DelayedBy(s, s.attempt)
  /\ Len(s.trace) = s.attempt + 1 /\ Tried(s.trace, s.attempt)
  /\ s.trace[s.attempt + 1] = [who |-> "primary", what |-> what]

MayReturn(s) ==
  s \in Calls /\ s.made < Requests /\ DelayedBy(s, s.attempt) /\ Ended(s.trace)

LEMMA FinishKnown ==
  ASSUME NEW s, MayReturn(s), NEW result \in Outcomes, Yields(Finish(s, result))
  PROVE  Known(Finish(s, result))
<1> DEFINE r == Finish(s, result)
<1>1. s \in Calls /\ s.made \in 0..Requests /\ s.made < Requests /\ Requests \in Nat
  BY LLMStackAssumption DEF MayReturn, Calls
<1>2. /\ r \in Calls /\ r.at = "idle" /\ r.trace = s.trace /\ r.attempt = s.attempt
      /\ r.delays = s.delays
  <2>1. s.made + 1 \in 0..Requests
    BY <1>1
  <2> QED BY <1>1, <2>1 DEF Finish, Calls
<1>3. s.attempt + 0 = s.attempt
  BY <1>1, Types
<1> HIDE DEF r
<1> QED BY <1>2, <1>3 DEF Known, Phase, Tracked, Counted, MayReturn, DelayedBy, r

LEMMA ReturnKnown ==
  ASSUME cfg \in Configs, NEW s, MayReturn(s), NEW a \in Answers, Best(s.trace, a.kind)
  PROVE  Known(Return(s, a))
<1>1. a.kind \in Outcomes
  BY LLMStackAssumption DEF AnswerRecords, Outcomes
<1>2. CASE cfg.tracked = "outside"
  <2> DEFINE r == ToTracker(s, "request", a)
  <2>1. /\ r \in Calls /\ r.at = "record" /\ r.from = "request" /\ r.hold = a /\ r.trace = s.trace
        /\ r.attempt = s.attempt /\ r.delays = s.delays /\ r.made = s.made
    BY DEF MayReturn, ToTracker, Calls
  <2>2. s.attempt + 0 = s.attempt
    BY Types DEF MayReturn
  <2>3. Return(s, a) = r
    BY <1>2 DEF Return
  <2> HIDE DEF r
  <2> QED BY <1>2, <2>1, <2>2, <2>3 DEF Known, Phase, Tracked, Counted, MayReturn, DelayedBy
<1>3. CASE cfg.tracked # "outside"
  <2>1. Finish(s, a.kind).trace = s.trace /\ Finish(s, a.kind).last = a.kind
    BY DEF MayReturn, Calls, Finish
  <2>2. Yields(Finish(s, a.kind))
    BY <2>1 DEF Yields, Best
  <2> QED BY <1>1, <1>3, <2>2, FinishKnown DEF Return
<1> QED BY <1>2, <1>3

LEMMA PrimaryEnded == ASSUME NEW s, NEW what, HeardPrimary(s, what) PROVE MayReturn(s)
<1>1. /\ s.attempt + 1 \in 1..(MaxRetries + 1) /\ s.attempt + 1 <= Len(s.trace)
      /\ (s.attempt + 1) - 1 = s.attempt
  BY Types DEF HeardPrimary
<1> DEFINE p == s.attempt + 1
<1>2. p \in 1..(MaxRetries + 1) /\ p <= Len(s.trace) /\ p - 1 = s.attempt /\ Len(s.trace) = p
      /\ s.trace[p].who = "primary"
  BY <1>1 DEF HeardPrimary
<1> HIDE DEF p
<1>3. Ended(s.trace)
  BY <1>2 DEF Ended, HeardPrimary
<1> QED BY <1>3 DEF MayReturn, HeardPrimary

LEMMA FailedKnown ==
  ASSUME cfg \in Configs, NEW s, NEW what, HeardPrimary(s, what),
         NEW e \in ErrorKinds, Raised(what) = e, ~ (what \in Kinds /\ ~Breaks(what)),
         NEW r \in Failed(s, e)
  PROVE  Known(r)
<1> DEFINE n == s.attempt
           t == s.trace
<1>1. /\ s \in Calls /\ n \in 0..MaxRetries /\ MaxRetries \in Nat /\ s.made < Requests
      /\ Len(t) = n + 1 /\ t[n + 1].who = "primary" /\ t[n + 1].what = what /\ Tried(t, n)
      /\ DOMAIN t = 1..(n + 1)
  BY Types DEF HeardPrimary
<1>2. MayReturn(s)
  BY PrimaryEnded
<1>3. \A i \in 1..(n + 1) : i \in 1..n \/ i = n + 1
  BY <1>1
<1>4. Usable(t) = {}
  <2> HIDE DEF n, t
  <2> QED BY <1>1, <1>3, RetriedUnusable DEF Usable, Tried
<1>5. CASE r = Finish(s, e)
  <2>1. r.trace = t /\ r.last = e /\ e \in Outcomes /\ t[Len(t)] = t[n + 1]
    BY <1>1, <1>5 DEF Calls, Finish, Outcomes
  <2>2. Yields(r)
    BY <1>1, <1>4, <2>1 DEF Yields
  <2> QED BY <1>2, <1>5, <2>1, <2>2, FinishKnown
<1>6. CASE r # Finish(s, e)
  <2>1. Retried(e)
    BY <1>6 DEF Failed
  <2>2. Tried(t, n + 1)
    BY <1>1, <1>3, <2>1 DEF Tried
  <2>3. CASE s.attempt < MaxRetries
    <3>1. PICK d \in Waits(n) : r = [s EXCEPT !.at = "sleep", !.delays = Append(@, d)]
      BY <2>1, <2>3 DEF Failed
    <3>2. /\ d \in 0..MaxDelay /\ s.delays \in Seq(0..MaxDelay) /\ Len(s.delays) = n
          /\ \A i \in 1..n : s.delays[i] \in Waits(i - 1)
      BY <1>1, WaitsKept, Types DEF HeardPrimary, DelayedBy
    <3> DEFINE ds == Append(s.delays, d)
    <3>3. ds \in Seq(0..MaxDelay) /\ Len(ds) = n + 1 /\ ds[n + 1] = d /\ \A i \in 1..n : ds[i] = s.delays[i]
      BY <3>2, AppendProperties
    <3>4. (n + 1) - 1 = n
      BY <1>1
    <3> HIDE DEF ds
    <3>5. \A i \in 1..(n + 1) : ds[i] \in Waits(i - 1)
      BY <1>3, <3>2, <3>3, <3>4
    <3>6. r \in Calls /\ r.at = "sleep" /\ r.delays = ds /\ r.attempt = n /\ r.trace = t /\ r.made = s.made
      BY <1>1, <3>1, <3>3 DEF Calls, ds
    <3> QED BY <1>1, <2>2, <2>3, <3>3, <3>5, <3>6 DEF Known, Phase, Tracked, Counted, DelayedBy
  <2>4. CASE ~ (s.attempt < MaxRetries)
    <3>1. r = [s EXCEPT !.at = "fallback"] /\ n = MaxRetries /\ n + 0 = n
      BY <1>1, <1>6, <2>1, <2>4 DEF Failed
    <3>2. r \in Calls /\ r.at = "fallback" /\ r.delays = s.delays /\ r.attempt = n /\ r.trace = t /\ r.made = s.made
      BY <1>1, <3>1 DEF Calls
    <3> QED BY <1>1, <2>2, <3>1, <3>2 DEF Known, Phase, Tracked, Counted, DelayedBy, HeardPrimary
  <2> QED BY <2>3, <2>4
<1> QED BY <1>5, <1>6

\* A parse retry that is over, or the answer that begins them.
Reparsed(s, best, k) ==
  LET t == s.trace
      p == s.attempt + 1
  IN /\ s \in Calls /\ s.made < Requests /\ DelayedBy(s, s.attempt)
     /\ Len(t) = p + k /\ k \in 0..MaxParse
     /\ Tried(t, p - 1) /\ t[p].who = "primary" /\ Amended(t, p)
     /\ \A i \in (p + 1)..(Len(t) - 1) : StillUnfit(t[i].what)
     /\ best \in Answers /\ Best(t, best.kind)

LEMMA ReparsedReturns ==
  ASSUME cfg \in Configs, NEW s, NEW best, NEW k, Reparsed(s, best, k) PROVE Known(Return(s, best))
<1> DEFINE t == s.trace
           p == s.attempt + 1
<1>1. /\ Tried(t, p - 1) /\ t[p].who = "primary" /\ Amended(t, p)
      /\ \A i \in (p + 1)..(Len(t) - 1) : StillUnfit(t[i].what)
      /\ s \in Calls
  BY DEF Reparsed
<1>2. p <= Len(t) /\ p \in 1..(MaxRetries + 1) /\ (Len(t) = p \/ Len(t) - p \in 1..MaxParse)
  <2>1. s.attempt \in 0..MaxRetries /\ MaxRetries \in Nat /\ MaxParse \in Nat /\ Len(t) \in Nat
    BY <1>1, Types
  <2>2. Len(t) = p + k /\ k \in 0..MaxParse
    BY DEF Reparsed
  <2>3. p \in 1..(MaxRetries + 1) /\ p \in Nat
    BY <2>1
  <2> HIDE DEF t, p
  <2>4. k = 0 \/ k \in 1..MaxParse
    BY <2>1, <2>2
  <2>5. k \in Nat /\ Len(t) - p = k /\ p <= Len(t)
    BY <2>1, <2>2, <2>3
  <2> QED BY <2>2, <2>3, <2>4, <2>5
<1> HIDE DEF t, p
<1>3. Ended(t)
  BY <1>1, <1>2 DEF Ended
<1> QED BY <1>3, ReturnKnown DEF MayReturn, Reparsed, t

LEMMA AgainKnown ==
  ASSUME cfg \in Configs, NEW s, NEW best, NEW k, Reparsed(s, best, k), k < MaxParse,
         Len(s.trace) > s.attempt + 1 => StillUnfit(s.trace[Len(s.trace)].what)
  PROVE  Known([s EXCEPT !.at = "amended", !.reparse = k, !.best = best])
<1> DEFINE t == s.trace
           p == s.attempt + 1
           r == [s EXCEPT !.at = "amended", !.reparse = k, !.best = best]
<1>1. /\ Tried(t, p - 1) /\ t[p].who = "primary" /\ Amended(t, p)
      /\ \A i \in (p + 1)..(Len(t) - 1) : StillUnfit(t[i].what)
      /\ s \in Calls /\ Len(t) = p + k /\ k \in 0..MaxParse /\ best \in Answers
      /\ Best(t, best.kind)
  BY DEF Reparsed
<1>2. p \in Nat /\ Len(t) \in Nat /\ s.attempt + 0 = s.attempt
  <2>1. s.attempt \in 0..MaxRetries /\ MaxRetries \in Nat /\ Len(t) \in Nat
    BY <1>1, Types
  <2> QED BY <2>1
<1>3. /\ r \in Calls /\ r.at = "amended" /\ r.reparse = k /\ r.best = best /\ r.trace = t
      /\ r.attempt = s.attempt /\ r.delays = s.delays /\ r.made = s.made
  BY <1>1 DEF Calls
<1>4. \A i \in (p + 1)..Len(t) : StillUnfit(t[i].what)
  <2> SUFFICES ASSUME NEW i \in (p + 1)..Len(t) PROVE StillUnfit(t[i].what)
    OBVIOUS
  <2>1. CASE i \in (p + 1)..(Len(t) - 1)
    BY <1>1, <2>1
  <2>2. CASE i = Len(t)
    <3>1. Len(t) > p
      BY <1>2, <2>2
    <3> QED BY <2>2, <3>1
  <2>3. i \in (p + 1)..(Len(t) - 1) \/ i = Len(t)
    BY <1>2
  <2> QED BY <2>1, <2>2, <2>3
<1> HIDE DEF r
<1>5. Amending(r)
  BY <1>1, <1>3, <1>4 DEF Amending
<1> QED BY <1>2, <1>3, <1>5 DEF Known, Phase, Tracked, Counted, Reparsed, DelayedBy, r

LEMMA AnsweredKnown ==
  ASSUME cfg \in Configs, NEW s, NEW a \in Answers, HeardPrimary(s, a.kind),
         ~Breaks(a.kind) => Best(s.trace, a.kind), NEW r \in Answered(s, a)
  PROVE  Known(r)
<1>1. a.kind \in Kinds /\ MaxParse \in Nat
  BY LLMStackAssumption DEF AnswerRecords
<1>2. CASE Breaks(a.kind)
  <2>1. Raised(a.kind) = "other" /\ r \in Failed(s, "other") /\ "other" \in ErrorKinds
    BY <1>2 DEF Answered, Raised, ErrorKinds
  <2> QED BY <1>2, <2>1, FailedKnown
<1>3. CASE ~Breaks(a.kind) /\ (~Checked \/ ~Unfit(a.kind) \/ MaxParse = 0)
  <2>1. r = Return(s, a)
    BY <1>3 DEF Answered, Unfit
  <2> QED BY <1>3, <2>1, PrimaryEnded, ReturnKnown
<1>4. CASE ~Breaks(a.kind) /\ ~ (~Checked \/ ~Unfit(a.kind) \/ MaxParse = 0)
  <2> DEFINE t == s.trace
             p == s.attempt + 1
  <2>1. r = [s EXCEPT !.at = "amended", !.reparse = 0, !.best = a]
    BY <1>4 DEF Answered, Unfit
  <2>2. p \in Nat /\ p - 1 = s.attempt /\ Len(t) = p /\ t[p] = [who |-> "primary", what |-> a.kind]
    BY Types DEF HeardPrimary
  <2>3. Amended(t, p)
    <3>1. t[p].what = a.kind /\ \A i \in (p + 1)..Len(t) : FALSE
      BY <2>2
    <3> HIDE DEF t, p
    <3> QED BY <1>1, <1>4, <3>1 DEF Amended
  <2>4. Reparsed(s, a, 0)
    <3>1. Tried(t, p - 1) /\ s \in Calls /\ s.made < Requests /\ DelayedBy(s, s.attempt) /\ Best(t, a.kind)
      BY <1>4, <2>2 DEF HeardPrimary
    <3> HIDE DEF t, p
    <3>2. Len(t) = p + 0 /\ 0 \in 0..MaxParse /\ \A i \in (p + 1)..(Len(t) - 1) : StillUnfit(t[i].what)
      BY <1>1, <2>2
    <3>3. t[p].who = "primary"
      BY <2>2
    <3> QED BY <2>3, <3>1, <3>2, <3>3 DEF Reparsed, t, p
  <2>5. 0 < MaxParse
    BY <1>1, <1>4
  <2>6. ~ (Len(t) > p)
    BY <2>2
  <2> QED BY <2>1, <2>4, <2>5, <2>6, AgainKnown
<1> QED BY <1>2, <1>3, <1>4

\* What is known of a call that expects something from a provider.
Expecting(s, who) ==
  /\ s \in Calls /\ s.made < Requests /\ DelayedBy(s, s.attempt)
  /\ who = "primary" => Len(s.trace) = s.attempt /\ Tried(s.trace, s.attempt)
  /\ who = "amended" => Amending(s)

LEMMA PrimaryHeard ==
  ASSUME NEW s, Expecting(s, "primary"), NEW what \in Outcomes
  PROVE  HeardPrimary(Heard(s, "primary", what), what)
<1> DEFINE h == Heard(s, "primary", what)
           n == Len(s.trace)
<1>1. /\ h \in Calls /\ h.attempt = s.attempt /\ h.delays = s.delays /\ h.made = s.made
      /\ n \in Nat /\ Len(h.trace) = n + 1 /\ h.trace[n + 1] = [who |-> "primary", what |-> what]
      /\ \A i \in 1..n : h.trace[i] = s.trace[i]
  BY Hearing, SMTT(20) DEF Expecting
<1>2. n = s.attempt /\ Tried(s.trace, n) /\ s.made < Requests /\ DelayedBy(s, s.attempt)
  BY DEF Expecting
<1> HIDE DEF h
<1>3. Tried(h.trace, n)
  <2>1. n <= n
    BY <1>1
  <2> QED BY <1>1, <1>2, <2>1, TriedStays
<1> HIDE DEF n
<1> QED BY <1>1, <1>2, <1>3 DEF HeardPrimary, DelayedBy, h

LEMMA AmendedHeard ==
  ASSUME NEW s, Expecting(s, "amended"), NEW what \in Outcomes, NEW best \in Answers,
         Best(Heard(s, "amended", what).trace, best.kind)
  PROVE  Reparsed(Heard(s, "amended", what), best, s.reparse + 1)
<1> DEFINE h == Heard(s, "amended", what)
           t == s.trace
           u == h.trace
           n == Len(t)
           p == s.attempt + 1
           k == s.reparse
<1>1. /\ h \in Calls /\ h.attempt = s.attempt /\ h.delays = s.delays /\ h.made = s.made
      /\ n \in Nat /\ Len(u) = n + 1 /\ u[n + 1] = [who |-> "amended", what |-> what]
      /\ \A i \in 1..n : u[i] = t[i]
  BY Hearing DEF Expecting
<1>2. /\ n = p + k /\ k < MaxParse
      /\ Tried(t, p - 1) /\ t[p].who = "primary" /\ Amended(t, p)
      /\ \A i \in (p + 1)..n : StillUnfit(t[i].what)
  BY DEF Expecting, Amending
<1>3. s.attempt \in 0..MaxRetries /\ MaxRetries \in Nat /\ k \in 0..MaxParse /\ MaxParse \in Nat
  BY Types DEF Expecting
<1>4. p \in 1..n /\ p - 1 \in Nat /\ p - 1 <= n /\ p \in Nat /\ k \in Nat
  <2>1. p \in Nat /\ p >= 1 /\ k \in Nat
    BY <1>3
  <2> HIDE DEF p, k, n
  <2> QED BY <1>1, <1>2, <2>1
<1>5. Tried(u, p - 1)
  BY <1>1, <1>2, <1>4, TriedStays
<1>6. Best(u, best.kind) /\ h.made < Requests /\ DelayedBy(h, h.attempt)
  BY <1>1 DEF Expecting, DelayedBy
<1> HIDE DEF h, t, u, n, k
<1>7. u[p].who = "primary" /\ u[p].what = t[p].what
  BY <1>1, <1>2, <1>4
<1>8. \A i \in (p + 1)..(n + 1) : (i \in (p + 1)..n /\ u[i] = t[i]) \/ i = n + 1
  BY <1>1, <1>4
<1>9. Amended(u, p)
  <2>1. \A i \in (p + 1)..n : t[i].who = "amended"
    BY <1>2 DEF Amended, n
  <2> QED BY <1>1, <1>2, <1>7, <1>8, <2>1, SMTT(20) DEF Amended
<1>10. \A i \in (p + 1)..(Len(u) - 1) : StillUnfit(u[i].what)
  <2>1. Len(u) - 1 = n
    BY <1>1
  <2>2. \A i \in (p + 1)..n : u[i] = t[i]
    BY <1>1, <1>4
  <2> QED BY <1>2, <2>1, <2>2
<1>11. Len(u) = p + (k + 1) /\ k + 1 \in 0..MaxParse
  <2>1. k \in Nat /\ p \in Nat /\ k < MaxParse /\ MaxParse \in Nat /\ n = p + k /\ Len(u) = n + 1
    BY <1>1, <1>2, <1>3, <1>4
  <2> HIDE DEF p
  <2> QED BY <2>1
<1> QED BY <1>1, <1>5, <1>6, <1>7, <1>9, <1>10, <1>11 DEF Reparsed, h, u, k

\* The parse retry brought no accepted answer.
LEMMA ReparseKnown ==
  ASSUME cfg \in Configs, NEW s, Expecting(s, "amended"), NEW what \in Outcomes, NEW best \in Answers,
         Best(Heard(s, "amended", what).trace, best.kind), StillUnfit(what)
  PROVE  Known(Reparse(Heard(s, "amended", what), best))
<1> DEFINE h == Heard(s, "amended", what)
           n == Len(s.trace)
<1>1. /\ h.reparse = s.reparse /\ Len(h.trace) = n + 1 /\ h.trace[n + 1] = [who |-> "amended", what |-> what]
  BY Hearing DEF Expecting
<1>2. Reparsed(h, best, s.reparse + 1)
  BY AmendedHeard
<1>3. StillUnfit(h.trace[Len(h.trace)].what)
  BY <1>1
<1> HIDE DEF h
<1>4. CASE h.reparse + 1 < MaxParse
  <2>1. Known([h EXCEPT !.at = "amended", !.reparse = h.reparse + 1, !.best = best])
    BY <1>1, <1>2, <1>3, <1>4, AgainKnown
  <2> QED BY <1>4, <2>1 DEF Reparse, h
<1>5. CASE ~ (h.reparse + 1 < MaxParse)
  BY <1>2, <1>5, ReparsedReturns DEF Reparse, h
<1> QED BY <1>4, <1>5

LEMMA ReceivedKnown ==
  ASSUME cfg \in Configs, NEW who \in {"primary", "amended"}, NEW s, Expecting(s, who),
         NEW a \in Answers, NEW r \in Received(s, who, a)
  PROVE  Known(r)
<1> DEFINE h == Heard(s, who, a.kind)
<1>1. a.kind \in Kinds /\ a.kind \in Outcomes
  BY LLMStackAssumption DEF AnswerRecords, Outcomes
<1>2. (who = "primary" /\ Breaks(a.kind)) \/ Best(h.trace, a.kind)
  <2>1. s \in Calls
    BY DEF Expecting
  <2>2. /\ h \in Calls /\ Len(h.trace) = Len(s.trace) + 1
        /\ h.trace[Len(s.trace) + 1] = [who |-> who, what |-> a.kind]
        /\ \A i \in 1..Len(s.trace) : h.trace[i] = s.trace[i]
    BY <1>1, <2>1, Hearing
  <2> HIDE DEF h
  <2> QED BY <1>1, <2>1, <2>2, UsableGrows
<1>3. CASE who = "primary"
  BY <1>1, <1>2, <1>3, PrimaryHeard, AnsweredKnown DEF Received
<1>4. CASE who = "amended"
  <2>1. CASE ~StillUnfit(a.kind)
    <3>1. Reparsed(h, a, s.reparse + 1)
      BY <1>1, <1>2, <1>4, AmendedHeard
    <3>2. r = Return(h, a)
      BY <1>4, <2>1 DEF Received, StillUnfit
    <3> QED BY <3>1, <3>2, ReparsedReturns
  <2>2. CASE StillUnfit(a.kind)
    <3>1. r = Reparse(h, a)
      BY <1>4, <2>2 DEF Received, StillUnfit
    <3> QED BY <1>1, <1>2, <1>4, <2>2, <3>1, ReparseKnown
  <2> QED BY <2>1, <2>2
<1> QED BY <1>3, <1>4

LEMMA ThrownKnown ==
  ASSUME cfg \in Configs, NEW who \in {"primary", "amended"}, NEW s, Expecting(s, who),
         who = "amended" => s.best \in Answers,
         NEW e \in ErrorKinds, NEW r \in Thrown(s, who, e)
  PROVE  Known(r)
<1> DEFINE h == Heard(s, who, e)
<1>1. e \in Outcomes /\ e \notin Kinds /\ Raised(e) = e /\ StillUnfit(e)
  BY ErrorsUnusable DEF Outcomes
<1>2. CASE who = "primary"
  <2>1. HeardPrimary(h, e)
    BY <1>1, <1>2, PrimaryHeard
  <2>2. r \in Failed(h, e)
    BY <1>2 DEF Thrown
  <2> QED BY <1>1, <2>1, <2>2, FailedKnown
<1>3. CASE who = "amended"
  <2>1. /\ h \in Calls /\ Len(h.trace) = Len(s.trace) + 1 /\ s \in Calls /\ h.best = s.best
        /\ h.trace[Len(s.trace) + 1] = [who |-> who, what |-> e]
        /\ \A i \in 1..Len(s.trace) : h.trace[i] = s.trace[i]
    BY <1>1, Hearing DEF Expecting
  <2>2. Best(h.trace, s.best.kind)
    <3>1. Best(s.trace, s.best.kind)
      BY <1>3 DEF Expecting, Amending
    <3> HIDE DEF h
    <3>2. \A k : Best(s.trace, k) => Best(h.trace, k)
      BY <1>1, <2>1, UsableGrows
    <3> QED BY <3>1, <3>2
  <2>3. r = Reparse(h, s.best)
    BY <1>3, <2>1 DEF Thrown
  <2> QED BY <1>1, <1>3, <2>2, <2>3, ReparseKnown
<1> QED BY <1>2, <1>3

-----------------------------------------------------------------------------
(* The steps of a caller.                                                  *)

StoryInv ==
  /\ cfg \in Configs /\ st \in [Callers -> Calls]
  /\ passed \in Sums /\ ledger \in Sums /\ refused \in Nat
  /\ \A c \in Callers : Sound(st[c]) /\ Known(st[c])

LEMMA StoryInit == Init => StoryInv
<1> SUFFICES ASSUME Init PROVE StoryInv
  OBVIOUS
<1>1. Fresh \in Calls
  BY LLMStackAssumption, EmptySeq DEF Fresh, Calls, Outcomes, Kinds, ErrorKinds
<1>2. Known(Fresh)
  BY <1>1 DEF Fresh, Known, Phase, Tracked, Counted, DelayedBy
<1>3. Sound(Fresh)
  BY DEF Fresh, Sound, IsFrom, IsCall, Tracked, Counted
<1> QED BY <1>1, <1>2, <1>3 DEF Init, StoryInv, Zero, Sums

\* What is known of a call depends on the configuration only.
LEMMA KnownStays ==
  ASSUME UNCHANGED cfg, NEW s, Known(s) PROVE Known(s)'
<1>1. /\ \A k : Delay(k)' = Delay(k)
      /\ \A w : Breaks(w)' = Breaks(w) /\ StillUnfit(w)' = StillUnfit(w) /\ Unfit(w)' = Unfit(w)
  BY DEF Delay, Breaks, Checked, StillUnfit, Unfit, Accepts
<1>2. /\ \A k : Waits(k)' = Waits(k)
      /\ \A w : Raised(w)' = Raised(w)
      /\ \A t : Usable(t)' = Usable(t)
  BY <1>1 DEF Waits, Raised, Usable
<1>3. /\ \A n : DelayedBy(s, n)' = DelayedBy(s, n)
      /\ \A t, n : Tried(t, n)' = Tried(t, n)
      /\ \A t, n : Amended(t, n)' = Amended(t, n)
      /\ \A t, k : Best(t, k)' = Best(t, k)
  BY <1>1, <1>2 DEF DelayedBy, Tried, Amended, Best
<1>4. \A t : Ended(t)' = Ended(t)
  BY <1>1, <1>3 DEF Ended
<1>5. Amending(s)' = Amending(s) /\ Yields(s)' = Yields(s)
  BY <1>1, <1>2, <1>3 DEF Amending, Yields
<1> QED BY <1>3, <1>4, <1>5 DEF Known, Phase

LEMMA Becomes ==
  ASSUME StoryInv, NEW c \in Callers, NEW r, Sound(r), Known(r), Become(c, r), UNCHANGED cfg,
         passed' \in Sums, ledger' \in Sums, refused' \in Nat
  PROVE  StoryInv'
<1>1. r \in Calls
  BY DEF Known
<1>2. st' = [st EXCEPT ![c] = r] /\ st \in [Callers -> Calls] /\ cfg' = cfg
  BY DEF Become, StoryInv
<1>3. st' \in [Callers -> Calls] /\ \A d \in Callers : st'[d] = IF d = c THEN r ELSE st[d]
  BY <1>1, <1>2
<1>4. ASSUME NEW d \in Callers PROVE (Sound(st[d]) /\ Known(st[d]))'
  <2>1. PICK s : st'[d] = s /\ Sound(s) /\ Known(s)
    BY <1>3 DEF StoryInv
  <2>2. Known(s)' /\ Sound(s)'
    BY <1>2, <2>1, KnownStays DEF Sound, IsFrom
  <2> QED BY <2>1, <2>2
<1> QED BY <1>2, <1>3, <1>4 DEF StoryInv

\* From where a call hears from a provider, at once or through the tracker.
LEMMA ExpectsAnswer ==
  ASSUME NEW s, Known(s), Phase(s) \in {"primary", "amended"} PROVE Expecting(s, Phase(s))
<1>1. s \in Calls /\ s.at \notin {"idle", "sleep"}
  BY DEF Known, Phase, Tracked, Counted
<1>2. s.attempt + 0 = s.attempt
  BY <1>1, Types
<1> QED BY <1>1, <1>2 DEF Known, Expecting

\* A call that goes on to the tracker, or within it.
LEMMA HoldKnown ==
  ASSUME NEW s \in Calls, Known(s), NEW a \in Answers, NEW place \in Tracked,
         NEW from \in {"primary", "amended", "request"}, Phase(s) = from,
         from = "request" => s.hold = a
  PROVE  Known([s EXCEPT !.at = place, !.from = from, !.hold = a])
<1> DEFINE r == [s EXCEPT !.at = place, !.from = from, !.hold = a]
<1>1. /\ r \in Calls /\ r.at = place /\ r.from = from /\ r.hold = a /\ r.trace = s.trace /\ r.best = s.best
      /\ r.attempt = s.attempt /\ r.reparse = s.reparse /\ r.delays = s.delays /\ r.made = s.made
  BY DEF Calls, Tracked, Counted
<1> HIDE DEF r
<1>2. Phase(r) = from /\ s.at \notin {"idle", "sleep"} /\ r.at \notin {"idle", "sleep"}
  BY <1>1 DEF Phase, Tracked, Counted
<1>3. Amending(s) => Amending(r)
  BY <1>1 DEF Amending
<1> QED BY <1>1, <1>2, <1>3 DEF Known, DelayedBy, r

LEMMA BeginKnown == ASSUME StoryInv, NEW c \in Callers, Begin(c) PROVE StoryInv'
<1> DEFINE s == st[c]
           r == [Fresh EXCEPT !.at = "primary", !.made = s.made, !.last = s.last]
<1>1. s \in Calls /\ s.made \in 0..Requests /\ s.made < Requests /\ Requests \in Nat
  BY LLMStackAssumption DEF StoryInv, Begin, Calls
<1> HIDE DEF s
<1>2. /\ r \in Calls /\ r.at = "primary" /\ r.attempt = 0 /\ r.trace = <<>> /\ r.delays = <<>> /\ r.made = s.made
  <2>1. s.last \in Outcomes \cup {"none"} /\ 0 \in 0..MaxRetries /\ 0 \in 0..MaxParse
    BY <1>1, LLMStackAssumption DEF Calls
  <2>2. <<>> \in Seq(TraceRecords) /\ <<>> \in Seq(0..MaxDelay)
    BY EmptySeq
  <2> QED BY <1>1, <2>1, <2>2 DEF Fresh, Calls
<1>3. Sound(r)
  BY DEF Fresh, Sound, IsFrom, IsCall, Tracked, Counted
<1>4. Become(c, r) /\ UNCHANGED <<cfg, ledger, passed, refused>>
  BY DEF Begin, s
<1> HIDE DEF r
<1>5. Known(r)
  BY <1>1, <1>2 DEF Known, Phase, Tracked, Counted, DelayedBy, Tried
<1> QED BY <1>3, <1>4, <1>5, Becomes DEF StoryInv

LEMMA WakeKnown == ASSUME StoryInv, NEW c \in Callers, Wake(c) PROVE StoryInv'
<1> DEFINE s == st[c]
           n == s.attempt
           r == [s EXCEPT !.at = "primary", !.attempt = n + 1]
<1>1. s \in Calls /\ Known(s) /\ Sound(s) /\ s.at = "sleep" /\ Phase(s) = "sleep"
  BY DEF StoryInv, Wake, Phase, Tracked, Counted
<1>2. Become(c, r) /\ UNCHANGED <<cfg, ledger, passed, refused>>
  BY DEF Wake
<1> HIDE DEF s
<1>3. n \in Nat /\ n < MaxRetries /\ MaxRetries \in Nat /\ n + 1 \in 0..MaxRetries
  BY <1>1, Types DEF Known
<1>4. /\ r \in Calls /\ r.at = "primary" /\ r.attempt = n + 1 /\ r.trace = s.trace
      /\ r.delays = s.delays /\ r.made = s.made
  BY <1>1, <1>3 DEF Calls
<1>5. Sound(r)
  BY <1>1 DEF Sound, IsFrom, IsCall, Tracked, Counted
<1>6. DelayedBy(s, n + 1) /\ Len(s.trace) = n + 1 /\ Tried(s.trace, n + 1) /\ s.made < Requests
      /\ (n + 1) + 0 = n + 1
  BY <1>1, <1>3 DEF Known
<1> HIDE DEF r
<1>7. Known(r)
  BY <1>4, <1>6 DEF Known, Phase, Tracked, Counted, DelayedBy
<1> QED BY <1>2, <1>5, <1>7, Becomes DEF StoryInv

LEMMA RaisesKnown ==
  ASSUME StoryInv, NEW c \in Callers, NEW e \in Errors, ProviderRaises(c, e) PROVE StoryInv'
<1>1. /\ st[c].at \in {"primary", "amended"} /\ Phase(st[c]) = st[c].at /\ Known(st[c]) /\ Sound(st[c])
      /\ e \in ErrorKinds /\ UNCHANGED <<cfg, ledger, passed, refused>>
  BY LLMStackAssumption DEF StoryInv, ProviderRaises, Calling, Phase, Tracked, Counted
<1>2. PICK r \in Thrown(st[c], st[c].at, e) : Become(c, r)
  BY DEF ProviderRaises
<1>3. st[c].at = "amended" => st[c].best \in Answers
  BY <1>1 DEF Sound
<1>4. Known(r)
  BY <1>1, <1>2, <1>3, ExpectsAnswer, ThrownKnown DEF StoryInv
<1>5. Sound(r)
  BY <1>1, <1>2, <1>3, ThrownSound DEF Sound, Uncounted
<1> QED BY <1>1, <1>2, <1>4, <1>5, Becomes DEF StoryInv

LEMMA AnswersKnown ==
  ASSUME StoryInv, NEW c \in Callers, NEW a \in Answers, ProviderAnswers(c, a) PROVE StoryInv'
<1> DEFINE s == st[c]
<1>1. /\ s.at \in {"primary", "amended"} /\ Phase(s) = s.at /\ Known(s) /\ Sound(s) /\ s \in Calls
      /\ UNCHANGED <<cfg, ledger, passed, refused>>
  BY DEF StoryInv, ProviderAnswers, Calling, Phase, Tracked, Counted
<1>2. CASE cfg.tracked = "inside"
  <2> DEFINE r == ToTracker(s, s.at, a)
  <2>1. Become(c, r)
    BY <1>2 DEF ProviderAnswers
  <2> HIDE DEF s
  <2>2. Known(r)
    BY <1>1, HoldKnown DEF ToTracker, Tracked
  <2>3. Sound(r)
    BY <1>1 DEF ToTracker, Sound, IsFrom, IsCall, Tracked, Counted
  <2> QED BY <1>1, <2>1, <2>2, <2>3, Becomes DEF StoryInv
<1>3. CASE cfg.tracked # "inside"
  <2>1. PICK r \in Received(s, s.at, a) : Become(c, r)
    BY <1>3 DEF ProviderAnswers
  <2>2. Known(r)
    BY <1>1, <2>1, ExpectsAnswer, ReceivedKnown DEF StoryInv
  <2>3. Sound(r)
    BY <1>1, <2>1, ReceivedSound DEF Sound, Uncounted
  <2> QED BY <1>1, <2>1, <2>2, <2>3, Becomes DEF StoryInv
<1> QED BY <1>2, <1>3

\* After the fallback.
LEMMA FallbackEnded ==
  ASSUME NEW s, Known(s), Phase(s) = "fallback", NEW what \in Outcomes
  PROVE  LET h == Heard(s, "fallback", what)
         IN /\ MayReturn(h) /\ Usable(s.trace) = {} /\ s \in Calls
            /\ h \in Calls /\ Len(h.trace) = Len(s.trace) + 1
            /\ h.trace[Len(s.trace) + 1] = [who |-> "fallback", what |-> what]
            /\ \A i \in 1..Len(s.trace) : h.trace[i] = s.trace[i]
<1> DEFINE h == Heard(s, "fallback", what)
           n == Len(s.trace)
           p == MaxRetries + 1
<1>1. /\ s \in Calls /\ s.attempt = MaxRetries /\ n = p /\ Tried(s.trace, n) /\ MaxRetries \in Nat
      /\ s.at = "fallback"
  BY Types DEF Known, Phase, Tracked, Counted, Calls
<1>2. /\ h \in Calls /\ h.attempt = s.attempt /\ h.delays = s.delays /\ h.made = s.made
      /\ n \in Nat /\ Len(h.trace) = n + 1 /\ h.trace[n + 1] = [who |-> "fallback", what |-> what]
      /\ \A i \in 1..n : h.trace[i] = s.trace[i]
  BY <1>1, Hearing
<1>3. Usable(s.trace) = {}
  BY <1>1, TriedUnusable
<1>4. s.made < Requests /\ DelayedBy(s, s.attempt)
  BY <1>1, Types DEF Known
<1> HIDE DEF h
<1>5. Tried(h.trace, n)
  <2>1. n <= n
    BY <1>2
  <2> QED BY <1>1, <1>2, <2>1, TriedStays
<1>6. Ended(h.trace)
  <2> DEFINE u == h.trace
  <2>1. p \in 1..(MaxRetries + 1) /\ p <= Len(u) /\ p - 1 \in Nat
    BY <1>1, <1>2
  <2>2. Tried(u, p) /\ Tried(u, p - 1) /\ u[p].who = "primary"
    BY <1>1, <1>5 DEF Tried
  <2>3. Len(u) = p + 1 /\ u[p + 1].who = "fallback"
    BY <1>1, <1>2
  <2> HIDE DEF u
  <2> QED BY <2>1, <2>2, <2>3 DEF Ended, u
<1> QED BY <1>1, <1>2, <1>3, <1>4, <1>6 DEF MayReturn, DelayedBy, h

LEMMA FallbackKnown ==
  ASSUME StoryInv, NEW c \in Callers,
         \/ \E e \in Errors : FallbackRaises(c, e)
         \/ \E a \in Answers : FallbackAnswers(c, a)
  PROVE  StoryInv'
<1> DEFINE s == st[c]
<1>1. Known(s) /\ Sound(s) /\ s.at = "fallback" /\ Phase(s) = "fallback"
      /\ UNCHANGED <<cfg, ledger, passed, refused>>
  BY DEF StoryInv, FallbackRaises, FallbackAnswers, Phase, Tracked, Counted
<1>2. ASSUME NEW e \in Errors, FallbackRaises(c, e) PROVE StoryInv'
  <2> DEFINE h == Heard(s, "fallback", e)
             r == Finish(h, "provider")
  <2>1. e \in ErrorKinds /\ e \in Outcomes /\ "provider" \in Outcomes /\ Become(c, r) /\ e \notin Kinds
    BY <1>2, LLMStackAssumption, ErrorsUnusable DEF Outcomes, ErrorKinds, FallbackRaises
  <2> HIDE DEF s
  <2>2. /\ MayReturn(h) /\ Usable(s.trace) = {} /\ s \in Calls /\ h \in Calls
        /\ Len(h.trace) = Len(s.trace) + 1
        /\ h.trace[Len(s.trace) + 1] = [who |-> "fallback", what |-> e]
        /\ \A i \in 1..Len(s.trace) : h.trace[i] = s.trace[i]
    BY <1>1, <2>1, FallbackEnded
  <2>3. Sound(r)
    BY <1>1, HeardSound, FinishSound DEF Sound, Uncounted
  <2> HIDE DEF h
  <2>4. Usable(h.trace) = {}
    BY <2>1, <2>2, UsableGrows
  <2>5. r.trace = h.trace /\ r.last = "provider" /\ h.trace[Len(h.trace)].who = "fallback"
    BY <2>2 DEF Finish, Calls
  <2>6. Yields(r)
    BY <2>4, <2>5 DEF Yields
  <2>7. Known(r)
    BY <2>1, <2>2, <2>6, FinishKnown
  <2> QED BY <1>1, <2>1, <2>3, <2>7, Becomes DEF StoryInv
<1>3. ASSUME NEW a \in Answers, FallbackAnswers(c, a) PROVE StoryInv'
  <2> DEFINE h == Heard(s, "fallback", a.kind)
             r == Return(h, a)
  <2>1. a.kind \in Kinds /\ a.kind \in Outcomes /\ Become(c, r)
    BY <1>3, LLMStackAssumption DEF AnswerRecords, Outcomes, FallbackAnswers
  <2> HIDE DEF s
  <2>2. /\ MayReturn(h) /\ s \in Calls /\ h \in Calls
        /\ Len(h.trace) = Len(s.trace) + 1
        /\ h.trace[Len(s.trace) + 1] = [who |-> "fallback", what |-> a.kind]
        /\ \A i \in 1..Len(s.trace) : h.trace[i] = s.trace[i]
    BY <1>1, <2>1, FallbackEnded
  <2>3. Sound(r)
    BY <1>1, HeardSound, ReturnSound DEF Sound, Uncounted
  <2> HIDE DEF h
  <2>4. Best(h.trace, a.kind)
    BY <2>1, <2>2, UsableGrows
  <2>5. Known(r)
    BY <2>2, <2>4, ReturnKnown DEF StoryInv
  <2> QED BY <1>1, <2>1, <2>3, <2>5, Becomes DEF StoryInv
<1> QED BY <1>2, <1>3

\* Within the tracker.
LEMMA TrackerKnown ==
  ASSUME StoryInv, NEW c \in Callers, Record(c) \/ CallsPass(c) PROVE StoryInv'
<1> DEFINE s == st[c]
<1>1. PICK place \in Counted : Become(c, [s EXCEPT !.at = place])
  BY DEF Record, CallsPass, Counted
<1> DEFINE r == [s EXCEPT !.at = place]
<1>2. s \in Calls /\ Known(s) /\ Sound(s) /\ s.at \in Tracked /\ s.hold \in Answers /\ Phase(s) = s.from
  BY DEF StoryInv, Record, CallsPass, Tracked, Counted, Sound, Phase
<1>3. ledger \in Sums /\ ledger' \in Sums /\ UNCHANGED <<cfg, passed, refused>>
  <2>1. ledger \in Sums /\ Reported(s.hold) \in Nat
    BY <1>2, ReportedNat DEF StoryInv
  <2> HIDE DEF s
  <2>2. Plus(ledger, Reported(s.hold)) \in Sums
    BY <2>1 DEF Plus, Sums
  <2> QED BY <2>1, <2>2 DEF Record, CallsPass, s
<1> HIDE DEF s
<1>4. [s EXCEPT !.at = place, !.from = s.from, !.hold = s.hold] = r
  BY <1>2 DEF Calls
<1>5. place \in Tracked /\ s.from \in {"primary", "amended", "request"}
  BY <1>2 DEF Tracked, Calls
<1>6. Known(r)
  <2>1. Known([s EXCEPT !.at = place, !.from = s.from, !.hold = s.hold])
    BY <1>2, <1>5, HoldKnown
  <2> QED BY <1>4, <2>1
<1>7. Sound(r)
  BY <1>2, <1>5 DEF Sound, IsFrom, IsCall, Tracked, Counted
<1> QED BY <1>1, <1>3, <1>6, <1>7, Becomes DEF StoryInv, s

\* Out of the tracker.
LEMMA CheckedKnown ==
  ASSUME StoryInv, NEW c \in Callers, CheckPasses(c) \/ CheckRaises(c) PROVE StoryInv'
<1> DEFINE s == st[c]
<1>1. /\ s \in Calls /\ Known(s) /\ Sound(s) /\ s.at \in Counted /\ s.hold \in Answers /\ Phase(s) = s.from
      /\ s.from \in {"request", "primary", "amended"} /\ s.at \in Tracked
  BY DEF StoryInv, CheckPasses, CheckRaises, Refused, Tracked, Counted, Sound, IsFrom, Phase
<1>2. UNCHANGED <<cfg, ledger>> /\ passed' \in Sums /\ refused' \in Nat
  <2>1. passed \in Sums /\ refused \in Nat /\ Reported(s.hold) \in Nat
    BY <1>1, ReportedNat DEF StoryInv
  <2> HIDE DEF s
  <2>2. Plus(passed, Reported(s.hold)) \in Sums
    BY <2>1 DEF Plus, Sums
  <2> QED BY <2>1, <2>2 DEF CheckPasses, CheckRaises, Refuse, s
<1>3. PICK r : Become(c, r) /\ Sound(r) /\ Known(r)
  <2>1. CASE s.from = "request"
    <3>1. /\ cfg.tracked = "outside" /\ Ended(s.trace) /\ Best(s.trace, s.hold.kind) /\ MayReturn(s)
      <4>1. s.at \notin {"idle", "sleep"} /\ s.attempt + 0 = s.attempt
        BY <1>1, Types DEF Counted
      <4> QED BY <1>1, <2>1, <4>1 DEF Known, MayReturn
    <3>2. PICK result \in {s.hold.kind, "budget"} : Become(c, Finish(s, result))
      BY <2>1 DEF CheckPasses, CheckRaises, Refuse
    <3>3. result \in Outcomes
      <4>1. s.hold.kind \in Kinds
        BY <1>1, LLMStackAssumption DEF AnswerRecords
      <4> QED BY <4>1 DEF Outcomes, ErrorKinds
    <3> DEFINE r == Finish(s, result)
    <3>4. Sound(r)
      BY <1>1, FinishSound DEF Sound, Uncounted
    <3> HIDE DEF s
    <3>5. r.trace = s.trace /\ r.last = result
      BY <1>1 DEF Finish, Calls
    <3>6. Yields(r)
      BY <3>1, <3>2, <3>5 DEF Yields, Best
    <3>7. Known(r)
      BY <3>1, <3>3, <3>6, FinishKnown
    <3> QED BY <3>2, <3>4, <3>7
  <2>2. CASE s.from # "request" /\ CheckPasses(c)
    <3>1. PICK r \in Received(s, s.from, s.hold) : Become(c, r)
      BY <2>2 DEF CheckPasses
    <3>2. Expecting(s, s.from) /\ s.from \in {"primary", "amended"}
      BY <1>1, <2>2, ExpectsAnswer
    <3>3. Known(r)
      BY <1>1, <3>1, <3>2, ReceivedKnown DEF StoryInv
    <3>4. Sound(r)
      BY <1>1, <3>1, ReceivedSound DEF Sound, Uncounted
    <3> QED BY <3>1, <3>3, <3>4
  <2>3. CASE s.from # "request" /\ CheckRaises(c)
    <3>1. PICK r \in Thrown(s, s.from, "budget") : Become(c, r)
      BY <2>3 DEF CheckRaises, Refuse
    <3>2. Expecting(s, s.from) /\ s.from \in {"primary", "amended"}
      BY <1>1, <2>3, ExpectsAnswer
    <3>3. s.from = "amended" => s.best \in Answers
      BY <1>1 DEF Sound
    <3>4. "budget" \in ErrorKinds
      BY DEF ErrorKinds
    <3>5. Known(r)
      <4> HIDE DEF s
      <4>1. cfg \in Configs
        BY DEF StoryInv
      <4>2. CASE s.from = "primary"
        BY <3>1, <3>2, <3>4, <4>1, <4>2, ThrownKnown
      <4>3. CASE s.from = "amended"
        BY <3>1, <3>2, <3>3, <3>4, <4>1, <4>3, ThrownKnown
      <4> QED BY <3>2, <4>2, <4>3
    <3>6. Sound(r)
      BY <1>1, <3>1, <3>2, <3>3, ThrownSound DEF Sound, Uncounted
    <3> QED BY <3>1, <3>5, <3>6
  <2> QED BY <2>1, <2>2, <2>3
<1> QED BY <1>2, <1>3, Becomes DEF StoryInv

LEMMA StoryNext == StoryInv /\ [Next]_vars => StoryInv'
<1> SUFFICES ASSUME StoryInv, [Next]_vars PROVE StoryInv'
  OBVIOUS
<1>1. CASE UNCHANGED vars
  <2>1. UNCHANGED <<cfg, st, ledger, passed, refused>>
    BY <1>1 DEF vars
  <2>2. ASSUME NEW c \in Callers PROVE (Sound(st[c]) /\ Known(st[c]))'
    <3>1. PICK s : st[c] = s /\ st'[c] = s /\ Sound(s) /\ Known(s)
      BY <2>1 DEF StoryInv
    <3>2. Known(s)' /\ Sound(s)'
      BY <2>1, <3>1, KnownStays DEF Sound, IsFrom
    <3> QED BY <3>1, <3>2
  <2> QED BY <2>1, <2>2 DEF StoryInv
<1>2. CASE Next
  <2>1. PICK c \in Callers : Step(c)
    BY <1>2 DEF Next
  <2> QED BY <2>1, BeginKnown, WakeKnown, RaisesKnown, AnswersKnown, FallbackKnown, TrackerKnown,
             CheckedKnown DEF Step
<1> QED BY <1>1, <1>2

\* Every request of every thread goes as the retry, parse-retry and fallback
\* rules say, waits as the backoff strategy says, and yields what it should,
\* whatever the providers do and however the threads interleave.
THEOREM StoryHolds == Spec => []Story
<1>1. StoryInv => Story
  <2> SUFFICES ASSUME StoryInv PROVE Story
    OBVIOUS
  <2>1. \A c \in Callers : CallsMade(st[c]) /\ Yields(st[c]) /\ Waited(st[c])
    BY KnownTells DEF StoryInv
  <2> QED BY <2>1 DEF StoryInv, Story, TypeOK, CallStory, ResultStory, Backoff
<1> QED BY <1>1, StoryInit, StoryNext, PTL DEF Spec

-----------------------------------------------------------------------------
(* The player.                                                             *)

ProgFields == {"state", "printed", "stdin", "slow", "stubborn"}
PlayerFields == {"mode", "buf", "logged", "left", "tries", "closed", "code"}

PlayTyped ==
  /\ DOMAIN prog = ProgFields /\ DOMAIN player = PlayerFields
  /\ prog.state \in {"runs", "reads", "pauses", "done"}
  /\ prog.printed \in Nat /\ prog.stdin \in Seq(Nat)
  /\ piped \in Nat /\ queued \in Nat /\ player.buf \in Nat /\ player.logged \in Nat

\* Every piece that was printed is in the pipe, the queue, the buffer or the log.
NoPieceLost == player.logged + player.buf + queued + piped = prog.printed

\* The input is open, and nothing is in the buffer, where the loop says so.
InTurn ==
  /\ player.mode \in {"collect", "judge", "ask", "write", "close"} => ~player.closed
  /\ player.mode \in {"ask", "write"} => player.buf = 0

\* An answer that is not read yet was written to a program that waits for it and
\* whose whole output the LLM had seen; the LLM is asked when there is none.
Punctual ==
  /\ prog.state # "pauses"
  /\ prog.stdin # <<>> =>
       /\ prog.state \in {"reads", "done"} /\ prog.stdin = <<prog.printed>>
       /\ player.logged = prog.printed
  /\ (player.mode = "judge" /\ player.buf # 0 /\ prog.state # "done") =>
       prog.state = "reads" /\ prog.stdin = <<>> /\ queued = 0 /\ piped = 0
  /\ player.mode \in {"ask", "write"} =>
       prog.state = "reads" /\ prog.stdin = <<>> /\ player.logged = prog.printed

PlayInv == PlayTyped /\ NoPieceLost /\ InTurn /\ (~prog.slow => Punctual) /\ CodeIsReal

LEMMA PlayNumbers ==
  ASSUME PlayInv
  PROVE  /\ prog.printed \in Nat /\ piped \in Nat /\ queued \in Nat
         /\ player.buf \in Nat /\ player.logged \in Nat
         /\ player.logged + player.buf + queued + piped = prog.printed
BY DEF PlayInv, PlayTyped, NoPieceLost

\* Only the state of the program changes.
LEMMA ProgramTurns ==
  ASSUME PlayInv, NEW n \in {"runs", "reads", "pauses", "done"}, ProgramBecomes(n),
         prog.state = "done" => n = "done",
         ~prog.slow =>
           /\ n # "pauses"
           /\ prog.stdin # <<>> => n \in {"reads", "done"}
           /\ n # "reads" => player.mode \notin {"ask", "write"}
           /\ prog.state = "reads" /\ n # "reads" => player.mode # "judge"
  PROVE  PlayInv'
<1>1. /\ DOMAIN prog' = ProgFields /\ prog'.state = n /\ prog'.printed = prog.printed
      /\ prog'.stdin = prog.stdin /\ prog'.slow = prog.slow
  BY DEF PlayInv, PlayTyped, ProgramBecomes, ProgFields
<1>2. UNCHANGED <<piped, queued, player>>
  BY DEF ProgramBecomes
<1>3. PlayTyped' /\ NoPieceLost' /\ InTurn' /\ CodeIsReal'
  BY <1>1, <1>2 DEF PlayInv, PlayTyped, NoPieceLost, InTurn, CodeIsReal
<1>4. ASSUME ~prog.slow PROVE Punctual'
  BY <1>1, <1>2, <1>4 DEF PlayInv, Punctual, InTurn
<1> QED
  BY <1>1, <1>3, <1>4 DEF PlayInv

LEMMA PrintsKept == ASSUME PlayInv, Prints PROVE PlayInv'
<1>1. /\ prog.state \in {"runs", "pauses"} /\ DOMAIN prog' = ProgFields /\ prog'.state = "runs"
      /\ prog'.printed = prog.printed + 1 /\ prog'.stdin = prog.stdin /\ prog'.slow = prog.slow
  BY DEF PlayInv, PlayTyped, Prints, ProgFields
<1>2. piped' = piped + 1 /\ UNCHANGED <<queued, player>>
  BY DEF Prints
<1>3. PlayTyped'
  BY <1>1, <1>2, PlayNumbers DEF PlayInv, PlayTyped
<1>4. NoPieceLost'
  <2>1. player.logged + player.buf + queued + (piped + 1) = prog.printed + 1
    BY PlayNumbers
  <2> QED
    BY <1>1, <1>2, <2>1 DEF NoPieceLost
<1>5. InTurn' /\ CodeIsReal'
  BY <1>1, <1>2 DEF PlayInv, InTurn, CodeIsReal
<1>6. ASSUME ~prog.slow PROVE Punctual'
  BY <1>1, <1>2, <1>6 DEF PlayInv, Punctual
<1> QED
  BY <1>1, <1>3, <1>4, <1>5, <1>6 DEF PlayInv

LEMMA GetsKept == ASSUME PlayInv, Gets PROVE PlayInv'
<1>1. /\ prog.state = "reads" /\ (prog.stdin # <<>> \/ player.closed)
      /\ DOMAIN prog' = ProgFields /\ prog'.state = "runs" /\ prog'.printed = prog.printed
      /\ prog'.stdin = (IF prog.stdin = <<>> THEN prog.stdin ELSE Tail(prog.stdin))
      /\ prog'.slow = prog.slow
  BY DEF PlayInv, PlayTyped, Gets, ProgFields
<1>2. UNCHANGED <<piped, queued, player>>
  BY DEF Gets
<1>3. prog'.stdin \in Seq(Nat)
  BY <1>1 DEF PlayInv, PlayTyped
<1>4. PlayTyped' /\ NoPieceLost'
  BY <1>1, <1>2, <1>3 DEF PlayInv, PlayTyped, NoPieceLost
<1>5. InTurn' /\ CodeIsReal'
  BY <1>1, <1>2 DEF PlayInv, InTurn, CodeIsReal
<1>6. ASSUME ~prog.slow PROVE Punctual'
  <2>1. prog'.stdin = <<>>
    <3>1. CASE prog.stdin = <<>>
      BY <1>1, <3>1
    <3>2. CASE prog.stdin # <<>>
      <4>1. prog.stdin = <<prog.printed>>
        BY <1>6, <3>2 DEF PlayInv, Punctual
      <4> QED
        BY <1>1, <4>1
    <3> QED
      BY <3>1, <3>2
  <2>2. player.mode \notin {"ask", "write"}
    BY <1>1, <1>6 DEF PlayInv, Punctual, InTurn
  <2>3. player.mode = "judge" => player.buf = 0
    <3>1. CASE prog.stdin = <<>>
      BY <1>1, <3>1 DEF PlayInv, InTurn
    <3>2. CASE prog.stdin # <<>>
      BY <1>6, <3>2 DEF PlayInv, PlayTyped, Punctual, NoPieceLost
    <3> QED
      BY <3>1, <3>2
  <2> QED
    BY <1>1, <1>2, <2>1, <2>2, <2>3 DEF Punctual
<1> QED
  BY <1>1, <1>4, <1>5, <1>6 DEF PlayInv

LEMMA ProgramKept == ASSUME PlayInv, Program PROVE PlayInv'
<1>1. CASE Reads
  BY <1>1, ProgramTurns DEF Reads
<1>2. CASE Pauses
  BY <1>2, ProgramTurns DEF Pauses
<1>3. CASE Exits
  <2>1. ~prog.slow => player.mode \notin {"ask", "write"}
    BY <1>3 DEF Exits, PlayInv, Punctual
  <2> QED
    BY <1>3, <2>1, ProgramTurns DEF Exits
<1>4. CASE Dies
  BY <1>4, ProgramTurns DEF Dies
<1> QED
  BY <1>1, <1>2, <1>3, <1>4, PrintsKept, GetsKept DEF Program

LEMMA ReaderKept == ASSUME PlayInv, Reader PROVE PlayInv'
<1>1. piped > 0 /\ piped' = piped - 1 /\ queued' = queued + 1 /\ UNCHANGED <<prog, player>>
  BY DEF Reader
<1>2. PlayTyped' /\ NoPieceLost'
  <2>1. PlayTyped'
    BY <1>1, PlayNumbers DEF PlayInv, PlayTyped
  <2>2. player.logged + player.buf + (queued + 1) + (piped - 1) = prog.printed
    BY PlayNumbers
  <2> QED
    BY <1>1, <2>1, <2>2 DEF NoPieceLost
<1>3. InTurn' /\ CodeIsReal'
  BY <1>1 DEF PlayInv, InTurn, CodeIsReal
<1>4. ASSUME ~prog.slow PROVE Punctual'
  BY <1>1, <1>4 DEF PlayInv, PlayTyped, Punctual
<1> QED
  BY <1>1, <1>2, <1>3, <1>4 DEF PlayInv

\* The loop takes what is queued.
LEMMA TakesKept == ASSUME PlayInv, Collect \/ Drain PROVE PlayInv'
<1>1. PICK n \in {"collect", "judge"}, k \in {1, queued} :
        /\ k <= queued /\ queued' = queued - k /\ piped' = piped /\ prog' = prog
        /\ n = "judge" => prog.state = "done"
        /\ player.mode = "collect"
        /\ player' = [player EXCEPT !.mode = n, !.buf = @ + k]
  <2>1. CASE Collect
    <3>1. queued > 0 /\ queued' = queued - 1 /\ player' = [player EXCEPT !.buf = @ + 1]
          /\ player.mode = "collect" /\ UNCHANGED <<prog, piped>>
      BY <2>1 DEF Collect, At
    <3>2. player' = [player EXCEPT !.mode = "collect", !.buf = @ + 1]
      BY <3>1 DEF PlayInv, PlayTyped, PlayerFields
    <3>3. 1 <= queued
      BY <3>1 DEF PlayInv, PlayTyped
    <3> QED
      BY <3>1, <3>2, <3>3
  <2>2. CASE Drain
    <3>1. /\ queued' = 0 /\ player' = [player EXCEPT !.mode = "judge", !.buf = @ + queued]
          /\ player.mode = "collect" /\ prog.state = "done" /\ UNCHANGED <<prog, piped>>
      BY <2>2 DEF Drain, At
    <3>2. queued - queued = 0 /\ queued <= queued
      BY DEF PlayInv, PlayTyped
    <3> QED
      BY <3>1, <3>2
  <2> QED
    BY <2>1, <2>2
<1>2. /\ DOMAIN player' = PlayerFields /\ player'.mode = n /\ player'.buf = player.buf + k
      /\ player'.logged = player.logged /\ player'.closed = player.closed
      /\ player'.code = player.code
  BY <1>1 DEF PlayInv, PlayTyped, PlayerFields
<1>3. PlayTyped' /\ NoPieceLost'
  <2>1. k \in Nat /\ queued - k \in Nat /\ player.buf + k \in Nat
    BY <1>1, PlayNumbers
  <2>2. PlayTyped'
    BY <1>1, <1>2, <2>1, PlayNumbers DEF PlayInv, PlayTyped
  <2>3. player.logged + (player.buf + k) + (queued - k) + piped = prog.printed
    BY <2>1, PlayNumbers
  <2> QED
    BY <1>1, <1>2, <2>2, <2>3 DEF NoPieceLost
<1>4. InTurn' /\ CodeIsReal'
  BY <1>1, <1>2 DEF PlayInv, InTurn, CodeIsReal
<1>5. ASSUME ~prog.slow PROVE Punctual'
  BY <1>1, <1>2, <1>5 DEF PlayInv, Punctual
<1> QED
  BY <1>1, <1>3, <1>4, <1>5 DEF PlayInv

\* Only the place of the loop changes, and not to one where the LLM is asked.
LEMMA LoopGoes ==
  ASSUME PlayInv, UNCHANGED <<prog, piped, queued>>, DOMAIN player' = PlayerFields,
         player'.mode \notin {"ask", "write"},
         player'.buf \in Nat, player'.logged \in Nat,
         player'.logged + player'.buf = player.logged + player.buf,
         player'.logged >= player.logged,
         player'.closed = player.closed \/ player'.mode \in {"wait", "over", "killed", "off"},
         player'.mode \in {"collect", "close"} => ~player.closed,
         player'.mode # "judge",
         player'.code # "returned" \/ prog.state = "done"
  PROVE  PlayInv'
<1>1. PlayTyped' /\ NoPieceLost'
  BY DEF PlayInv, PlayTyped, NoPieceLost
<1>2. InTurn' /\ CodeIsReal'
  BY DEF InTurn, CodeIsReal
<1>3. ASSUME ~prog.slow PROVE Punctual'
  <2>1. prog.stdin # <<>> => player'.logged = prog.printed
    <3>1. ASSUME prog.stdin # <<>> PROVE player.logged = prog.printed
      BY <1>3, <3>1 DEF PlayInv, Punctual
    <3>2. ASSUME player.logged = prog.printed PROVE player'.logged = prog.printed
      <4>1. player.buf = 0
        BY <3>2, PlayNumbers
      <4>2. player'.logged + player'.buf = player.logged
        BY <4>1, PlayNumbers
      <4>3. player'.logged <= player.logged
        BY <4>2, PlayNumbers
      <4> QED
        BY <3>2, <4>3, PlayNumbers
    <3> QED
      BY <3>1, <3>2
  <2> QED
    BY <1>3, <2>1 DEF PlayInv, Punctual
<1> QED
  BY <1>1, <1>2, <1>3 DEF PlayInv

LEMMA QuietKept == ASSUME PlayInv, Quiet PROVE PlayInv'
<1>1. /\ player.mode = "collect" /\ queued = 0 /\ piped = 0 /\ prog.state \in {"reads", "pauses"}
      /\ player' = [player EXCEPT !.mode = "judge"] /\ UNCHANGED <<prog, piped, queued>>
  BY DEF Quiet, At, Player
<1>2. /\ DOMAIN player' = PlayerFields /\ player'.mode = "judge" /\ player'.buf = player.buf
      /\ player'.logged = player.logged /\ player'.closed = player.closed
      /\ player'.code = player.code
  BY <1>1 DEF PlayInv, PlayTyped, PlayerFields
<1>3. PlayTyped' /\ NoPieceLost'
  BY <1>1, <1>2 DEF PlayInv, PlayTyped, NoPieceLost
<1>4. InTurn' /\ CodeIsReal'
  BY <1>1, <1>2 DEF PlayInv, InTurn, CodeIsReal
<1>5. ASSUME ~prog.slow PROVE Punctual'
  <2>1. prog.stdin # <<>> => player.buf = 0
    BY <1>5 DEF PlayInv, PlayTyped, Punctual, NoPieceLost
  <2> QED
    BY <1>1, <1>2, <1>5, <2>1 DEF PlayInv, Punctual
<1> QED
  BY <1>1, <1>3, <1>4, <1>5 DEF PlayInv

\* The output is logged, and the LLM is asked, or the loop goes on or ends.
LEMMA JudgeKept == ASSUME PlayInv, Judge PROVE PlayInv'
<1> DEFINE p == [player EXCEPT !.logged = @ + player.buf, !.buf = 0]
<1>1. /\ player.mode = "judge" /\ UNCHANGED <<prog, piped, queued>>
      /\ player' = CASE prog.state = "done" -> [p EXCEPT !.mode = "close"]
                     [] prog.state # "done" /\ player.buf = 0 -> Turned(p)
                     [] OTHER -> [p EXCEPT !.tries = 0, !.mode = "ask"]
  BY DEF Judge, At, Player
<1>2. /\ DOMAIN p = PlayerFields /\ p.mode = "judge" /\ p.buf = 0 /\ p.code = player.code
      /\ p.logged = player.logged + player.buf /\ p.closed = player.closed
  BY <1>1 DEF PlayInv, PlayTyped, PlayerFields
<1>3. ~player.closed /\ (player.code = "returned" => prog.state = "done")
  BY <1>1 DEF PlayInv, InTurn, CodeIsReal
<1>4. p.logged \in Nat /\ p.logged >= player.logged
      /\ p.logged + 0 = player.logged + player.buf
  BY <1>2, PlayNumbers
<1> HIDE DEF p
<1>5. CASE prog.state = "done"
  <2>1. player' = [p EXCEPT !.mode = "close"]
    BY <1>1, <1>5
  <2>2. /\ DOMAIN player' = PlayerFields /\ player'.mode = "close" /\ player'.buf = 0
        /\ player'.code = player.code /\ player'.logged = p.logged
        /\ player'.closed = player.closed
    BY <1>2, <2>1 DEF PlayerFields
  <2> QED
    BY <1>1, <1>3, <1>4, <1>5, <2>2, LoopGoes
<1>6. CASE prog.state # "done" /\ player.buf = 0
  <2>1. player' = Turned(p)
    BY <1>1, <1>6
  <2>2. /\ DOMAIN player' = PlayerFields /\ player'.mode \in {"collect", "close"}
        /\ player'.buf = 0 /\ player'.code = player.code /\ player'.logged = p.logged
        /\ player'.closed = player.closed
    BY <1>2, <2>1 DEF PlayerFields, Turned
  <2> QED
    BY <1>1, <1>3, <1>4, <2>2, LoopGoes
<1>7. CASE prog.state # "done" /\ player.buf # 0
  <2>1. player' = [p EXCEPT !.tries = 0, !.mode = "ask"]
    BY <1>1, <1>7
  <2>2. /\ DOMAIN player' = PlayerFields /\ player'.mode = "ask" /\ player'.buf = 0
        /\ player'.code = player.code /\ player'.logged = p.logged
        /\ player'.closed = player.closed
    BY <1>2, <2>1 DEF PlayerFields
  <2>3. PlayTyped'
    BY <1>1, <1>4, <2>2 DEF PlayInv, PlayTyped
  <2>4. NoPieceLost'
    <3>1. p.logged + 0 + queued + piped = prog.printed
      BY <1>2, PlayNumbers
    <3> QED
      BY <1>1, <2>2, <3>1 DEF NoPieceLost
  <2>5. InTurn' /\ CodeIsReal'
    BY <1>1, <1>3, <2>2 DEF InTurn, CodeIsReal
  <2>6. ASSUME ~prog.slow PROVE Punctual'
    <3>1. /\ prog.state = "reads" /\ prog.stdin = <<>> /\ queued = 0 /\ piped = 0
      BY <1>1, <1>7, <2>6 DEF PlayInv, Punctual
    <3>2. p.logged = prog.printed
      BY <1>2, <3>1, PlayNumbers
    <3> QED
      BY <1>1, <2>2, <3>1, <3>2 DEF Punctual
  <2> QED
    BY <1>1, <2>3, <2>4, <2>5, <2>6 DEF PlayInv
<1> QED
  BY <1>5, <1>6, <1>7

LEMMA AskKept == ASSUME PlayInv, Ask PROVE PlayInv'
<1>1. player.mode = "ask" /\ UNCHANGED <<prog, piped, queued>>
  BY DEF Ask, At, Player
<1>2. ~player.closed /\ player.buf = 0 /\ (player.code = "returned" => prog.state = "done")
  BY <1>1 DEF PlayInv, InTurn, CodeIsReal
<1>3. /\ DOMAIN player' = PlayerFields /\ player'.mode \in {"ask", "write", "over"}
      /\ player'.buf = player.buf /\ player'.logged = player.logged
      /\ player'.closed = player.closed
      /\ player'.mode # "over" => player'.code = player.code
      /\ player'.mode = "over" => player'.code = "raised"
  BY <1>1 DEF PlayInv, PlayTyped, PlayerFields, Ask, At, Player
<1>4. CASE player'.mode = "over"
  <2>1. player'.logged >= player.logged /\ player'.logged \in Nat /\ player'.buf \in Nat
    BY <1>3, PlayNumbers
  <2> QED
    BY <1>1, <1>3, <1>4, <2>1, LoopGoes
<1>5. CASE player'.mode # "over"
  <2>1. PlayTyped' /\ NoPieceLost'
    BY <1>1, <1>3 DEF PlayInv, PlayTyped, NoPieceLost
  <2>2. InTurn' /\ CodeIsReal'
    BY <1>1, <1>2, <1>3, <1>5 DEF InTurn, CodeIsReal
  <2>3. ASSUME ~prog.slow PROVE Punctual'
    BY <1>1, <1>3, <1>5, <2>3 DEF PlayInv, Punctual
  <2> QED
    BY <1>1, <2>1, <2>2, <2>3 DEF PlayInv
<1> QED
  BY <1>4, <1>5

\* The answer reaches a program that waits for it, or one that has exited.
LEMMA WriteKept == ASSUME PlayInv, Write PROVE PlayInv'
<1>1. player.mode = "write" /\ UNCHANGED <<piped, queued>>
  BY DEF Write, At
<1>2. ~player.closed /\ player.buf = 0 /\ (player.code = "returned" => prog.state = "done")
  BY <1>1 DEF PlayInv, InTurn, CodeIsReal
<1>3. /\ DOMAIN player' = PlayerFields /\ player'.mode \in {"collect", "close"}
      /\ player'.buf = player.buf /\ player'.logged = player.logged
      /\ player'.closed = player.closed /\ player'.code = player.code
  BY <1>2 DEF PlayInv, PlayTyped, PlayerFields, Write, Turned
<1>4. CASE prog.state = "done"
  <2>1. prog' = prog
    BY <1>4 DEF Write
  <2>2. player'.logged >= player.logged /\ player'.logged \in Nat /\ player'.buf \in Nat
    BY <1>3, PlayNumbers
  <2> QED
    BY <1>1, <1>2, <1>3, <1>4, <2>1, <2>2, LoopGoes
<1>5. CASE prog.state # "done"
  <2>1. /\ DOMAIN prog' = ProgFields /\ prog'.state = prog.state /\ prog'.printed = prog.printed
        /\ prog'.stdin = Append(prog.stdin, player.logged) /\ prog'.slow = prog.slow
    BY <1>5 DEF PlayInv, PlayTyped, ProgFields, Write
  <2>2. prog'.stdin \in Seq(Nat)
    BY <2>1 DEF PlayInv, PlayTyped
  <2>3. PlayTyped' /\ NoPieceLost'
    BY <1>1, <1>3, <2>1, <2>2 DEF PlayInv, PlayTyped, NoPieceLost
  <2>4. InTurn' /\ CodeIsReal'
    BY <1>2, <1>3, <1>5, <2>1 DEF InTurn, CodeIsReal
  <2>5. ASSUME ~prog.slow PROVE Punctual'
    <3>1. prog.state = "reads" /\ prog.stdin = <<>> /\ player.logged = prog.printed
      BY <1>1, <2>5 DEF PlayInv, Punctual
    <3>2. prog'.stdin = <<prog'.printed>>
      BY <2>1, <3>1
    <3> QED
      BY <1>3, <2>1, <3>1, <3>2 DEF Punctual
  <2> QED
    BY <2>1, <2>3, <2>4, <2>5 DEF PlayInv
<1> QED
  BY <1>4, <1>5

\* The end of the loop: the input is closed, and the program has exited when its
\* return code is read.
LEMMA EndsKept == ASSUME PlayInv, Close \/ Wait \/ Reap PROVE PlayInv'
<1>1. UNCHANGED <<prog, piped, queued>>
  BY DEF Close, Wait, Reap, Player
<1>2. player.code = "returned" => prog.state = "done"
  BY DEF PlayInv, CodeIsReal
<1>3. /\ DOMAIN player' = PlayerFields /\ player'.mode \in {"wait", "over", "killed"}
      /\ player'.buf = player.buf /\ player'.logged = player.logged
      /\ player'.code = player.code \/ prog.state = "done"
  BY DEF PlayInv, PlayTyped, PlayerFields, Close, Wait, Reap, Player
<1>4. player'.logged >= player.logged /\ player'.logged \in Nat /\ player'.buf \in Nat
  BY <1>3, PlayNumbers
<1> QED
  BY <1>1, <1>2, <1>3, <1>4, LoopGoes

LEMMA PlayStepKept == ASSUME PlayInv, PlayStep PROVE PlayInv'
BY ProgramKept, ReaderKept, TakesKept, QuietKept, JudgeKept, AskKept, WriteKept, EndsKept
   DEF PlayStep, Loop

\* A play starts with a program of its own and an empty transcript.
LEMMA StartKept ==
  ASSUME NEW turns, NEW slow \in BOOLEAN, NEW stubborn \in BOOLEAN,
         StartPlay(turns, slow, stubborn)
  PROVE  PlayInv'
<1>1. /\ DOMAIN prog' = ProgFields /\ prog'.state = "runs" /\ prog'.printed = 0
      /\ prog'.stdin = <<>>
  BY DEF StartPlay, NoProgram, ProgFields
<1>2. /\ DOMAIN player' = PlayerFields /\ player'.mode \in {"collect", "close"}
      /\ player'.buf = 0 /\ player'.logged = 0 /\ ~player'.closed /\ player'.code # "returned"
  BY DEF StartPlay, Idle, PlayerFields
<1>3. piped' = 0 /\ queued' = 0
  BY DEF StartPlay
<1>4. PlayTyped'
  BY <1>1, <1>2, <1>3 DEF PlayTyped
<1>5. NoPieceLost'
  BY <1>1, <1>2, <1>3 DEF NoPieceLost
<1> QED
  BY <1>1, <1>2, <1>4, <1>5 DEF PlayInv, InTurn, Punctual, CodeIsReal

\* Every other tool leaves the program alone.
LEMMA PlayUntouched ==
  ASSUME PlayInv, UNCHANGED playVars
  PROVE  PlayInv'
BY DEF playVars, PlayInv, PlayTyped, NoPieceLost, InTurn, Punctual, CodeIsReal

LEMMA OverKept == ASSUME PlayInv, PlayOver PROVE PlayInv'
<1>1. player.mode = "over" /\ player' = [player EXCEPT !.mode = "off"]
      /\ UNCHANGED <<prog, piped, queued>>
  BY DEF PlayOver
<1>2. /\ DOMAIN player' = PlayerFields /\ player'.mode = "off" /\ player'.buf = player.buf
      /\ player'.logged = player.logged /\ player'.code = player.code
  BY <1>1 DEF PlayInv, PlayTyped, PlayerFields
<1>3. player'.logged >= player.logged /\ player'.logged \in Nat /\ player'.buf \in Nat
  BY <1>2, PlayNumbers
<1>4. player.code = "returned" => prog.state = "done"
  BY DEF PlayInv, CodeIsReal
<1> QED
  BY <1>1, <1>2, <1>3, <1>4, LoopGoes

LEMMA OthersApart ==
  ASSUME Generate \/ Run \/ PlayRefused \/ Search \/ Retrieve \/ Call \/ Read \/ Save
         \/ Validate \/ Query \/ RunLua \/ Reply \/ Tick
  PROVE  UNCHANGED playVars
<1>1. Fails \/ Achieves \/ (\E g : Writes(g)) => UNCHANGED playVars
  BY DEF Fails, Achieves, Writes
<1>2. CASE Generate
  BY <1>1, <1>2 DEF Generate
<1>3. CASE Run
  BY <1>1, <1>3 DEF Run
<1>4. CASE PlayRefused
  BY <1>1, <1>4 DEF PlayRefused
<1>5. CASE Search \/ Retrieve \/ Call \/ Reply
  BY <1>1, <1>5 DEF Search, Retrieve, Call, Reply
<1>6. CASE Read
  BY <1>1, <1>6 DEF Read
<1>7. CASE Save
  BY <1>1, <1>7 DEF Save
<1>8. CASE Validate
  BY <1>1, <1>8 DEF Validate
<1>9. CASE Query
  BY <1>1, <1>9 DEF Query
<1>10. CASE RunLua
  BY <1>1, <1>10 DEF RunLua
<1>11. CASE Tick
  BY <1>11 DEF Tick
<1> QED
  BY <1>2, <1>3, <1>4, <1>5, <1>6, <1>7, <1>8, <1>9, <1>10, <1>11

LEMMA PlayKept == ASSUME PlayInv, [ToolboxNext]_toolboxVars PROVE PlayInv'
<1>1. CASE Play
  BY <1>1, PlayStepKept DEF Play
<1>2. CASE PlayBegins
  BY <1>2, StartKept DEF PlayBegins
<1>3. CASE PlayOver
  BY <1>3, OverKept
<1>4. CASE Generate \/ Run \/ PlayRefused \/ Search \/ Retrieve \/ Call \/ Read \/ Save
           \/ Validate \/ Query \/ RunLua \/ Reply \/ Tick
  BY <1>4, OthersApart, PlayUntouched
<1>5. CASE UNCHANGED toolboxVars
  BY <1>5, PlayUntouched DEF toolboxVars, playVars
<1> QED
  BY <1>1, <1>2, <1>3, <1>4, <1>5 DEF ToolboxNext, Work

LEMMA PlayStarts == ASSUME ToolboxInit PROVE PlayInv
<1>1. /\ DOMAIN prog = ProgFields /\ prog.state = "done" /\ prog.printed = 0
      /\ prog.stdin = <<>>
  BY DEF ToolboxInit, PlayerInit, NoProgram, ProgFields
<1>2. /\ DOMAIN player = PlayerFields /\ player.mode = "off" /\ player.buf = 0
      /\ player.logged = 0
  BY DEF ToolboxInit, PlayerInit, Idle, PlayerFields
<1>3. piped = 0 /\ queued = 0
  BY DEF ToolboxInit, PlayerInit
<1>4. PlayTyped
  BY <1>1, <1>2, <1>3 DEF PlayTyped
<1>5. NoPieceLost
  BY <1>1, <1>2, <1>3 DEF NoPieceLost
<1> QED
  BY <1>1, <1>2, <1>4, <1>5 DEF PlayInv, InTurn, Punctual, CodeIsReal

\* LLMPlayerTool: a program that never pauses for longer than idle_wait reads, for
\* every prompt, the answer the LLM gave to all it had printed by then, and finds no
\* answer to an earlier prompt before it: whatever the goals, and however its output,
\* the reader thread and the loop interleave.
THEOREM AnswersAreInTime == ToolboxSpec => []AnswersInTime
<1>1. PlayInv => AnswersInTime
  <2>1. SUFFICES ASSUME PlayInv, ~prog.slow, prog.stdin # <<>>
                 PROVE  Len(prog.stdin) = 1 /\ Head(prog.stdin) = prog.printed
    BY DEF AnswersInTime
  <2>2. prog.stdin = <<prog.printed>>
    BY <2>1 DEF PlayInv, Punctual
  <2> QED
    BY <2>2
<1> QED
  BY <1>1, PlayStarts, PlayKept, PTL DEF ToolboxSpec

\* LLMPlayerTool: the return code it reports is that of a program that has exited.
THEOREM CodeIsTheProgram == ToolboxSpec => []CodeIsReal
<1>1. PlayInv => CodeIsReal
  BY DEF PlayInv
<1> QED
  BY <1>1, PlayStarts, PlayKept, PTL DEF ToolboxSpec

-----------------------------------------------------------------------------
(* The first, the last and the m-th of a set of indices.                   *)

LEMMA LeastOf ==
  ASSUME NEW T \in SUBSET Nat, T # {}
  PROVE  Min(T) \in T /\ \A j \in T : Min(T) <= j
<1>1. PICK i \in T : \A j \in T : ~ (<<j, i>> \in OpToRel(<, Nat))
  BY NatLessThanWellFounded, WFMin, Zenon
<1>2. \A j \in T : ~ (j < i)
  BY <1>1 DEF OpToRel
<1>3. \A j \in T : i <= j
  BY <1>2, SMT
<1> QED
  BY <1>3 DEF Min

LEMMA GreatestOf ==
  ASSUME NEW n \in Nat, NEW T \in SUBSET (1..n), T # {}
  PROVE  \E i \in T : \A j \in T : j <= i
<1> DEFINE D == {n - i : i \in T}
<1>1. D \subseteq Nat /\ D # {}
  <2>1. \A i \in T : n - i \in Nat
    OBVIOUS
  <2>2. PICK i \in T : TRUE
    OBVIOUS
  <2>3. n - i \in D
    BY <2>2
  <2> QED
    BY <2>1, <2>3
<1>2. PICK i \in T : Min(D) = n - i
  BY <1>1, LeastOf
<1>3. \A j \in T : n - i <= n - j
  BY <1>1, <1>2, LeastOf
<1> QED
  BY <1>3

\* Each place among the elements of a set of indices is taken.
LEMMA NthIs ==
  ASSUME NEW n \in Nat, NEW S \in SUBSET (1..n), NEW m \in 1..Cardinality(S)
  PROVE  Nth(S, m) \in S
<1> DEFINE Upto(k) == {j \in S : j <= k}
           T == {k \in S : Cardinality(Upto(k)) >= m}
<1>1. IsFiniteSet(S) /\ Cardinality(S) \in Nat
  <2>1. IsFiniteSet(1..n)
    BY FS_Interval
  <2> QED
    BY <2>1, FS_Subset, FS_CardinalityType
<1>2. \A k \in S : IsFiniteSet(Upto(k)) /\ Cardinality(Upto(k)) \in Nat
  BY <1>1, FS_Subset, FS_CardinalityType
<1>3. T # {} /\ T \subseteq Nat
  <2>1. S # {}
    BY FS_EmptySet
  <2>2. PICK k \in S : \A j \in S : j <= k
    BY <2>1, GreatestOf
  <2>3. Upto(k) = S
    BY <2>2
  <2>4. Cardinality(Upto(k)) >= m
    BY <1>1, <2>3
  <2>5. k \in T
    BY <2>4
  <2>6. S \subseteq Nat /\ T \subseteq S
    OBVIOUS
  <2> HIDE DEF T
  <2> QED
    BY <2>5, <2>6
<1>4. PICK k \in T : \A j \in T : k <= j
  BY <1>3, LeastOf
<1>5. Cardinality(Upto(k)) = m
  <2> SUFFICES ASSUME Cardinality(Upto(k)) > m PROVE FALSE
    BY <1>2
  <2> DEFINE U == Upto(k) \ {k}
  <2>1. IsFiniteSet(U) /\ Cardinality(U) = Cardinality(Upto(k)) - 1
    BY <1>2, FS_RemoveElement
  <2>2. Cardinality(U) >= m
    BY <1>2, <2>1
  <2>3. U # {}
    BY <2>2, FS_EmptySet
  <2>4. PICK i \in U : \A j \in U : j <= i
    BY <2>3, GreatestOf
  <2>5. Upto(i) = U
    <3>1. i \in S /\ k \in S /\ i < k /\ S \subseteq Nat
      BY <2>4
    <3>2. \A j \in S : j <= i => j <= k /\ j # k
      BY <3>1
    <3>3. \A j \in S : j <= k /\ j # k => j <= i
      BY <2>4
    <3> QED
      BY <3>2, <3>3
  <2>6. i \in T /\ i < k
    BY <2>2, <2>5
  <2> QED
    BY <1>4, <2>6
<1> QED
  BY <1>5 DEF Nth

-----------------------------------------------------------------------------
(* What the tools do to the graph.                                         *)

LEMMA Overlaid ==
  ASSUME NEW new, NEW old
  PROVE  /\ DOMAIN Over(new, old) = DOMAIN new \cup DOMAIN old
         /\ \A a \in DOMAIN new : Over(new, old)[a] = new[a]
         /\ \A a \in DOMAIN old \ DOMAIN new : Over(new, old)[a] = old[a]
BY DEF Over

\* The entities that have a generated script.
Owners(g) == {i \in DOMAIN g : "saved_to" \in DOMAIN g[i].attrs /\ IsScript(g[i].attrs["saved_to"])}

\* An entity with a script has its language, and none names one by its path.
GraphSound(g) ==
  /\ \E S : g \in Seq(S)
  /\ \A i \in DOMAIN g : {"name", "attrs"} \subseteq DOMAIN g[i]
  /\ \A i \in Owners(g) : "language" \in DOMAIN g[i].attrs
  /\ \A i \in DOMAIN g : "file_path" \in DOMAIN g[i].attrs => ~IsScript(g[i].attrs["file_path"])

\* Attributes that name no script.
Harmless(attrs) ==
  /\ "saved_to" \notin DOMAIN attrs
  /\ "file_path" \in DOMAIN attrs => ~IsScript(attrs["file_path"])

\* The graph h is g with such attributes, and with such entities behind.
Grown(g, h) ==
  /\ \E S : h \in Seq(S)
  /\ DOMAIN g \subseteq DOMAIN h
  /\ \A i \in DOMAIN h : {"name", "attrs"} \subseteq DOMAIN h[i]
  /\ \A i \in DOMAIN g : h[i].attrs = g[i].attrs \/ \E a : Harmless(a) /\ h[i].attrs = Over(a, g[i].attrs)
  /\ \A i \in DOMAIN h \ DOMAIN g : Harmless(h[i].attrs)

LEMMA GrownSound ==
  ASSUME NEW g, NEW h, GraphSound(g), Grown(g, h)
  PROVE  /\ GraphSound(h) /\ Owners(h) = Owners(g)
         /\ \A i \in Owners(g) : h[i].attrs["saved_to"] = g[i].attrs["saved_to"]
<1>1. ASSUME NEW i \in DOMAIN g
      PROVE  /\ "saved_to" \in DOMAIN h[i].attrs <=> "saved_to" \in DOMAIN g[i].attrs
             /\ "saved_to" \in DOMAIN g[i].attrs => h[i].attrs["saved_to"] = g[i].attrs["saved_to"]
             /\ "language" \in DOMAIN g[i].attrs => "language" \in DOMAIN h[i].attrs
             /\ "file_path" \in DOMAIN h[i].attrs => ~IsScript(h[i].attrs["file_path"])
  <2>1. CASE h[i].attrs = g[i].attrs
    BY <2>1 DEF GraphSound
  <2>2. ASSUME NEW a, Harmless(a), h[i].attrs = Over(a, g[i].attrs)
        PROVE  /\ "saved_to" \in DOMAIN h[i].attrs <=> "saved_to" \in DOMAIN g[i].attrs
               /\ "saved_to" \in DOMAIN g[i].attrs => h[i].attrs["saved_to"] = g[i].attrs["saved_to"]
               /\ "language" \in DOMAIN g[i].attrs => "language" \in DOMAIN h[i].attrs
               /\ "file_path" \in DOMAIN h[i].attrs => ~IsScript(h[i].attrs["file_path"])
    <3> DEFINE old == g[i].attrs
               both == h[i].attrs
    <3>0. both = Over(a, old)
      BY <2>2
    <3>4. "file_path" \in DOMAIN old => ~IsScript(old["file_path"])
      BY DEF GraphSound
    <3> HIDE DEF old, both
    <3>1. DOMAIN both = DOMAIN a \cup DOMAIN old
      BY <3>0, Overlaid, Zenon
    <3>2. \A x \in DOMAIN a : both[x] = a[x]
      BY <3>0, Overlaid, Zenon
    <3>3. \A x \in DOMAIN old \ DOMAIN a : both[x] = old[x]
      <4>1. \A x \in DOMAIN old \ DOMAIN a : Over(a, old)[x] = old[x]
        BY Overlaid, Zenon
      <4> QED
        BY <3>0, <4>1, Zenon
    <3>5. "saved_to" \notin DOMAIN a /\ ("file_path" \in DOMAIN a => ~IsScript(a["file_path"]))
      BY <2>2 DEF Harmless
    <3>6. /\ "saved_to" \in DOMAIN both <=> "saved_to" \in DOMAIN old
          /\ "saved_to" \in DOMAIN old => both["saved_to"] = old["saved_to"]
          /\ "language" \in DOMAIN old => "language" \in DOMAIN both
      BY <3>1, <3>3, <3>5
    <3>7. "file_path" \in DOMAIN both => ~IsScript(both["file_path"])
      BY <3>1, <3>2, <3>3, <3>4, <3>5
    <3> QED
      BY <3>6, <3>7 DEF old, both
  <2> QED
    BY <2>1, <2>2 DEF Grown
<1>2. Owners(h) = Owners(g)
  <2>1. \A i \in DOMAIN h : i \in Owners(h) <=> i \in Owners(g)
    BY <1>1 DEF Owners, Grown, Harmless
  <2> QED
    BY <2>1 DEF Owners, Grown
<1>3. \A i \in Owners(h) : "language" \in DOMAIN h[i].attrs
  BY <1>1, <1>2 DEF GraphSound, Owners
<1>4. \A i \in DOMAIN h : "file_path" \in DOMAIN h[i].attrs => ~IsScript(h[i].attrs["file_path"])
  BY <1>1 DEF Grown, Harmless
<1>5. \A i \in Owners(g) : h[i].attrs["saved_to"] = g[i].attrs["saved_to"]
  BY <1>1 DEF Owners
<1> QED
  BY <1>2, <1>3, <1>4, <1>5 DEF GraphSound, Grown

\* The graph h is g with attributes of one entity set.
IsSet(g, name, attrs, h) ==
  /\ \E S : h \in Seq(S)
  /\ DOMAIN g \subseteq DOMAIN h
  /\ \A i \in DOMAIN h : {"name", "attrs"} \subseteq DOMAIN h[i]
  /\ \A i \in DOMAIN g : h[i] = IF g[i].name = name THEN [g[i] EXCEPT !.attrs = Over(attrs, @)] ELSE g[i]
  /\ \A i \in DOMAIN h \ DOMAIN g : h[i].attrs = attrs /\ h[i].name = name
  /\ \E i \in DOMAIN h : h[i].name = name

LEMMA SetAttributesIs ==
  ASSUME NEW g, GraphSound(g), NEW name, NEW attrs
  PROVE  IsSet(g, name, attrs, SetAttributes(g, name, attrs))
<1> DEFINE h == SetAttributes(g, name, attrs)
<1> SUFFICES IsSet(g, name, attrs, h)
  OBVIOUS
<1>0. h = SetAttributes(g, name, attrs)
  OBVIOUS
<1> HIDE DEF h
<1>1. PICK S : g \in Seq(S)
  BY DEF GraphSound
<1>2. DOMAIN g = 1..Len(g) /\ Len(g) \in Nat
  BY <1>1
<1>3. CASE Holds(g, name)
  <2>1. h = [i \in 1..Len(g) |-> IF g[i].name = name THEN [g[i] EXCEPT !.attrs = Over(attrs, @)] ELSE g[i]]
    BY <1>0, <1>2, <1>3 DEF SetAttributes
  <2>2. h \in Seq({h[i] : i \in 1..Len(g)})
    BY <1>2, <2>1
  <2>3. DOMAIN h = DOMAIN g
    BY <1>2, <2>1
  <2>4. \A i \in DOMAIN g : h[i] = IF g[i].name = name THEN [g[i] EXCEPT !.attrs = Over(attrs, @)] ELSE g[i]
    BY <1>2, <2>1
  <2>5. \A i \in DOMAIN h : {"name", "attrs"} \subseteq DOMAIN h[i]
    BY <2>3, <2>4 DEF GraphSound
  <2>6. \E i \in DOMAIN h : h[i].name = name
    BY <1>3, <2>3, <2>4 DEF Holds, GraphSound
  <2> QED
    BY <2>2, <2>3, <2>4, <2>5, <2>6 DEF IsSet
<1>4. CASE ~Holds(g, name)
  <2> DEFINE e == [name |-> name, attrs |-> attrs]
  <2>1. h = Append(g, e) /\ g \in Seq(S \cup {e})
    BY <1>0, <1>1, <1>4 DEF SetAttributes
  <2>2. h \in Seq(S \cup {e}) /\ Len(h) = Len(g) + 1 /\ h[Len(g) + 1] = e /\ \A i \in 1..Len(g) : h[i] = g[i]
    BY <2>1
  <2>3. DOMAIN h = 1..(Len(g) + 1)
    BY <1>2, <2>2
  <2>4. \A i \in DOMAIN g : g[i].name # name
    BY <1>4 DEF Holds
  <2>5. \A i \in DOMAIN h : {"name", "attrs"} \subseteq DOMAIN h[i]
    BY <1>2, <2>2, <2>3 DEF GraphSound
  <2> QED
    BY <1>2, <2>2, <2>3, <2>4, <2>5 DEF IsSet
<1> QED
  BY <1>3, <1>4

LEMMA SetAttributesGrows ==
  ASSUME NEW g, GraphSound(g), NEW name, NEW attrs, Harmless(attrs)
  PROVE  Grown(g, SetAttributes(g, name, attrs))
<1> DEFINE h == SetAttributes(g, name, attrs)
<1> HIDE DEF h
<1>1. /\ \E S : h \in Seq(S)
      /\ DOMAIN g \subseteq DOMAIN h
      /\ \A i \in DOMAIN h : {"name", "attrs"} \subseteq DOMAIN h[i]
      /\ \A i \in DOMAIN g : h[i] = IF g[i].name = name THEN [g[i] EXCEPT !.attrs = Over(attrs, @)] ELSE g[i]
      /\ \A i \in DOMAIN h \ DOMAIN g : h[i].attrs = attrs
  BY SetAttributesIs DEF h, IsSet
<1>2. \A i \in DOMAIN g : h[i].attrs = g[i].attrs \/ h[i].attrs = Over(attrs, g[i].attrs)
  BY <1>1 DEF GraphSound
<1>3. Grown(g, h)
  BY <1>1, <1>2 DEF Grown
<1> QED
  BY <1>3 DEF h

\* Setting those of an answer.
LEMMA SetAllGrows ==
  ASSUME NEW g, GraphSound(g), NEW S, NEW answer \in Seq(S),
         \A e \in S : {"name", "attrs"} \subseteq DOMAIN e /\ Harmless(e.attrs)
  PROVE  Grown(g, SetAll(g, answer))
<1> DEFINE about(name) == {k \in DOMAIN answer : answer[k].name = name}
           new == {k \in DOMAIN answer : ~Holds(g, answer[k].name)}
           known == [i \in DOMAIN g |->
                       IF about(g[i].name) = {} THEN g[i]
                       ELSE LET k == CHOOSE k \in about(g[i].name) : TRUE
                            IN [g[i] EXCEPT !.attrs = Over(answer[k].attrs, @)]]
           behind == [m \in 1..Cardinality(new) |-> answer[Nth(new, m)]]
           h == SetAll(g, answer)
<1>1. h = known \o behind
  BY DEF SetAll
<1>2. DOMAIN g = 1..Len(g) /\ Len(g) \in Nat
  BY DEF GraphSound
<1>3. DOMAIN answer = 1..Len(answer) /\ Len(answer) \in Nat /\ \A k \in DOMAIN answer : answer[k] \in S
  OBVIOUS
<1>4. \A i \in DOMAIN g : known[i] = g[i] \/ \E k \in DOMAIN answer : known[i] = [g[i] EXCEPT !.attrs = Over(answer[k].attrs, @)]
  OBVIOUS
<1>5. Cardinality(new) \in Nat /\ \A m \in 1..Cardinality(new) : behind[m] \in S
  <2>1. new \in SUBSET (1..Len(answer))
    BY <1>3
  <2> HIDE DEF new
  <2>2. IsFiniteSet(1..Len(answer))
    BY <1>3, FS_Interval
  <2>3. Cardinality(new) \in Nat
    BY <2>1, <2>2, FS_Subset, FS_CardinalityType
  <2>4. \A m \in 1..Cardinality(new) : Nth(new, m) \in new
    BY <1>3, <2>1, NthIs
  <2>5. \A m \in 1..Cardinality(new) : behind[m] \in S
    BY <1>3, <2>1, <2>4
  <2> QED
    BY <2>3, <2>5
<1> HIDE DEF new, about
<1> DEFINE R == {known[i] : i \in DOMAIN g} \cup S
<1>6. known \in Seq(R) /\ Len(known) = Len(g)
  <2>1. \A i \in 1..Len(g) : known[i] \in R
    BY <1>2
  <2>2. known = [i \in 1..Len(g) |-> known[i]]
    BY <1>2
  <2> HIDE DEF known, R
  <2>3. known \in [1..Len(g) -> R]
    BY <2>1, <2>2
  <2> QED
    BY <1>2, <2>3, SeqDef
<1>7. behind \in Seq(R) /\ Len(behind) = Cardinality(new)
  BY <1>5
<1> HIDE DEF known, behind, R, h
<1>8. /\ h \in Seq(R) /\ Len(h) = Len(g) + Cardinality(new)
      /\ \A i \in 1..Len(g) : h[i] = known[i]
      /\ \A i \in (Len(g) + 1)..Len(h) : h[i] = behind[i - Len(g)]
  <2>1. /\ h \in Seq(R) /\ Len(h) = Len(known) + Len(behind)
        /\ \A i \in 1..(Len(known) + Len(behind)) :
             h[i] = IF i <= Len(known) THEN known[i] ELSE behind[i - Len(known)]
    BY <1>1, <1>6, <1>7, ConcatProperties
  <2>2. Len(known) \in Nat /\ Len(behind) \in Nat
    BY <1>2, <1>5, <1>6, <1>7
  <2> QED
    BY <1>6, <1>7, <2>1, <2>2
<1>9. DOMAIN h = 1..Len(h) /\ DOMAIN g \subseteq DOMAIN h
  BY <1>2, <1>5, <1>8
<1>10. \A i \in DOMAIN g :
        /\ {"name", "attrs"} \subseteq DOMAIN h[i]
        /\ h[i].attrs = g[i].attrs \/ \E a : Harmless(a) /\ h[i].attrs = Over(a, g[i].attrs)
  <2> SUFFICES ASSUME NEW i \in DOMAIN g
      PROVE  /\ {"name", "attrs"} \subseteq DOMAIN h[i]
             /\ h[i].attrs = g[i].attrs \/ \E a : Harmless(a) /\ h[i].attrs = Over(a, g[i].attrs)
    OBVIOUS
  <2>1. {"name", "attrs"} \subseteq DOMAIN g[i] /\ h[i] = known[i]
    BY <1>2, <1>8 DEF GraphSound
  <2>2. CASE known[i] = g[i]
    BY <2>1, <2>2
  <2>3. ASSUME NEW k \in DOMAIN answer, known[i] = [g[i] EXCEPT !.attrs = Over(answer[k].attrs, @)]
        PROVE  /\ {"name", "attrs"} \subseteq DOMAIN h[i]
               /\ Harmless(answer[k].attrs) /\ h[i].attrs = Over(answer[k].attrs, g[i].attrs)
    BY <1>3, <2>1, <2>3
  <2> QED
    BY <1>4, <2>2, <2>3
<1>11. \A i \in DOMAIN h \ DOMAIN g : {"name", "attrs"} \subseteq DOMAIN h[i] /\ Harmless(h[i].attrs)
  <2> SUFFICES ASSUME NEW i \in DOMAIN h \ DOMAIN g
      PROVE  {"name", "attrs"} \subseteq DOMAIN h[i] /\ Harmless(h[i].attrs)
    OBVIOUS
  <2>1. i \in (Len(g) + 1)..Len(h) /\ i - Len(g) \in 1..Cardinality(new)
    BY <1>2, <1>5, <1>8, <1>9
  <2>2. h[i] \in S
    BY <1>5, <1>8, <2>1
  <2> QED
    BY <2>2
<1>12. Grown(g, h)
  <2>1. \E T : h \in Seq(T)
    BY <1>8
  <2>2. \A i \in DOMAIN h : {"name", "attrs"} \subseteq DOMAIN h[i]
    <3>1. \A i \in DOMAIN h : i \in DOMAIN g \/ i \in DOMAIN h \ DOMAIN g
      OBVIOUS
    <3> QED
      BY <1>10, <1>11, <3>1, Zenon
  <2> QED
    BY <1>9, <1>10, <1>11, <2>1, <2>2, Zenon DEF Grown
<1> QED
  BY <1>12 DEF h

-----------------------------------------------------------------------------
(* The scripts on the disk, and the entity that has the latest.            *)

GoalOutcomes == {"failed", "achieved", "generated"}

\* Only scripts that were generated have numbers.
DiskSound(d, n) == \A p \in DOMAIN d : d[p].no \in 0..n /\ (d[p].no # 0 => IsScript(p))

\* The first entity with a script has the latest one, if it is still there.
LatestFirst(g, d, n) ==
  \A i \in Owners(g) : (\A j \in Owners(g) : i <= j) =>
    LET path == g[i].attrs["saved_to"] IN path \in DOMAIN d /\ d[path].no \in {0, n}

\* The inductive invariant.
ScriptsKnown ==
  /\ wf \in Workflows /\ now \in 0..MaxNow /\ status \in Seq(GoalOutcomes)
  /\ GraphSound(graph)
  /\ DiskSound(disk, Generated)
  /\ Generated > 0 => Owners(graph) # {}
  /\ LatestFirst(graph, disk, Generated)

\* One more outcome counts if it is a script.
LEMMA OutcomeCounts ==
  ASSUME status \in Seq(GoalOutcomes), NEW s \in GoalOutcomes, status' = Append(status, s)
  PROVE  /\ Generated \in Nat /\ status' \in Seq(GoalOutcomes)
         /\ Generated' = IF s = "generated" THEN Generated + 1 ELSE Generated
<1> DEFINE T == {i \in DOMAIN status : status[i] = "generated"}
           U == {i \in DOMAIN status' : status'[i] = "generated"}
           n == Len(status)
<1>1. DOMAIN status = 1..n /\ n \in Nat
  OBVIOUS
<1>2. /\ status' \in Seq(GoalOutcomes) /\ DOMAIN status' = 1..(n + 1) /\ status'[n + 1] = s
      /\ \A i \in 1..n : status'[i] = status[i]
  BY <1>1
<1>3. U = IF s = "generated" THEN T \cup {n + 1} ELSE T
  BY <1>1, <1>2
<1>4. n + 1 \notin T /\ T \in SUBSET (1..n)
  BY <1>1
<1>5. IsFiniteSet(T) /\ Cardinality(T) \in Nat
  <2>1. IsFiniteSet(1..n)
    BY <1>1, FS_Interval
  <2> HIDE DEF T
  <2> QED
    BY <1>4, <2>1, FS_Subset, FS_CardinalityType
<1> HIDE DEF n
<1>6. Cardinality(U) = IF s = "generated" THEN Cardinality(T) + 1 ELSE Cardinality(T)
  <2> HIDE DEF T, U
  <2> QED
    BY <1>3, <1>4, <1>5, FS_AddElement
<1>7. Generated = Cardinality(T) /\ Generated' = Cardinality(U)
  BY DEF Generated
<1> HIDE DEF T, U
<1> QED
  BY <1>2, <1>5, <1>6, <1>7

LEMMA GeneratedNat ==
  ASSUME status \in Seq(GoalOutcomes)
  PROVE  Generated \in Nat
<1>1. {i \in DOMAIN status : status[i] = "generated"} \in SUBSET (1..Len(status)) /\ Len(status) \in Nat
  OBVIOUS
<1> DEFINE T == {i \in DOMAIN status : status[i] = "generated"}
<1>2. IsFiniteSet(1..Len(status))
  BY <1>1, FS_Interval
<1>3. Generated = Cardinality(T) /\ T \in SUBSET (1..Len(status))
  BY <1>1 DEF Generated
<1> HIDE DEF T
<1> QED
  BY <1>2, <1>3, FS_Subset, FS_CardinalityType

\* A step that generates nothing may write a file over the latest script, no more.
LEMMA QuietStep ==
  ASSUME ScriptsKnown, wf' = wf, now' \in 0..MaxNow, Grown(graph, graph'),
         status' = status \/ \E s \in {"failed", "achieved"} : status' = Append(status, s),
         disk' = disk \/ \E p : disk' = Written(p, NoFile)
  PROVE  ScriptsKnown'
<1>1. Generated' = Generated /\ status' \in Seq(GoalOutcomes) /\ Generated \in Nat
  <2>1. CASE status' = status
    BY <2>1, GeneratedNat DEF Generated, ScriptsKnown
  <2>2. ASSUME NEW s \in {"failed", "achieved"}, status' = Append(status, s)
        PROVE  Generated' = Generated /\ status' \in Seq(GoalOutcomes) /\ Generated \in Nat
    <3>1. s \in GoalOutcomes /\ s # "generated"
      BY DEF GoalOutcomes
    <3> QED
      BY <2>2, <3>1, OutcomeCounts DEF ScriptsKnown
  <2> QED
    BY <2>1, <2>2
<1>2. /\ GraphSound(graph') /\ Owners(graph') = Owners(graph)
      /\ \A i \in Owners(graph) : graph'[i].attrs["saved_to"] = graph[i].attrs["saved_to"]
  BY GrownSound DEF ScriptsKnown
<1>3. /\ DOMAIN disk \subseteq DOMAIN disk'
      /\ \A p \in DOMAIN disk' : (p \in DOMAIN disk /\ disk'[p] = disk[p]) \/ disk'[p].no = 0
  <2>1. CASE disk' = disk
    BY <2>1
  <2>2. ASSUME NEW p, disk' = Written(p, NoFile)
        PROVE  /\ DOMAIN disk' = DOMAIN disk \cup {p}
               /\ \A q \in DOMAIN disk' : disk'[q] = IF q = p THEN NoFile ELSE disk[q]
    BY <2>2 DEF Written
  <2>3. NoFile.no = 0
    BY DEF NoFile, File
  <2> QED
    BY <2>1, <2>2, <2>3
<1>4. DiskSound(disk', Generated)
  BY <1>1, <1>3 DEF ScriptsKnown, DiskSound
<1>5. LatestFirst(graph', disk', Generated)
  BY <1>2, <1>3 DEF ScriptsKnown, LatestFirst
<1> QED
  BY <1>1, <1>2, <1>4, <1>5 DEF ScriptsKnown

LEMMA GrownSame ==
  ASSUME NEW g, GraphSound(g)
  PROVE  Grown(g, g)
BY DEF GraphSound, Grown

\* The entity whose script is looked for first has the latest, if it has one.
LEMMA FirstScript ==
  ASSUME ScriptsKnown, NEW T, Stored("saved_to") \subseteq T, T \subseteq DOMAIN graph,
         Min(T) \in Stored("saved_to"), T # {}
  PROVE  /\ graph[Min(T)].attrs["saved_to"] \in DOMAIN disk
         /\ disk[graph[Min(T)].attrs["saved_to"]].no \in {0, Generated}
<1> DEFINE i == Min(T)
           path == graph[i].attrs["saved_to"]
<1>1. DOMAIN graph \subseteq Nat
  BY DEF ScriptsKnown, GraphSound
<1>2. i \in DOMAIN graph /\ \A j \in T : i <= j
  BY <1>1, LeastOf
<1>3. "saved_to" \in DOMAIN graph[i].attrs /\ path \in DOMAIN disk
  BY DEF Stored, With
<1>4. CASE ~IsScript(path)
  BY <1>3, <1>4 DEF ScriptsKnown, DiskSound
<1>5. CASE IsScript(path)
  <2>1. i \in Owners(graph) /\ Owners(graph) \subseteq Nat
    BY <1>1, <1>2, <1>3, <1>5 DEF Owners
  <2>2. PICK f \in Owners(graph) : \A j \in Owners(graph) : f <= j
    BY <2>1, LeastOf
  <2>3. f \in Stored("saved_to")
    <3>1. graph[f].attrs["saved_to"] \in DOMAIN disk
      BY <2>2 DEF ScriptsKnown, LatestFirst
    <3> QED
      BY <2>2, <3>1 DEF Owners, Stored, With
  <2>4. i <= f /\ f <= i
    BY <1>2, <2>1, <2>2, <2>3
  <2>5. i = f
    BY <1>1, <1>2, <2>1, <2>2, <2>4
  <2> QED
    BY <1>3, <2>2, <2>5 DEF ScriptsKnown, LatestFirst
<1> QED
  BY <1>3, <1>4, <1>5

\* What CodeRunnerTool runs.
LEMMA SourceLatest ==
  ASSUME ScriptsKnown
  PROVE  Source.file.no \in {0, Generated}
<1> DEFINE coded == Filled("code")
           saved == Stored("saved_to")
           owners == coded \cup saved
           i == Min(owners)
<1>1. coded \subseteq DOMAIN graph
  BY Zenon DEF Filled, With
<1>2. saved \subseteq DOMAIN graph
  BY DEF Stored, With
<1>3. NoFile.no = 0
  BY DEF NoFile, File
<1>4. CASE owners = {} \/ i \in coded
  <2>1. Source.file = NoFile
    BY <1>4 DEF Source
  <2> QED
    BY <1>3, <2>1
<1>5. CASE owners # {} /\ i \notin coded
  <2>1. i \in owners
    <3>1. DOMAIN graph \subseteq Nat
      BY DEF ScriptsKnown, GraphSound
    <3>2. owners \in SUBSET Nat
      BY <1>1, <1>2, <3>1
    <3> HIDE DEF owners
    <3> QED
      BY <1>5, <3>2, LeastOf
  <2>2. i \in saved /\ owners \subseteq DOMAIN graph /\ saved \subseteq owners
    BY <1>1, <1>2, <1>5, <2>1
  <2>3. Source.file = disk[graph[i].attrs["saved_to"]]
    BY <1>5 DEF Source
  <2>4. disk[graph[i].attrs["saved_to"]].no \in {0, Generated}
    <3> HIDE DEF owners
    <3> QED
      BY <1>5, <2>2, FirstScript
  <2> QED
    BY <2>3, <2>4
<1> QED
  BY <1>4, <1>5

\* What LLMPlayerTool plays.
LEMMA FoundLatest ==
  ASSUME ScriptsKnown, NEW s \in FindScript
  PROVE  disk[s.path].no \in {0, Generated}
<1> DEFINE saved == Stored("saved_to")
           i == Min(saved)
<1>1. saved \subseteq DOMAIN graph
  BY DEF Stored, With
<1>2. CASE saved # {}
  <2>1. s.path = graph[i].attrs["saved_to"]
    BY <1>2 DEF FindScript
  <2>2. i \in saved
    <3>1. saved \in SUBSET Nat
      BY <1>1 DEF ScriptsKnown, GraphSound
    <3> HIDE DEF saved
    <3> QED
      BY <1>2, <3>1, LeastOf
  <2> QED
    BY <1>1, <1>2, <2>1, <2>2, FirstScript
<1>3. CASE saved = {}
  <2>1. s.path \in DOMAIN disk
    <3>1. PICK n \in Named : s.path = graph[n[1]].attrs[n[2]]
      BY <1>3 DEF FindScript
    <3> QED
      BY <3>1 DEF Named
  <2>2. Owners(graph) = {}
    <3> SUFFICES ASSUME Owners(graph) # {} PROVE FALSE
      OBVIOUS
    <3>1. Owners(graph) \in SUBSET Nat
      BY DEF ScriptsKnown, GraphSound, Owners
    <3>2. PICK f \in Owners(graph) : \A j \in Owners(graph) : f <= j
      BY <3>1, LeastOf
    <3>3. graph[f].attrs["saved_to"] \in DOMAIN disk
      BY <3>2 DEF ScriptsKnown, LatestFirst
    <3>4. f \in saved
      BY <3>2, <3>3 DEF Owners, Stored, With
    <3> QED
      BY <1>3, <3>4
  <2>3. Generated = 0
    BY <2>2, GeneratedNat DEF ScriptsKnown
  <2> QED
    BY <2>1, <2>3 DEF ScriptsKnown, DiskSound
<1> QED
  BY <1>2, <1>3

-----------------------------------------------------------------------------
(* Every step keeps the invariant.                                         *)

LEMMA ScriptsInit ==
  ASSUME ToolboxInit
  PROVE  ScriptsKnown
<1>1. wf \in Workflows /\ now = 0 /\ graph = wf.entities /\ disk = [p \in wf.files |-> NoFile] /\ status = <<>>
  BY DEF ToolboxInit
<1>2. graph \in Seq(Range(graph)) /\ \A i \in DOMAIN graph : graph[i] \in Range(graph)
  BY <1>1, WorkflowsAssumption DEF Range
<1>3. ASSUME NEW i \in DOMAIN graph
      PROVE  /\ {"name", "attrs"} \subseteq DOMAIN graph[i]
             /\ "saved_to" \in DOMAIN graph[i].attrs => ~IsScript(graph[i].attrs["saved_to"])
             /\ "file_path" \in DOMAIN graph[i].attrs => ~IsScript(graph[i].attrs["file_path"])
  BY <1>1, <1>2, WorkflowsAssumption
<1>4. Owners(graph) = {}
  BY <1>3 DEF Owners
<1>5. GraphSound(graph)
  <2>1. \E S : graph \in Seq(S)
    BY <1>2
  <2> QED
    BY <1>3, <1>4, <2>1 DEF GraphSound
<1>6. status \in Seq(GoalOutcomes) /\ Generated = 0
  <2>1. {i \in DOMAIN status : status[i] = "generated"} = {}
    BY <1>1
  <2> QED
    BY <1>1, <2>1, FS_EmptySet DEF Generated
<1>7. DiskSound(disk, 0)
  BY <1>1 DEF DiskSound, NoFile, File
<1> QED
  BY <1>1, <1>4, <1>5, <1>6, <1>7, ToolsAssumption DEF ScriptsKnown, LatestFirst

\* Writing a script makes it the latest, and its entity the first that has one.
LEMMA GenerateKeeps ==
  ASSUME ScriptsKnown, wf' = wf, now' = now, status' = Append(status, "generated"),
         NEW path, path.stem = ScriptName(now), NEW asks, NEW lang,
         disk' = Written(path, File(Generated + 1, asks)),
         graph' = SetAttributes(graph, EntityName, [language |-> lang, saved_to |-> path])
  PROVE  ScriptsKnown'
<1> DEFINE set == [language |-> lang, saved_to |-> path]
           name == EntityName
<1>1. Generated \in Nat /\ Generated' = Generated + 1 /\ status' \in Seq(GoalOutcomes)
  <2>1. "generated" \in GoalOutcomes
    BY DEF GoalOutcomes
  <2> QED
    BY <2>1, OutcomeCounts DEF ScriptsKnown
<1>2. IsScript(path)
  BY DEF ScriptsKnown, IsScript
<1>3. path \in DOMAIN disk' /\ disk'[path].no = Generated'
  BY <1>1 DEF Written, File
<1>4. DiskSound(disk', Generated')
  <2> SUFFICES ASSUME NEW p \in DOMAIN disk'
      PROVE  disk'[p].no \in 0..Generated' /\ (disk'[p].no # 0 => IsScript(p))
    BY DEF DiskSound
  <2>1. CASE p = path
    BY <1>1, <1>2, <1>3, <2>1
  <2>2. CASE p # path
    <3>1. p \in DOMAIN disk /\ disk'[p] = disk[p]
      BY <2>2 DEF Written
    <3> QED
      BY <1>1, <3>1 DEF ScriptsKnown, DiskSound
  <2> QED
    BY <2>1, <2>2
<1>5. /\ DOMAIN set = {"language", "saved_to"} /\ set["saved_to"] = path
      /\ GraphSound(graph)
  BY DEF ScriptsKnown
<1> HIDE DEF set, name
<1>6. /\ \E S : graph' \in Seq(S)
      /\ DOMAIN graph \subseteq DOMAIN graph'
      /\ \A i \in DOMAIN graph' : {"name", "attrs"} \subseteq DOMAIN graph'[i]
      /\ \A i \in DOMAIN graph :
           graph'[i] = IF graph[i].name = name THEN [graph[i] EXCEPT !.attrs = Over(set, @)] ELSE graph[i]
      /\ \A i \in DOMAIN graph' \ DOMAIN graph : graph'[i].attrs = set /\ graph'[i].name = name
      /\ \E i \in DOMAIN graph' : graph'[i].name = name
  <2>1. graph' = SetAttributes(graph, name, set)
    BY DEF set, name
  <2>2. IsSet(graph, name, set, graph')
    BY <1>5, <2>1, SetAttributesIs
  <2> QED
    BY <1>5, <2>2 DEF IsSet
<1> DEFINE Touched(i) == graph'[i].name = name
<1>7. \A i \in DOMAIN graph : /\ graph'[i].name = graph[i].name
                              /\ Touched(i) => graph'[i].attrs = Over(set, graph[i].attrs)
                              /\ ~Touched(i) => graph'[i] = graph[i]
  BY <1>5, <1>6 DEF GraphSound
<1>8. \A i \in DOMAIN graph' \ DOMAIN graph : Touched(i)
  BY <1>6
<1>9. \A i \in DOMAIN graph' : Touched(i) =>
        /\ {"language", "saved_to"} \subseteq DOMAIN graph'[i].attrs
        /\ graph'[i].attrs["saved_to"] = path
        /\ "file_path" \in DOMAIN graph'[i].attrs => ~IsScript(graph'[i].attrs["file_path"])
  <2> SUFFICES ASSUME NEW i \in DOMAIN graph', Touched(i)
      PROVE  /\ {"language", "saved_to"} \subseteq DOMAIN graph'[i].attrs
             /\ graph'[i].attrs["saved_to"] = path
             /\ "file_path" \in DOMAIN graph'[i].attrs => ~IsScript(graph'[i].attrs["file_path"])
    OBVIOUS
  <2> DEFINE both == graph'[i].attrs
             old == graph[i].attrs
  <2>1. CASE i \in DOMAIN graph
    <3>1. both = Over(set, old)
      BY <1>7, <2>1
    <3>2. "file_path" \in DOMAIN old => ~IsScript(old["file_path"])
      BY <1>5, <2>1 DEF GraphSound
    <3> HIDE DEF both, old
    <3>3. DOMAIN both = DOMAIN set \cup DOMAIN old
      BY <3>1, Overlaid, Zenon
    <3>4. \A x \in DOMAIN set : both[x] = set[x]
      BY <3>1, Overlaid, Zenon
    <3>5. \A x \in DOMAIN old \ DOMAIN set : both[x] = old[x]
      <4>1. \A x \in DOMAIN old \ DOMAIN set : Over(set, old)[x] = old[x]
        BY Overlaid, Zenon
      <4> QED
        BY <3>1, <4>1, Zenon
    <3>6. {"language", "saved_to"} \subseteq DOMAIN both /\ both["saved_to"] = path
      BY <1>5, <3>3, <3>4
    <3>7. "file_path" \in DOMAIN both => ~IsScript(both["file_path"])
      BY <1>5, <3>2, <3>3, <3>5
    <3> QED
      BY <3>6, <3>7 DEF both
  <2>2. CASE i \in DOMAIN graph' \ DOMAIN graph
    <3>1. both = set
      BY <1>6, <2>2
    <3> QED
      BY <1>5, <3>1
  <2> QED
    BY <2>1, <2>2
<1>10. \A i \in DOMAIN graph' : i \in Owners(graph') <=> i \in Owners(graph) \/ Touched(i)
  BY <1>2, <1>7, <1>8, <1>9 DEF Owners
<1>11. GraphSound(graph')
  <2>1. \A i \in Owners(graph') : "language" \in DOMAIN graph'[i].attrs
    BY <1>5, <1>7, <1>9, <1>10 DEF Owners, GraphSound
  <2>2. \A i \in DOMAIN graph' : "file_path" \in DOMAIN graph'[i].attrs => ~IsScript(graph'[i].attrs["file_path"])
    BY <1>5, <1>7, <1>8, <1>9 DEF GraphSound
  <2> QED
    BY <1>6, <2>1, <2>2 DEF GraphSound
<1>12. Owners(graph') # {}
  BY <1>6, <1>10
<1>13. \A i \in Owners(graph') : (\A j \in Owners(graph') : i <= j) => Touched(i)
  <2> SUFFICES ASSUME NEW i \in Owners(graph'), \A j \in Owners(graph') : i <= j, ~Touched(i)
      PROVE  FALSE
    OBVIOUS
  <2>1. i \in Owners(graph) /\ i \in DOMAIN graph
    BY <1>10 DEF Owners
  <2>2. i \in With("language") /\ With("language") \subseteq DOMAIN graph /\ DOMAIN graph \subseteq Nat
    BY <1>5, <2>1 DEF With, GraphSound, Owners
  <2>3. Min(With("language")) \in With("language") /\ Min(With("language")) <= i
    BY <2>2, LeastOf
  <2>4. name = graph[Min(With("language"))].name
    BY <2>2 DEF name, EntityName
  <2>5. Min(With("language")) \in Owners(graph')
    BY <1>6, <1>7, <1>10, <2>2, <2>3, <2>4
  <2>6. i = Min(With("language"))
    BY <2>2, <2>3, <2>5
  <2> QED
    BY <1>7, <2>1, <2>4, <2>6
<1>14. LatestFirst(graph', disk', Generated')
  BY <1>3, <1>9, <1>13 DEF LatestFirst, Owners
<1> QED
  BY <1>1, <1>4, <1>11, <1>12, <1>14 DEF ScriptsKnown

\* A summary and its hits name no script.
LEMMA AnswerGrows ==
  ASSUME NEW g, GraphSound(g), NEW name, NEW query, NEW hit, NEW n \in Nat, NEW found, Harmless(found)
  PROVE  /\ Grown(g, SetAll(g, Summary(name, query, n) \o Hits(hit, n, found)))
         /\ Grown(g, SetAll(g, Hits(hit, n, found) \o Summary(name, query, n)))
<1> DEFINE e == [name |-> name, attrs |-> [query |-> query, result_count |-> n]]
           hitAt(i) == [name |-> hit \o ToString(i), attrs |-> found]
           S == {e} \cup {hitAt(i) : i \in 1..n}
<1>1. {"name", "attrs"} \subseteq DOMAIN e /\ Harmless(e.attrs)
  BY DEF Harmless
<1>2. \A i \in 1..n : {"name", "attrs"} \subseteq DOMAIN hitAt(i) /\ Harmless(hitAt(i).attrs)
  OBVIOUS
<1>3. Summary(name, query, n) = <<e>>
  BY DEF Summary
<1>4. Hits(hit, n, found) = [i \in 1..n |-> hitAt(i)]
  BY DEF Hits
<1> HIDE DEF e, hitAt
<1>5. <<e>> \in Seq(S) /\ [i \in 1..n |-> hitAt(i)] \in Seq(S)
  OBVIOUS
<1>6. \A x \in S : {"name", "attrs"} \subseteq DOMAIN x /\ Harmless(x.attrs)
  BY <1>1, <1>2
<1> HIDE DEF S
<1>7. /\ <<e>> \o [i \in 1..n |-> hitAt(i)] \in Seq(S)
      /\ [i \in 1..n |-> hitAt(i)] \o <<e>> \in Seq(S)
  BY <1>5, ConcatProperties
<1> QED
  BY <1>3, <1>4, <1>6, <1>7, SetAllGrows

\* Every goal's step keeps the invariant, and starts no script but the latest.
LEMMA WorkKeeps ==
  ASSUME ScriptsKnown, Work
  PROVE  ScriptsKnown' /\ (ran' = ran \/ ran'.no \in {0, Generated})
<1> DEFINE Kept == ScriptsKnown' /\ (ran' = ran \/ ran'.no \in {0, Generated})
<1> SUFFICES Kept
  OBVIOUS
<1>1. now \in 0..MaxNow /\ GraphSound(graph) /\ Grown(graph, graph) /\ wf \in Workflows
  BY GrownSame DEF ScriptsKnown
<1>2. ASSUME NEW s \in {"failed", "achieved"}, Done(s), Grown(graph, graph'),
             disk' = disk \/ \E p : disk' = Written(p, NoFile)
      PROVE  ScriptsKnown'
  <2>1. wf' = wf /\ now' = now /\ status' = Append(status, s)
    BY <1>2 DEF Done
  <2> QED
    BY <1>1, <1>2, <2>1, QuietStep
<1>3. ASSUME NEW s \in {"failed", "achieved"}, Done(s), UNCHANGED <<graph, disk>>
      PROVE  ScriptsKnown'
  BY <1>1, <1>2, <1>3
<1>4. ASSUME Fails PROVE Kept
  BY <1>3, <1>4 DEF Fails
<1>5. ASSUME NEW g, Grown(graph, g), Writes(g) PROVE Kept
  BY <1>2, <1>5 DEF Writes
<1>6. ASSUME Achieves PROVE ScriptsKnown'
  BY <1>3, <1>6 DEF Achieves
<1>7. CASE Generate
  <2>1. CASE Fails
    BY <1>4, <2>1
  <2>2. CASE \E asks \in BOOLEAN :
          LET lang == ExtractLanguage(Goal)
              path == Path(ScriptName(now), Ext(lang))
          IN  /\ disk' = Written(path, File(Generated + 1, asks))
              /\ graph' = SetAttributes(graph, EntityName, [language |-> lang, saved_to |-> path])
              /\ Done("generated") /\ UNCHANGED <<ran, playVars>>
    <3> DEFINE lang == ExtractLanguage(Goal)
               path == Path(ScriptName(now), Ext(lang))
    <3>1. PICK asks \in BOOLEAN :
            /\ disk' = Written(path, File(Generated + 1, asks))
            /\ graph' = SetAttributes(graph, EntityName, [language |-> lang, saved_to |-> path])
            /\ Done("generated") /\ UNCHANGED ran
      BY <2>2
    <3>2. path.stem = ScriptName(now)
      BY DEF Path
    <3> HIDE DEF lang, path
    <3>3. wf' = wf /\ now' = now /\ status' = Append(status, "generated")
      BY <3>1 DEF Done
    <3>4. ScriptsKnown'
      BY <3>1, <3>2, <3>3, GenerateKeeps
    <3> QED
      BY <3>1, <3>4
  <2> QED
    BY <1>7, <2>1, <2>2 DEF Generate
<1>8. CASE Run
  <2>1. Fails \/ (ran' = Source.file /\ (Achieves \/ (Done("failed") /\ UNCHANGED <<graph, disk, playVars>>)))
    BY <1>8 DEF Run
  <2>2. ASSUME ran' = Source.file PROVE ran'.no \in {0, Generated}
    BY <2>2, SourceLatest
  <2> QED
    BY <1>3, <1>4, <1>6, <2>1, <2>2
<1>9. CASE PlayRefused
  BY <1>4, <1>9 DEF PlayRefused
<1>10. CASE PlayBegins
  <2>1. PICK s \in FindScript : ran' = disk[s.path]
    BY <1>10 DEF PlayBegins
  <2>2. UNCHANGED <<wf, at, graph, disk, now, status>>
    BY <1>10 DEF PlayBegins
  <2>3. ScriptsKnown'
    BY <1>1, <2>2, QuietStep
  <2> QED
    BY <2>1, <2>3, FoundLatest
<1>11. CASE PlayOver
  <2>1. /\ \/ Done("failed") /\ disk' = disk
           \/ Done("achieved") /\ \E p : disk' = Written(p, NoFile)
        /\ graph' = graph /\ ran' = ran
    <3>1. IF player.code = "raised" THEN Done("failed") /\ UNCHANGED disk
          ELSE /\ Done("achieved")
               /\ disk' = Written(Path("rof_transcript_" \o ToString(now), ".txt"), NoFile)
      BY <1>11, Zenon DEF PlayOver
    <3>2. graph' = graph /\ ran' = ran
      BY <1>11 DEF PlayOver
    <3> QED
      BY <3>1, <3>2, Zenon
  <2> QED
    BY <1>1, <1>2, <2>1
<1>12. CASE Search
  <2>1. PICK n \in HitCounts :
          LET query == ExtractQuery(Goal)
              found == [found_for |-> query, url |-> "link"]
          IN  Writes(SetAll(graph, Summary("WebSearchResults", query, n) \o Hits("SearchResult", n, found)))
    BY <1>12 DEF Search
  <2> DEFINE query == ExtractQuery(Goal)
             found == [found_for |-> query, url |-> "link"]
             g == SetAll(graph, Summary("WebSearchResults", query, n) \o Hits("SearchResult", n, found))
  <2>2. n \in Nat
    BY ToolsAssumption DEF HitCounts
  <2>3. Harmless(found)
    BY DEF Harmless
  <2> HIDE DEF query, found
  <2>4. Grown(graph, g)
    BY <1>1, <2>2, <2>3, AnswerGrows
  <2>5. Writes(g)
    BY <2>1 DEF query, found
  <2> HIDE DEF g
  <2> QED
    BY <1>5, <2>4, <2>5
<1>13. CASE Retrieve
  <2> DEFINE found == [found_for |-> Goal]
             g == SetAll(graph, Hits("KnowledgeDoc", TopK, found) \o Summary("RAGResults", Goal, TopK))
  <2>1. TopK \in Nat
    <3>1. {Docs, 3} \in SUBSET Nat
      BY ToolsAssumption
    <3> QED
      BY <3>1, LeastOf DEF TopK
  <2>2. Harmless(found)
    BY DEF Harmless
  <2>3. Writes(g)
    BY <1>13 DEF Retrieve
  <2> HIDE DEF found
  <2>4. Grown(graph, g)
    BY <1>1, <2>1, <2>2, AnswerGrows
  <2> HIDE DEF g
  <2> QED
    BY <1>5, <2>3, <2>4
<1>14. CASE Call
  <2> DEFINE found == [status_code |-> "2xx", body |-> "text"]
             g == SetAttributes(graph, "APICallResult", found)
  <2>1. Fails \/ Writes(g)
    BY <1>14 DEF Call
  <2>2. Harmless(found)
    BY DEF Harmless
  <2> HIDE DEF found
  <2>3. Grown(graph, g)
    BY <1>1, <2>2, SetAttributesGrows
  <2> HIDE DEF g
  <2> QED
    BY <1>4, <1>5, <2>1, <2>3
<1>15. CASE Read \/ Validate \/ Query
  <2>1. Fails \/ (Achieves /\ UNCHANGED ran)
    BY <1>15, Zenon DEF Read, Validate, Query
  <2> QED
    BY <1>4, <1>6, <2>1
<1>16. CASE Save
  <2>1. Fails \/ ((\E p : disk' = Written(p, NoFile)) /\ Done("achieved") /\ UNCHANGED <<graph, ran>>)
    BY <1>16, Zenon DEF Save
  <2> QED
    BY <1>1, <1>2, <1>4, <2>1
<1>17. CASE RunLua
  <2> DEFINE T == With("file_path")
             path == graph[Min(T)].attrs["file_path"]
  <2>1. CASE T = {}
    <3>1. Fails
      BY <1>17, <2>1 DEF RunLua
    <3> QED
      BY <1>4, <3>1
  <2>2. CASE T # {}
    <3>1. T \in SUBSET DOMAIN graph /\ DOMAIN graph \subseteq Nat
      BY <1>1 DEF With, GraphSound
    <3>2. Min(T) \in T
      <4> HIDE DEF T
      <4> QED
        BY <2>2, <3>1, LeastOf
    <3>3. ~IsScript(path)
      BY <1>1, <3>2 DEF With, GraphSound
    <3>4. Fails \/ (path \in DOMAIN disk /\ ran' = disk[path]
                    /\ (Achieves \/ (Done("failed") /\ UNCHANGED <<graph, disk, playVars>>)))
      BY <1>17 DEF RunLua
    <3>5. path \in DOMAIN disk => disk[path].no = 0
      BY <3>3 DEF ScriptsKnown, DiskSound
    <3> HIDE DEF T, path
    <3> QED
      BY <1>3, <1>4, <1>6, <3>4, <3>5
  <2> QED
    BY <2>1, <2>2
<1>18. CASE Reply
  <2>1. CASE Fails
    BY <1>4, <2>1
  <2>2. ASSUME NEW r \in wf.replies, Writes(SetAttributes(graph, r.name, r.attrs))
        PROVE  Kept
    <3>1. Harmless(r.attrs)
      BY <1>1, WorkflowsAssumption DEF Harmless
    <3>2. Grown(graph, SetAttributes(graph, r.name, r.attrs))
      BY <1>1, <3>1, SetAttributesGrows
    <3> QED
      BY <1>5, <2>2, <3>2
  <2> QED
    BY <1>18, <2>1, <2>2 DEF Reply
<1> QED
  BY <1>7, <1>8, <1>9, <1>10, <1>11, <1>12, <1>13, <1>14, <1>15, <1>16, <1>17, <1>18 DEF Work

LEMMA ScriptsStep ==
  ASSUME ScriptsKnown, [ToolboxNext]_toolboxVars
  PROVE  ScriptsKnown' /\ (ran' = ran \/ ran'.no \in {0, Generated})
<1>1. CASE Work
  BY <1>1, WorkKeeps
<1>2. CASE Tick
  <2>1. now' \in 0..MaxNow /\ UNCHANGED <<wf, graph, disk, status, ran>>
    BY <1>2, ToolsAssumption DEF Tick, ScriptsKnown
  <2>2. Grown(graph, graph')
    BY <2>1, GrownSame DEF ScriptsKnown
  <2> QED
    BY <2>1, <2>2, QuietStep
<1>3. CASE Play \/ UNCHANGED toolboxVars
  <2>1. UNCHANGED toolVars
    BY <1>3 DEF Play, toolboxVars, toolVars
  <2>2. UNCHANGED <<wf, graph, disk, now, status, ran>>
    BY <2>1 DEF toolVars
  <2>3. Grown(graph, graph')
    BY <2>2, GrownSame DEF ScriptsKnown
  <2> QED
    BY <2>2, <2>3, QuietStep DEF ScriptsKnown
<1> QED
  BY <1>1, <1>2, <1>3 DEF ToolboxNext

\* However many scripts a session generates, and whichever entities its goals, the web
\* searches and the LLM's replies leave in between, what CodeRunnerTool._find_code,
\* LLMPlayerTool._find_script and LuaRunTool come up with is the latest of them, or no
\* generated script at all.
THEOREM LatestIsRun == ToolboxSpec => RunsLatest
<1>1. ToolboxInit => ScriptsKnown
  BY ScriptsInit
<1>2. ScriptsKnown /\ [ToolboxNext]_toolboxVars => ScriptsKnown'
  BY ScriptsStep
<1>3. ScriptsKnown /\ [ToolboxNext]_toolboxVars
        => [ran' # ran /\ ran'.no # 0 => ran'.no = Generated]_toolboxVars
  BY ScriptsStep
<1> QED
  BY <1>1, <1>2, <1>3, PTL DEF ToolboxSpec, RunsLatest
=============================================================================
