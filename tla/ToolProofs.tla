------------------------------ MODULE ToolProofs ------------------------------
(***************************************************************************)
(* The two tools that wait for somebody else.                              *)
(*                                                                         *)
(* MCPClientTool, for any number of callers and calls, any catalogue and   *)
(* any server: calls reach the server at most once and in the order in     *)
(* which they were made, and a caller's answer is that of its own call.    *)
(*                                                                         *)
(* HumanInLoopTool, for any number of questions and answers: through the   *)
(* pair of files no stale answer is accepted, whenever the human opens,    *)
(* writes and replaces the response; over stdin every line is accounted    *)
(* for, whichever of the threads in readline() gets it.                    *)
(***************************************************************************)
EXTENDS MCPClient, HumanInLoop, FiniteSetTheorems, SequenceTheorems, TLAPS

-----------------------------------------------------------------------------
(* MCPClientTool.  Every work item has its own place in submitted; those   *)
(* in the queue have the last places, and what is with the worker or was   *)
(* served is before them.                                                  *)

Placed(item, k) == k \in DOMAIN submitted /\ submitted[k] = item

\* The places of the items that have left the queue.
Gone == 1..(Len(submitted) - Len(queue))

Numbered ==
  /\ \A i, j \in DOMAIN submitted : submitted[i] = submitted[j] => i = j
  /\ \A i \in DOMAIN submitted : submitted[i].n <= call[submitted[i].by].n

Pending ==
  /\ Len(queue) <= Len(submitted)
  /\ \A i \in DOMAIN queue : queue[i] = submitted[Len(submitted) - Len(queue) + i]

Busy ==
  worker.at # "idle" => worker.item \in Items /\ \E k \in Gone : Placed(worker.item, k)

IsList(s) == \E S : s \in Seq(S)

Served ==
  /\ IsList(served)
  /\ \A i \in DOMAIN served : \E k \in Gone : Placed(served[i].item, k)
  /\ \A i, j \in DOMAIN served : i < j =>
       \A k, l \in Gone : Placed(served[i].item, k) /\ Placed(served[j].item, l) => k < l
  /\ worker.at \in {"session", "list", "ready"} =>
       \A i \in DOMAIN served : \A k, l \in Gone :
         Placed(served[i].item, k) /\ Placed(worker.item, l) => k < l
  /\ worker.at = "called" => \E i \in DOMAIN served : served[i].item = worker.item

OwnAnswer ==
  \A c \in Callers : call[c].at = "idle" /\ call[c].result = "ok" /\ call[c].kind = "call" =>
    \E i \in DOMAIN served : served[i].item = Item(c)

CallsInv == TypeOK /\ Numbered /\ Pending /\ Busy /\ Served /\ OwnAnswer

-----------------------------------------------------------------------------
(* Lists.                                                                  *)

LEMMA AppendIs ==
  ASSUME NEW S, NEW s \in Seq(S), NEW e
  PROVE  /\ Append(s, e) \in Seq(S \cup {e}) /\ Len(s) \in Nat
         /\ DOMAIN s = 1..Len(s) /\ DOMAIN Append(s, e) = 1..(Len(s) + 1)
         /\ Len(Append(s, e)) = Len(s) + 1
         /\ Append(s, e)[Len(s) + 1] = e
         /\ \A i \in 1..Len(s) : Append(s, e)[i] = s[i]
OBVIOUS

\* Append seen from the two ends.
LEMMA AppendSplit ==
  ASSUME NEW s, IsList(s), NEW e
  PROVE  /\ IsList(Append(s, e)) /\ Len(s) \in Nat
         /\ DOMAIN s = 1..Len(s) /\ DOMAIN Append(s, e) = 1..(Len(s) + 1)
         /\ Append(s, e)[Len(s) + 1] = e
         /\ \A i \in 1..Len(s) : Append(s, e)[i] = s[i]
<1>1. PICK S : s \in Seq(S)
  BY DEF IsList
<1>2. Append(s, e) \in Seq(S \cup {e})
  BY <1>1, AppendIs
<1>3. IsList(Append(s, e))
  BY <1>2 DEF IsList
<1> QED BY <1>1, <1>3, AppendIs

LEMMA TailIs ==
  ASSUME NEW s \in Seq(Items), s # <<>>
  PROVE  /\ Tail(s) \in Seq(Items) /\ Head(s) \in Items /\ Head(s) = s[1]
         /\ Len(s) \in Nat /\ Len(s) > 0 /\ Len(Tail(s)) = Len(s) - 1
         /\ DOMAIN s = 1..Len(s) /\ DOMAIN Tail(s) = 1..Len(Tail(s))
         /\ \A i \in 1..Len(Tail(s)) : Tail(s)[i] = s[i + 1]
OBVIOUS

LEMMA ListsTyped ==
  TypeOK => /\ queue \in Seq(Items) /\ submitted \in Seq(Items)
            /\ Len(queue) \in Nat /\ Len(submitted) \in Nat
            /\ DOMAIN queue = 1..Len(queue) /\ DOMAIN submitted = 1..Len(submitted)
BY DEF TypeOK

LEMMA CallTyped ==
  ASSUME TypeOK, NEW c \in Callers
  PROVE  call[c] \in [at : {"idle", "waiting"}, n : 0..Calls, kind : Kinds, result : Results]
BY DEF TypeOK

\* The callers give and take; the worker goes on with its item or is done.
Onwards ==
  \/ UNCHANGED worker
  \/ worker'.at = "idle"
  \/ worker'.at = "hung" /\ worker.at # "idle" /\ worker'.item = worker.item
  \/ /\ {worker.at, worker'.at} \subseteq {"session", "list", "ready"}
     /\ worker'.item = worker.item

LEMMA ListsKept ==
  ASSUME CallsInv, TypeOK', UNCHANGED <<queue, submitted, served>>, Onwards,
         \A c \in Callers : call[c].n <= call'[c].n
  PROVE  Numbered' /\ Pending' /\ Busy' /\ Served'
<1> USE DEF CallsInv
<1>1. Numbered'
  <2>1. ASSUME NEW i \in DOMAIN submitted PROVE submitted[i].by \in Callers /\ submitted[i].n \in Nat
    <3>1. submitted[i] \in Items
      BY ListsTyped
    <3> QED BY <3>1 DEF Items
  <2>2. \A c \in Callers : call[c].n \in Nat /\ call'[c].n \in Nat
    BY CallTyped DEF TypeOK
  <2> QED BY <2>1, <2>2 DEF Numbered
<1>2. Pending'
  BY DEF Pending
<1>3. \A x, k : Placed(x, k)' <=> Placed(x, k)
  BY DEF Placed
<1>4. Gone' = Gone
  BY DEF Gone
<1>5. Busy'
  BY <1>3, <1>4 DEF Busy, Onwards
<1>6. Served'
  BY <1>3, <1>4 DEF Served, IsList, Onwards
<1> QED BY <1>1, <1>2, <1>5, <1>6

LEMMA PlaceUnique == CallsInv => \A x, k, l : Placed(x, k) /\ Placed(x, l) => k = l
BY DEF CallsInv, Numbered, Placed

-----------------------------------------------------------------------------
(* The steps.                                                              *)

LEMMA InitCalls == Init => CallsInv
<1> SUFFICES ASSUME Init PROVE CallsInv
  OBVIOUS
<1> USE MCPClientAssumption DEF Init
<1>1. TypeOK
  <2>1. call \in [Callers -> [at : {"idle", "waiting"}, n : 0..Calls, kind : Kinds, result : Results]]
    BY DEF Kinds, Results
  <2>2. <<>> \in Seq(Items)
    OBVIOUS
  <2>3. worker \in [at : {"idle", "session", "list", "ready", "called", "hung"},
                    item : Items \cup {None}, attempt : 0..2]
    BY DEF Rest
  <2>4. tools \in {<<>>, Catalogue} /\ keywords \subseteq STRING /\ closed \in BOOLEAN
    OBVIOUS
  <2>5. \A i \in DOMAIN served : served[i].item \in Items
    OBVIOUS
  <2>6. queue = <<>> /\ submitted = <<>>
    OBVIOUS
  <2> HIDE DEF Init
  <2> QED BY <2>1, <2>2, <2>3, <2>4, <2>5, <2>6 DEF TypeOK
<1>2. Numbered /\ Pending
  BY DEF Numbered, Pending
<1>3. Busy
  BY DEF Busy, Rest
<1>4. Served
  <2>1. <<>> \in Seq({})
    OBVIOUS
  <2> QED BY <2>1 DEF Served, IsList, Rest
<1>5. OwnAnswer
  BY DEF OwnAnswer
<1> QED BY <1>1, <1>2, <1>3, <1>4, <1>5 DEF CallsInv

LEMMA SubmitKeeps ==
  ASSUME CallsInv, NEW c \in Callers, NEW kind \in Kinds, Submit(c, kind)
  PROVE  CallsInv'
<1> USE DEF CallsInv
<1> DEFINE Call == [at : {"idle", "waiting"}, n : 0..Calls, kind : Kinds, result : Results]
<1>1. call[c].n \in 0..Calls /\ call[c].n < Calls /\ call[c].n + 1 \in 1..Calls
      /\ call[c].n + 1 \in 0..Calls
  BY CallTyped, MCPClientAssumption DEF Submit
<1>2. CASE closed
  <2>1. call' = [call EXCEPT ![c].n = @ + 1, ![c].kind = kind, ![c].result = "raised"]
        /\ UNCHANGED <<queue, submitted, worker, tools, keywords, closed, served>>
    BY <1>2 DEF Submit
  <2>2. call' \in [Callers -> Call]
    <3>1. call \in [Callers -> Call] /\ call[c] \in Call
      BY DEF TypeOK
    <3> DEFINE next == [call[c] EXCEPT !.n = call[c].n + 1, !.kind = kind, !.result = "raised"]
    <3>2. call' = [call EXCEPT ![c] = next]
      BY <2>1, <3>1
    <3>3. next \in Call
      BY <1>1, <3>1 DEF Results
    <3> HIDE DEF Call, next
    <3> QED BY <3>1, <3>2, <3>3
  <2>3. TypeOK'
    BY <2>1, <2>2 DEF TypeOK
  <2>4. \A d \in Callers : call[d].n <= call'[d].n
    BY <1>1, <2>1, CallTyped DEF TypeOK
  <2>5. OwnAnswer'
    BY <2>1 DEF OwnAnswer, Item, TypeOK
  <2> QED BY <2>1, <2>3, <2>4, <2>5, ListsKept DEF Onwards
<1>3. CASE ~ closed
  <2> DEFINE item == [by |-> c, n |-> call[c].n + 1, kind |-> kind]
  <2>1. /\ call' = [call EXCEPT ![c].at = "waiting", ![c].n = @ + 1, ![c].kind = kind]
        /\ queue' = Append(queue, item) /\ submitted' = Append(submitted, item)
        /\ UNCHANGED <<worker, tools, keywords, closed, served>>
    BY <1>3 DEF Submit
  <2>2. item \in Items /\ item.by = c /\ item.n = call[c].n + 1
    BY <1>1 DEF Items
  <2> HIDE DEF item
  <2>3. call' \in [Callers -> Call]
    <3>1. call \in [Callers -> Call]
      BY DEF TypeOK
    <3>2. call[c] \in Call
      BY <3>1
    <3> DEFINE next == [call[c] EXCEPT !.at = "waiting", !.n = call[c].n + 1, !.kind = kind]
    <3>3. call' = [call EXCEPT ![c] = next]
      BY <2>1, <3>1
    <3>4. next \in Call
      BY <1>1, <3>2
    <3> HIDE DEF Call, next
    <3> QED BY <3>1, <3>3, <3>4
  <2>4. /\ queue' \in Seq(Items) /\ submitted' \in Seq(Items)
        /\ Len(queue') = Len(queue) + 1 /\ Len(submitted') = Len(submitted) + 1
        /\ DOMAIN queue' = 1..(Len(queue) + 1) /\ DOMAIN submitted' = 1..(Len(submitted) + 1)
        /\ submitted'[Len(submitted) + 1] = item /\ queue'[Len(queue) + 1] = item
        /\ \A i \in 1..Len(queue) : queue'[i] = queue[i]
        /\ \A i \in 1..Len(submitted) : submitted'[i] = submitted[i]
    BY <2>1, <2>2, ListsTyped
  <2>5. TypeOK'
    BY <2>1, <2>3, <2>4 DEF TypeOK
  <2>6. Numbered'
    <3>1. ASSUME NEW i \in DOMAIN submitted PROVE submitted[i].by \in Callers /\ submitted[i].n \in Nat
      <4>1. submitted[i] \in Items
        BY ListsTyped
      <4> QED BY <4>1 DEF Items
    <3>2. \A d \in Callers : call[d].n \in Nat /\ call'[d].n \in Nat /\ call[d].n <= call'[d].n
      BY <1>1, <2>1, CallTyped DEF TypeOK
    <3>3. call'[c].n = call[c].n + 1
      BY <2>1 DEF TypeOK
    <3>4. ASSUME NEW i \in DOMAIN submitted PROVE submitted[i] # item
      BY <2>2, <3>1, <3>2 DEF Numbered
    <3>5. \A i, j \in DOMAIN submitted' : submitted'[i] = submitted'[j] => i = j
      BY <2>4, <3>4, ListsTyped DEF Numbered
    <3>6. \A i \in DOMAIN submitted' : submitted'[i].n <= call'[submitted'[i].by].n
      <4> TAKE i \in DOMAIN submitted'
      <4>1. CASE i \in DOMAIN submitted
        <5>1. submitted[i].n <= call[submitted[i].by].n
          BY <4>1 DEF Numbered
        <5> QED BY <2>4, <3>1, <3>2, <4>1, <5>1, ListsTyped
      <4>2. CASE i = Len(submitted) + 1
        BY <2>2, <2>4, <3>2, <3>3, <4>2
      <4> QED BY <2>4, <4>1, <4>2, ListsTyped
    <3> QED BY <3>5, <3>6 DEF Numbered
  <2>7. Pending'
    BY <2>4, ListsTyped DEF Pending
  <2>8. Gone' = Gone
    BY <2>4, ListsTyped DEF Gone
  <2>9. \A x : \A k \in Gone : Placed(x, k)' <=> Placed(x, k)
    BY <2>4, ListsTyped DEF Placed, Gone
  <2>10. Busy'
    BY <2>1, <2>8, <2>9 DEF Busy
  <2>11. Served'
    BY <2>1, <2>8, <2>9 DEF Served, IsList
  <2>12. OwnAnswer'
    BY <2>1 DEF OwnAnswer, Item, TypeOK
  <2> QED BY <2>5, <2>6, <2>7, <2>10, <2>11, <2>12
<1> QED BY <1>2, <1>3

LEMMA ReturnTyped ==
  ASSUME TypeOK, NEW c \in Callers, NEW result \in Results, Return(c, result)
  PROVE  /\ call' \in [Callers -> [at : {"idle", "waiting"}, n : 0..Calls, kind : Kinds, result : Results]]
         /\ \A d \in Callers : call[d].n <= call'[d].n
         /\ \A d \in Callers \ {c} : call'[d] = call[d]
         /\ call'[c].result = result /\ call'[c].n = call[c].n /\ call'[c].kind = call[c].kind
<1> DEFINE Call == [at : {"idle", "waiting"}, n : 0..Calls, kind : Kinds, result : Results]
<1>1. call \in [Callers -> Call] /\ call[c] \in Call
  BY DEF TypeOK
<1> DEFINE back == [call[c] EXCEPT !.at = "idle", !.result = result]
<1>2. back \in Call /\ back.result = result /\ back.n = call[c].n /\ back.kind = call[c].kind
  BY <1>1
<1> HIDE DEF back
<1>3. call' = [call EXCEPT ![c] = back]
  BY <1>1 DEF Return, back
<1>4. call' \in [Callers -> Call] /\ call'[c] = back /\ \A d \in Callers \ {c} : call'[d] = call[d]
  BY <1>1, <1>2, <1>3
<1>5. \A d \in Callers : call[d].n \in 0..Calls
  BY <1>1
<1> HIDE DEF Call
<1>6. \A d \in Callers : call[d].n <= call'[d].n
  BY <1>2, <1>4, <1>5, MCPClientAssumption
<1> QED BY <1>2, <1>4, <1>6 DEF Call

LEMMA TimeOutKeeps == ASSUME CallsInv, NEW c \in Callers, TimeOut(c) PROVE CallsInv'
<1> USE DEF CallsInv, TimeOut
<1>1. "timeout" \in Results
  BY DEF Results
<1>2. TypeOK'
  BY <1>1, ReturnTyped DEF TypeOK
<1>3. OwnAnswer'
  BY <1>1, ReturnTyped DEF OwnAnswer, Item
<1> QED BY <1>1, <1>2, <1>3, ReturnTyped, ListsKept DEF Onwards

\* The worker is done with its item, and its caller has the result if it still
\* waits for it.
LEMMA FinishKeeps ==
  ASSUME CallsInv, worker.at # "idle", NEW result \in Results, Finish(worker.item, result),
         UNCHANGED <<queue, tools, keywords, closed, submitted, served>>,
         result = "ok" /\ worker.item.kind = "call" => \E i \in DOMAIN served : served[i].item = worker.item
  PROVE  CallsInv'
<1> USE DEF CallsInv
<1>1. worker.item \in Items
  BY DEF Busy
<1>2. PICK item \in Items : item = worker.item
  BY <1>1
<1>3. PICK c \in Callers : c = item.by
  BY DEF Items
<1>4. item \in Items /\ c \in Callers /\ c = item.by /\ item = worker.item
  BY <1>2, <1>3
<1>5. worker' = Rest /\ Onwards /\ worker' \in [at : {"idle", "session", "list", "ready", "called", "hung"},
                 item : Items \cup {None}, attempt : 0..2]
  BY DEF Finish, Rest, Onwards
<1>6. CASE call[c].at = "waiting" /\ Item(c) = item
  <2>1. Return(c, result)
    BY <1>4, <1>6 DEF Finish
  <2>2. TypeOK'
    BY <1>4, <1>5, <2>1, ReturnTyped DEF TypeOK
  <2>3. OwnAnswer'
    <3>1. Item(c)' = item /\ item.kind = call'[c].kind
      <4>1. call'[c].n = call[c].n /\ call'[c].kind = call[c].kind
        BY <1>4, <2>1, ReturnTyped
      <4>2. item = [by |-> c, n |-> call[c].n, kind |-> call[c].kind]
        BY <1>4, <1>6 DEF Item
      <4>3. Item(c)' = [by |-> c, n |-> call'[c].n, kind |-> call'[c].kind]
        BY <1>4 DEF Item
      <4> QED BY <4>1, <4>2, <4>3
    <3> QED BY <1>4, <2>1, <3>1, ReturnTyped DEF OwnAnswer, Item
  <2> QED BY <1>4, <1>5, <2>1, <2>2, <2>3, ReturnTyped, ListsKept
<1>7. CASE ~ (call[c].at = "waiting" /\ Item(c) = item)
  <2>1. UNCHANGED call
    BY <1>4, <1>7 DEF Finish
  <2>2. TypeOK'
    BY <1>5, <2>1 DEF TypeOK
  <2>3. OwnAnswer'
    BY <2>1 DEF OwnAnswer, Item
  <2>4. \A d \in Callers : call[d].n <= call'[d].n
    BY <2>1, CallTyped
  <2> QED BY <1>5, <2>2, <2>3, <2>4, ListsKept
<1> QED BY <1>6, <1>7

LEMMA WorkFinishes ==
  ASSUME CallsInv, SessionFails \/ Unresolved \/ Answer \/ Connected
  PROVE  CallsInv'
<1>1. {"ok", "failed", "raised"} \subseteq Results
  BY DEF Results
<1>2. CASE SessionFails \/ Unresolved
  <2>1. Failure(worker.item) \in {"failed", "raised"} /\ Finish(worker.item, Failure(worker.item))
    BY <1>2 DEF SessionFails, Unresolved, Failure
  <2> QED BY <1>1, <1>2, <2>1, FinishKeeps DEF SessionFails, Unresolved
<1>3. CASE Answer
  BY <1>1, <1>3, FinishKeeps DEF Answer, CallsInv, Served
<1>4. CASE Connected
  BY <1>1, <1>4, FinishKeeps DEF Connected
<1> QED BY <1>2, <1>3, <1>4

LEMMA WorkGoesOn ==
  ASSUME CallsInv, Initialize \/ ListTools \/ ListFails \/ Hang
  PROVE  CallsInv'
<1> USE DEF CallsInv, Initialize, ListTools, ListFails, Hang
<1>1. worker \in [at : {"idle", "session", "list", "ready", "called", "hung"},
                  item : Items \cup {None}, attempt : 0..2]
  BY DEF TypeOK
<1>2. worker' \in [at : {"idle", "session", "list", "ready", "called", "hung"},
                   item : Items \cup {None}, attempt : 0..2] /\ Onwards
  BY <1>1 DEF Onwards
<1>3. tools' \in {<<>>, Catalogue} /\ keywords' \subseteq STRING
  <2>1. NewWords \subseteq STRING
    <3>1. \A i \in DOMAIN Catalogue : Catalogue[i] \in ToolRecords
      BY MCPClientAssumption
    <3>2. \A i \in DOMAIN Catalogue : Catalogue[i].words \subseteq STRING
      BY <3>1 DEF ToolRecords
    <3> QED BY <3>2 DEF NewWords
  <2> QED BY <2>1 DEF TypeOK
<1>4. UNCHANGED <<call, queue, closed, submitted, served>>
  OBVIOUS
<1>5. TypeOK'
  BY <1>2, <1>3, <1>4 DEF TypeOK
<1>6. OwnAnswer'
  BY <1>4 DEF OwnAnswer, Item
<1>7. \A d \in Callers : call[d].n <= call'[d].n
  BY <1>4, CallTyped
<1> QED BY <1>2, <1>4, <1>5, <1>6, <1>7, ListsKept

LEMMA TakeItemKeeps == ASSUME CallsInv, TakeItem PROVE CallsInv'
<1> USE DEF CallsInv, TakeItem
<1> DEFINE next == Len(submitted) - Len(queue) + 1
<1>1. /\ queue' \in Seq(Items) /\ Head(queue) \in Items /\ Head(queue) = queue[1]
      /\ Len(queue) > 0 /\ Len(queue') = Len(queue) - 1
      /\ DOMAIN queue' = 1..Len(queue')
      /\ \A i \in 1..Len(queue') : queue'[i] = queue[i + 1]
  BY TailIs, ListsTyped
<1>2. UNCHANGED <<call, submitted, served>> /\ worker'.at = "session" /\ worker'.item = Head(queue)
  BY DEF Rest
<1>3. TypeOK'
  <2>1. worker' \in [at : {"idle", "session", "list", "ready", "called", "hung"},
                    item : Items \cup {None}, attempt : 0..2]
    <3>1. worker' = [at |-> "session", item |-> Head(queue), attempt |-> 0]
      BY DEF Rest
    <3>2. PICK h \in Items : h = Head(queue)
      BY <1>1
    <3>3. worker' = [at |-> "session", item |-> h, attempt |-> 0]
      BY <3>1, <3>2
    <3> HIDE DEF TakeItem, CallsInv
    <3> QED BY <3>3
  <2>2. UNCHANGED <<call, tools, keywords, closed, submitted, served>>
    OBVIOUS
  <2> HIDE DEF TakeItem
  <2> QED BY <1>1, <2>1, <2>2 DEF TypeOK
<1>4. Numbered'
  BY <1>2 DEF Numbered
<1>5. Pending'
  <2>1. ASSUME NEW i \in DOMAIN queue' PROVE queue'[i] = submitted[Len(submitted) - Len(queue') + i]
    <3>1. i + 1 \in DOMAIN queue /\ queue'[i] = queue[i + 1]
      BY <1>1, ListsTyped
    <3>2. Len(submitted) - Len(queue) + (i + 1) = Len(submitted) - Len(queue') + i
      BY <1>1, ListsTyped
    <3> QED BY <3>1, <3>2 DEF Pending
  <2> QED BY <1>1, <1>2, <2>1, ListsTyped DEF Pending
<1>6. Gone' = Gone \cup {next} /\ next \in DOMAIN submitted /\ next \notin Gone
      /\ \A k \in Gone : k < next
  BY <1>1, <1>2, ListsTyped DEF Gone, Pending
<1>7. \A x, k : Placed(x, k)' <=> Placed(x, k)
  BY <1>2 DEF Placed
<1>8. Placed(Head(queue), next)
  <2>1. 1 \in DOMAIN queue
    BY <1>1, ListsTyped
  <2> QED BY <1>1, <1>6, <2>1 DEF Pending, Placed
<1>9. Busy'
  BY <1>1, <1>2, <1>6, <1>7, <1>8 DEF Busy
<1>10. \A i \in DOMAIN served : \A k : Placed(served[i].item, k) => k \in Gone
  BY PlaceUnique DEF Served
<1>11. \A l : Placed(Head(queue), l) => l = next
  BY <1>8, PlaceUnique
<1>12. Served'
  BY <1>2, <1>6, <1>7, <1>10, <1>11 DEF Served, IsList
<1>13. OwnAnswer'
  BY <1>2 DEF OwnAnswer, Item
<1> QED BY <1>3, <1>4, <1>5, <1>9, <1>12, <1>13

LEMMA ServeKeeps == ASSUME CallsInv, Serve PROVE CallsInv'
<1> USE DEF CallsInv, Serve
<1>1. PICK e : served' = Append(served, e) /\ e.item = worker.item
  OBVIOUS
<1>2. /\ UNCHANGED <<call, queue, submitted, tools, keywords, closed>>
      /\ worker.at = "ready" /\ worker'.at = "called" /\ worker'.item = worker.item
      /\ worker' = [worker EXCEPT !.at = "called"]
  BY DEF TypeOK
<1> HIDE DEF Serve
<1>3. /\ IsList(served') /\ Len(served) \in Nat
      /\ DOMAIN served = 1..Len(served) /\ DOMAIN served' = 1..(Len(served) + 1)
      /\ served'[Len(served) + 1] = e
      /\ \A i \in 1..Len(served) : served'[i] = served[i]
  BY <1>1, AppendSplit DEF Served
<1>4. worker.item \in Items /\ \E k \in Gone : Placed(worker.item, k)
  BY <1>2 DEF Busy
<1>5. TypeOK'
  <2>1. worker' \in [at : {"idle", "session", "list", "ready", "called", "hung"},
                    item : Items \cup {None}, attempt : 0..2]
    BY <1>2 DEF TypeOK
  <2>2. \A i \in DOMAIN served' : served'[i].item \in Items
    BY <1>1, <1>3, <1>4 DEF TypeOK
  <2> QED BY <1>2, <2>1, <2>2 DEF TypeOK
<1>6. Numbered' /\ Pending'
  BY <1>2 DEF Numbered, Pending
<1>7. Gone' = Gone /\ \A x, k : Placed(x, k)' <=> Placed(x, k)
  BY <1>2 DEF Gone, Placed
<1>8. Busy'
  BY <1>2, <1>4, <1>7 DEF Busy
<1>9. Served'
  <2>1. \A i \in DOMAIN served' : \E k \in Gone : Placed(served'[i].item, k)
    BY <1>1, <1>3, <1>4 DEF Served
  <2>2. ASSUME NEW i \in DOMAIN served', NEW j \in DOMAIN served', i < j,
               NEW k \in Gone, NEW l \in Gone, Placed(served'[i].item, k), Placed(served'[j].item, l)
        PROVE  k < l
    <3>1. i \in DOMAIN served /\ served'[i] = served[i]
      BY <1>3, <2>2
    <3>2. CASE j \in DOMAIN served
      BY <1>3, <2>2, <3>1, <3>2 DEF Served
    <3>3. CASE j = Len(served) + 1
      <4>1. served'[j].item = worker.item
        BY <1>1, <1>3, <3>3
      <4> QED BY <1>2, <2>2, <3>1, <4>1 DEF Served
    <3> QED BY <1>3, <3>2, <3>3
  <2>3. \E i \in DOMAIN served' : served'[i].item = worker'.item
    <3>1. Len(served) + 1 \in DOMAIN served'
      BY <1>3
    <3> QED BY <1>1, <1>2, <1>3, <3>1
  <2> QED BY <1>2, <1>3, <1>7, <2>1, <2>2, <2>3 DEF Served
<1>10. OwnAnswer'
  <2>1. \A i \in DOMAIN served : i \in DOMAIN served' /\ served'[i] = served[i]
    BY <1>3
  <2> QED BY <1>2, <2>1 DEF OwnAnswer, Item
<1> QED BY <1>5, <1>6, <1>8, <1>9, <1>10

LEMMA CloseKeeps == ASSUME CallsInv, Close PROVE CallsInv'
<1> USE DEF CallsInv, Close
<1> DEFINE Call == [at : {"idle", "waiting"}, n : 0..Calls, kind : Kinds, result : Results]
<1>1. UNCHANGED <<worker, tools, keywords, submitted, served>> /\ queue' = <<>> /\ closed' = TRUE
  OBVIOUS
<1>2. ASSUME NEW c \in Callers
      PROVE  /\ call'[c] \in Call /\ call'[c].n = call[c].n /\ call'[c].kind = call[c].kind
             /\ call'[c] = call[c] \/ call'[c].result \in {"failed", "raised"}
  <2>1. call[c] \in Call
    BY CallTyped
  <2>2. Failure(Item(c)) \in {"failed", "raised"}
    BY DEF Failure
  <2>3. CASE call[c].at = "waiting" /\ Item(c) \in Range(queue)
    <3>1. call'[c] = [call[c] EXCEPT !.at = "idle", !.result = Failure(Item(c))]
      BY <2>3
    <3> HIDE DEF Close
    <3> QED BY <2>1, <2>2, <3>1 DEF Results
  <2>4. CASE ~ (call[c].at = "waiting" /\ Item(c) \in Range(queue))
    BY <2>1, <2>4
  <2> QED BY <2>3, <2>4
<1>3. call' \in [Callers -> Call]
  <2>1. call' = [c \in Callers |-> call'[c]]
    OBVIOUS
  <2> QED BY <1>2, <2>1
<1> HIDE DEF Close
<1>4. TypeOK'
  BY <1>1, <1>3 DEF TypeOK
<1>5. Numbered'
  <2>1. \A i \in DOMAIN submitted : submitted[i] \in Items
    BY ListsTyped
  <2>2. \A i \in DOMAIN submitted : submitted[i].by \in Callers
    BY <2>1 DEF Items
  <2> QED BY <1>1, <1>2, <2>2 DEF Numbered
<1>6. Pending' /\ Gone \subseteq Gone'
  BY <1>1, ListsTyped DEF Pending, Gone
<1>7. \A x, k : Placed(x, k)' <=> Placed(x, k)
  BY <1>1 DEF Placed
<1>8. Busy'
  BY <1>1, <1>6, <1>7 DEF Busy
<1>9. \A i \in DOMAIN served : \A k : Placed(served[i].item, k) => k \in Gone
  BY PlaceUnique DEF Served
<1>10. worker.at # "idle" => \A k : Placed(worker.item, k) => k \in Gone
  BY PlaceUnique DEF Busy
<1>11. Served'
  BY <1>1, <1>6, <1>7, <1>9, <1>10 DEF Served, IsList
<1>12. OwnAnswer'
  BY <1>1, <1>2 DEF OwnAnswer, Item
<1> QED BY <1>4, <1>5, <1>6, <1>8, <1>11, <1>12

LEMMA NextCalls == CallsInv /\ [Next]_vars => CallsInv'
<1>1. ASSUME CallsInv, UNCHANGED vars PROVE CallsInv'
  <2>1. TypeOK'
    BY <1>1 DEF CallsInv, TypeOK, vars
  <2>2. OwnAnswer'
    BY <1>1 DEF CallsInv, OwnAnswer, Item, vars
  <2>3. \A c \in Callers : call[c].n <= call'[c].n
    BY <1>1, CallTyped DEF CallsInv, vars
  <2> QED BY <1>1, <2>1, <2>2, <2>3, ListsKept DEF CallsInv, Onwards, vars
<1>2. ASSUME CallsInv, NEW c \in Callers, Execute(c) \/ Connect(c) PROVE CallsInv'
  BY <1>2, SubmitKeeps DEF Execute, Connect, Kinds
<1> QED
  BY <1>1, <1>2, TimeOutKeeps, WorkFinishes, WorkGoesOn, TakeItemKeeps, ServeKeeps, CloseKeeps
     DEF Next, Work

\* The calls in their types, in their places, and answered each with its own.
THEOREM CallsInvariant == Spec => []CallsInv
<1> QED BY InitCalls, NextCalls, PTL DEF Spec

\* The server executes each call at most once, in the order they were made,
\* however callers time out and go on, for any number of callers and calls; an
\* answer is that of the caller's own call.
THEOREM ServedInOrder == Spec => []InOrderOnce
<1>1. CallsInv => InOrderOnce
  <2> SUFFICES ASSUME CallsInv PROVE InOrderOnce
    OBVIOUS
  <2> USE DEF CallsInv
  <2> DEFINE place(item) == CHOOSE i \in DOMAIN submitted : submitted[i] = item
  <2>1. ASSUME NEW i \in DOMAIN served
        PROVE  place(served[i].item) \in Gone /\ Placed(served[i].item, place(served[i].item))
    <3>1. PICK k \in Gone : Placed(served[i].item, k)
      BY DEF Served
    <3>2. Placed(served[i].item, place(served[i].item))
      BY <3>1 DEF Placed
    <3> QED BY <3>1, <3>2, PlaceUnique
  <2>2. \A i, j \in DOMAIN served : i < j => place(served[i].item) < place(served[j].item)
    BY <2>1 DEF Served
  <2> QED BY <2>2 DEF InOrderOnce, OwnAnswer
<1> QED BY <1>1, CallsInvariant, PTL

-----------------------------------------------------------------------------
(* HumanInLoopTool: types.                                                 *)

Outcomes == [how : {"none", "accepted", "refused", "timeout", "error"}, answer : Ids \cup {NoAnswer}]
Answers == [allowed : BOOLEAN, after : 0..Questions]

\* The types, and what they do not say: answers are within their bound, a question
\* that is being asked is one, and a file was written by somebody.
Typed ==
  /\ HumanTypeOK
  /\ Len(answers) <= MaxAnswers
  /\ at # "idle" => ask.n # 0
  /\ file = NoFile \/ file.by \in 1..Len(answers)

\* How a question ends keeps the types.
LEMMA EndTyped ==
  ASSUME Typed, at # "idle", NEW how \in {"accepted", "refused", "timeout", "error"},
         NEW answer \in Ids \cup {NoAnswer}, End(how, answer)
  PROVE  /\ at' = "idle" /\ box' = NoAnswer /\ outcome' \in [1..Questions -> Outcomes]
         /\ mode' = mode /\ ask' = ask
<1>1. [how |-> how, answer |-> answer] \in Outcomes
  BY DEF Outcomes
<1>2. outcome \in [1..Questions -> Outcomes]
  BY DEF Typed, HumanTypeOK, Outcomes
<1>3. outcome' = [outcome EXCEPT ![ask.n] = [how |-> how, answer |-> answer]]
  BY DEF End
<1>4. outcome' \in [1..Questions -> Outcomes]
  BY <1>1, <1>2, <1>3
<1> QED BY <1>4 DEF End

\* One more answer.
LEMMA AnswerTyped ==
  ASSUME Typed, Len(answers) < MaxAnswers, NEW allowed \in BOOLEAN, NewAnswer(allowed)
  PROVE  /\ answers' \in Seq(Answers) /\ Len(answers') = Len(answers) + 1 /\ Len(answers') <= MaxAnswers
         /\ answers'[Len(answers) + 1].after = ask.n
         /\ \A i \in 1..Len(answers) : answers'[i] = answers[i]
         /\ Len(answers) + 1 \in 1..MaxAnswers /\ Len(answers) + 1 \in Ids
<1> DEFINE new == [allowed |-> allowed, after |-> ask.n]
<1>1. new \in Answers /\ new.after = ask.n
  BY DEF Answers, Typed, HumanTypeOK
<1>2. answers \in Seq(Answers) /\ answers' = Append(answers, new)
  BY DEF Typed, HumanTypeOK, Answers, NewAnswer
<1>3. Len(answers) \in Nat /\ MaxAnswers \in Nat
  BY <1>2, HumanAssumption
<1> HIDE DEF new
<1> QED BY <1>1, <1>2, <1>3 DEF Ids

\* What was written by one of the answers was written by one of more answers.
LEMMA MoreAnswers ==
  ASSUME Typed, file' = file, Len(answers') = Len(answers) + 1
  PROVE  file' = NoFile \/ file'.by \in 1..Len(answers')
BY DEF Typed, HumanTypeOK

\* An answer is given again.
LEMMA WriteTyped ==
  ASSUME Typed, NEW i \in 1..Len(answers), answers' = [answers EXCEPT ![i].after = ask.n]
  PROVE  /\ answers' \in Seq(Answers) /\ Len(answers') = Len(answers)
         /\ answers'[i].after = ask.n
         /\ \A j \in 1..Len(answers) : j # i => answers'[j] = answers[j]
<1> DEFINE new == [answers[i] EXCEPT !.after = ask.n]
<1>1. answers \in Seq(Answers) /\ ask.n \in 0..Questions
  BY DEF Typed, HumanTypeOK, Answers
<1>2. answers[i] \in Answers
  BY <1>1
<1>3. new \in Answers /\ new.after = ask.n
  BY <1>1, <1>2 DEF Answers
<1>4. answers' = [answers EXCEPT ![i] = new]
  BY <1>1
<1> HIDE DEF new
<1> QED BY <1>1, <1>3, <1>4

\* The reply to a question is one of the outcomes.
LEMMA RespondTyped ==
  ASSUME Typed, at # "idle", NEW answer \in Ids \cup {NoAnswer}, Respond(answer)
  PROVE  /\ at' = "idle" /\ box' = NoAnswer /\ outcome' \in [1..Questions -> Outcomes]
         /\ mode' = mode /\ ask' = ask
         /\ \E how \in {"accepted", "refused"} : End(how, answer)
BY EndTyped DEF Respond

LEMMA NextTyped == ASSUME Typed, [HumanNext]_humanVars PROVE Typed'
<1> USE HumanAssumption DEF Typed, HumanTypeOK, Outcomes, Answers
<1>1. CASE Prompt
  <2>1. PICK t \in BOOLEAN, o \in BOOLEAN : ask' = [n |-> ask.n + 1, timed |-> t, options |-> o]
    BY <1>1 DEF Prompt
  <2>2. ask' \in [n : 0..Questions, timed : BOOLEAN, options : BOOLEAN] /\ ask'.n # 0
    BY <1>1, <2>1 DEF Prompt
  <2>3. readers' \subseteq 1..Questions /\ at' \in {"join", "clear", "callback"}
    BY <1>1 DEF Prompt
  <2> QED BY <1>1, <2>2, <2>3 DEF Prompt
<1>2. CASE Callback
  <2>1. CASE Len(answers) < MaxAnswers /\ (\E allowed \in BOOLEAN : NewAnswer(allowed))
             /\ at' = "return" /\ box' = Len(answers) + 1 /\ UNCHANGED <<mode, ask, outcome>>
    <3>1. answers' \in Seq(Answers) /\ Len(answers') = Len(answers) + 1 /\ Len(answers') <= MaxAnswers
          /\ box' \in Ids
      BY <2>1, AnswerTyped
    <3>2. UNCHANGED <<mode, ask, outcome, stdin, file>> /\ at' = "return" /\ at = "callback"
      BY <1>2, <2>1 DEF Callback
    <3> QED BY <3>1, <3>2, MoreAnswers DEF stdin
  <2>2. CASE End("error", NoAnswer) /\ UNCHANGED answers
    BY <1>2, <2>2, EndTyped DEF Callback, stdin
  <2> QED BY <1>2, <2>1, <2>2 DEF Callback
<1>3. CASE Conclude
  BY <1>3, RespondTyped DEF Conclude, stdin
<1>4. CASE Expire
  BY <1>4, EndTyped DEF Expire, stdin
<1>5. CASE Type
  <2>1. lines' \in Seq(1..MaxAnswers)
    BY <1>5, AnswerTyped DEF Type
  <2>2. answers' \in Seq(Answers) /\ Len(answers') = Len(answers) + 1 /\ Len(answers') <= MaxAnswers
    BY <1>5, AnswerTyped DEF Type
  <2>3. UNCHANGED <<asking, readers, eof, swallowed, file>>
    BY <1>5 DEF Type
  <2>4. file' = NoFile \/ file'.by \in 1..Len(answers')
    BY <2>2, <2>3, MoreAnswers
  <2>5. UNCHANGED <<mode, ask, at, box, outcome, readers, eof, swallowed, file>>
    BY <2>3 DEF asking
  <2> QED BY <2>1, <2>2, <2>4, <2>5
<1>6. CASE CloseStdin
  BY <1>6 DEF CloseStdin, asking
<1>7. ASSUME NEW q \in 1..Questions, ReadLine(q) PROVE Typed'
  <2> DEFINE answer == IF lines = <<>> THEN 0 ELSE Head(lines)
  <2>1. answer \in Ids /\ lines' \in Seq(1..MaxAnswers)
    <3>1. lines \in Seq(1..MaxAnswers) /\ 0 \in Ids /\ 1..MaxAnswers \subseteq Ids
      BY DEF Ids
    <3>2. lines' = IF lines = <<>> THEN lines ELSE Tail(lines)
      BY <1>7 DEF ReadLine
    <3>3. CASE lines = <<>>
      BY <3>1, <3>2, <3>3
    <3>4. CASE lines # <<>>
      <4>1. Head(lines) \in 1..MaxAnswers /\ Tail(lines) \in Seq(1..MaxAnswers)
        BY <3>1, <3>4
      <4> QED BY <3>1, <3>2, <3>4, <4>1
    <3> QED BY <3>3, <3>4
  <2>2. /\ readers' \subseteq 1..Questions
        /\ (box' = answer /\ UNCHANGED swallowed) \/ (swallowed' = swallowed \cup {<<q, answer>>} /\ UNCHANGED box)
        /\ UNCHANGED <<mode, ask, at, outcome, eof, file, answers>>
    BY <1>7 DEF ReadLine
  <2> HIDE DEF answer
  <2>3. box' \in Ids \cup {NoAnswer} /\ swallowed' \subseteq (1..Questions) \X Ids
    BY <2>1, <2>2
  <2> QED BY <2>1, <2>2, <2>3
<1>8. CASE ClearOld \/ Unlink
  <2>1. NoFile \in [by : Ids, whole : BOOLEAN]
    BY DEF NoFile, Ids
  <2> QED BY <1>8, <2>1 DEF ClearOld, Unlink, stdin
<1>9. CASE Exists
  BY <1>9 DEF Exists, stdin
<1>10. CASE Read
  BY <1>10 DEF Read, stdin, Ids
<1>11. CASE OpenFile
  <2>1. answers' \in Seq(Answers) /\ Len(answers') = Len(answers) + 1 /\ Len(answers') <= MaxAnswers
        /\ Len(answers) + 1 \in Ids
    <3>1. PICK allowed \in BOOLEAN : NewAnswer(allowed)
      BY <1>11 DEF OpenFile
    <3>2. Len(answers) < MaxAnswers
      BY <1>11 DEF OpenFile
    <3> QED BY <3>1, <3>2, AnswerTyped
  <2>2. file' \in [by : Ids, whole : BOOLEAN] /\ file'.by = Len(answers) + 1
    BY <1>11, <2>1 DEF OpenFile
  <2>3. UNCHANGED <<asking, stdin>>
    BY <1>11 DEF OpenFile
  <2> QED BY <2>1, <2>2, <2>3 DEF asking, stdin
<1>12. CASE WriteFile
  <2>1. file' \in [by : Ids, whole : BOOLEAN] /\ file'.by = file.by /\ file.by \in 1..Len(answers)
    BY <1>12 DEF WriteFile
  <2>2. answers' \in Seq(Answers) /\ Len(answers') = Len(answers)
    BY <1>12, <2>1, WriteTyped DEF WriteFile
  <2>3. UNCHANGED <<asking, stdin>>
    BY <1>12 DEF WriteFile
  <2> QED BY <2>1, <2>2, <2>3 DEF asking, stdin
<1>13. CASE UNCHANGED humanVars
  BY <1>13 DEF humanVars
<1> QED BY <1>1, <1>2, <1>3, <1>4, <1>5, <1>6, <1>7, <1>8, <1>9, <1>10, <1>11, <1>12, <1>13
        DEF HumanNext, Tool

LEMMA InitTyped == HumanInit => Typed
<1> SUFFICES ASSUME HumanInit PROVE Typed
  OBVIOUS
<1> USE HumanAssumption DEF HumanInit
<1>1. outcome \in [1..Questions -> [how : {"none", "accepted", "refused", "timeout", "error"},
                                   answer : Ids \cup {NoAnswer}]]
  OBVIOUS
<1>2. lines \in Seq(1..MaxAnswers) /\ answers \in Seq([allowed : BOOLEAN, after : 0..Questions])
  OBVIOUS
<1>3. ask \in [n : 0..Questions, timed : BOOLEAN, options : BOOLEAN] /\ file \in [by : Ids, whole : BOOLEAN]
  BY DEF NoFile, Ids
<1>4. HumanTypeOK
  BY <1>1, <1>2, <1>3 DEF HumanTypeOK
<1>5. Len(answers) = 0
  OBVIOUS
<1> QED BY <1>4, <1>5 DEF Typed

\* The questions, the threads on stdin and the files keep their types.
THEOREM HumanTypeCorrect == HumanSpec => []HumanTypeOK
<1>1. Typed => HumanTypeOK
  BY DEF Typed
<1> QED BY <1>1, InitTyped, NextTyped, PTL DEF HumanSpec

-----------------------------------------------------------------------------
(* The pair of files.                                                      *)

\* The answers accepted so far belong each to its question, and none of them is
\* in the file or in hand any more.
Spent ==
  /\ \A q \in 1..Questions : Used(q) =>
       /\ q <= ask.n /\ outcome[q].answer \in 1..Len(answers)
       /\ answers[outcome[q].answer].after >= q
       /\ file.by # outcome[q].answer /\ box # outcome[q].answer
  /\ \A p, q \in 1..Questions : Used(p) /\ Used(q) /\ outcome[p].answer = outcome[q].answer => p = q

\* Once the old response is cleared what is in the file, and what was read of it,
\* was written to the question that is being asked.
Current ==
  /\ at \in {"idle", "clear", "poll", "read", "unlink", "return"}
  /\ at \in {"idle", "clear", "poll", "read"} => box = NoAnswer
  /\ at \in {"poll", "read"} /\ file.by # 0 => answers[file.by].after = ask.n
  /\ at \in {"unlink", "return"} /\ box # NoAnswer /\ box # 0 =>
       box \in 1..Len(answers) /\ answers[box].after = ask.n
  /\ at = "return" /\ box # NoAnswer /\ box # 0 => file.by # box

FileInv == mode = "file" => Spent /\ Current

LEMMA FileInvShows == Typed /\ FileInv => NoStaleAnswer
<1> SUFFICES ASSUME Typed, FileInv, mode = "file" PROVE NoStaleAnswer
  BY DEF NoStaleAnswer
<1>1. Spent
  BY DEF FileInv
<1>2. Asked \subseteq 1..Questions
  BY HumanAssumption DEF Asked, Typed, HumanTypeOK
<1> QED BY <1>1, <1>2 DEF NoStaleAnswer, Spent

\* An answer that was accepted, refused or given up ends a question.
LEMMA RespondKeeps == ASSUME Typed, FileInv, mode = "file", Conclude PROVE FileInv'
<1> USE HumanAssumption DEF FileInv
<1>1. at = "return" /\ box # NoAnswer /\ Respond(box) /\ UNCHANGED <<file, answers>>
  BY DEF Conclude, Current
<1>2. box \in Ids /\ ask.n \in 1..Questions
  BY <1>1 DEF Typed, HumanTypeOK
<1>3. /\ at' = "idle" /\ box' = NoAnswer /\ mode' = mode /\ ask' = ask
      /\ \E how \in {"accepted", "refused"} : End(how, box)
  BY <1>1, <1>2, RespondTyped DEF Typed
<1>4. outcome'[ask.n].answer = box /\ \A q \in 1..Questions \ {ask.n} : outcome'[q] = outcome[q]
  BY <1>2, <1>3 DEF End, Typed, HumanTypeOK
<1>5. box # 0 => box \in 1..Len(answers) /\ answers[box].after = ask.n /\ file.by # box
  BY <1>1 DEF Current
<1>6. \A q \in 1..Questions : Used(q)' => (q = ask.n /\ box # 0) \/ (q # ask.n /\ Used(q))
  BY <1>4 DEF Used
<1>7. \A q \in 1..Questions : Used(q) => outcome[q].answer # box /\ outcome[q].answer # NoAnswer
  BY DEF Spent, Used
<1>8. Spent'
  <2>1. ASSUME NEW q \in 1..Questions, Used(q)'
        PROVE  /\ q <= ask'.n /\ outcome'[q].answer \in 1..Len(answers')
               /\ answers'[outcome'[q].answer].after >= q
               /\ file'.by # outcome'[q].answer /\ box' # outcome'[q].answer
    <3>1. CASE q = ask.n
      BY <1>1, <1>2, <1>3, <1>4, <1>5, <1>6, <2>1, <3>1
    <3>2. CASE q # ask.n
      BY <1>1, <1>3, <1>4, <1>6, <1>7, <2>1, <3>2 DEF Spent
    <3> QED BY <3>1, <3>2
  <2>2. ASSUME NEW p \in 1..Questions, NEW q \in 1..Questions, Used(p)', Used(q)',
               outcome'[p].answer = outcome'[q].answer
        PROVE  p = q
    BY <1>4, <1>6, <1>7, <2>2 DEF Spent
  <2> QED BY <2>1, <2>2 DEF Spent
<1>9. Current'
  BY <1>1, <1>3 DEF Current
<1> QED BY <1>8, <1>9

LEMMA ExpireKeeps == ASSUME Typed, FileInv, mode = "file", Expire PROVE FileInv'
<1> USE HumanAssumption DEF FileInv
<1>1. at = "poll" /\ End("timeout", NoAnswer) /\ UNCHANGED <<file, answers>> /\ ask.n \in 1..Questions
  BY DEF Expire, Current, Typed, HumanTypeOK
<1>2. at' = "idle" /\ box' = NoAnswer /\ mode' = mode /\ ask' = ask
  BY <1>1 DEF End
<1>3. outcome'[ask.n].answer = NoAnswer /\ \A q \in 1..Questions \ {ask.n} : outcome'[q] = outcome[q]
  BY <1>1 DEF End, Typed, HumanTypeOK
<1>4. \A q \in 1..Questions : Used(q)' => q # ask.n /\ Used(q) /\ outcome'[q] = outcome[q]
  BY <1>3 DEF Used
<1>5. box = NoAnswer
  BY <1>1 DEF Current
<1>6. Spent'
  BY <1>1, <1>2, <1>4, <1>5 DEF Spent
<1>7. Current'
  BY <1>2 DEF Current
<1> QED BY <1>6, <1>7

\* What the tool does with the file.
LEMMA ToolKeeps ==
  ASSUME Typed, FileInv, mode = "file", Prompt \/ ClearOld \/ Exists \/ Read \/ Unlink
  PROVE  FileInv'
<1> USE HumanAssumption DEF FileInv
<1>1. outcome' = outcome /\ answers' = answers /\ mode' = mode /\ ask'.n >= ask.n
      /\ (Prompt \/ ask' = ask)
  BY DEF Prompt, ClearOld, Exists, Read, Unlink, Typed, HumanTypeOK
<1>2. \A q \in 1..Questions : Used(q)' <=> Used(q)
  BY <1>1 DEF Used
<1>3. CASE Prompt
  <2>1. at' = "clear" /\ UNCHANGED <<box, file>> /\ box = NoAnswer
    BY <1>3 DEF Prompt, Current
  <2>2. ask.n \in Nat /\ ask'.n = ask.n + 1
    BY <1>3 DEF Prompt, Typed, HumanTypeOK
  <2>3. Spent'
    BY <1>1, <1>2, <2>1, <2>2 DEF Spent
  <2>4. Current'
    BY <2>1 DEF Current
  <2> QED BY <2>3, <2>4
<1>4. CASE ClearOld
  <2>1. at' = "poll" /\ box' = box /\ file'.by = 0 /\ box = NoAnswer
    BY <1>4 DEF ClearOld, Current, NoFile
  <2>2. ask' = ask /\ Len(answers) \in Nat
    BY <1>4 DEF ClearOld, Typed, HumanTypeOK
  <2>3. Spent'
    BY <1>1, <1>2, <2>1, <2>2 DEF Spent
  <2>4. Current'
    BY <2>1 DEF Current
  <2> QED BY <2>3, <2>4
<1>5. CASE Exists
  BY <1>1, <1>2, <1>5 DEF Exists, Spent, Current
<1>6. CASE Read
  <2>1. at = "read" /\ at' = "unlink" /\ file' = file /\ box' \in {file.by, 0} /\ ask' = ask
    BY <1>6 DEF Read
  <2>2. file.by # 0 => file.by \in 1..Len(answers) /\ answers[file.by].after = ask.n
    BY <2>1 DEF Typed, Current, NoFile
  <2>3. \A q \in 1..Questions : Used(q) => box' # outcome[q].answer
    BY <2>1 DEF Spent, Used
  <2> QED BY <1>1, <1>2, <2>1, <2>2, <2>3 DEF Spent, Current
<1>7. CASE Unlink
  <2>1. at = "unlink" /\ at' = "return" /\ file'.by = 0 /\ box' = box /\ ask' = ask
    BY <1>7 DEF Unlink, NoFile
  <2> QED BY <1>1, <1>2, <2>1 DEF Spent, Current
<1> QED BY <1>3, <1>4, <1>5, <1>6, <1>7

\* What the human does with it.
LEMMA OpenKeeps == ASSUME Typed, FileInv, mode = "file", OpenFile PROVE FileInv'
<1> USE HumanAssumption DEF FileInv
<1>1. UNCHANGED <<mode, ask, at, box, outcome>> /\ file'.by = Len(answers) + 1
  BY DEF OpenFile, asking
<1>2. /\ Len(answers') = Len(answers) + 1 /\ answers'[Len(answers) + 1].after = ask.n
      /\ \A i \in 1..Len(answers) : answers'[i] = answers[i]
      /\ Len(answers) \in Nat
  <2>1. PICK allowed \in BOOLEAN : NewAnswer(allowed)
    BY DEF OpenFile
  <2>2. Len(answers) < MaxAnswers /\ Len(answers) \in Nat
    BY DEF OpenFile, Typed, HumanTypeOK
  <2> QED BY <2>1, <2>2, AnswerTyped
<1>3. \A q \in 1..Questions : Used(q)' <=> Used(q)
  BY <1>1 DEF Used
<1>4. Spent'
  BY <1>1, <1>2, <1>3 DEF Spent
<1>5. Current'
  BY <1>1, <1>2 DEF Current
<1> QED BY <1>1, <1>4, <1>5

LEMMA WriteKeeps == ASSUME Typed, FileInv, mode = "file", WriteFile PROVE FileInv'
<1> USE HumanAssumption DEF FileInv
<1>1. /\ UNCHANGED <<mode, ask, at, box, outcome>> /\ file'.by = file.by
      /\ file.by \in 1..Len(answers) /\ answers' = [answers EXCEPT ![file.by].after = ask.n]
  BY DEF WriteFile, asking, Typed, HumanTypeOK
<1>2. /\ Len(answers') = Len(answers) /\ answers'[file.by].after = ask.n
      /\ \A j \in 1..Len(answers) : j # file.by => answers'[j] = answers[j]
  BY <1>1, WriteTyped
<1>3. \A q \in 1..Questions : Used(q)' <=> Used(q)
  BY <1>1 DEF Used
<1>4. Spent'
  BY <1>1, <1>2, <1>3 DEF Spent
<1>5. Current'
  BY <1>1, <1>2 DEF Current
<1> QED BY <1>1, <1>4, <1>5

\* What leaves all of it alone.
LEMMA SameKeeps ==
  ASSUME FileInv, UNCHANGED <<mode, ask, at, box, outcome, file, answers>>
  PROVE  FileInv'
<1>1. \A q \in 1..Questions : Used(q)' <=> Used(q)
  BY DEF Used
<1> QED BY <1>1 DEF FileInv, Spent, Current

LEMMA NextKeepsFile == ASSUME Typed, FileInv, [HumanNext]_humanVars PROVE FileInv'
<1>1. mode' = mode
  BY DEF HumanNext, Tool, humanVars, Prompt, Callback, Conclude, Expire, Respond, End, Type, CloseStdin, ReadLine,
         ClearOld, Exists, Read, Unlink, OpenFile, WriteFile, asking
<1>2. CASE mode # "file"
  BY <1>1, <1>2 DEF FileInv
<1>3. CASE mode = "file"
  <2>1. ~Callback /\ ~Type /\ ~CloseStdin
    BY <1>3 DEF Callback, Type, CloseStdin, FileInv, Current
  <2>2. ASSUME NEW q \in 1..Questions, ReadLine(q) PROVE FileInv'
    <3>1. at # "join"
      BY <1>3 DEF FileInv, Current
    <3>2. UNCHANGED <<mode, ask, at, box, outcome, file, answers>>
      BY <2>2, <3>1 DEF ReadLine
    <3> QED BY <3>2, SameKeeps
  <2>3. CASE UNCHANGED humanVars
    BY <2>3, SameKeeps DEF humanVars, asking
  <2> QED BY <1>3, <2>1, <2>2, <2>3, RespondKeeps, ExpireKeeps, ToolKeeps, OpenKeeps, WriteKeeps
          DEF HumanNext, Tool
<1> QED BY <1>2, <1>3

\* Through the pair of files no answer serves two questions, and none that was
\* complete before a question was asked is accepted for it, for any number of
\* questions and answers.
THEOREM NothingStale == HumanSpec => []NoStaleAnswer
<1>1. HumanInit => FileInv
  BY DEF HumanInit, FileInv, Spent, Current, Used, NoFile
<1> QED BY <1>1, FileInvShows, InitTyped, NextTyped, NextKeepsFile, PTL DEF HumanSpec

-----------------------------------------------------------------------------
(* stdin.                                                                  *)

Taken == {outcome[q].answer : q \in {p \in Asked : Used(p)}} \cup ({box} \ {NoAnswer, 0})
Lost == {pair[2] : pair \in swallowed} \ {0}
Consumed == Len(answers) - Len(lines)

\* What was not read is a suffix of the answers; the others were taken by a
\* question or lost, and not both.
Lines ==
  /\ Len(lines) <= Len(answers)
  /\ \A i \in 1..Len(lines) : lines[i] = Consumed + i
  /\ Taken \cup Lost = 1..Consumed /\ Taken \cap Lost = {}

Over(q) == outcome[q].how = "timeout" /\ q <= ask.n /\ ~(q = ask.n /\ at = "join")

\* A question in progress has no outcome, and its thread has read at most once;
\* the other threads belong to questions that timed out, as does what they took.
Threads ==
  /\ at \in {"idle", "join"} /\ file = NoFile
  /\ at = "idle" => box = NoAnswer
  /\ at = "join" => outcome[ask.n] = [how |-> "none", answer |-> NoAnswer]
  /\ \A q \in 1..Questions : q > ask.n => outcome[q] = [how |-> "none", answer |-> NoAnswer]
  /\ \A q \in readers : Over(q) \/ (q = ask.n /\ at = "join" /\ box = NoAnswer)
  /\ \A pair \in swallowed :
       /\ Over(pair[1]) /\ pair[1] \notin readers
       /\ \A other \in swallowed : other[1] = pair[1] => other = pair

StdinInv == mode = "stdin" => Lines /\ Threads

LEMMA StdinInvShows == Typed /\ StdinInv => EveryLineAccounted
<1> SUFFICES ASSUME Typed, StdinInv, mode = "stdin" PROVE EveryLineAccounted
  BY DEF EveryLineAccounted
<1> DEFINE unread == {lines[i] : i \in DOMAIN lines}
           n == Len(answers)
           k == Len(lines)
<1>1. Lines /\ Threads
  BY DEF StdinInv
<1>2. n \in Nat /\ k \in Nat /\ k <= n /\ DOMAIN lines = 1..k /\ Consumed = n - k
  BY <1>1 DEF Lines, Typed, HumanTypeOK, Consumed
<1>3. Taken \cup Lost = 1..Consumed /\ Taken \cap Lost = {} /\ \A i \in 1..k : lines[i] = Consumed + i
  BY <1>1 DEF Lines
<1> HIDE DEF n, k
<1>4. 1..n = Taken \cup Lost \cup unread
  <2>1. unread = (Consumed + 1)..n
    <3>1. \A i \in 1..k : Consumed + i \in (Consumed + 1)..n
      BY <1>2
    <3>2. ASSUME NEW x \in (Consumed + 1)..n PROVE \E i \in 1..k : Consumed + i = x
      <4>1. x - Consumed \in 1..k /\ Consumed + (x - Consumed) = x
        BY <1>2
      <4> QED BY <4>1
    <3>3. \A x : x \in unread <=> \E i \in 1..k : x = Consumed + i
      BY <1>2, <1>3
    <3> HIDE DEF unread
    <3>4. \A x : x \in unread <=> x \in (Consumed + 1)..n
      BY <3>1, <3>2, <3>3
    <3> QED BY <3>4
  <2>2. 1..n = (1..Consumed) \cup ((Consumed + 1)..n)
    BY <1>2
  <2> QED BY <1>3, <2>1, <2>2
<1>5. Cardinality(Taken) + Cardinality(Lost) + k = n
  <2>1. Consumed \in Nat /\ IsFiniteSet(1..Consumed) /\ Cardinality(1..Consumed) = Consumed
    <3>1. Consumed \in Nat /\ Consumed \in Int /\ 1 \in Int
      BY <1>2
    <3> QED BY <3>1, FS_Interval
  <2>2. IsFiniteSet(Taken) /\ IsFiniteSet(Lost)
    BY <1>3, <2>1, FS_Subset
  <2>3. Cardinality(Taken \cup Lost) = Cardinality(Taken) + Cardinality(Lost) - Cardinality(Taken \cap Lost)
    BY <2>2, FS_Union
  <2>4. Cardinality(Taken \cap Lost) = 0
    BY <1>3, FS_EmptySet
  <2>5. Cardinality(Taken) \in Nat /\ Cardinality(Lost) \in Nat
    BY <2>2, FS_CardinalityType
  <2>6. Cardinality(Taken \cup Lost) = Consumed
    BY <1>3, <2>1
  <2> QED BY <1>2, <2>3, <2>4, <2>5, <2>6
<1>6. \A pair \in swallowed :
        /\ outcome[pair[1]].how = "timeout"
        /\ \A other \in swallowed : other[1] = pair[1] => other = pair
  BY <1>1 DEF Threads, Over
<1> QED BY <1>4, <1>5, <1>6 DEF EveryLineAccounted, Taken, Lost, n, k

\* A question is asked.
LEMMA AskCounts == ASSUME Typed, StdinInv, mode = "stdin", Prompt PROVE StdinInv'
<1>1. /\ ask' \in [n : 0..Questions, timed : BOOLEAN, options : BOOLEAN] /\ ask'.n = ask.n + 1
      /\ ask.n \in Nat /\ ask.n + 1 \in 1..Questions
      /\ at = "idle" /\ at' = "join" /\ readers' = readers \cup {ask.n + 1}
      /\ UNCHANGED <<mode, box, outcome, lines, eof, swallowed, file, answers>>
  BY HumanAssumption DEF Prompt, Typed, HumanTypeOK
<1>2. Lines /\ Threads /\ box = NoAnswer
  BY <1>1 DEF StdinInv, Threads
<1>3. \A q \in 1..Questions : Used(q)' = Used(q) /\ (Used(q) => q <= ask.n)
  BY <1>1, <1>2 DEF Used, Threads
<1>4. Taken' = Taken /\ Lost' = Lost /\ Consumed' = Consumed
  <2>1. /\ \A q \in 1..(ask.n + 1) : q \in 1..Questions /\ (q \in 1..ask.n \/ ~(q <= ask.n))
        /\ \A q \in 1..ask.n : q \in 1..(ask.n + 1)
    BY <1>1, HumanAssumption
  <2>2. \A q : (q \in Asked /\ Used(q))' <=> q \in Asked /\ Used(q)
    BY <1>1, <1>3, <2>1 DEF Asked
  <2>3. {p \in Asked : Used(p)}' = {p \in Asked : Used(p)}
    BY <2>2
  <2> QED BY <1>1, <2>3 DEF Taken, Lost, Consumed
<1>5. Lines'
  BY <1>1, <1>2, <1>4 DEF Lines
<1>6. \A q \in 1..Questions : Over(q) => Over(q)' /\ q # ask.n + 1
  BY <1>1 DEF Over
<1>7. Threads'
  <2>1. outcome[ask.n + 1] = [how |-> "none", answer |-> NoAnswer]
    BY <1>1, <1>2 DEF Threads
  <2>2. /\ \A q \in readers : Over(q) /\ q \in 1..Questions
        /\ \A pair \in swallowed : pair[1] \in 1..Questions
    BY <1>1, <1>2 DEF Threads, Typed, HumanTypeOK
  <2>3. \A q \in readers' : Over(q)' \/ (q = ask'.n /\ at' = "join" /\ box' = NoAnswer)
    BY <1>1, <1>2, <1>6, <2>2
  <2>4. \A pair \in swallowed : Over(pair[1])' /\ pair[1] \notin readers'
    BY <1>1, <1>2, <1>6, <2>2 DEF Threads
  <2> QED BY <1>1, <1>2, <2>1, <2>3, <2>4 DEF Threads
<1> QED BY <1>5, <1>7 DEF StdinInv

\* A question ends, with what its thread read or without.
LEMMA EndCounts == ASSUME Typed, StdinInv, mode = "stdin", Conclude \/ Expire PROVE StdinInv'
<1>1. Lines /\ Threads /\ at = "join" /\ ask.n \in 1..Questions
  BY DEF StdinInv, Threads, Conclude, Expire, Typed, HumanTypeOK
<1>2. PICK how \in {"accepted", "refused", "timeout"} :
        /\ End(how, box) /\ (how = "timeout" <=> box = NoAnswer)
        /\ UNCHANGED <<readers, lines, eof, swallowed, file, answers>>
  BY DEF Conclude, Expire, Respond, stdin
<1>3. /\ at' = "idle" /\ box' = NoAnswer /\ ask' = ask /\ mode' = mode
      /\ outcome'[ask.n] = [how |-> how, answer |-> box]
      /\ \A q \in 1..Questions \ {ask.n} : outcome'[q] = outcome[q]
  BY <1>1, <1>2 DEF End, Typed, HumanTypeOK
<1>4. Taken' = Taken
  <2>1. /\ \A q \in 1..Questions \ {ask.n} : Used(q)' = Used(q)
        /\ \A q \in 1..Questions : q = ask.n => ~Used(q) /\ (Used(q)' <=> box \notin {NoAnswer, 0})
    BY <1>1, <1>3 DEF Used, Threads
  <2>2. Asked' = Asked /\ Asked \subseteq 1..Questions /\ ask.n \in Asked
    BY <1>1, <1>3, HumanAssumption DEF Asked
  <2>3. ASSUME NEW x PROVE x \in Taken' <=> x \in Taken
    <3>1. x \in Taken' <=> \E q \in Asked : Used(q)' /\ x = outcome'[q].answer
      BY <1>3, <2>2 DEF Taken
    <3>2. x \in Taken <=> (\E q \in Asked : Used(q) /\ x = outcome[q].answer) \/ (x = box /\ box \notin {NoAnswer, 0})
      BY DEF Taken
    <3>3. /\ outcome'[ask.n].answer = box
          /\ \A q \in Asked : q # ask.n => (Used(q)' <=> Used(q)) /\ outcome'[q].answer = outcome[q].answer
      <4>1. outcome'[ask.n].answer = box
        BY <1>3
      <4>2. ASSUME NEW q \in Asked, q # ask.n
            PROVE  (Used(q)' <=> Used(q)) /\ outcome'[q] = outcome[q]
        <5>1. q \in 1..Questions \ {ask.n}
          BY <2>2, <4>2
        <5> QED BY <1>3, <2>1, <5>1
      <4> QED BY <4>1, <4>2
    <3>4. x \in Taken' => x \in Taken
      <4> SUFFICES ASSUME NEW q \in Asked, Used(q)', x = outcome'[q].answer PROVE x \in Taken
        BY <3>1
      <4>1. CASE q = ask.n
        BY <2>1, <2>2, <3>2, <3>3, <4>1
      <4>2. CASE q # ask.n
        BY <3>2, <3>3, <4>2
      <4> QED BY <4>1, <4>2
    <3>5. x \in Taken => x \in Taken'
      BY <2>1, <2>2, <3>1, <3>2, <3>3
    <3> QED BY <3>4, <3>5
  <2> QED BY <2>3
<1>5. Lost' = Lost /\ Consumed' = Consumed
  BY <1>2 DEF Lost, Consumed
<1>6. Lines'
  BY <1>1, <1>2, <1>4, <1>5 DEF Lines
<1>7. \A q \in 1..Questions : Over(q) => Over(q)'
  BY <1>1, <1>3 DEF Over
<1>8. ASSUME box = NoAnswer, NEW q, q = ask.n PROVE Over(q)'
  BY <1>1, <1>2, <1>3, <1>8 DEF Over, Typed, HumanTypeOK
<1>9. Threads'
  <2>1. readers \subseteq 1..Questions /\ \A pair \in swallowed : pair[1] \in 1..Questions
    BY DEF Typed, HumanTypeOK
  <2>2. \A q \in readers' : Over(q)'
    BY <1>1, <1>2, <1>7, <1>8, <2>1 DEF Threads
  <2>3. \A pair \in swallowed' : Over(pair[1])' /\ pair[1] \notin readers'
    BY <1>1, <1>2, <1>7, <2>1 DEF Threads
  <2>4. \A q \in 1..Questions : q > ask'.n => outcome'[q] = [how |-> "none", answer |-> NoAnswer]
    BY <1>1, <1>3 DEF Threads
  <2> QED BY <1>1, <1>2, <1>3, <2>2, <2>3, <2>4 DEF Threads
<1> QED BY <1>6, <1>9 DEF StdinInv

\* A line is typed.
LEMMA TypeCounts == ASSUME Typed, StdinInv, mode = "stdin", Type PROVE StdinInv'
<1>1. UNCHANGED <<mode, ask, at, box, outcome, readers, eof, swallowed, file>> /\ Lines /\ Threads
  BY DEF Type, asking, StdinInv
<1>2. /\ lines \in Seq(1..MaxAnswers) /\ Len(answers) + 1 \in 1..MaxAnswers
      /\ Len(answers') = Len(answers) + 1 /\ Len(answers) \in Nat
      /\ lines' = Append(lines, Len(answers) + 1)
  BY AnswerTyped DEF Type, Typed, HumanTypeOK
<1>3. /\ Len(lines) \in Nat /\ Len(lines') = Len(lines) + 1
      /\ \A i \in 1..Len(lines) : lines'[i] = lines[i]
      /\ lines'[Len(lines) + 1] = Len(answers) + 1
  BY <1>2, AppendProperties
<1>4. Consumed' = Consumed /\ Consumed + (Len(lines) + 1) = Len(answers) + 1
  BY <1>2, <1>3 DEF Consumed
<1>5. Taken' = Taken /\ Lost' = Lost
  BY <1>1 DEF Taken, Lost, Asked, Used
<1>6. \A i \in 1..Len(lines') : lines'[i] = Consumed + i
  <2>1. \A i \in 1..Len(lines') : i \in 1..Len(lines) \/ i = Len(lines) + 1
    BY <1>3
  <2> QED BY <1>1, <1>3, <1>4, <2>1 DEF Lines
<1>7. Lines'
  BY <1>1, <1>2, <1>3, <1>4, <1>5, <1>6 DEF Lines
<1>8. Threads'
  BY <1>1 DEF Threads, Over
<1> QED BY <1>1, <1>7, <1>8 DEF StdinInv

\* A thread gets a line, or the end of stdin.
LEMMA ReadCounts ==
  ASSUME Typed, StdinInv, mode = "stdin", NEW q \in 1..Questions, ReadLine(q) PROVE StdinInv'
<1> DEFINE answer == IF lines = <<>> THEN 0 ELSE Head(lines)
<1>1. /\ Lines /\ Threads /\ q \in readers /\ readers' = readers \ {q}
      /\ UNCHANGED <<mode, ask, at, outcome, eof, file, answers>>
      /\ lines' = IF lines = <<>> THEN lines ELSE Tail(lines)
  BY DEF ReadLine, StdinInv
<1>2. \/ q = ask.n /\ at = "join" /\ box' = answer /\ UNCHANGED swallowed
      \/ ~(q = ask.n /\ at = "join") /\ swallowed' = swallowed \cup {<<q, answer>>} /\ UNCHANGED box
  BY DEF ReadLine
<1>3. /\ Len(lines) \in Nat /\ Len(answers) \in Nat /\ lines \in Seq(1..MaxAnswers)
      /\ Consumed \in Nat /\ Consumed = Len(answers) - Len(lines) /\ NoAnswer \notin Nat
  BY <1>1, HumanAssumption DEF Typed, HumanTypeOK, Consumed, Lines
\* What was read is the next answer.
<1>4. /\ Len(lines') <= Len(answers') /\ Len(lines') \in Nat
      /\ \A i \in 1..Len(lines') : lines'[i] = Consumed' + i
      /\ \/ answer = 0 /\ Consumed' = Consumed
         \/ answer = Consumed + 1 /\ Consumed' = Consumed + 1
  <2>1. CASE lines = <<>>
    BY <1>1, <1>3, <2>1 DEF Consumed, Lines
  <2>2. CASE lines # <<>>
    <3>1. /\ Len(lines) \in Nat \ {0} /\ lines' \in Seq(1..MaxAnswers) /\ Len(lines') = Len(lines) - 1
          /\ \A i \in 1..Len(lines') : lines'[i] = lines[i + 1]
          /\ answer = lines[1]
      BY <1>1, <1>3, <2>2, EmptySeq, HeadTailProperties
    <3> HIDE DEF answer
    <3>2. Consumed' = Consumed + 1
      BY <1>1, <1>3, <3>1 DEF Consumed
    <3>3. answer = Consumed + 1
      BY <1>1, <3>1 DEF Lines
    <3>4. \A i \in 1..Len(lines') : i + 1 \in 1..Len(lines) /\ Consumed + (i + 1) = Consumed' + i
      BY <1>3, <3>1, <3>2
    <3>5. \A i \in 1..Len(lines') : lines'[i] = Consumed' + i
      BY <1>1, <3>1, <3>4 DEF Lines
    <3>6. Len(lines') <= Len(answers')
      BY <1>1, <1>3, <3>1 DEF Lines
    <3> QED BY <3>1, <3>2, <3>3, <3>5, <3>6
  <2> QED BY <2>1, <2>2
<1> HIDE DEF answer
<1>5. Consumed + 1 \notin 1..Consumed /\ 1..(Consumed + 1) = (1..Consumed) \cup {Consumed + 1} /\ Consumed + 1 # 0
      /\ Consumed + 1 # NoAnswer /\ 0 # NoAnswer
  BY <1>3
<1>6. {p \in Asked : Used(p)}' = {p \in Asked : Used(p)}
  BY <1>1 DEF Asked, Used
<1> DEFINE news == {answer} \ {0}
<1>7. CASE q = ask.n /\ at = "join" /\ box' = answer /\ UNCHANGED swallowed
  <2>1. box = NoAnswer
    BY <1>1, <1>7 DEF Threads, Over
  <2>2. Taken' = Taken \cup news /\ Lost' = Lost
    BY <1>1, <1>4, <1>5, <1>6, <1>7, <2>1 DEF Taken, Lost
  <2>3. Lines'
    BY <1>1, <1>4, <1>5, <2>2 DEF Lines
  <2>4. Threads'
    <3>1. \A p : Over(p)' = Over(p)
      BY <1>1 DEF Over
    <3>2. ~Over(q)
      BY <1>7 DEF Over
    <3> QED BY <1>1, <1>7, <3>1, <3>2 DEF Threads
  <2> QED BY <2>3, <2>4 DEF StdinInv
<1>8. CASE ~(q = ask.n /\ at = "join") /\ swallowed' = swallowed \cup {<<q, answer>>} /\ UNCHANGED box
  <2>1. Taken' = Taken /\ Lost' = Lost \cup news
    <3>1. Taken' = Taken
      BY <1>1, <1>6, <1>8 DEF Taken
    <3>2. \A x : x \in Lost <=> x # 0 /\ \E pair \in swallowed : x = pair[2]
      BY DEF Lost
    <3>3. \A x : x \in Lost' <=> x # 0 /\ \E pair \in swallowed' : x = pair[2]
      BY DEF Lost
    <3>4. \A x : x \in Lost' <=> x \in Lost \/ (x # 0 /\ x = answer)
      <4>1. <<q, answer>>[2] = answer /\ \A pair : pair \in swallowed' <=> pair \in swallowed \/ pair = <<q, answer>>
        BY <1>8
      <4> QED BY <3>2, <3>3, <4>1
    <3>5. Lost' = Lost \cup news
      BY <3>4
    <3> QED BY <3>1, <3>5
  <2>2. Lines'
    BY <1>1, <1>4, <1>5, <2>1 DEF Lines
  <2>3. Threads'
    <3>1. \A p : Over(p)' = Over(p)
      BY <1>1 DEF Over
    <3>2. Over(q) /\ \A pair \in swallowed : pair[1] # q
      BY <1>1, <1>8 DEF Threads
    <3>3. \A pair \in swallowed' : Over(pair[1])' /\ pair[1] \notin readers'
      BY <1>1, <1>8, <3>1, <3>2 DEF Threads
    <3>4. \A pair, other \in swallowed' : other[1] = pair[1] => other = pair
      BY <1>1, <1>8, <3>2 DEF Threads
    <3> QED BY <1>1, <1>8, <3>1, <3>3, <3>4 DEF Threads
  <2> QED BY <2>2, <2>3 DEF StdinInv
<1> QED BY <1>2, <1>7, <1>8

LEMMA NextCounts == ASSUME Typed, StdinInv, [HumanNext]_humanVars PROVE StdinInv'
<1>1. mode' = mode
  BY DEF HumanNext, Tool, humanVars, Prompt, Callback, Conclude, Expire, Respond, End, Type, CloseStdin, ReadLine,
         ClearOld, Exists, Read, Unlink, OpenFile, WriteFile, asking
<1>2. CASE mode # "stdin"
  BY <1>1, <1>2 DEF StdinInv
<1>3. CASE mode = "stdin"
  <2>1. ~Callback /\ ~ClearOld /\ ~Exists /\ ~Read /\ ~Unlink /\ ~OpenFile /\ ~WriteFile
    BY <1>3 DEF Callback, ClearOld, Exists, Read, Unlink, OpenFile, WriteFile, StdinInv, Threads
  <2>2. ASSUME UNCHANGED <<ask, at, box, outcome, readers, lines, swallowed, file, answers>> PROVE StdinInv'
    <3>1. Taken' = Taken /\ Lost' = Lost /\ Consumed' = Consumed
      BY <2>2 DEF Taken, Lost, Consumed, Asked, Used
    <3>2. Lines'
      BY <1>3, <2>2, <3>1 DEF StdinInv, Lines
    <3>3. Threads'
      BY <1>3, <2>2 DEF StdinInv, Threads, Over
    <3> QED BY <3>2, <3>3 DEF StdinInv
  <2>3. CASE CloseStdin \/ UNCHANGED humanVars
    BY <2>2, <2>3 DEF CloseStdin, humanVars, asking
  <2> QED BY <1>3, <2>1, <2>3, AskCounts, EndCounts, TypeCounts, ReadCounts DEF HumanNext, Tool
<1> QED BY <1>2, <1>3

LEMMA InitCounts == HumanInit => StdinInv
<1> SUFFICES ASSUME HumanInit PROVE StdinInv
  OBVIOUS
<1>1. /\ Len(lines) = 0 /\ Len(answers) = 0 /\ swallowed = {} /\ readers = {} /\ box = NoAnswer /\ at = "idle"
      /\ ask.n = 0 /\ file = NoFile
      /\ \A q \in 1..Questions : outcome[q] = [how |-> "none", answer |-> NoAnswer]
  BY DEF HumanInit
<1>2. Asked = {} /\ Consumed = 0
  BY <1>1 DEF Asked, Consumed
<1>3. Taken = {} /\ Lost = {}
  BY <1>1, <1>2 DEF Taken, Lost
<1>4. Lines
  BY <1>1, <1>2, <1>3 DEF Lines
<1>5. Threads
  BY <1>1 DEF Threads
<1> QED BY <1>4, <1>5 DEF StdinInv

\* Over stdin every line typed is unread, with the question that took it or lost
\* to the thread of an earlier question, which takes at most one, for any number of
\* questions and lines.
THEOREM NothingUnaccounted == HumanSpec => []EveryLineAccounted
BY StdinInvShows, InitTyped, NextTyped, InitCounts, NextCounts, PTL DEF HumanSpec
=============================================================================
