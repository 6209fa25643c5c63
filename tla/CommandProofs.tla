---------------------------- MODULE CommandProofs ----------------------------
(***************************************************************************)
(* AuditTrail for any number of publishers and events, any queue sizes and *)
(* days, faults and timeouts: no record is lost without a reason, kept     *)
(* twice or both, those of one publisher stay in order, and the join count *)
(* of the sink is right.                                                   *)
(*                                                                         *)
(* CommandLine, which closes such a trail at the end of a command, for any *)
(* workflows, replies, test files and command lines: the exit code tells   *)
(* the truth, and so does the audit log.                                   *)
(***************************************************************************)
EXTENDS AuditTrail, CommandLine, SequenceTheorems, TLAPS

-----------------------------------------------------------------------------
(* Queues.                                                                 *)

Items == Records \cup {Stop}

LEMMA StopAndNoneDiffer == Stop \notin Records /\ Nothing \notin Records /\ Stop # Nothing
BY AuditAssumption

LEMMA HoldsRecords == \A q \in Seq(Items) : RecordsOf(q) \subseteq Records
BY DEF RecordsOf, Items

\* A record at the end of a queue.
LEMMA AppendHolds ==
  ASSUME NEW q \in Seq(Items), NEW r \in Records
  PROVE  /\ Append(q, r) \in Seq(Items)
         /\ RecordsOf(Append(q, r)) = RecordsOf(q) \cup {r}
         /\ Sorted(q) /\ (\A s \in RecordsOf(q) : Before(s, r)) => Sorted(Append(q, r))
<1>1. /\ Append(q, r) \in Seq(Items) /\ Len(Append(q, r)) = Len(q) + 1
      /\ Append(q, r)[Len(q) + 1] = r
      /\ \A i \in 1..Len(q) : Append(q, r)[i] = q[i]
  BY DEF Items
<1>2. DOMAIN q = 1..Len(q) /\ DOMAIN Append(q, r) = 1..(Len(q) + 1) /\ Len(q) \in Nat
  BY <1>1
<1> DEFINE a == Append(q, r)
<1> HIDE DEF a
<1>3. RecordsOf(a) = RecordsOf(q) \cup {r}
  <2>1. \A x : x \in {a[i] : i \in DOMAIN a} <=> x \in {q[i] : i \in DOMAIN q} \/ x = r
    BY <1>1, <1>2 DEF a
  <2> QED BY <2>1, StopAndNoneDiffer DEF RecordsOf
<1>4. ASSUME Sorted(q), \A s \in RecordsOf(q) : Before(s, r) PROVE Sorted(a)
  <2> SUFFICES ASSUME NEW i \in DOMAIN a, NEW j \in DOMAIN a, i < j, a[i] \in Records, a[j] \in Records
               PROVE  Before(a[i], a[j])
    BY DEF Sorted
  <2>1. i \in 1..Len(q) /\ a[i] = q[i]
    BY <1>1, <1>2 DEF a
  <2>2. CASE j \in 1..Len(q)
    BY <1>1, <1>2, <1>4, <2>1, <2>2 DEF a, Sorted
  <2>3. CASE j = Len(q) + 1
    <3>1. a[i] \in RecordsOf(q)
      BY <1>2, <2>1, StopAndNoneDiffer DEF RecordsOf
    <3> QED BY <1>1, <1>4, <2>3, <3>1 DEF a
  <2> QED BY <1>2, <2>2, <2>3 DEF a
<1> QED BY <1>1, <1>3, <1>4 DEF a

\* The sentinel at the end of a queue.
LEMMA StopHolds ==
  ASSUME NEW q \in Seq(Items)
  PROVE  /\ Append(q, Stop) \in Seq(Items)
         /\ RecordsOf(Append(q, Stop)) = RecordsOf(q)
         /\ Sorted(q) => Sorted(Append(q, Stop))
<1>1. /\ Append(q, Stop) \in Seq(Items) /\ Len(Append(q, Stop)) = Len(q) + 1
      /\ Append(q, Stop)[Len(q) + 1] = Stop
      /\ \A i \in 1..Len(q) : Append(q, Stop)[i] = q[i]
  BY DEF Items
<1>2. DOMAIN q = 1..Len(q) /\ DOMAIN Append(q, Stop) = 1..(Len(q) + 1) /\ Len(q) \in Nat
  BY <1>1
<1> DEFINE a == Append(q, Stop)
<1> HIDE DEF a
<1>3. RecordsOf(a) = RecordsOf(q)
  <2>1. \A x : x \in {a[i] : i \in DOMAIN a} <=> x \in {q[i] : i \in DOMAIN q} \/ x = Stop
    BY <1>1, <1>2 DEF a
  <2> QED BY <2>1 DEF RecordsOf
<1>4. Sorted(q) => Sorted(a)
  BY <1>1, <1>2, StopAndNoneDiffer DEF a, Sorted
<1> QED BY <1>1, <1>3, <1>4 DEF a

\* The first of a queue.
LEMMA TailHolds ==
  ASSUME NEW q \in Seq(Items), q # <<>>
  PROVE  /\ Tail(q) \in Seq(Items) /\ Head(q) \in Items /\ Len(Tail(q)) = Len(q) - 1
         /\ RecordsOf(q) = RecordsOf(Tail(q)) \cup ({Head(q)} \ {Stop})
         /\ Sorted(q) => Sorted(Tail(q))
         /\ Sorted(q) /\ Head(q) # Stop => \A s \in RecordsOf(Tail(q)) : Before(Head(q), s)
<1> DEFINE t == Tail(q)
<1>1. /\ t \in Seq(Items) /\ Len(q) \in Nat /\ Len(q) > 0 /\ Len(t) = Len(q) - 1
      /\ Head(q) = q[1] /\ q[1] \in Items
      /\ \A i \in 1..Len(t) : t[i] = q[i + 1]
  OBVIOUS
<1>2. DOMAIN q = 1..Len(q) /\ DOMAIN t = 1..Len(t)
  BY <1>1
<1> HIDE DEF t
<1>3. \A x : x \in {q[i] : i \in DOMAIN q} <=> x \in {t[i] : i \in DOMAIN t} \/ x = q[1]
  <2>1. ASSUME NEW i \in DOMAIN q, i # 1 PROVE i - 1 \in DOMAIN t /\ t[i - 1] = q[i]
    BY <1>1, <1>2, <2>1
  <2>2. \A i \in DOMAIN t : i + 1 \in DOMAIN q /\ q[i + 1] = t[i]
    BY <1>1, <1>2
  <2>3. 1 \in DOMAIN q
    BY <1>1, <1>2
  <2> QED BY <2>1, <2>2, <2>3
<1>4. q[1] # Nothing
  BY <1>1, StopAndNoneDiffer DEF Items
<1>5. RecordsOf(q) = RecordsOf(t) \cup ({q[1]} \ {Stop})
  BY <1>3, <1>4 DEF RecordsOf
<1>6. Sorted(q) => Sorted(t)
  <2> SUFFICES ASSUME Sorted(q), NEW i \in DOMAIN t, NEW j \in DOMAIN t, i < j,
                      {t[i], t[j]} \subseteq Records
               PROVE  Before(t[i], t[j])
    BY DEF Sorted
  <2>1. i + 1 \in DOMAIN q /\ j + 1 \in DOMAIN q /\ i + 1 < j + 1 /\ t[i] = q[i + 1] /\ t[j] = q[j + 1]
    BY <1>1, <1>2
  <2> QED BY <2>1 DEF Sorted
<1>7. ASSUME Sorted(q), q[1] # Stop, NEW s \in RecordsOf(t) PROVE Before(q[1], s)
  <2>1. PICK i \in DOMAIN t : t[i] = s
    BY <1>7 DEF RecordsOf
  <2>2. i + 1 \in DOMAIN q /\ 1 \in DOMAIN q /\ 1 < i + 1 /\ q[i + 1] = s
    BY <1>1, <1>2, <2>1
  <2>3. q[1] \in Records /\ s \in Records
    BY <1>1, <1>7, HoldsRecords DEF Items
  <2> QED BY <1>7, <2>2, <2>3 DEF Sorted
<1> QED BY <1>1, <1>5, <1>6, <1>7 DEF t

\* Two files, one behind the other.
LEMMA ConcatHolds ==
  ASSUME NEW p \in Seq(Records), NEW q \in Seq(Records)
  PROVE  /\ p \o q \in Seq(Records)
         /\ RecordsOf(p \o q) = RecordsOf(p) \cup RecordsOf(q)
         /\ Sorted(p) /\ Sorted(q) /\ (\A r \in RecordsOf(p), s \in RecordsOf(q) : Before(r, s))
              => Sorted(p \o q)
<1> DEFINE c == p \o q
<1>1. /\ c \in Seq(Records) /\ Len(p) \in Nat /\ Len(q) \in Nat /\ Len(c) = Len(p) + Len(q)
      /\ \A i \in 1..Len(p) : c[i] = p[i]
      /\ \A i \in 1..Len(q) : c[Len(p) + i] = q[i]
  OBVIOUS
<1>2. DOMAIN p = 1..Len(p) /\ DOMAIN q = 1..Len(q) /\ DOMAIN c = 1..Len(c)
  BY <1>1
<1> HIDE DEF c
<1>3. \A i \in DOMAIN c : \/ i \in DOMAIN p /\ c[i] = p[i]
                          \/ i > Len(p) /\ i - Len(p) \in DOMAIN q /\ c[i] = q[i - Len(p)]
  <2> TAKE i \in DOMAIN c
  <2>1. CASE i <= Len(p)
    BY <1>1, <1>2, <2>1
  <2>2. CASE i > Len(p)
    <3>1. i - Len(p) \in 1..Len(q) /\ Len(p) + (i - Len(p)) = i
      BY <1>1, <1>2, <2>2
    <3> QED BY <1>1, <1>2, <2>2, <3>1
  <2> QED BY <1>1, <1>2, <2>1, <2>2
<1>4. RecordsOf(c) = RecordsOf(p) \cup RecordsOf(q)
  <2>1. \A i \in DOMAIN p : i \in DOMAIN c /\ c[i] = p[i]
    BY <1>1, <1>2
  <2>2. \A i \in DOMAIN q : Len(p) + i \in DOMAIN c /\ c[Len(p) + i] = q[i]
    BY <1>1, <1>2
  <2>3. \A x : x \in {c[i] : i \in DOMAIN c} <=> x \in {p[i] : i \in DOMAIN p} \/ x \in {q[i] : i \in DOMAIN q}
    BY <1>3, <2>1, <2>2
  <2> QED BY <2>3 DEF RecordsOf
<1>5. ASSUME Sorted(p), Sorted(q), \A r \in RecordsOf(p), s \in RecordsOf(q) : Before(r, s)
      PROVE  Sorted(c)
  <2> SUFFICES ASSUME NEW i \in DOMAIN c, NEW j \in DOMAIN c, i < j, {c[i], c[j]} \subseteq Records
               PROVE  Before(c[i], c[j])
    BY DEF Sorted
  <2>1. CASE i \in DOMAIN p /\ j \in DOMAIN p /\ c[i] = p[i] /\ c[j] = p[j]
    BY <1>5, <2>1 DEF Sorted
  <2>2. CASE i > Len(p) /\ j > Len(p)
    <3>1. /\ i - Len(p) \in DOMAIN q /\ c[i] = q[i - Len(p)]
          /\ j - Len(p) \in DOMAIN q /\ c[j] = q[j - Len(p)]
          /\ i - Len(p) < j - Len(p)
      BY <1>1, <1>2, <1>3, <2>2
    <3> QED BY <1>5, <3>1 DEF Sorted
  <2>3. CASE i \in DOMAIN p /\ c[i] = p[i] /\ j > Len(p)
    <3>1. j - Len(p) \in DOMAIN q /\ c[j] = q[j - Len(p)]
      BY <1>1, <1>2, <1>3, <2>3
    <3>2. c[i] \in RecordsOf(p) /\ c[j] \in RecordsOf(q)
      BY <2>3, <3>1, StopAndNoneDiffer DEF RecordsOf
    <3> QED BY <1>5, <3>2
  <2> QED BY <1>1, <1>2, <1>3, <2>1, <2>2, <2>3
<1> QED BY <1>1, <1>4, <1>5 DEF c

\* A part of a queue.
LEMMA PartHolds ==
  ASSUME NEW q \in Seq(Records), NEW hi \in 0..Len(q), NEW lo \in 0..hi
  PROVE  /\ SubSeq(q, lo + 1, hi) \in Seq(Records)
         /\ RecordsOf(SubSeq(q, lo + 1, hi)) = {q[i] : i \in (lo + 1)..hi}
         /\ Sorted(q) => Sorted(SubSeq(q, lo + 1, hi))
         /\ lo = hi => SubSeq(q, lo + 1, hi) = <<>>
<1>1. /\ Len(q) \in Nat /\ hi \in Nat /\ lo \in Nat /\ lo <= hi /\ hi <= Len(q)
      /\ lo + 1 \in Int /\ hi \in Int
  OBVIOUS
<1>2. \A i \in (lo + 1)..hi : q[i] \in Records
  BY <1>1
<1> DEFINE a == SubSeq(q, lo + 1, hi)
<1>3. /\ a \in Seq(Records)
      /\ Len(a) = (IF lo + 1 <= hi THEN hi - (lo + 1) + 1 ELSE 0)
      /\ \A i \in 1..(hi - (lo + 1) + 1) : a[i] = q[(lo + 1) + i - 1]
  BY <1>1, <1>2, SubSeqProperties
<1>4. lo = hi => a = <<>>
  <2>1. lo = hi => hi < lo + 1
    BY <1>1
  <2> QED BY <1>1, <2>1, SubSeqEmpty
<1> HIDE DEF a
<1>5. hi - (lo + 1) + 1 = hi - lo /\ Len(a) = hi - lo
  BY <1>1, <1>3
<1>6. DOMAIN a = 1..(hi - lo)
  BY <1>3, <1>5
<1>7. \A i \in 1..(hi - lo) : lo + i \in (lo + 1)..hi /\ a[i] = q[lo + i]
  <2> TAKE i \in 1..(hi - lo)
  <2>1. (lo + 1) + i - 1 = lo + i /\ lo + i \in (lo + 1)..hi
    BY <1>1
  <2> QED BY <1>3, <1>5, <2>1
<1>8. \A i \in (lo + 1)..hi : i - lo \in 1..(hi - lo) /\ lo + (i - lo) = i
  BY <1>1
<1>9. {a[i] : i \in DOMAIN a} = {q[i] : i \in (lo + 1)..hi}
  <2>1. ASSUME NEW i \in DOMAIN a PROVE a[i] \in {q[k] : k \in (lo + 1)..hi}
    BY <1>6, <1>7
  <2>2. ASSUME NEW i \in (lo + 1)..hi PROVE q[i] \in {a[k] : k \in DOMAIN a}
    <3>1. i - lo \in DOMAIN a /\ a[i - lo] = q[lo + (i - lo)] /\ lo + (i - lo) = i
      BY <1>6, <1>7, <1>8
    <3> QED BY <3>1
  <2> QED BY <2>1, <2>2
<1>10. RecordsOf(a) = {q[i] : i \in (lo + 1)..hi}
  BY <1>2, <1>9, StopAndNoneDiffer DEF RecordsOf
<1>11. ASSUME Sorted(q) PROVE Sorted(a)
  <2> SUFFICES ASSUME NEW i \in DOMAIN a, NEW j \in DOMAIN a, i < j PROVE Before(a[i], a[j])
    BY DEF Sorted
  <2>1. /\ lo + i \in DOMAIN q /\ lo + j \in DOMAIN q /\ lo + i < lo + j
        /\ a[i] = q[lo + i] /\ a[j] = q[lo + j]
    BY <1>1, <1>6, <1>7
  <2>2. {q[lo + i], q[lo + j]} \subseteq Records
    BY <1>2, <1>6, <1>7
  <2> QED BY <1>11, <2>1, <2>2 DEF Sorted
<1> QED BY <1>3, <1>4, <1>10, <1>11 DEF a

\* A queue cut in three.
LEMMA SliceHolds ==
  ASSUME NEW q \in Seq(Records), NEW m \in 0..Len(q), NEW n \in 0..m
  PROVE  /\ SubSeq(q, 1, n) \in Seq(Records) /\ SubSeq(q, n + 1, m) \in Seq(Records)
         /\ RecordsOf(q) = RecordsOf(SubSeq(q, 1, n)) \cup RecordsOf(SubSeq(q, n + 1, m)) \cup Dropped(q, m)
         /\ Dropped(q, m) \subseteq Records
         /\ n = m => SubSeq(q, n + 1, m) = <<>>
         /\ Sorted(q) =>
              /\ Sorted(SubSeq(q, 1, n)) /\ Sorted(SubSeq(q, n + 1, m))
              /\ \A r \in RecordsOf(SubSeq(q, 1, n)), s \in RecordsOf(SubSeq(q, n + 1, m)) \cup Dropped(q, m) :
                   Before(r, s)
              /\ \A r \in RecordsOf(SubSeq(q, n + 1, m)), s \in Dropped(q, m) : Before(r, s)
<1> DEFINE l == Len(q)
           a == SubSeq(q, 1, n)
           b == SubSeq(q, n + 1, m)
           c == Dropped(q, m)
<1>1. l \in Nat /\ m \in Nat /\ n \in Nat /\ n <= m /\ m <= l /\ DOMAIN q = 1..l
      /\ n \in 0..l /\ 0 \in 0..n /\ 0 + 1 = 1 /\ l \in 0..l
  OBVIOUS
<1>2. /\ a \in Seq(Records) /\ RecordsOf(a) = {q[i] : i \in 1..n}
      /\ Sorted(q) => Sorted(a)
  <2>1. /\ SubSeq(q, 0 + 1, n) \in Seq(Records)
        /\ RecordsOf(SubSeq(q, 0 + 1, n)) = {q[i] : i \in (0 + 1)..n}
        /\ Sorted(q) => Sorted(SubSeq(q, 0 + 1, n))
    BY <1>1, PartHolds
  <2> QED BY <1>1, <2>1
<1>3. /\ b \in Seq(Records) /\ RecordsOf(b) = {q[i] : i \in (n + 1)..m}
      /\ Sorted(q) => Sorted(b)
      /\ n = m => b = <<>>
  BY PartHolds
<1>4. c = {q[i] : i \in (m + 1)..l}
  BY <1>1, PartHolds DEF Dropped
<1> HIDE DEF a, b, c, l
<1>5. \A i \in 1..l : q[i] \in Records /\ q[i] \notin {Stop, Nothing}
  BY <1>1, StopAndNoneDiffer
<1>6. RecordsOf(q) = {q[i] : i \in 1..l}
  BY <1>1, <1>5 DEF RecordsOf
<1>7. RecordsOf(q) = RecordsOf(a) \cup RecordsOf(b) \cup c
  <2>1. \A i : i \in 1..l <=> i \in 1..n \/ i \in (n + 1)..m \/ i \in (m + 1)..l
    BY <1>1
  <2> QED BY <1>2, <1>3, <1>4, <1>6, <2>1
<1>8. c \subseteq Records
  <2>1. \A i \in (m + 1)..l : i \in 1..l
    BY <1>1
  <2> QED BY <1>4, <1>5, <2>1
<1>9. ASSUME Sorted(q)
      PROVE  /\ \A r \in RecordsOf(a), s \in RecordsOf(b) \cup c : Before(r, s)
             /\ \A r \in RecordsOf(b), s \in c : Before(r, s)
  <2>1. \A i, j \in 1..l : i < j => Before(q[i], q[j])
    BY <1>1, <1>5, <1>9 DEF Sorted
  <2>2. \A i \in 1..n, j \in (n + 1)..m : i \in 1..l /\ j \in 1..l /\ i < j
    BY <1>1
  <2>3. \A i \in 1..n, j \in (m + 1)..l : i \in 1..l /\ j \in 1..l /\ i < j
    BY <1>1
  <2>4. \A i \in (n + 1)..m, j \in (m + 1)..l : i \in 1..l /\ j \in 1..l /\ i < j
    BY <1>1
  <2>5. /\ \A r \in RecordsOf(a), s \in RecordsOf(b) : Before(r, s)
        /\ \A r \in RecordsOf(a), s \in c : Before(r, s)
        /\ \A r \in RecordsOf(b), s \in c : Before(r, s)
    BY <1>2, <1>3, <1>4, <2>1, <2>2, <2>3, <2>4
  <2> QED BY <2>5
<1> QED BY <1>2, <1>3, <1>7, <1>8, <1>9 DEF a, b, c

-----------------------------------------------------------------------------
(* Places: the stations of the way and the reasons for not being on it.    *)

Places == Stations \cup Reasons

Whereabouts == [x \in Places |-> IF x \in Stations THEN Held(x) ELSE lost[x]]

LEMMA StationsAre ==
  /\ Stations = {"disk", "buffer", "writing", "sinkQ", "delivering", "subQ"}
  /\ Stations \cap Reasons = {}
  /\ Way[1] = "disk" /\ Way[2] = "buffer" /\ Way[3] = "writing"
  /\ Way[4] = "sinkQ" /\ Way[5] = "delivering" /\ Way[6] = "subQ"
<1>1. /\ Way[1] = "disk" /\ Way[2] = "buffer" /\ Way[3] = "writing"
      /\ Way[4] = "sinkQ" /\ Way[5] = "delivering" /\ Way[6] = "subQ"
  BY DEF Way
<1>2. 1..6 = {1, 2, 3, 4, 5, 6}
  OBVIOUS
<1>3. Stations = {"disk", "buffer", "writing", "sinkQ", "delivering", "subQ"}
  BY <1>1, <1>2 DEF Stations
<1> QED BY <1>1, <1>3 DEF Reasons

LEMMA WayDistinct ==
  /\ \A i \in 1..6 : Way[i] \in Places /\ Way[i] \notin Reasons
  /\ \A i, j \in 1..6 : Way[i] = Way[j] => i = j
<1>1. \A i \in 1..6 : i = 1 \/ i = 2 \/ i = 3 \/ i = 4 \/ i = 5 \/ i = 6
  OBVIOUS
<1>2. \A i, j \in 1..6 : Way[i] = Way[j] => i = j
  BY <1>1, StationsAre
<1> QED BY <1>2, StationsAre DEF Places, Stations

AtParts ==
  /\ Whereabouts["disk"] = RecordsOf(disk) /\ Whereabouts["buffer"] = RecordsOf(buf)
  /\ Whereabouts["writing"] = {sinkHand} \ {Nothing} /\ Whereabouts["sinkQ"] = RecordsOf(sinkQ)
  /\ Whereabouts["delivering"] = {subHand} \ {Nothing} /\ Whereabouts["subQ"] = RecordsOf(subQ)
  /\ \A why \in Reasons : Whereabouts[why] = lost[why]

LEMMA AtIs == AtParts /\ AtParts'
<1>1. AtParts
  BY StationsAre DEF AtParts, Whereabouts, Places, Held
<1>2. AtParts'
  BY StationsAre DEF AtParts, Whereabouts, Places, Held
<1> QED BY <1>1, <1>2

\* A record is at one place, if it was published, and at none otherwise.
Once(G, n) ==
  \A r \in Records :
    IF r[2] <= n[r[1]]
    THEN \E x \in Places : r \in G[x] /\ \A y \in Places : r \in G[y] => y = x
    ELSE \A x \in Places : r \notin G[x]

Ordered(G) ==
  \A i, j \in 1..6 : i < j => \A r \in G[Way[i]], s \in G[Way[j]] : Before(r, s)

\* The records M go from place v to place w.
Moves(G, H, v, w, M) ==
  /\ M \subseteq G[v] /\ M \subseteq Records
  /\ H[v] = G[v] \ M /\ H[w] = G[w] \cup M
  /\ \A x \in Places \ {v, w} : H[x] = G[x]

LEMMA MoveOnce ==
  ASSUME NEW G, NEW H, NEW n, NEW v \in Places, NEW w \in Places, v # w, NEW M,
         Moves(G, H, v, w, M), Once(G, n)
  PROVE  Once(H, n)
<1> SUFFICES ASSUME NEW r \in Records
             PROVE  IF r[2] <= n[r[1]]
                    THEN \E x \in Places : r \in H[x] /\ \A y \in Places : r \in H[y] => y = x
                    ELSE \A x \in Places : r \notin H[x]
  BY DEF Once
<1>1. CASE r \in M
  <2>1. r[2] <= n[r[1]] /\ \A y \in Places : r \in G[y] => y = v
    BY <1>1 DEF Once, Moves
  <2>2. r \in H[w] /\ \A y \in Places : r \in H[y] => y = w
    BY <1>1, <2>1 DEF Moves
  <2> QED BY <2>1, <2>2
<1>2. CASE r \notin M
  <2>1. \A x \in Places : r \in H[x] <=> r \in G[x]
    BY <1>2 DEF Moves
  <2> QED BY <2>1 DEF Once
<1> QED BY <1>1, <1>2

\* Going on by one station, before all that stays behind, keeps the order.
LEMMA MoveOn ==
  ASSUME NEW G, NEW H, NEW k \in 1..5, NEW M, Moves(G, H, Way[k + 1], Way[k], M),
         \A r \in M, s \in G[Way[k + 1]] \ M : Before(r, s), Ordered(G)
  PROVE  Ordered(H)
<1> SUFFICES ASSUME NEW i \in 1..6, NEW j \in 1..6, i < j,
                    NEW r \in H[Way[i]], NEW s \in H[Way[j]]
             PROVE  Before(r, s)
  BY DEF Ordered
<1>1. \A l \in 1..6 : \/ l = k /\ H[Way[l]] = G[Way[k]] \cup M
                      \/ l = k + 1 /\ H[Way[l]] = G[Way[k + 1]] \ M
                      \/ l # k /\ l # k + 1 /\ H[Way[l]] = G[Way[l]]
  <2> TAKE l \in 1..6
  <2>1. k \in 1..6 /\ k + 1 \in 1..6
    OBVIOUS
  <2> QED BY <2>1, WayDistinct DEF Moves
<1>2. k \in 1..6 /\ k + 1 \in 1..6 /\ M \subseteq G[Way[k + 1]]
  BY DEF Moves
<1>3. CASE r \in G[Way[i]] /\ s \in G[Way[j]]
  BY <1>3 DEF Ordered
<1>4. CASE r \notin G[Way[i]]
  <2>1. i = k /\ r \in M
    BY <1>1, <1>4
  <2>2. CASE j = k + 1
    BY <1>1, <2>1, <2>2
  <2>3. CASE j # k + 1
    <3>1. s \in G[Way[j]] /\ k + 1 < j
      BY <1>1, <2>1, <2>3
    <3> QED BY <1>2, <2>1, <3>1 DEF Ordered
  <2> QED BY <2>2, <2>3
<1>5. CASE r \in G[Way[i]] /\ s \notin G[Way[j]]
  <2>1. j = k /\ s \in M /\ i < k + 1
    BY <1>1, <1>5
  <2> QED BY <1>2, <1>5, <2>1 DEF Ordered
<1> QED BY <1>3, <1>4, <1>5

\* So does leaving the way.
LEMMA MoveOff ==
  ASSUME NEW G, NEW H, NEW k \in 1..6, NEW why \in Reasons, NEW M,
         Moves(G, H, Way[k], why, M), Ordered(G)
  PROVE  Ordered(H)
<1>1. \A l \in 1..6 : H[Way[l]] \subseteq G[Way[l]]
  <2> TAKE l \in 1..6
  <2>1. CASE l = k
    BY <2>1 DEF Moves
  <2>2. CASE l # k
    BY <2>2, WayDistinct DEF Moves
  <2> QED BY <2>1, <2>2
<1> QED BY <1>1 DEF Ordered

\* A record that is published appears at one place.
Arrives(G, H, w, r) ==
  H[w] = G[w] \cup {r} /\ \A x \in Places \ {w} : H[x] = G[x]

LEMMA ArriveOnce ==
  ASSUME NEW G, NEW H, NEW n \in [Publishers -> 0..K], NEW p \in Publishers, n[p] < K,
         NEW w \in Places, Arrives(G, H, w, <<p, n[p] + 1>>), Once(G, n)
  PROVE  Once(H, [n EXCEPT ![p] = @ + 1])
<1> DEFINE m == [n EXCEPT ![p] = @ + 1]
           new == <<p, n[p] + 1>>
<1> SUFFICES ASSUME NEW r \in Records
             PROVE  IF r[2] <= m[r[1]]
                    THEN \E x \in Places : r \in H[x] /\ \A y \in Places : r \in H[y] => y = x
                    ELSE \A x \in Places : r \notin H[x]
  BY DEF Once
<1>1. K \in Nat /\ n[p] \in Nat /\ n[p] + 1 \in Nat
  BY AuditAssumption
<1>2. r[1] \in Publishers /\ r[2] \in 1..K /\ r = <<r[1], r[2]>> /\ n[r[1]] \in 0..K
  BY DEF Records
<1>3. CASE r = new
  <2>1. r[1] = p /\ r[2] = n[p] + 1 /\ m[p] = n[p] + 1
    BY <1>3
  <2>2. \A x \in Places : r \notin G[x]
    BY <1>1, <2>1 DEF Once
  <2>3. r \in H[w] /\ \A y \in Places : r \in H[y] => y = w
    BY <1>3, <2>2 DEF Arrives
  <2> QED BY <1>1, <2>1, <2>3
<1>4. CASE r # new
  <2>1. r[2] <= m[r[1]] <=> r[2] <= n[r[1]]
    <3>1. CASE r[1] = p
      <4>1. r[2] # n[p] + 1
        BY <1>2, <1>4, <3>1
      <4> QED BY <1>1, <1>2, <3>1, <4>1
    <3>2. CASE r[1] # p
      BY <1>2, <3>2
    <3> QED BY <3>1, <3>2
  <2>2. \A x \in Places : r \in H[x] <=> r \in G[x]
    BY <1>4 DEF Arrives
  <2>3. IF r[2] <= n[r[1]]
        THEN \E x \in Places : r \in G[x] /\ \A y \in Places : r \in G[y] => y = x
        ELSE \A x \in Places : r \notin G[x]
    BY DEF Once
  <2> QED BY <2>1, <2>2, <2>3
<1> QED BY <1>3, <1>4

\* What was published before is before a new record of the same publisher.
LEMMA EarlierBefore ==
  ASSUME NEW G, NEW n \in [Publishers -> 0..K], NEW p \in Publishers, Once(G, n),
         NEW x \in Places, NEW s \in G[x], s \in Records
  PROVE  Before(s, <<p, n[p] + 1>>)
<1>1. s[2] <= n[s[1]]
  BY DEF Once
<1>2. s[1] \in Publishers /\ s[2] \in Nat /\ n[p] \in Nat
  BY AuditAssumption DEF Records
<1> QED BY <1>1, <1>2 DEF Before

LEMMA ArriveLast ==
  ASSUME NEW G, NEW H, NEW r, Arrives(G, H, Way[6], r), Ordered(G),
         \A i \in 1..6 : \A s \in G[Way[i]] : Before(s, r)
  PROVE  Ordered(H)
<1> SUFFICES ASSUME NEW i \in 1..6, NEW j \in 1..6, i < j,
                    NEW q \in H[Way[i]], NEW s \in H[Way[j]]
             PROVE  Before(q, s)
  BY DEF Ordered
<1>1. i # 6 /\ H[Way[i]] = G[Way[i]]
  BY WayDistinct DEF Arrives
<1>2. s \in G[Way[j]] \/ s = r
  BY WayDistinct DEF Arrives
<1> QED BY <1>1, <1>2 DEF Ordered

LEMMA ArriveOff ==
  ASSUME NEW G, NEW H, NEW r, NEW why \in Reasons, Arrives(G, H, why, r), Ordered(G)
  PROVE  Ordered(H)
<1>1. \A i \in 1..6 : H[Way[i]] = G[Way[i]]
  BY WayDistinct DEF Arrives
<1> QED BY <1>1 DEF Ordered

-----------------------------------------------------------------------------
(* The two threads and the one that closes: types, what a record in hand   *)
(* says of its thread, and that the sink's sentinel is sent once, without  *)
(* which its join count would be wrong.                                    *)

BeforeSinkPut == {"open", "put", "join", "flush", "sinkClose", "sinkPut"}

SentinelOnce ==
  /\ closer \in BeforeSinkPut => sinkW \in {"loop", "dead"} /\ \A i \in DOMAIN sinkQ : sinkQ[i] # Stop
  /\ sinkW \in {"drain", "stopped"} => \A i \in DOMAIN sinkQ : sinkQ[i] # Stop
  /\ \A i, j \in DOMAIN sinkQ : sinkQ[i] = Stop /\ sinkQ[j] = Stop => i = j

Hands ==
  /\ \A p \in inHandler : sent[p] < config.sends[p]
  /\ wfh # 0 => sinkHand # Nothing
  /\ sinkHand # Nothing => sinkW # "dead"
  /\ fh = 0 => buf = <<>>
  /\ wfh # 0 => wfh = fh \/ fh = 0

Threads == TypeOK /\ Hands /\ JoinCount /\ SentinelOnce

LEMMA ConfigTyped ==
  TypeOK => /\ config.sends \in [Publishers -> 0..K]
            /\ K \in Nat
BY AuditAssumption DEF TypeOK

LEMMA InitThreads == Init => Threads
<1> SUFFICES ASSUME Init PROVE Threads
  OBVIOUS
<1> USE AuditAssumption DEF Init
<1>1. TypeOK
  <2>1. <<>> \in Seq(Records \cup {Stop}) /\ <<>> \in Seq(Records)
    OBVIOUS
  <2>2. sent \in [Publishers -> 0..K] /\ lost \in [Reasons -> SUBSET Records]
    OBVIOUS
  <2>3. day \in 1..MaxDay /\ dayKey \in 0..MaxDay /\ fh \in 0..opens /\ wfh \in 0..opens
        /\ stray \in 0..opens
    OBVIOUS
  <2> QED BY <2>1, <2>2, <2>3 DEF TypeOK
<1>2. Hands
  BY DEF Hands
<1>3. JoinCount
  BY DEF JoinCount
<1>4. SentinelOnce
  BY DEF SentinelOnce, BeforeSinkPut
<1> QED BY <1>1, <1>2, <1>3, <1>4 DEF Threads

\* The join count, case by case.
Owes(u, n, hand, w) ==
  /\ hand = Nothing /\ w # "drain" => u = n
  /\ hand = Nothing /\ w = "drain" => u = n + 1
  /\ hand # Nothing /\ w # "drain" => u = n + 1
  /\ hand # Nothing /\ w = "drain" => u = n + 2

LEMMA CountIs ==
  ASSUME NEW u, NEW n \in Nat, NEW hand, NEW w
  PROVE  u = n + (IF hand = Nothing THEN 0 ELSE 1) + (IF w = "drain" THEN 1 ELSE 0)
           <=> Owes(u, n, hand, w)
<1> n + 0 + 0 = n /\ n + 0 + 1 = n + 1 /\ n + 1 + 0 = n + 1 /\ n + 1 + 1 = n + 2
  OBVIOUS
<1>1. CASE hand = Nothing /\ w = "drain"
  BY <1>1 DEF Owes
<1>2. CASE hand = Nothing /\ w # "drain"
  BY <1>2 DEF Owes
<1>3. CASE hand # Nothing /\ w = "drain"
  BY <1>3 DEF Owes
<1>4. CASE hand # Nothing /\ w # "drain"
  BY <1>4 DEF Owes
<1> QED BY <1>1, <1>2, <1>3, <1>4

LEMMA JoinCountIs ==
  /\ Len(sinkQ) \in Nat =>
       (JoinCount <=> (sinkW # "dead" => Owes(unfinished, Len(sinkQ), sinkHand, sinkW)))
  /\ Len(sinkQ)' \in Nat =>
       (JoinCount' <=> (sinkW' # "dead" => Owes(unfinished', Len(sinkQ'), sinkHand', sinkW')))
BY CountIs DEF JoinCount

\* A record more in the sink's queue, and one more task.
LEMMA SinkQueued ==
  ASSUME Threads, NEW r \in Records, sinkQ' = Append(sinkQ, r), unfinished' = unfinished + 1,
         UNCHANGED <<sinkW, sinkHand, closer>>
  PROVE  JoinCount' /\ SentinelOnce'
<1> USE DEF Threads
<1>1. sinkQ \in Seq(Items) /\ Len(sinkQ') = Len(sinkQ) + 1 /\ Len(sinkQ) \in Nat
  BY DEF TypeOK, Items
<1>2. DOMAIN sinkQ' = 1..(Len(sinkQ) + 1) /\ DOMAIN sinkQ = 1..Len(sinkQ)
      /\ \A i \in 1..Len(sinkQ) : sinkQ'[i] = sinkQ[i]
  BY <1>1
<1>3. sinkQ'[Len(sinkQ) + 1] = r /\ r # Stop
  BY <1>1, StopAndNoneDiffer
<1>4. JoinCount'
  <2>1. unfinished \in Nat
    BY DEF TypeOK
  <2> HIDE DEF Threads
  <2>2. JoinCount
    BY DEF Threads
  <2> QED BY <1>1, <2>1, <2>2, JoinCountIs DEF Owes
<1>5. SentinelOnce'
  BY <1>1, <1>2, <1>3 DEF SentinelOnce
<1> QED BY <1>4, <1>5

LEMMA SinkPutStopThreads == Threads /\ SinkPutStop => JoinCount' /\ SentinelOnce'
<1> SUFFICES ASSUME Threads, SinkPutStop PROVE JoinCount' /\ SentinelOnce'
  OBVIOUS
<1> USE DEF Threads, SinkPutStop, sub, bus, file
<1>1. sinkQ \in Seq(Items) /\ Len(sinkQ') = Len(sinkQ) + 1 /\ Len(sinkQ) \in Nat
  BY DEF TypeOK, Items
<1>2. DOMAIN sinkQ' = 1..(Len(sinkQ) + 1) /\ DOMAIN sinkQ = 1..Len(sinkQ)
      /\ \A i \in 1..Len(sinkQ) : sinkQ'[i] = sinkQ[i]
  BY <1>1
<1>3. sinkW \in {"loop", "dead"} /\ \A i \in DOMAIN sinkQ : sinkQ[i] # Stop
  BY DEF SentinelOnce, BeforeSinkPut
<1>4. JoinCount'
  <2>1. unfinished \in Nat /\ unfinished' = unfinished + 1 /\ UNCHANGED <<sinkW, sinkHand>>
    BY DEF TypeOK
  <2> HIDE DEF Threads
  <2>2. JoinCount
    BY DEF Threads
  <2> QED BY <1>1, <2>1, <2>2, JoinCountIs DEF Owes
<1>5. SentinelOnce'
  BY <1>1, <1>2, <1>3 DEF SentinelOnce, BeforeSinkPut
<1> QED BY <1>4, <1>5

LEMMA SinkGetThreads == Threads /\ SinkGet => JoinCount' /\ SentinelOnce'
<1> SUFFICES ASSUME Threads, SinkGet PROVE JoinCount' /\ SentinelOnce'
  OBVIOUS
<1> USE DEF Threads, SinkGet, sub, bus, file
<1>1. sinkQ \in Seq(Items) /\ sinkQ # <<>>
  BY DEF TypeOK, Items
<1>2. /\ Len(sinkQ) \in Nat /\ Len(sinkQ) > 0 /\ Len(sinkQ') = Len(sinkQ) - 1
      /\ sinkQ' \in Seq(Items) /\ Head(sinkQ) = sinkQ[1] /\ sinkQ[1] \in Items
      /\ \A i \in 1..Len(sinkQ') : sinkQ'[i] = sinkQ[i + 1]
  BY <1>1
<1>3. DOMAIN sinkQ' = 1..Len(sinkQ') /\ DOMAIN sinkQ = 1..Len(sinkQ)
  BY <1>2
<1>4. \A i \in DOMAIN sinkQ' : i + 1 \in DOMAIN sinkQ /\ sinkQ'[i] = sinkQ[i + 1] /\ i + 1 # 1
  BY <1>2, <1>3
<1>5. 1 \in DOMAIN sinkQ
  BY <1>2, <1>3
<1>6. sinkQ[1] # Nothing
  BY <1>2, StopAndNoneDiffer DEF Items
<1>7. sinkQ[1] = Stop => sinkW = "loop" /\ sinkW' = "drain" /\ sinkHand' = sinkHand
  BY <1>2, <1>5 DEF SentinelOnce
<1>8. sinkQ[1] # Stop => sinkW' = sinkW /\ sinkHand' = sinkQ[1]
  BY <1>2
<1>9. JoinCount'
  <2>1. unfinished \in Nat /\ unfinished' = unfinished /\ sinkHand = Nothing
    BY DEF TypeOK
  <2> HIDE DEF Threads, SinkGet
  <2>2. JoinCount
    BY DEF Threads
  <2>3. CASE sinkQ[1] = Stop
    BY <1>2, <1>7, <2>1, <2>2, <2>3, JoinCountIs DEF Owes
  <2>4. CASE sinkQ[1] # Stop
    BY <1>2, <1>6, <1>8, <2>1, <2>2, <2>4, JoinCountIs DEF Owes
  <2> QED BY <2>3, <2>4
<1>10. SentinelOnce'
  <2>1. closer' \in BeforeSinkPut => sinkW' \in {"loop", "dead"} /\ \A i \in DOMAIN sinkQ' : sinkQ'[i] # Stop
    BY <1>4, <1>5, <1>7, <1>8 DEF SentinelOnce
  <2>2. sinkW' \in {"drain", "stopped"} => \A i \in DOMAIN sinkQ' : sinkQ'[i] # Stop
    <3>1. CASE sinkQ[1] = Stop
      BY <1>4, <1>5, <3>1 DEF SentinelOnce
    <3>2. CASE sinkQ[1] # Stop
      BY <1>4, <1>8, <3>2 DEF SentinelOnce
    <3> QED BY <3>1, <3>2
  <2>3. \A i, j \in DOMAIN sinkQ' : sinkQ'[i] = Stop /\ sinkQ'[j] = Stop => i = j
    <3> TAKE i, j \in DOMAIN sinkQ'
    <3> HAVE sinkQ'[i] = Stop /\ sinkQ'[j] = Stop
    <3>1. i + 1 = j + 1
      BY <1>4 DEF SentinelOnce
    <3>2. i \in Nat /\ j \in Nat
      BY <1>2, <1>3
    <3> QED BY <3>1, <3>2
  <2> QED BY <2>1, <2>2, <2>3 DEF SentinelOnce
<1> QED BY <1>9, <1>10

\* A task is done: the writer's hand is free, or its drain is over.
LEMMA TaskDoneThreads ==
  ASSUME Threads, UNCHANGED <<sinkQ, closer>>, unfinished' = unfinished - 1,
         \/ /\ sinkHand # Nothing /\ sinkHand' = Nothing
            /\ sinkW' = sinkW \/ sinkW' = "dead"
         \/ sinkHand = Nothing /\ UNCHANGED sinkHand /\ sinkW = "drain" /\ sinkW' = "stopped"
  PROVE  unfinished' \in Nat /\ JoinCount' /\ SentinelOnce'
<1> USE DEF Threads
<1>1. Len(sinkQ) \in Nat
  BY DEF TypeOK
<1>2. sinkW # "dead"
  BY DEF Hands
<1>3. unfinished' \in Nat /\ JoinCount'
  <2>1. unfinished \in Nat /\ JoinCount
    BY DEF TypeOK
  <2> HIDE DEF Threads
  <2>2. CASE sinkHand # Nothing
    BY <1>1, <1>2, <2>1, <2>2, JoinCountIs DEF Owes
  <2>3. CASE sinkHand = Nothing
    BY <1>1, <2>1, <2>3, JoinCountIs DEF Owes
  <2> QED BY <2>2, <2>3
<1>4. SentinelOnce'
  BY DEF SentinelOnce
<1> QED BY <1>3, <1>4

\* Nothing of the sink's queue, thread and hand changes, and close() does not go back.
LEMMA SinkIdle ==
  ASSUME Threads, UNCHANGED <<sinkQ, sinkW, sinkHand, unfinished>>,
         closer' \in BeforeSinkPut => closer \in BeforeSinkPut
  PROVE  JoinCount' /\ SentinelOnce'
BY DEF Threads, JoinCount, SentinelOnce





-----------------------------------------------------------------------------
(* Every step keeps the threads in order.                                   *)

LEMMA QueuesTyped ==
  TypeOK => /\ subQ \in Seq(Items) /\ sinkQ \in Seq(Items)
            /\ Len(sinkQ) \in Nat
BY DEF TypeOK, Items

LEMMA BusThreads == ASSUME Threads, Publishing PROVE Threads'
<1> USE DEF Threads
<1>1. PICK p \in Publishers : Publish(p) \/ OnEvent(p)
  BY DEF Publishing
<1>2. /\ UNCHANGED <<config, subW, subHand, admitted, sink, file, day, closer, timedOut, subscribed>>
      /\ inHandler' \in SUBSET Publishers /\ late' \in SUBSET Records
      /\ subQ' \in Seq(Items) /\ lost' \in [Reasons -> SUBSET Records]
      /\ sent' \in [Publishers -> 0..K]
      /\ \A q \in inHandler' : sent'[q] < config'.sends[q]
  <2>1. /\ config.sends[p] \in 0..K /\ sent[p] \in 0..K /\ K \in Nat
        /\ config.sends \in [Publishers -> 0..K] /\ sent \in [Publishers -> 0..K]
        /\ inHandler \in SUBSET Publishers /\ late \in SUBSET Records
        /\ lost \in [Reasons -> SUBSET Records] /\ subQ \in Seq(Items)
    BY ConfigTyped, QueuesTyped DEF TypeOK
  <2>2. sent[p] < config.sends[p]
    BY <1>1 DEF Publish, OnEvent, Hands
  <2>3. Next1(p) \in Records /\ sent[p] + 1 \in 0..K
    BY <2>1, <2>2 DEF Next1, Records
  <2>4. CASE Publish(p)
    <3> DEFINE r == Next1(p)
    <3>1. /\ config' = config /\ p \notin inHandler /\ r \in Records
          /\ \/ inHandler' = inHandler \cup {p} /\ sent' = sent /\ lost' = lost
             \/ /\ inHandler' = inHandler /\ sent' = [sent EXCEPT ![p] = @ + 1]
                /\ lost' = [lost EXCEPT !["unheard"] = @ \cup {r}]
      BY <2>3, <2>4 DEF Publish, Lose, Without
    <3> HIDE DEF r
    <3>2. \A q \in inHandler' : sent'[q] < config'.sends[q]
      <4>1. \A q \in inHandler : sent[q] < config.sends[q]
        BY DEF Hands
      <4>2. \A q \in inHandler : sent'[q] = sent[q]
        BY <2>1, <3>1
      <4>3. CASE inHandler' = inHandler
        BY <3>1, <4>1, <4>2, <4>3
      <4>4. CASE inHandler' = inHandler \cup {p} /\ sent' = sent
        BY <2>2, <3>1, <4>1, <4>4
      <4> QED BY <3>1, <4>3, <4>4
    <3>3. sent' \in [Publishers -> 0..K]
      BY <2>1, <2>3, <3>1
    <3>4. lost' \in [Reasons -> SUBSET Records]
      <4>1. [lost EXCEPT !["unheard"] = @ \cup {r}] \in [Reasons -> SUBSET Records]
        BY <2>1, <3>1
      <4> QED BY <2>1, <3>1, <4>1
    <3> QED BY <2>1, <2>4, <3>2, <3>3, <3>4 DEF Publish, sub
  <2>5. CASE OnEvent(p)
    <3>1. subQ' \in Seq(Items) /\ lost' \in [Reasons -> SUBSET Records]
      <4> DEFINE r == Next1(p)
      <4>1. Append(subQ, r) \in Seq(Items) /\ r \in Records
        BY <2>1, <2>3, AppendHolds
      <4>2. \/ subQ' = subQ /\ (\/ lost' = [lost EXCEPT !["filtered"] = @ \cup {r}]
                                \/ lost' = [lost EXCEPT !["unbuilt"] = @ \cup {r}]
                                \/ lost' = [lost EXCEPT !["sub_full"] = @ \cup {r}])
            \/ subQ' = Append(subQ, r) /\ lost' = lost
        BY <2>5 DEF OnEvent, Lose, Without
      <4> HIDE DEF r
      <4> QED BY <2>1, <4>1, <4>2
    <3>2. /\ sent' = [sent EXCEPT ![p] = @ + 1] /\ inHandler' = inHandler \ {p}
          /\ sent' \in [Publishers -> 0..K] /\ config' = config
      BY <2>1, <2>3, <2>5 DEF OnEvent
    <3>3. \A q \in inHandler' : sent'[q] < config'.sends[q]
      BY <2>1, <3>2 DEF Hands
    <3> QED BY <2>1, <2>3, <2>5, <3>1, <3>2, <3>3 DEF OnEvent
  <2> QED BY <1>1, <2>4, <2>5
<1>3. TypeOK'
  BY <1>2 DEF TypeOK, Items, sink, file
<1>4. Hands'
  BY <1>2 DEF Hands, sink, file
<1>5. JoinCount' /\ SentinelOnce'
  BY <1>2, SinkIdle DEF sink
<1> QED BY <1>3, <1>4, <1>5

LEMMA SubGetThreads == ASSUME Threads, SubGet PROVE Threads'
<1> USE DEF Threads, SubGet, bus, sink, file
<1>1. JoinCount' /\ SentinelOnce'
  BY SinkIdle
<1>2. /\ subQ' \in Seq(Items) /\ subHand' \in Records \cup {Nothing}
      /\ subW' \in {"loop", "drain", "stopped"}
  BY QueuesTyped, TailHolds DEF TypeOK, Items
<1>3. TypeOK'
  BY <1>2 DEF TypeOK, Items
<1>4. Hands'
  BY DEF Hands
<1> QED BY <1>1, <1>3, <1>4

LEMMA SubStopThreads == ASSUME Threads, SubStop PROVE Threads'
<1> USE DEF Threads, SubStop, bus, sink, file
<1>1. JoinCount' /\ SentinelOnce'
  BY SinkIdle
<1>2. TypeOK'
  BY DEF TypeOK
<1>3. Hands'
  BY DEF Hands
<1> QED BY <1>1, <1>2, <1>3

LEMMA AssertOpenThreads == ASSUME Threads, AssertOpen PROVE Threads'
<1> USE DEF Threads, AssertOpen, bus, sink, file
<1>1. subHand \in Records /\ lost \in [Reasons -> SUBSET Records]
  BY DEF TypeOK
<1>2. JoinCount' /\ SentinelOnce'
  BY SinkIdle
<1>3. /\ lost' \in [Reasons -> SUBSET Records] /\ subHand' \in Records \cup {Nothing}
      /\ admitted' \in BOOLEAN /\ (admitted' => subHand' # Nothing)
  BY <1>1 DEF Lose, Without, TypeOK
<1>4. TypeOK'
  BY <1>3 DEF TypeOK
<1>5. Hands'
  BY DEF Hands
<1> QED BY <1>2, <1>4, <1>5

LEMMA DeliverThreads == ASSUME Threads, Deliver PROVE Threads'
<1> USE DEF Threads, Deliver, bus, file
<1>1. subHand \in Records /\ sinkQ \in Seq(Items) /\ unfinished \in Nat
      /\ lost \in [Reasons -> SUBSET Records]
  BY QueuesTyped DEF TypeOK
<1>2. JoinCount' /\ SentinelOnce'
  BY <1>1, SinkIdle, SinkQueued
<1>3. sinkQ' \in Seq(Items) /\ unfinished' \in Nat /\ lost' \in [Reasons -> SUBSET Records]
  BY <1>1, AppendHolds DEF Lose, Without
<1>4. TypeOK'
  BY <1>3 DEF TypeOK, Items
<1>5. Hands'
  BY DEF Hands
<1> QED BY <1>2, <1>4, <1>5

LEMMA SinkGetKeeps == ASSUME Threads, SinkGet PROVE Threads'
<1> USE DEF Threads, SinkGet, bus, sub, file
<1>1. JoinCount' /\ SentinelOnce'
  BY SinkGetThreads
<1>2. /\ sinkQ' \in Seq(Items) /\ sinkHand' \in Records \cup {Nothing}
      /\ sinkW' \in {"loop", "drain", "stopped", "dead"}
  BY QueuesTyped, TailHolds DEF TypeOK, Items
<1>3. TypeOK'
  BY <1>2 DEF TypeOK, Items
<1>4. Hands'
  BY DEF Hands
<1> QED BY <1>1, <1>3, <1>4

LEMMA SinkStopThreads == ASSUME Threads, SinkStop PROVE Threads'
<1> USE DEF Threads, SinkStop, bus, sub, file
<1>1. unfinished' \in Nat /\ JoinCount' /\ SentinelOnce'
  BY TaskDoneThreads
<1>2. TypeOK'
  BY <1>1 DEF TypeOK
<1>3. Hands'
  BY DEF Hands
<1> QED BY <1>1, <1>2, <1>3

LEMMA EnsureNothingThreads == ASSUME Threads, EnsureNothing PROVE Threads'
<1> USE DEF Threads, EnsureNothing, bus, sub
<1>1. sinkHand \in Records /\ lost \in [Reasons -> SUBSET Records] /\ fh \in 0..opens
  BY DEF TypeOK
<1>2. CASE fh = 0
  <2>1. unfinished' \in Nat /\ JoinCount' /\ SentinelOnce'
    BY <1>2, TaskDoneThreads DEF TaskDone
  <2>2. lost' \in [Reasons -> SUBSET Records]
    BY <1>1, <1>2 DEF Lose, Without
  <2>3. TypeOK'
    BY <1>2, <2>1, <2>2 DEF TypeOK, TaskDone
  <2>4. Hands'
    BY <1>2 DEF Hands, TaskDone
  <2> QED BY <2>1, <2>3, <2>4
<1>3. CASE fh # 0
  <2>1. JoinCount' /\ SentinelOnce'
    BY <1>3, SinkIdle
  <2>2. TypeOK'
    BY <1>3 DEF TypeOK
  <2>3. Hands'
    BY <1>3 DEF Hands
  <2> QED BY <2>1, <2>2, <2>3
<1> QED BY <1>2, <1>3

\* Lines of the buffer go to disk or are lost.
LEMMA SpiltTyped ==
  ASSUME TypeOK, NEW q \in Seq(Records), NEW m \in 0..Len(q), NEW n \in 0..Len(q), Spilt(q, n, m)
  PROVE  /\ n \in 0..m
         /\ disk' \in Seq(Records) /\ buf' \in Seq(Records)
         /\ Without(Dropped(q, m), "unwritten") \in [Reasons -> SUBSET Records]
         /\ n = m => buf' = <<>>
<1>1. n \in 0..m /\ disk' = disk \o SubSeq(q, 1, n) /\ buf' = SubSeq(q, n + 1, m)
  BY DEF Spilt
<1>2. /\ SubSeq(q, 1, n) \in Seq(Records) /\ buf' \in Seq(Records) /\ Dropped(q, m) \subseteq Records
      /\ n = m => buf' = <<>>
  BY <1>1, SliceHolds
<1>3. disk' \in Seq(Records)
  BY <1>1, <1>2, ConcatHolds DEF TypeOK
<1>4. lost \in [Reasons -> SUBSET Records]
  BY DEF TypeOK
<1>5. Without(Dropped(q, m), "unwritten") \in [Reasons -> SUBSET Records]
  <2> DEFINE d == Dropped(q, m)
  <2> HIDE DEF d
  <2>1. d \subseteq Records
    BY <1>2 DEF d
  <2>2. [lost EXCEPT !["unwritten"] = @ \cup d] \in [Reasons -> SUBSET Records]
    BY <1>4, <2>1
  <2> QED BY <2>2 DEF d, Without
<1> QED BY <1>1, <1>2, <1>3, <1>5

LEMMA RotatedTyped ==
  ASSUME TypeOK, NEW n \in 0..Len(buf), Rotated(n), UNCHANGED day
  PROVE  /\ disk' \in Seq(Records) /\ buf' = <<>> /\ buf' \in Seq(Records)
         /\ dayKey' \in 0..MaxDay
         /\ Without(Dropped(buf, n), "unwritten") \in [Reasons -> SUBSET Records]
<1>1. buf \in Seq(Records) /\ dayKey \in 0..MaxDay /\ day \in 0..MaxDay
  BY AuditAssumption DEF TypeOK
<1>2. dayKey' \in 0..MaxDay
  BY <1>1 DEF Rotated
<1> QED BY <1>1, <1>2, SpiltTyped DEF Rotated

LEMMA EnsureOpensThreads == ASSUME Threads, EnsureOpens PROVE Threads'
<1> USE DEF Threads, EnsureOpens, bus, sub, sink
<1>1. JoinCount' /\ SentinelOnce'
  BY SinkIdle
<1>2. /\ disk' \in Seq(Records) /\ buf' \in Seq(Records) /\ dayKey' \in 0..MaxDay
      /\ lost' \in [Reasons -> SUBSET Records]
  BY RotatedTyped
<1>3. /\ opens' \in Nat /\ fh' \in 0..opens' /\ wfh' \in 0..opens' /\ stray' \in 0..opens'
      /\ fh' # 0 /\ wfh' = fh'
  BY DEF TypeOK
<1>4. TypeOK'
  BY <1>2, <1>3 DEF TypeOK
<1>5. Hands'
  BY <1>3 DEF Hands
<1> QED BY <1>1, <1>4, <1>5

LEMMA EnsureFailsThreads == ASSUME Threads, EnsureFails \/ WriterDies PROVE Threads'
<1> USE DEF Threads, bus, sub
<1>1. sinkHand \in Records
  BY DEF TypeOK, EnsureFails, WriterDies
<1>2. unfinished' \in Nat /\ JoinCount' /\ SentinelOnce'
  BY TaskDoneThreads DEF TaskDone, EnsureFails, WriterDies
<1>3. PICK n \in 0..Len(buf) :
        /\ Rotated(n) /\ day' = day
        /\ lost' = [Without(Dropped(buf, n), "unwritten") EXCEPT !["unopened"] = @ \cup {sinkHand}]
  BY DEF Unopened, EnsureFails, WriterDies
<1>4. /\ disk' \in Seq(Records) /\ buf' = <<>> /\ buf' \in Seq(Records) /\ dayKey' \in 0..MaxDay
      /\ Without(Dropped(buf, n), "unwritten") \in [Reasons -> SUBSET Records]
  BY <1>3, RotatedTyped
<1>5. lost' \in [Reasons -> SUBSET Records]
  <2> DEFINE w == Without(Dropped(buf, n), "unwritten")
  <2> HIDE DEF w
  <2>1. w \in [Reasons -> SUBSET Records] /\ lost' = [w EXCEPT !["unopened"] = @ \cup {sinkHand}]
    BY <1>3, <1>4 DEF w
  <2> QED BY <1>1, <2>1
<1>6. TypeOK'
  BY <1>2, <1>4, <1>5 DEF TypeOK, TaskDone, EnsureFails, WriterDies
<1>7. Hands'
  BY <1>4 DEF Hands, TaskDone, EnsureFails, WriterDies
<1> QED BY <1>2, <1>6, <1>7

LEMMA WriteLineThreads == ASSUME Threads, WriteLine PROVE Threads'
<1> USE DEF Threads, WriteLine, bus, sub
<1>1. /\ sinkHand \in Records /\ lost \in [Reasons -> SUBSET Records]
      /\ buf \in Seq(Records) /\ disk \in Seq(Records)
  BY DEF TypeOK, Hands
<1>2. unfinished' \in Nat /\ JoinCount' /\ SentinelOnce'
  BY <1>1, StopAndNoneDiffer, TaskDoneThreads DEF TaskDone
<1>3. /\ disk' \in Seq(Records) /\ buf' \in Seq(Records)
      /\ lost' \in [Reasons -> SUBSET Records]
      /\ fh = 0 => buf' = <<>>
  <2>1. CASE WriteHere
    <3>1. Append(buf, sinkHand) \in Seq(Records) /\ fh # 0
      BY <1>1, <2>1 DEF WriteHere
    <3> QED BY <2>1, <3>1, SpiltTyped DEF WriteHere
  <2>2. CASE WriteElsewhere
    <3>1. Append(disk, sinkHand) \in Seq(Records)
      BY <1>1
    <3> QED BY <1>1, <2>2, <3>1 DEF WriteElsewhere, Lose, Without, Hands
  <2> QED BY <2>1, <2>2
<1>4. TypeOK'
  BY <1>2, <1>3 DEF TypeOK, TaskDone
<1>5. Hands'
  BY <1>3 DEF Hands, TaskDone
<1> QED BY <1>2, <1>4, <1>5

LEMMA PeriodicFlushThreads == ASSUME Threads, PeriodicFlush PROVE Threads'
<1> USE DEF Threads, PeriodicFlush, bus, sub, sink
<1>1. JoinCount' /\ SentinelOnce'
  BY SinkIdle
<1>2. disk' \in Seq(Records) /\ buf' \in Seq(Records) /\ lost' \in [Reasons -> SUBSET Records]
  <2>1. buf \in Seq(Records)
    BY DEF TypeOK
  <2> QED BY <2>1, SpiltTyped
<1>3. TypeOK'
  BY <1>2 DEF TypeOK
<1>4. Hands'
  BY DEF Hands
<1> QED BY <1>1, <1>3, <1>4

LEMMA CloseFileThreads == ASSUME Threads, CloseFile PROVE Threads'
<1> USE DEF Threads, CloseFile, bus, sub, sink
<1>1. JoinCount' /\ SentinelOnce'
  BY SinkIdle DEF BeforeSinkPut
<1>2. /\ disk' \in Seq(Records) /\ buf' \in Seq(Records) /\ lost' \in [Reasons -> SUBSET Records]
      /\ fh' \in 0..opens /\ dayKey' \in 0..MaxDay /\ stray' \in 0..opens
      /\ fh' = 0 /\ buf' = <<>>
  <2>1. /\ disk \in Seq(Records) /\ buf \in Seq(Records) /\ lost \in [Reasons -> SUBSET Records]
        /\ fh \in 0..opens /\ opens \in Nat /\ dayKey \in 0..MaxDay /\ stray \in 0..opens
    BY DEF TypeOK
  <2>2. 0 \in 0..opens /\ 0 \in 0..MaxDay
    BY <2>1, AuditAssumption
  <2>3. CASE fh = 0
    BY <2>1, <2>3 DEF Hands
  <2>4. CASE fh # 0
    BY <2>1, <2>2, <2>4, SpiltTyped
  <2> QED BY <2>3, <2>4
<1>3. TypeOK'
  BY <1>2 DEF TypeOK
<1>4. Hands'
  BY <1>2 DEF Hands
<1> QED BY <1>1, <1>3, <1>4

\* The steps of close() that touch neither the sink's queue nor the file.
LEMMA WaitingThreads ==
  ASSUME Threads, Unsubscribe \/ PutStop \/ Join \/ Flush \/ SinkClose \/ SinkJoin \/ GiveUp
  PROVE  Threads'
<1> USE DEF Threads, bus, sub, sink, file
<1>1. JoinCount' /\ SentinelOnce'
  BY SinkIdle
     DEF BeforeSinkPut, Unsubscribe, PutStop, Join, Flush, SinkClose, SinkJoin, GiveUp
<1>2. /\ subQ' \in Seq(Items) /\ subscribed' \in BOOLEAN /\ sinkClosed' \in BOOLEAN
      /\ timedOut' \in BOOLEAN
      /\ closer' \in {"open", "put", "join", "flush", "sinkClose", "sinkPut", "sinkJoin",
                     "closeFile", "done"}
  BY QueuesTyped, StopHolds
     DEF TypeOK, Unsubscribe, PutStop, Join, Flush, SinkClose, SinkJoin, GiveUp
<1>3. /\ UNCHANGED <<config, sent, inHandler, late, subW, subHand, admitted>>
      /\ UNCHANGED <<sinkQ, sinkW, sinkHand, unfinished, file, day, lost>>
  BY DEF Unsubscribe, PutStop, Join, Flush, SinkClose, SinkJoin, GiveUp
<1>4. TypeOK'
  BY <1>2, <1>3 DEF TypeOK, Items
<1>5. Hands'
  BY <1>3 DEF Hands
<1> QED BY <1>1, <1>4, <1>5

LEMMA SinkPutStopKeeps == ASSUME Threads, SinkPutStop PROVE Threads'
<1> USE DEF Threads, SinkPutStop, bus, sub, file
<1>1. JoinCount' /\ SentinelOnce'
  BY SinkPutStopThreads
<1>2. sinkQ' \in Seq(Items) /\ unfinished' \in Nat
  BY QueuesTyped, StopHolds DEF TypeOK
<1>3. TypeOK'
  BY <1>2 DEF TypeOK, Items
<1>4. Hands'
  BY DEF Hands
<1> QED BY <1>1, <1>3, <1>4

LEMMA MidnightThreads == ASSUME Threads, Midnight PROVE Threads'
<1> USE DEF Threads, Midnight, bus, sub, sink, file
<1>1. JoinCount' /\ SentinelOnce'
  BY SinkIdle
<1>2. day' \in 1..MaxDay
  BY AuditAssumption DEF TypeOK
<1>3. TypeOK'
  BY <1>2 DEF TypeOK
<1>4. Hands'
  BY DEF Hands
<1> QED BY <1>1, <1>3, <1>4

LEMMA NextThreads == Threads /\ [Next]_vars => Threads'
<1>1. Threads /\ UNCHANGED vars => Threads'
  <2> SUFFICES ASSUME Threads, UNCHANGED vars PROVE Threads'
    OBVIOUS
  <2> USE DEF Threads, vars, bus, sub, sink, file
  <2>1. TypeOK'
    BY DEF TypeOK
  <2>2. Hands'
    BY DEF Hands
  <2>3. JoinCount' /\ SentinelOnce'
    BY SinkIdle
  <2> QED BY <2>1, <2>2, <2>3
<1> QED
  BY <1>1, BusThreads, SubGetThreads, SubStopThreads, AssertOpenThreads, DeliverThreads,
     SinkGetKeeps,
     SinkStopThreads, EnsureNothingThreads, EnsureOpensThreads, EnsureFailsThreads,
     WriteLineThreads, PeriodicFlushThreads, MidnightThreads, WaitingThreads,
     SinkPutStopKeeps, CloseFileThreads
     DEF Next, SubThread, SinkThread, Closing

\* Types, what a thread has in hand, and the count on which flush() waits.
THEOREM ThreadsInvariant == Spec => []Threads
<1> QED BY InitThreads, NextThreads, PTL DEF Spec

-----------------------------------------------------------------------------
(* The trail: every record is at one place, in order.                      *)

Queues == Sorted(disk) /\ Sorted(buf) /\ Sorted(sinkQ) /\ Sorted(subQ)

Trail ==
  /\ Once(Whereabouts, sent) /\ Ordered(Whereabouts)
  /\ Queues
  /\ lost["sink_full"] # {} => SinkMax > 0

LEMMA PlacesAre ==
  /\ \A x \in Places : x \in {"disk", "buffer", "writing", "sinkQ", "delivering", "subQ"} \cup Reasons
  /\ {"disk", "buffer", "writing", "sinkQ", "delivering", "subQ"} \cup Reasons \subseteq Places
  /\ {"disk", "buffer", "writing", "sinkQ", "delivering", "subQ"} \cap Reasons = {}
BY StationsAre DEF Places

LEMMA EmptyHolds == RecordsOf(<<>>) = {} /\ Sorted(<<>>)
BY DEF RecordsOf, Sorted

LEMMA NotBeforeItself == \A r \in Records : ~ Before(r, r)
<1> SUFFICES ASSUME NEW r \in Records PROVE ~ Before(r, r)
  OBVIOUS
<1>1. r[2] \in Nat
  BY DEF Records
<1> QED BY <1>1 DEF Before

\* The same places, the same trail.
LEMMA Kept ==
  ASSUME NEW G, NEW H, NEW n, \A x \in Places : H[x] = G[x], Once(G, n), Ordered(G)
  PROVE  Once(H, n) /\ Ordered(H)
BY WayDistinct DEF Once, Ordered

LEMMA InitTrail == Init => Trail
<1> SUFFICES ASSUME Init PROVE Trail
  OBVIOUS
<1>1. \A x \in Places : Whereabouts[x] = {}
  BY AtIs, PlacesAre, EmptyHolds DEF AtParts, Init
<1>2. Once(Whereabouts, sent)
  <2> SUFFICES ASSUME NEW r \in Records PROVE ~ r[2] <= sent[r[1]]
    BY <1>1 DEF Once
  <2>1. r[1] \in Publishers /\ r[2] \in 1..K /\ K \in Nat
    BY AuditAssumption DEF Records
  <2>2. sent[r[1]] = 0
    BY <2>1 DEF Init
  <2> QED BY <2>1, <2>2
<1>3. Ordered(Whereabouts)
  BY <1>1, WayDistinct DEF Ordered
<1>4. Queues /\ lost["sink_full"] = {}
  BY EmptyHolds DEF Queues, Init, Reasons
<1> QED BY <1>2, <1>3, <1>4 DEF Trail

LEMMA StillTrail ==
  ASSUME Trail, UNCHANGED <<sent, disk, buf, sinkHand, sinkQ, subHand, subQ, lost>>
  PROVE  Trail'
<1>1. \A x \in Places : Whereabouts'[x] = Whereabouts[x]
  BY AtIs, PlacesAre DEF AtParts
<1>2. Once(Whereabouts', sent') /\ Ordered(Whereabouts')
  BY <1>1, Kept DEF Trail
<1> QED BY <1>2 DEF Trail, Queues

-----------------------------------------------------------------------------
(* A record is published.                                                  *)

LEMMA Earlier ==
  ASSUME Threads, Trail, NEW p \in Publishers
  PROVE  \A i \in 1..6 : \A s \in Whereabouts[Way[i]] : Before(s, Next1(p))
<1> TAKE i \in 1..6
<1> TAKE s \in Whereabouts[Way[i]]
<1>1. /\ subQ \in Seq(Items) /\ sinkQ \in Seq(Items) /\ disk \in Seq(Items) /\ buf \in Seq(Items)
      /\ {sinkHand, subHand} \subseteq Records \cup {Nothing} /\ sent \in [Publishers -> 0..K]
  BY DEF Threads, TypeOK, Items
<1>2. Whereabouts["disk"] \subseteq Records /\ Whereabouts["buffer"] \subseteq Records /\ Whereabouts["sinkQ"] \subseteq Records
      /\ Whereabouts["subQ"] \subseteq Records /\ Whereabouts["writing"] \subseteq Records /\ Whereabouts["delivering"] \subseteq Records
  BY <1>1, AtIs, HoldsRecords DEF AtParts
<1>3. i = 1 \/ i = 2 \/ i = 3 \/ i = 4 \/ i = 5 \/ i = 6
  OBVIOUS
<1>4. s \in Records
  BY <1>2, <1>3, StationsAre
<1> QED BY <1>1, <1>4, WayDistinct, EarlierBefore DEF Next1, Trail

LEMMA PublishedTrail ==
  ASSUME Threads, Trail, NEW p \in Publishers, sent[p] < K,
         sent' = [sent EXCEPT ![p] = @ + 1],
         UNCHANGED <<disk, buf, sinkHand, sinkQ, subHand>>,
         \/ /\ UNCHANGED lost
            /\ subQ' = Append(subQ, Next1(p))
         \/ /\ UNCHANGED subQ
            /\ \E why \in Reasons \ {"sink_full"} : Lose(Next1(p), why)
  PROVE  Trail'
<1> DEFINE r == Next1(p)
<1>1. /\ sent \in [Publishers -> 0..K] /\ subQ \in Seq(Items) /\ lost \in [Reasons -> SUBSET Records]
  BY QueuesTyped DEF Threads, TypeOK
<1>2. r = <<p, sent[p] + 1>> /\ r \in Records /\ r # Nothing
  BY <1>1, AuditAssumption DEF Next1, Records
<1>3. CASE subQ' = Append(subQ, r) /\ UNCHANGED lost
  <2>1. Arrives(Whereabouts, Whereabouts', Way[6], r)
    <3>1. Whereabouts'["subQ"] = Whereabouts["subQ"] \cup {r}
      BY <1>1, <1>2, <1>3, AppendHolds, AtIs DEF AtParts
    <3>2. \A x \in Places \ {"subQ"} : Whereabouts'[x] = Whereabouts[x]
      BY <1>3, AtIs, PlacesAre DEF AtParts
    <3> QED BY <3>1, <3>2, StationsAre DEF Arrives
  <2>2. Once(Whereabouts', sent')
    <3>1. Arrives(Whereabouts, Whereabouts', Way[6], <<p, sent[p] + 1>>) /\ Way[6] \in Places
      BY <1>2, <2>1, WayDistinct
    <3>2. Once(Whereabouts', [sent EXCEPT ![p] = @ + 1])
      BY <1>1, <3>1, ArriveOnce DEF Trail
    <3> QED BY <3>2
  <2>3. Ordered(Whereabouts')
    BY <2>1, ArriveLast, Earlier DEF Trail
  <2>4. Sorted(subQ')
    <3>1. \A s \in RecordsOf(subQ) : Before(s, r)
      BY Earlier, AtIs, StationsAre DEF AtParts
    <3> QED BY <1>1, <1>2, <1>3, <3>1, AppendHolds DEF Trail, Queues
  <2> QED BY <1>3, <2>2, <2>4, <2>3 DEF Trail, Queues
<1>4. ASSUME NEW why \in Reasons \ {"sink_full"}, Lose(r, why), UNCHANGED subQ PROVE Trail'
  <2>1. Arrives(Whereabouts, Whereabouts', why, r)
    <3>1. Whereabouts'[why] = Whereabouts[why] \cup {r}
      BY <1>1, <1>4, AtIs DEF AtParts, Lose, Without
    <3>2. \A x \in Places \ {why} : Whereabouts'[x] = Whereabouts[x]
      BY <1>1, <1>4, AtIs, PlacesAre DEF AtParts, Lose, Without
    <3> QED BY <3>1, <3>2 DEF Arrives
  <2>2. Once(Whereabouts', sent')
    <3>1. Arrives(Whereabouts, Whereabouts', why, <<p, sent[p] + 1>>) /\ why \in Places
      BY <1>2, <2>1, PlacesAre
    <3>2. Once(Whereabouts', [sent EXCEPT ![p] = @ + 1])
      BY <1>1, <3>1, ArriveOnce DEF Trail
    <3> QED BY <3>2
  <2>3. Ordered(Whereabouts')
    BY <2>1, ArriveOff DEF Trail
  <2>4. lost'["sink_full"] = lost["sink_full"]
    BY <1>1, <1>4 DEF Lose, Without
  <2> QED BY <1>4, <2>2, <2>4, <2>3 DEF Trail, Queues
<1> QED BY <1>3, <1>4

LEMMA BusTrail == ASSUME Threads, Trail, Publishing PROVE Trail'
<1>1. PICK p \in Publishers : Publish(p) \/ OnEvent(p)
  BY DEF Publishing
<1>2. sent[p] < K
  <2>1. config.sends[p] \in 0..K /\ sent[p] \in 0..K /\ K \in Nat
    BY ConfigTyped DEF Threads, TypeOK
  <2>2. sent[p] < config.sends[p]
    BY <1>1 DEF Publish, OnEvent, Threads, Hands
  <2> QED BY <2>1, <2>2
<1>3. CASE Publish(p)
  <2>1. CASE subscribed
    BY <1>3, <2>1, StillTrail DEF Publish, sub, sink, file
  <2>2. CASE ~ subscribed
    <3>1. "unheard" \in Reasons \ {"sink_full"}
      BY DEF Reasons
    <3>2. /\ sent' = [sent EXCEPT ![p] = @ + 1] /\ Lose(Next1(p), "unheard")
          /\ UNCHANGED <<disk, buf, sinkHand, sinkQ, subHand, subQ>>
      BY <1>3, <2>2 DEF Publish, sub, sink, file
    <3> QED BY <1>2, <3>1, <3>2, PublishedTrail
  <2> QED BY <2>1, <2>2
<1>4. CASE OnEvent(p)
  <2>1. {"filtered", "unbuilt", "sub_full"} \subseteq Reasons \ {"sink_full"}
    BY DEF Reasons
  <2>2. /\ sent' = [sent EXCEPT ![p] = @ + 1]
        /\ UNCHANGED <<disk, buf, sinkHand, sinkQ, subHand>>
        /\ \/ subQ' = Append(subQ, Next1(p)) /\ UNCHANGED lost
           \/ UNCHANGED subQ /\ (\/ Lose(Next1(p), "filtered") \/ Lose(Next1(p), "unbuilt")
                                \/ Lose(Next1(p), "sub_full"))
    BY <1>4 DEF OnEvent, sub, sink, file
  <2> QED BY <1>2, <2>1, <2>2, PublishedTrail
<1> QED BY <1>1, <1>3, <1>4

-----------------------------------------------------------------------------
(* A record goes on, or is given up.                                       *)

\* A record is given up where it is in hand.
LEMMA GivenUp ==
  ASSUME Threads, NEW G, Once(G, sent), Ordered(G), NEW H, NEW k \in {3, 5}, NEW r \in Records,
         NEW why \in Reasons, G[Way[k]] = {r}, H[Way[k]] = {}, H[why] = G[why] \cup {r},
         \A x \in Places \ {Way[k], why} : H[x] = G[x]
  PROVE  Once(H, sent) /\ Ordered(H)
<1>1. k \in 1..6 /\ Way[k] \in Places /\ why \in Places /\ Way[k] # why
  BY WayDistinct, PlacesAre
<1>2. Moves(G, H, Way[k], why, {r})
  BY DEF Moves
<1> QED BY <1>1, <1>2, MoveOnce, MoveOff

LEMMA SubGetTrail == ASSUME Threads, Trail, SubGet PROVE Trail'
<1> USE DEF SubGet, bus, sink, file
<1>1. subQ \in Seq(Items) /\ subQ # <<>> /\ Sorted(subQ) /\ RecordsOf(subQ') \subseteq Records
  BY QueuesTyped, TailHolds, HoldsRecords DEF Threads, Trail, Queues
<1>2. /\ Head(subQ) \in Items /\ Sorted(subQ')
      /\ RecordsOf(subQ) = RecordsOf(subQ') \cup ({Head(subQ)} \ {Stop})
      /\ Head(subQ) # Stop => \A s \in RecordsOf(subQ') : Before(Head(subQ), s)
  BY <1>1, TailHolds
<1>3. Queues' /\ lost' = lost /\ sent' = sent
  BY <1>2 DEF Trail, Queues
<1>4. CASE Head(subQ) = Stop
  <2>1. RecordsOf(subQ') = RecordsOf(subQ) /\ subHand' = subHand
    BY <1>2, <1>4
  <2>2. /\ Whereabouts'["disk"] = Whereabouts["disk"] /\ Whereabouts'["buffer"] = Whereabouts["buffer"] /\ Whereabouts'["writing"] = Whereabouts["writing"]
        /\ Whereabouts'["delivering"] = Whereabouts["delivering"] /\ Whereabouts'["sinkQ"] = Whereabouts["sinkQ"]
    BY <2>1, AtIs DEF AtParts
  <2>3. Whereabouts'["subQ"] = Whereabouts["subQ"] /\ \A why \in Reasons : Whereabouts'[why] = Whereabouts[why]
    BY <2>1, AtIs DEF AtParts
  <2>4. \A x \in Places : Whereabouts'[x] = Whereabouts[x]
    BY <2>2, <2>3, PlacesAre
  <2> QED BY <1>3, <2>4, Kept DEF Trail
<1>5. CASE Head(subQ) # Stop
  <2> DEFINE r == Head(subQ)
  <2>1. r \in Records /\ r # Nothing /\ r \notin RecordsOf(subQ')
    BY <1>2, <1>5, StopAndNoneDiffer, NotBeforeItself DEF Items
  <2>2. /\ Whereabouts["subQ"] = RecordsOf(subQ') \cup {r} /\ Whereabouts'["subQ"] = RecordsOf(subQ')
        /\ Whereabouts["delivering"] = {} /\ Whereabouts'["delivering"] = {r}
    BY <1>2, <1>5, <2>1, AtIs DEF AtParts
  <2>3. \A x \in Places \ {"subQ", "delivering"} : Whereabouts'[x] = Whereabouts[x]
    BY AtIs, PlacesAre DEF AtParts
  <2>4. Moves(Whereabouts, Whereabouts', Way[5 + 1], Way[5], {r})
    BY <2>1, <2>2, <2>3, StationsAre DEF Moves
  <2>5. \A q \in {r}, s \in Whereabouts[Way[5 + 1]] \ {r} : Before(q, s)
    BY <1>2, <1>5, <2>2, StationsAre
  <2>6. Way[6] # Way[5] /\ Way[6] \in Places /\ Way[5] \in Places /\ 5 + 1 = 6
    BY WayDistinct
  <2>7. Once(Whereabouts', sent)
    BY <2>4, <2>6, MoveOnce DEF Trail
  <2>8. Ordered(Whereabouts')
    BY <2>4, <2>5, MoveOn DEF Trail
  <2> QED BY <1>3, <2>7, <2>8 DEF Trail
<1> QED BY <1>4, <1>5

LEMMA SinkGetTrail == ASSUME Threads, Trail, SinkGet PROVE Trail'
<1> USE DEF SinkGet, bus, sub, file
<1>1. sinkQ \in Seq(Items) /\ sinkQ # <<>> /\ Sorted(sinkQ)
  BY QueuesTyped DEF Threads, Trail, Queues
<1>2. /\ Head(sinkQ) \in Items /\ Sorted(sinkQ')
      /\ RecordsOf(sinkQ) = RecordsOf(sinkQ') \cup ({Head(sinkQ)} \ {Stop})
      /\ Head(sinkQ) # Stop => \A s \in RecordsOf(sinkQ') : Before(Head(sinkQ), s)
  BY <1>1, TailHolds
<1>3. Queues' /\ lost' = lost /\ sent' = sent
  BY <1>2 DEF Trail, Queues
<1>4. CASE Head(sinkQ) = Stop
  <2>1. RecordsOf(sinkQ') = RecordsOf(sinkQ) /\ sinkHand' = sinkHand
    BY <1>2, <1>4
  <2>2. /\ Whereabouts'["disk"] = Whereabouts["disk"] /\ Whereabouts'["buffer"] = Whereabouts["buffer"] /\ Whereabouts'["writing"] = Whereabouts["writing"]
        /\ Whereabouts'["delivering"] = Whereabouts["delivering"] /\ Whereabouts'["subQ"] = Whereabouts["subQ"]
    BY <2>1, AtIs DEF AtParts
  <2>3. Whereabouts'["sinkQ"] = Whereabouts["sinkQ"] /\ \A why \in Reasons : Whereabouts'[why] = Whereabouts[why]
    BY <2>1, AtIs DEF AtParts
  <2>4. \A x \in Places : Whereabouts'[x] = Whereabouts[x]
    BY <2>2, <2>3, PlacesAre
  <2> QED BY <1>3, <2>4, Kept DEF Trail
<1>5. CASE Head(sinkQ) # Stop
  <2> DEFINE r == Head(sinkQ)
  <2>1. r \in Records /\ r # Nothing /\ r \notin RecordsOf(sinkQ')
    BY <1>2, <1>5, StopAndNoneDiffer, NotBeforeItself DEF Items
  <2>2. /\ Whereabouts["sinkQ"] = RecordsOf(sinkQ') \cup {r} /\ Whereabouts'["sinkQ"] = RecordsOf(sinkQ')
        /\ Whereabouts["writing"] = {} /\ Whereabouts'["writing"] = {r}
    BY <1>2, <1>5, <2>1, AtIs DEF AtParts
  <2>3. \A x \in Places \ {"sinkQ", "writing"} : Whereabouts'[x] = Whereabouts[x]
    BY AtIs, PlacesAre DEF AtParts
  <2>4. Moves(Whereabouts, Whereabouts', Way[3 + 1], Way[3], {r})
    BY <2>1, <2>2, <2>3, StationsAre DEF Moves
  <2>5. \A q \in {r}, s \in Whereabouts[Way[3 + 1]] \ {r} : Before(q, s)
    BY <1>2, <1>5, <2>2, StationsAre
  <2>6. Way[4] # Way[3] /\ Way[4] \in Places /\ Way[3] \in Places /\ 3 + 1 = 4
    BY WayDistinct
  <2>7. Once(Whereabouts', sent)
    BY <2>4, <2>6, MoveOnce DEF Trail
  <2>8. Ordered(Whereabouts')
    BY <2>4, <2>5, MoveOn DEF Trail
  <2> QED BY <1>3, <2>7, <2>8 DEF Trail
<1> QED BY <1>4, <1>5

\* The record the subscriber's thread has in hand is given up.
LEMMA SubGivesUp ==
  ASSUME Threads, Trail, subHand \in Records, subHand' = Nothing,
         NEW why \in {"rejected", "sink_full"}, Lose(subHand, why),
         why = "sink_full" => SinkMax > 0,
         UNCHANGED <<sent, disk, buf, sinkHand, sinkQ, subQ>>
  PROVE  Trail'
<1> DEFINE r == subHand
<1>1. r \in Records /\ r # Nothing /\ lost \in [Reasons -> SUBSET Records]
  BY StopAndNoneDiffer DEF Threads, TypeOK
<1>2. Whereabouts["delivering"] = {r} /\ Whereabouts'["delivering"] = {}
  BY <1>1, AtIs DEF AtParts
<1>3. why \in Reasons
  BY DEF Reasons
<1>4. Whereabouts'[why] = Whereabouts[why] \cup {r} /\ \A x \in Places \ {"delivering", why} : Whereabouts'[x] = Whereabouts[x]
  BY <1>1, <1>3, AtIs, PlacesAre DEF AtParts, Lose, Without
<1>5. Once(Whereabouts', sent) /\ Ordered(Whereabouts')
  BY <1>1, <1>2, <1>3, <1>4, GivenUp, StationsAre DEF Trail
<1>6. lost'["sink_full"] # {} => SinkMax > 0
  BY <1>1 DEF Trail, Lose, Without
<1> QED BY <1>5, <1>6 DEF Trail, Queues

LEMMA AssertOpenTrail == ASSUME Threads, Trail, AssertOpen PROVE Trail'
<1>1. CASE sinkClosed
  <2>1. subHand \in Records
    BY DEF AssertOpen, Threads, TypeOK
  <2> QED BY <1>1, <2>1, SubGivesUp DEF AssertOpen, bus, sink, file
<1>2. CASE ~ sinkClosed
  BY <1>2, StillTrail DEF AssertOpen, bus, sink, file
<1> QED BY <1>1, <1>2

LEMMA DeliverTrail == ASSUME Threads, Trail, Deliver PROVE Trail'
<1> USE DEF Deliver, bus, file
<1> DEFINE r == subHand
<1>1. /\ r \in Records /\ r # Nothing /\ sinkQ \in Seq(Items) /\ lost \in [Reasons -> SUBSET Records]
  BY QueuesTyped, StopAndNoneDiffer DEF Threads, TypeOK
<1>2. Whereabouts["delivering"] = {r} /\ Whereabouts'["delivering"] = {} /\ sent' = sent
  BY <1>1, AtIs DEF AtParts
<1>3. CASE Lose(r, "sink_full") /\ UNCHANGED sinkQ /\ SinkMax > 0
  BY <1>1, <1>3, SubGivesUp
<1>4. CASE sinkQ' = Append(sinkQ, r) /\ UNCHANGED lost
  <2>1. Whereabouts'["sinkQ"] = Whereabouts["sinkQ"] \cup {r}
    BY <1>1, <1>4, AppendHolds, AtIs DEF AtParts
  <2>2. Whereabouts'["sinkQ"] = Whereabouts["sinkQ"] \cup {r} /\ \A x \in Places \ {"delivering", "sinkQ"} : Whereabouts'[x] = Whereabouts[x]
    BY <1>4, <2>1, AtIs, PlacesAre DEF AtParts
  <2>3. Moves(Whereabouts, Whereabouts', Way[4 + 1], Way[4], {r})
    BY <1>1, <1>2, <2>2, StationsAre DEF Moves
  <2>4. \A q \in {r}, s \in Whereabouts[Way[4 + 1]] \ {r} : Before(q, s)
    BY <1>2, StationsAre
  <2>5. Way[5] # Way[4] /\ Way[5] \in Places /\ Way[4] \in Places /\ 4 + 1 = 5
    BY WayDistinct
  <2>6. Once(Whereabouts', sent)
    BY <2>3, <2>5, MoveOnce DEF Trail
  <2>7. Ordered(Whereabouts')
    BY <2>3, <2>4, MoveOn DEF Trail
  <2>8. \A s \in RecordsOf(sinkQ) : Before(s, r)
    <3>1. \A s \in Whereabouts[Way[4]], q \in Whereabouts[Way[5]] : Before(s, q)
      BY DEF Trail, Ordered
    <3> QED BY <1>2, <3>1, AtIs, StationsAre DEF AtParts
  <2>9. Sorted(sinkQ')
    BY <1>1, <1>4, <2>8, AppendHolds DEF Trail, Queues
  <2> QED BY <1>2, <1>4, <2>6, <2>7, <2>9 DEF Trail, Queues
<1>5. Full(sinkQ, SinkMax) => SinkMax > 0
  BY DEF Full
<1> QED BY <1>3, <1>4, <1>5

\* Of the lines in the buffer, or about to come into it, some reach the disk, some
\* stay and the rest is lost.
LEMMA SpiltHolds ==
  ASSUME Threads, NEW q \in Seq(Records), NEW m \in 0..Len(q), NEW n \in 0..Len(q), Spilt(q, n, m),
         Sorted(disk), Sorted(q), NEW G, Once(G, sent), Ordered(G),
         G["disk"] = RecordsOf(disk), G["buffer"] = RecordsOf(q), NEW H,
         H["disk"] = RecordsOf(disk'), H["buffer"] = RecordsOf(buf'),
         H["unwritten"] = G["unwritten"] \cup Dropped(q, m),
         \A x \in Places \ {"disk", "buffer", "unwritten"} : H[x] = G[x]
  PROVE  Once(H, sent) /\ Ordered(H) /\ Sorted(disk') /\ Sorted(buf')
<1> DEFINE a == SubSeq(q, 1, n)
           b == SubSeq(q, n + 1, m)
           c == Dropped(q, m)
           I == [x \in Places |-> IF x = "disk" THEN G["disk"] \cup RecordsOf(a)
                                  ELSE IF x = "buffer" THEN RecordsOf(b) \cup c ELSE G[x]]
<1>1. n \in 0..m /\ disk' = disk \o a /\ buf' = b /\ disk \in Seq(Records)
  BY DEF Spilt, Threads, TypeOK
<1>2. /\ a \in Seq(Records) /\ b \in Seq(Records) /\ c \subseteq Records
      /\ RecordsOf(q) = RecordsOf(a) \cup RecordsOf(b) \cup c
      /\ Sorted(a) /\ Sorted(b)
      /\ \A r \in RecordsOf(a), s \in RecordsOf(b) \cup c : Before(r, s)
      /\ \A r \in RecordsOf(b), s \in c : Before(r, s)
  BY <1>1, SliceHolds
<1>3. {"disk", "buffer", "unwritten"} \subseteq Places /\ "unwritten" \in Reasons
  BY PlacesAre DEF Reasons
<1>4. /\ I["disk"] = G["disk"] \cup RecordsOf(a) /\ I["buffer"] = RecordsOf(b) \cup c
      /\ \A x \in Places \ {"disk", "buffer"} : I[x] = G[x]
  BY <1>3
<1> HIDE DEF a, b, c, I
<1>5. RecordsOf(a) \subseteq Records /\ RecordsOf(b) \subseteq Records
  BY <1>2, StopAndNoneDiffer DEF RecordsOf
<1>6. /\ \A r \in RecordsOf(a) : r \notin RecordsOf(b) \cup c
      /\ \A r \in RecordsOf(b) : r \notin c
  BY <1>2, <1>5, NotBeforeItself
<1>7. Way[1] = "disk" /\ Way[2] = "buffer" /\ 1 \in 1..5 /\ 1 + 1 = 2 /\ 2 \in 1..6
  BY StationsAre
<1>8. Moves(G, I, "buffer", "disk", RecordsOf(a))
  BY <1>2, <1>4, <1>5, <1>6 DEF Moves
<1>9. Once(I, sent) /\ Ordered(I)
  <2>1. Once(I, sent)
    BY <1>3, <1>8, MoveOnce
  <2>2. G["buffer"] \ RecordsOf(a) = RecordsOf(b) \cup c
    BY <1>2, <1>6
  <2>3. \A r \in RecordsOf(a), s \in G[Way[1 + 1]] \ RecordsOf(a) : Before(r, s)
    BY <1>2, <1>7, <2>2
  <2>4. Moves(G, I, Way[1 + 1], Way[1], RecordsOf(a))
    BY <1>7, <1>8
  <2>5. Ordered(I)
    BY <1>7, <2>3, <2>4, MoveOn
  <2> QED BY <2>1, <2>5
<1>10. RecordsOf(disk') = RecordsOf(disk) \cup RecordsOf(a)
  BY <1>1, <1>2, ConcatHolds
<1>11. Moves(I, H, "buffer", "unwritten", c)
  <2>1. H["buffer"] = I["buffer"] \ c
    BY <1>1, <1>4, <1>6
  <2>2. H["unwritten"] = I["unwritten"] \cup c
    BY <1>3, <1>4 DEF c
  <2>3. H["disk"] = I["disk"]
    BY <1>4, <1>10
  <2> QED BY <1>2, <1>4, <2>1, <2>2, <2>3 DEF Moves
<1>12. Once(H, sent) /\ Ordered(H)
  <2>1. Once(H, sent)
    BY <1>3, <1>9, <1>11, MoveOnce
  <2>2. Ordered(H)
    BY <1>3, <1>7, <1>9, <1>11, MoveOff
  <2> QED BY <2>1, <2>2
<1>13. Sorted(disk')
  <2>1. \A r \in RecordsOf(disk), s \in RecordsOf(a) : Before(r, s)
    <3>1. 1 \in 1..6 /\ 2 \in 1..6 /\ 1 < 2
      OBVIOUS
    <3>2. \A r \in G[Way[1]], s \in G[Way[2]] : Before(r, s)
      BY <3>1 DEF Ordered
    <3> QED BY <1>2, <1>7, <3>2
  <2> QED BY <1>1, <1>2, <2>1, ConcatHolds
<1> QED BY <1>1, <1>2, <1>12, <1>13

\* So it is when what was in the buffer before is written, flushed or closed.
LEMMA SpiltTrail ==
  ASSUME Threads, Trail, NEW n \in 0..Len(buf), NEW m \in 0..Len(buf), Spilt(buf, n, m),
         lost' = Without(Dropped(buf, m), "unwritten"),
         UNCHANGED <<sent, sinkHand, sinkQ, subHand, subQ>>
  PROVE  Trail'
<1>1. buf \in Seq(Records) /\ lost \in [Reasons -> SUBSET Records] /\ "unwritten" \in Reasons
  BY DEF Threads, TypeOK, Reasons
<1> DEFINE d == Dropped(buf, m)
<1>2. /\ lost'["unwritten"] = lost["unwritten"] \cup d
      /\ \A why \in Reasons \ {"unwritten"} : lost'[why] = lost[why]
  <2> HIDE DEF d
  <2>1. lost' = [lost EXCEPT !["unwritten"] = @ \cup d]
    BY DEF d, Without
  <2> QED BY <1>1, <2>1
<1> HIDE DEF d
<1>3. /\ Whereabouts["disk"] = RecordsOf(disk) /\ Whereabouts["buffer"] = RecordsOf(buf)
      /\ Whereabouts'["disk"] = RecordsOf(disk') /\ Whereabouts'["buffer"] = RecordsOf(buf')
      /\ Whereabouts'["unwritten"] = Whereabouts["unwritten"] \cup d
      /\ \A x \in Places \ {"disk", "buffer", "unwritten"} : Whereabouts'[x] = Whereabouts[x]
  BY <1>1, <1>2, AtIs, PlacesAre DEF AtParts
<1>4. Once(Whereabouts', sent) /\ Ordered(Whereabouts') /\ Sorted(disk') /\ Sorted(buf')
  BY <1>1, <1>3, SpiltHolds DEF Trail, Queues, d
<1>5. lost'["sink_full"] = lost["sink_full"]
  BY <1>2 DEF Reasons
<1> QED BY <1>4, <1>5 DEF Trail, Queues

LEMMA EnsureOpensTrail == ASSUME Threads, Trail, EnsureOpens PROVE Trail'
<1>1. PICK n \in 0..Len(buf) : Rotated(n) /\ lost' = Without(Dropped(buf, n), "unwritten")
  BY DEF EnsureOpens
<1> QED BY <1>1, SpiltTrail DEF Rotated, EnsureOpens, bus, sub, sink

\* The file is given up, and the record with it.
LEMMA EnsureFailsTrail == ASSUME Threads, Trail, EnsureFails \/ WriterDies PROVE Trail'
<1>1. PICK n \in 0..Len(buf) :
        /\ Rotated(n)
        /\ lost' = [Without(Dropped(buf, n), "unwritten") EXCEPT !["unopened"] = @ \cup {sinkHand}]
  BY DEF Unopened, EnsureFails, WriterDies
<1> DEFINE r == sinkHand
           d == Dropped(buf, n)
           J == [x \in Places |-> IF x = "disk" THEN RecordsOf(disk')
                                  ELSE IF x = "buffer" THEN RecordsOf(buf')
                                  ELSE IF x = "unwritten" THEN Whereabouts[x] \cup d
                                  ELSE Whereabouts[x]]
<1>2. /\ r \in Records /\ r # Nothing /\ lost \in [Reasons -> SUBSET Records]
      /\ buf \in Seq(Records) /\ Sorted(disk) /\ Sorted(buf)
  BY StopAndNoneDiffer DEF Threads, TypeOK, EnsureFails, WriterDies, Trail, Queues
<1>3. /\ sinkHand' = Nothing /\ UNCHANGED <<sent, sinkQ, subHand, subQ>>
  BY DEF EnsureFails, WriterDies, TaskDone, bus, sub
<1>4. {"unopened", "unwritten"} \subseteq Reasons /\ {"writing", "disk", "buffer"} \subseteq Places
      /\ Reasons \subseteq Places /\ {"writing", "disk", "buffer"} \cap Reasons = {}
      /\ \A x \in Places : x \in {"disk", "buffer", "writing", "sinkQ", "delivering", "subQ"} \cup Reasons
  BY PlacesAre DEF Reasons
<1>5. /\ J["disk"] = RecordsOf(disk') /\ J["buffer"] = RecordsOf(buf')
      /\ J["unwritten"] = Whereabouts["unwritten"] \cup d
      /\ \A x \in Places \ {"disk", "buffer", "unwritten"} : J[x] = Whereabouts[x]
  BY <1>4
<1> HIDE DEF J
<1>6. Once(J, sent) /\ Ordered(J) /\ Sorted(disk') /\ Sorted(buf')
  <2>1. Whereabouts["disk"] = RecordsOf(disk) /\ Whereabouts["buffer"] = RecordsOf(buf)
    BY AtIs DEF AtParts
  <2>2. Spilt(buf, n, n)
    BY <1>1 DEF Rotated
  <2> QED BY <1>2, <1>5, <2>1, <2>2, SpiltHolds DEF Trail
<1>7. /\ lost'["unopened"] = lost["unopened"] \cup {r}
      /\ lost'["unwritten"] = lost["unwritten"] \cup d
      /\ \A why \in Reasons \ {"unopened", "unwritten"} : lost'[why] = lost[why]
  <2> HIDE DEF d
  <2>1. lost' = [[lost EXCEPT !["unwritten"] = @ \cup d] EXCEPT !["unopened"] = @ \cup {r}]
    BY <1>1 DEF d, Without
  <2> QED BY <1>2, <1>4, <2>1
<1> HIDE DEF d
<1>8. J["writing"] = {r} /\ Whereabouts'["writing"] = {}
  BY <1>2, <1>3, <1>4, <1>5, AtIs DEF AtParts
<1>9. Whereabouts'["unopened"] = J["unopened"] \cup {r}
  BY <1>4, <1>5, <1>7, AtIs DEF AtParts
<1>10. \A x \in Places \ {"writing", "unopened"} : Whereabouts'[x] = J[x]
  <2>1. /\ Whereabouts'["disk"] = J["disk"] /\ Whereabouts'["buffer"] = J["buffer"]
    BY <1>5, AtIs DEF AtParts
  <2>2. \A x \in {"sinkQ", "delivering", "subQ"} : x \in Places /\ x \notin Reasons
    BY PlacesAre
  <2>3. \A x \in {"sinkQ", "delivering", "subQ"} : Whereabouts'[x] = Whereabouts[x]
    BY <1>3, AtIs DEF AtParts
  <2>4. \A x \in {"sinkQ", "delivering", "subQ"} : Whereabouts'[x] = J[x]
    BY <1>4, <1>5, <2>2, <2>3
  <2>5. \A why \in Reasons : Whereabouts'[why] = lost'[why] /\ Whereabouts[why] = lost[why]
    BY AtIs DEF AtParts
  <2>6. \A why \in Reasons \ {"unopened"} : Whereabouts'[why] = J[why]
    BY <1>4, <1>5, <1>7, <2>5
  <2> QED BY <1>4, <2>1, <2>4, <2>6
<1>11. Once(Whereabouts', sent) /\ Ordered(Whereabouts')
  BY <1>2, <1>4, <1>6, <1>8, <1>9, <1>10, GivenUp, StationsAre
<1>12. lost'["sink_full"] = lost["sink_full"]
  BY <1>7 DEF Reasons
<1> QED BY <1>3, <1>6, <1>11, <1>12 DEF Trail, Queues

\* The writer's record is given up, and the file stays as it is.
LEMMA WriterGivesUp ==
  ASSUME Threads, Trail, sinkHand # Nothing, sinkHand' = Nothing,
         NEW why \in {"unopened", "unwritten"}, Lose(sinkHand, why),
         UNCHANGED <<sent, disk, buf, sinkQ, subHand, subQ>>
  PROVE  Trail'
<1> DEFINE r == sinkHand
<1>1. /\ r \in Records /\ r # Nothing /\ lost \in [Reasons -> SUBSET Records]
  BY DEF Threads, TypeOK
<1>2. why \in Reasons /\ why # "sink_full"
  BY DEF Reasons
<1>3. Whereabouts["writing"] = {r} /\ Whereabouts'["writing"] = {}
  BY <1>1, AtIs DEF AtParts
<1>4. Whereabouts'[why] = Whereabouts[why] \cup {r} /\ \A x \in Places \ {"writing", why} : Whereabouts'[x] = Whereabouts[x]
  BY <1>1, <1>2, AtIs, PlacesAre DEF AtParts, Lose, Without
<1>5. Once(Whereabouts', sent) /\ Ordered(Whereabouts')
  BY <1>1, <1>2, <1>3, <1>4, GivenUp, StationsAre DEF Trail
<1>6. lost'["sink_full"] = lost["sink_full"]
  BY <1>1, <1>2 DEF Lose, Without
<1> QED BY <1>5, <1>6 DEF Trail, Queues

LEMMA EnsureNothingTrail == ASSUME Threads, Trail, EnsureNothing PROVE Trail'
<1> USE DEF EnsureNothing, bus, sub
<1>1. CASE fh = 0
  BY <1>1, WriterGivesUp DEF TaskDone
<1>2. CASE fh # 0
  BY <1>2, StillTrail
<1> QED BY <1>1, <1>2

\* The writer's record comes to the end of the buffer.
Arrived == [x \in Places |-> IF x = "writing" THEN {}
                             ELSE IF x = "buffer" THEN Whereabouts[x] \cup {sinkHand}
                             ELSE Whereabouts[x]]

LEMMA ArrivedHolds ==
  ASSUME Threads, Trail, sinkHand # Nothing
  PROVE  /\ Once(Arrived, sent) /\ Ordered(Arrived)
         /\ Arrived["writing"] = {} /\ Arrived["buffer"] = Whereabouts["buffer"] \cup {sinkHand}
         /\ \A x \in Places \ {"writing", "buffer"} : Arrived[x] = Whereabouts[x]
         /\ \A s \in RecordsOf(disk) \cup RecordsOf(buf) : Before(s, sinkHand)
<1> DEFINE r == sinkHand
<1>1. r \in Records /\ Whereabouts["writing"] = {r}
  BY AtIs DEF Threads, TypeOK, AtParts
<1>2. "writing" \in Places /\ "buffer" \in Places
  BY PlacesAre
<1>3. /\ Arrived["writing"] = {} /\ Arrived["buffer"] = Whereabouts["buffer"] \cup {r}
      /\ \A x \in Places \ {"writing", "buffer"} : Arrived[x] = Whereabouts[x]
  BY <1>2 DEF Arrived
<1>4. Moves(Whereabouts, Arrived, Way[2 + 1], Way[2], {r})
  BY <1>1, <1>3, StationsAre DEF Moves
<1>5. \A q \in {r}, s \in Whereabouts[Way[2 + 1]] \ {r} : Before(q, s)
  BY <1>1, StationsAre
<1>6. Way[3] # Way[2] /\ Way[3] \in Places /\ Way[2] \in Places /\ 2 + 1 = 3
  BY WayDistinct
<1>7. Once(Arrived, sent)
  BY <1>4, <1>6, MoveOnce DEF Trail
<1>8. Ordered(Arrived)
  BY <1>4, <1>5, MoveOn DEF Trail
<1>9. \A s \in RecordsOf(disk) \cup RecordsOf(buf) : Before(s, r)
  <2>1. /\ \A s \in Whereabouts[Way[1]], q \in Whereabouts[Way[3]] : Before(s, q)
        /\ \A s \in Whereabouts[Way[2]], q \in Whereabouts[Way[3]] : Before(s, q)
    BY DEF Trail, Ordered
  <2> QED BY <1>1, <2>1, AtIs, StationsAre DEF AtParts
<1> QED BY <1>3, <1>7, <1>8, <1>9

LEMMA WriteHereTrail ==
  ASSUME Threads, Trail, sinkHand # Nothing, WriteHere, sinkHand' = Nothing,
         UNCHANGED <<sent, sinkQ, subHand, subQ>>
  PROVE  Trail'
<1> DEFINE r == sinkHand
           q == Append(buf, r)
<1> HIDE DEF q
<1>1. PICK n, m \in 0..Len(q) : Spilt(q, n, m) /\ lost' = Without(Dropped(q, m), "unwritten")
  BY DEF WriteHere, q
<1>2. /\ r \in Records /\ lost \in [Reasons -> SUBSET Records] /\ buf \in Seq(Records)
      /\ buf \in Seq(Items) /\ Sorted(buf) /\ Sorted(disk) /\ "unwritten" \in Reasons
  BY DEF Threads, TypeOK, Items, Trail, Queues, Reasons
<1>3. q \in Seq(Records) /\ Sorted(q) /\ RecordsOf(q) = RecordsOf(buf) \cup {r}
  <2>1. q \in Seq(Records)
    BY <1>2 DEF q
  <2> QED BY <1>2, <2>1, AppendHolds, ArrivedHolds DEF q
<1> DEFINE d == Dropped(q, m)
<1>4. /\ lost'["unwritten"] = lost["unwritten"] \cup d
      /\ \A why \in Reasons \ {"unwritten"} : lost'[why] = lost[why]
  <2> HIDE DEF d
  <2>1. lost' = [lost EXCEPT !["unwritten"] = @ \cup d]
    BY <1>1 DEF d, Without
  <2> QED BY <1>2, <2>1
<1> HIDE DEF d
<1>5. Arrived["disk"] = RecordsOf(disk) /\ Arrived["buffer"] = RecordsOf(q)
  BY <1>3, ArrivedHolds, AtIs, PlacesAre DEF AtParts
<1>6. /\ Whereabouts'["disk"] = RecordsOf(disk') /\ Whereabouts'["buffer"] = RecordsOf(buf')
      /\ Whereabouts'["writing"] = {}
      /\ \A x \in {"sinkQ", "delivering", "subQ"} : Whereabouts'[x] = Whereabouts[x]
      /\ \A why \in Reasons : Whereabouts'[why] = lost'[why] /\ Whereabouts[why] = lost[why]
  BY AtIs DEF AtParts
<1>7. /\ Whereabouts'["unwritten"] = Arrived["unwritten"] \cup d
      /\ \A x \in Places \ {"disk", "buffer", "unwritten"} : Whereabouts'[x] = Arrived[x]
  BY <1>2, <1>4, <1>6, ArrivedHolds, PlacesAre
<1>8. Once(Whereabouts', sent) /\ Ordered(Whereabouts') /\ Sorted(disk') /\ Sorted(buf')
  <2>1. Once(Arrived, sent) /\ Ordered(Arrived)
    BY ArrivedHolds
  <2> DEFINE G == Arrived
             H == Whereabouts'
  <2>2. Once(G, sent) /\ Ordered(G) /\ G["disk"] = RecordsOf(disk) /\ G["buffer"] = RecordsOf(q)
    BY <1>5, <2>1
  <2>3. H["disk"] = RecordsOf(disk') /\ H["buffer"] = RecordsOf(buf')
    BY <1>6
  <2>4. H["unwritten"] = G["unwritten"] \cup Dropped(q, m)
    BY <1>7 DEF d
  <2>5. \A x \in Places \ {"disk", "buffer", "unwritten"} : H[x] = G[x]
    BY <1>7
  <2>6. n \in 0..Len(q) /\ m \in 0..Len(q) /\ Spilt(q, n, m) /\ Sorted(disk) /\ Sorted(q)
        /\ q \in Seq(Records)
    BY <1>1, <1>2, <1>3
  <2> HIDE DEF G, H
  <2>7. Once(H, sent) /\ Ordered(H) /\ Sorted(disk') /\ Sorted(buf')
    BY <2>2, <2>3, <2>4, <2>5, <2>6, SpiltHolds
  <2> QED BY <2>7 DEF H
<1>9. lost'["sink_full"] = lost["sink_full"]
  BY <1>4 DEF Reasons
<1> QED BY <1>8, <1>9 DEF Trail, Queues

\* A handle that could not be closed: the sink has none, so no line waits.
LEMMA StrayTrail ==
  ASSUME Threads, Trail, sinkHand # Nothing, sinkHand' = Nothing, buf = <<>>,
         disk' = Append(disk, sinkHand), UNCHANGED <<sent, sinkQ, subHand, subQ, buf, lost>>
  PROVE  Trail'
<1> DEFINE r == sinkHand
<1>1. r \in Records /\ disk \in Seq(Items) /\ Sorted(disk)
  BY DEF Threads, TypeOK, Items, Trail, Queues
<1>2. Sorted(disk') /\ RecordsOf(disk') = RecordsOf(disk) \cup {r}
  BY <1>1, AppendHolds, ArrivedHolds
<1>3. Whereabouts["buffer"] = {} /\ Whereabouts'["buffer"] = {} /\ Whereabouts'["writing"] = {}
  BY EmptyHolds, AtIs DEF AtParts
<1>4. Whereabouts'["disk"] = Whereabouts["disk"] \cup {r}
  BY <1>2, AtIs DEF AtParts
<1>5. \A x \in Places \ {"disk", "buffer", "writing"} : Whereabouts'[x] = Whereabouts[x]
  BY AtIs, PlacesAre DEF AtParts
<1>6. Way[1] = "disk" /\ Way[2] = "buffer" /\ 1 \in 1..5 /\ 1 + 1 = 2
      /\ {"disk", "buffer", "writing"} \subseteq Places
  BY StationsAre, PlacesAre
<1>7. Moves(Arrived, Whereabouts', "buffer", "disk", {r})
  BY <1>1, <1>3, <1>4, <1>5, <1>6, ArrivedHolds DEF Moves
<1>8. Once(Whereabouts', sent)
  BY <1>6, <1>7, ArrivedHolds, MoveOnce
<1>9. Ordered(Whereabouts')
  <2>1. \A q \in {r}, s \in Arrived[Way[1 + 1]] \ {r} : Before(q, s)
    BY <1>3, <1>6, ArrivedHolds
  <2>2. Moves(Arrived, Whereabouts', Way[1 + 1], Way[1], {r})
    BY <1>6, <1>7
  <2> QED BY <1>6, <2>1, <2>2, ArrivedHolds, MoveOn
<1> QED BY <1>2, <1>8, <1>9 DEF Trail, Queues

LEMMA WriteLineTrail == ASSUME Threads, Trail, WriteLine PROVE Trail'
<1>1. sinkHand # Nothing /\ sinkHand' = Nothing /\ UNCHANGED <<sent, sinkQ, subHand, subQ>>
  BY DEF WriteLine, TaskDone, bus, sub, Threads, Hands
<1>2. CASE WriteHere
  BY <1>1, <1>2, WriteHereTrail
<1>3. CASE WriteElsewhere
  <2>1. buf = <<>> /\ UNCHANGED buf
    BY <1>3 DEF WriteElsewhere, WriteLine, Threads, Hands
  <2>2. CASE Lose(sinkHand, "unwritten") /\ UNCHANGED disk
    BY <1>1, <2>1, <2>2, WriterGivesUp
  <2>3. CASE disk' = Append(disk, sinkHand) /\ UNCHANGED lost
    BY <1>1, <2>1, <2>3, StrayTrail
  <2> QED BY <1>3, <2>2, <2>3 DEF WriteElsewhere
<1> QED BY <1>2, <1>3 DEF WriteLine

LEMMA CloseFileTrail == ASSUME Threads, Trail, CloseFile PROVE Trail'
<1>1. CASE fh = 0
  BY <1>1, StillTrail DEF CloseFile, bus, sub, sink
<1>2. CASE fh # 0
  <2>1. PICK n \in 0..Len(buf) : Spilt(buf, n, n) /\ lost' = Without(Dropped(buf, n), "unwritten")
    BY <1>2 DEF CloseFile
  <2> QED BY <2>1, SpiltTrail DEF CloseFile, bus, sub, sink
<1> QED BY <1>1, <1>2

\* A sentinel is no record.
LEMMA SentinelTrail == ASSUME Threads, Trail, PutStop \/ SinkPutStop PROVE Trail'
<1>1. subQ \in Seq(Items) /\ sinkQ \in Seq(Items)
  BY QueuesTyped DEF Threads
<1>2. /\ UNCHANGED <<sent, disk, buf, sinkHand, subHand, lost>>
      /\ subQ' = subQ \/ subQ' = Append(subQ, Stop)
      /\ sinkQ' = sinkQ \/ sinkQ' = Append(sinkQ, Stop)
  BY DEF PutStop, SinkPutStop, bus, sub, sink, file
<1>3. RecordsOf(subQ') = RecordsOf(subQ) /\ RecordsOf(sinkQ') = RecordsOf(sinkQ)
  BY <1>1, <1>2, StopHolds
<1>4. Sorted(subQ') /\ Sorted(sinkQ')
  BY <1>1, <1>2, StopHolds DEF Trail, Queues
<1>5. \A x \in Places : Whereabouts'[x] = Whereabouts[x]
  BY <1>2, <1>3, AtIs, PlacesAre DEF AtParts
<1>6. Once(Whereabouts', sent') /\ Ordered(Whereabouts')
  BY <1>2, <1>5, Kept DEF Trail
<1> QED BY <1>2, <1>4, <1>6 DEF Trail, Queues

LEMMA NextTrail == Threads /\ Trail /\ [Next]_vars => Trail'
<1> SUFFICES ASSUME Threads, Trail, [Next]_vars PROVE Trail'
  OBVIOUS
<1>1. CASE \/ SubStop \/ SinkStop \/ Midnight \/ Unsubscribe \/ Join \/ Flush \/ SinkClose
           \/ SinkJoin \/ GiveUp \/ UNCHANGED vars
  BY <1>1, StillTrail
     DEF SubStop, SinkStop, Midnight, Unsubscribe, Join, Flush, SinkClose, SinkJoin, GiveUp,
         vars, bus, sub, sink, file
<1>2. CASE PeriodicFlush
  <2>1. PICK n, m \in 0..Len(buf) :
          Spilt(buf, n, m) /\ lost' = Without(Dropped(buf, m), "unwritten")
    BY <1>2 DEF PeriodicFlush
  <2> QED BY <1>2, <2>1, SpiltTrail DEF PeriodicFlush, bus, sub, sink
<1> QED
  BY <1>1, <1>2, BusTrail, SubGetTrail, AssertOpenTrail, DeliverTrail, SinkGetTrail,
     EnsureNothingTrail,
     EnsureOpensTrail, EnsureFailsTrail, WriteLineTrail, SentinelTrail, CloseFileTrail
     DEF Next, SubThread, SinkThread, Closing

LEMMA TrailInvariant == Spec => [](Threads /\ Trail)
<1> QED BY InitThreads, NextThreads, InitTrail, NextTrail, PTL DEF Spec

-----------------------------------------------------------------------------
(* What the trail says.                                                    *)

LEMMA EachOnceFollows == Threads /\ Trail => EachOnce
<1> SUFFICES ASSUME Threads, Trail PROVE EachOnce
  OBVIOUS
<1>1. \A r : \A x : x \in Where(r) <=> x \in Places /\ r \in Whereabouts[x]
  <2>1. \A x \in Stations : Whereabouts[x] = Held(x)
    BY DEF Whereabouts, Places
  <2>2. \A x \in Reasons : Whereabouts[x] = lost[x]
    BY AtIs DEF AtParts
  <2> QED BY <2>1, <2>2 DEF Where, Places
<1>2. ASSUME NEW p \in Publishers, NEW k \in 1..K
      PROVE  LET at == Where(<<p, k>>)
             IN IF k <= sent[p] THEN at # {} /\ \A v, w \in at : v = w ELSE at = {}
  <2>1. <<p, k>> \in Records /\ <<p, k>>[1] = p /\ <<p, k>>[2] = k
    BY DEF Records
  <2>2. IF k <= sent[p]
        THEN \E x \in Places : <<p, k>> \in Whereabouts[x] /\ \A y \in Places : <<p, k>> \in Whereabouts[y] => y = x
        ELSE \A x \in Places : <<p, k>> \notin Whereabouts[x]
    BY <2>1 DEF Trail, Once
  <2> QED BY <1>1, <2>2
<1> QED BY <1>2 DEF EachOnce, Trail

LEMMA InOrderFollows == Trail => InOrder
<1> SUFFICES ASSUME Trail PROVE InOrder
  OBVIOUS
<1>1. \A i \in 1..6 : Whereabouts[Way[i]] = Held(Way[i])
  BY DEF Whereabouts, Places, Stations
<1> QED BY <1>1 DEF InOrder, Trail, Queues, Ordered

\* A published event is at exactly one place of the way or given up for one
\* reason, and the sink's join count is the work it still owes, for any number of
\* publishers and events, any sizes of the queues, faults, rotations and timeouts.
THEOREM RecordsConserved == Spec => []Conservation
<1>1. Threads /\ Trail => Conservation
  BY EachOnceFollows DEF Conservation, Threads
<1> QED BY <1>1, TrailInvariant, PTL

\* The events of a publisher keep their order all the way to the file.
THEOREM OrderKept == Spec => []InOrder
<1> QED BY TrailInvariant, InOrderFollows, PTL

-----------------------------------------------------------------------------
(* The phases of a command.                                                *)

During == {"nextGoal", "goal", "pause"}
Ahead == {"file", "lint", "config", "provider", "audit", "seed", "execute",
          "issues", "parse", "versions", "complete", "write", "verdict", "paths", "cases", "inFile"}
Behind == {"close", "save", "report"}

OnRoute(name, p) ==
  \/ name = "run" /\ p \in {"file", "lint", "provider", "audit", "seed", "execute"} \cup During \cup Behind
  \/ name = "debug" /\ p \in {"file", "lint", "provider", "execute", "report"} \cup During
  \/ name = "pipelineRun" /\ p \in {"config", "provider", "audit", "seed", "execute", "close", "report"} \cup During
  \/ name = "pipelineDebug" /\ p \in {"config", "provider", "seed", "execute", "report"} \cup During
  \/ name = "lint" /\ p \in {"file", "issues"}
  \/ name = "inspect" /\ p \in {"file", "parse"}
  \/ name = "generate" /\ p \in {"provider", "complete", "write", "verdict"}
  \/ name = "test" /\ p \in {"paths", "cases", "inFile"}
  \/ name = "version" /\ p = "versions"

\* The phase after the k-th of a route.
LEMMA PhaseAfter ==
  ASSUME NEW s, s = Route(command.name), NEW k \in DOMAIN s, phase = s[k], Proceed,
         \A i, j \in DOMAIN s : s[i] = s[j] => i = j
  PROVE  phase' = s[k + 1]
<1>1. (CHOOSE i \in DOMAIN s : s[i] = phase) = k
  OBVIOUS
<1> QED
  BY <1>1 DEF Proceed

LEMMA RunGoesOn ==
  ASSUME command.name = "run", Proceed
  PROVE  /\ phase = "file" => phase' = "lint"
         /\ phase = "lint" => phase' = "provider"
         /\ phase = "provider" => phase' = "audit"
         /\ phase = "audit" => phase' = "seed"
         /\ phase = "seed" => phase' = "execute"
         /\ phase = "execute" => phase' = "close"
         /\ phase = "close" => phase' = "save"
         /\ phase = "save" => phase' = "report"
<1> DEFINE s == RunPhases
<1>1. Route(command.name) = s
  BY DEF Route
<1>2. DOMAIN s = 1..9 /\ \A i, j \in 1..9 : s[i] = s[j] => i = j
  BY DEF RunPhases
<1>3. ASSUME NEW k \in 1..8, phase = s[k] PROVE phase' = s[k + 1]
  BY <1>1, <1>2, <1>3, PhaseAfter
<1>4. /\ s[1] = "file" /\ s[2] = "lint" /\ s[3] = "provider" /\ s[4] = "audit"
      /\ s[5] = "seed" /\ s[6] = "execute" /\ s[7] = "close" /\ s[8] = "save"
      /\ s[9] = "report"
  BY DEF RunPhases
<1> QED
  BY <1>3, <1>4

LEMMA DebugGoesOn ==
  ASSUME command.name = "debug", Proceed
  PROVE  /\ phase = "file" => phase' = "lint"
         /\ phase = "lint" => phase' = "provider"
         /\ phase = "provider" => phase' = "execute"
         /\ phase = "execute" => phase' = "report"
<1> DEFINE s == DebugPhases
<1>1. Route(command.name) = s
  BY DEF Route
<1>2. DOMAIN s = 1..5 /\ \A i, j \in 1..5 : s[i] = s[j] => i = j
  BY DEF DebugPhases
<1>3. ASSUME NEW k \in 1..4, phase = s[k] PROVE phase' = s[k + 1]
  BY <1>1, <1>2, <1>3, PhaseAfter
<1>4. /\ s[1] = "file" /\ s[2] = "lint" /\ s[3] = "provider" /\ s[4] = "execute"
      /\ s[5] = "report"
  BY DEF DebugPhases
<1> QED
  BY <1>3, <1>4

LEMMA PipelineRunGoesOn ==
  ASSUME command.name = "pipelineRun", Proceed
  PROVE  /\ phase = "config" => phase' = "provider"
         /\ phase = "provider" => phase' = "audit"
         /\ phase = "audit" => phase' = "seed"
         /\ phase = "seed" => phase' = "execute"
         /\ phase = "execute" => phase' = "close"
         /\ phase = "close" => phase' = "report"
<1> DEFINE s == PipelineRunPhases
<1>1. Route(command.name) = s
  BY DEF Route
<1>2. DOMAIN s = 1..7 /\ \A i, j \in 1..7 : s[i] = s[j] => i = j
  BY DEF PipelineRunPhases
<1>3. ASSUME NEW k \in 1..6, phase = s[k] PROVE phase' = s[k + 1]
  BY <1>1, <1>2, <1>3, PhaseAfter
<1>4. /\ s[1] = "config" /\ s[2] = "provider" /\ s[3] = "audit" /\ s[4] = "seed"
      /\ s[5] = "execute" /\ s[6] = "close" /\ s[7] = "report"
  BY DEF PipelineRunPhases
<1> QED
  BY <1>3, <1>4

LEMMA PipelineDebugGoesOn ==
  ASSUME command.name = "pipelineDebug", Proceed
  PROVE  /\ phase = "config" => phase' = "provider"
         /\ phase = "provider" => phase' = "seed"
         /\ phase = "seed" => phase' = "execute"
         /\ phase = "execute" => phase' = "report"
<1> DEFINE s == PipelineDebugPhases
<1>1. Route(command.name) = s
  BY DEF Route
<1>2. DOMAIN s = 1..5 /\ \A i, j \in 1..5 : s[i] = s[j] => i = j
  BY DEF PipelineDebugPhases
<1>3. ASSUME NEW k \in 1..4, phase = s[k] PROVE phase' = s[k + 1]
  BY <1>1, <1>2, <1>3, PhaseAfter
<1>4. /\ s[1] = "config" /\ s[2] = "provider" /\ s[3] = "seed" /\ s[4] = "execute"
      /\ s[5] = "report"
  BY DEF PipelineDebugPhases
<1> QED
  BY <1>3, <1>4

LEMMA OthersGoOn ==
  ASSUME Proceed
  PROVE  /\ command.name = "lint" /\ phase = "file" => phase' = "issues"
         /\ command.name = "inspect" /\ phase = "file" => phase' = "parse"
         /\ command.name = "generate" /\ phase = "provider" => phase' = "complete"
         /\ command.name = "generate" /\ phase = "complete" => phase' = "write"
         /\ command.name = "generate" /\ phase = "write" => phase' = "verdict"
         /\ command.name = "test" /\ phase = "paths" => phase' = "cases"
<1>1. ASSUME command.name = "lint", phase = "file" PROVE phase' = "issues"
  <2> DEFINE s == <<"file", "issues">>
  <2>1. Route(command.name) = s
    BY <1>1 DEF Route
  <2>2. DOMAIN s = 1..2 /\ \A i, j \in 1..2 : s[i] = s[j] => i = j
    OBVIOUS
  <2> QED
    BY <1>1, <2>1, <2>2, PhaseAfter
<1>2. ASSUME command.name = "inspect", phase = "file" PROVE phase' = "parse"
  <2> DEFINE s == <<"file", "parse">>
  <2>1. Route(command.name) = s
    BY <1>2 DEF Route
  <2>2. DOMAIN s = 1..2 /\ \A i, j \in 1..2 : s[i] = s[j] => i = j
    OBVIOUS
  <2> QED
    BY <1>2, <2>1, <2>2, PhaseAfter
<1>3. ASSUME command.name = "test", phase = "paths" PROVE phase' = "cases"
  <2> DEFINE s == <<"paths", "cases">>
  <2>1. Route(command.name) = s
    BY <1>3 DEF Route
  <2>2. DOMAIN s = 1..2 /\ \A i, j \in 1..2 : s[i] = s[j] => i = j
    OBVIOUS
  <2> QED
    BY <1>3, <2>1, <2>2, PhaseAfter
<1>4. ASSUME command.name = "generate"
      PROVE  /\ phase = "provider" => phase' = "complete"
             /\ phase = "complete" => phase' = "write"
             /\ phase = "write" => phase' = "verdict"
  <2> DEFINE s == <<"provider", "complete", "write", "verdict">>
  <2>1. Route(command.name) = s
    BY <1>4 DEF Route
  <2>2. DOMAIN s = 1..4 /\ \A i, j \in 1..4 : s[i] = s[j] => i = j
    OBVIOUS
  <2>3. ASSUME NEW k \in 1..3, phase = s[k] PROVE phase' = s[k + 1]
    BY <2>1, <2>2, <2>3, PhaseAfter
  <2> QED
    BY <2>3
<1> QED
  BY <1>1, <1>2, <1>3, <1>4

\* Where a command goes on to.
LEMMA GoesOn ==
  ASSUME OnRoute(command.name, phase), Proceed
  PROVE  /\ phase = "file" =>
              phase' = IF command.name \in {"run", "debug"} THEN "lint"
                       ELSE IF command.name = "lint" THEN "issues" ELSE "parse"
         /\ phase \in {"lint", "config"} => phase' = "provider"
         /\ phase = "provider" =>
              phase' = IF command.name = "generate" THEN "complete"
                       ELSE IF command.name = "debug" THEN "execute"
                       ELSE IF command.name = "pipelineDebug" THEN "seed" ELSE "audit"
         /\ phase = "audit" => phase' = "seed"
         /\ phase = "seed" => phase' = "execute"
         /\ phase = "execute" =>
              phase' = IF command.name \in Debugging THEN "report" ELSE "close"
         /\ phase = "close" => phase' = IF command.name = "run" THEN "save" ELSE "report"
         /\ phase = "save" => phase' = "report"
         /\ phase = "complete" => phase' = "write"
         /\ phase = "write" => phase' = "verdict"
         /\ phase = "paths" => phase' = "cases"
<1>1. CASE command.name = "run"
  BY <1>1, RunGoesOn DEF OnRoute, During, Behind, Debugging
<1>2. CASE command.name = "debug"
  BY <1>2, DebugGoesOn DEF OnRoute, During, Debugging
<1>3. CASE command.name = "pipelineRun"
  BY <1>3, PipelineRunGoesOn DEF OnRoute, During, Debugging
<1>4. CASE command.name = "pipelineDebug"
  BY <1>4, PipelineDebugGoesOn DEF OnRoute, During, Debugging
<1>5. CASE command.name \in {"lint", "inspect", "generate", "test", "version"}
  BY <1>5, OthersGoOn DEF OnRoute, Debugging
<1> QED
  BY <1>1, <1>2, <1>3, <1>4, <1>5 DEF OnRoute

-----------------------------------------------------------------------------
(* What a command knows at each of its phases.                             *)

Verdicts == {"skip", "error", "pass", "fail"}
Started == During \cup Behind

EventNames ==
  {"pipeline.started", "stage.started", "run.started", "step.started", "step.completed", "step.failed",
   "run.completed", "run.failed", "stage.completed", "stage.failed", "pipeline.completed", "pipeline.failed"}

\* A command is one of those that were given, at a phase of its own.
CommandKnown ==
  /\ phase # "idle" => \E i \in DOMAIN Commands : command = Commands[i]
  /\ ~Idle => OnRoute(command.name, phase)

\* What was logged was published, and is the beginning of it when nothing was lost.
LogKnown ==
  /\ log \in Seq(EventNames) /\ published \in Seq(EventNames)
  /\ handled \in Nat /\ handled <= Len(published) /\ missed \in Nat
  /\ Range(log) \subseteq Range(published)
  /\ missed = 0 => Len(log) = handled /\ \A i \in 1..Len(log) : log[i] = published[i]

\* Nothing was published before a run starts, or by a command without one; the audit is open from its phase to
\* that where it is closed.
TrailKnown ==
  /\ LogKnown
  /\ phase \in Ahead => published = <<>> /\ log = <<>>
  /\ phase \in Started => published # <<>>
  /\ audit = "closed" => handled = Len(published) /\ phase \in {"save", "report", "done", "idle"}
  /\ phase \in {"seed", "execute", "close"} \cup During /\ command.audit => audit \in {"open", "skipped"}
  /\ phase \in {"save", "report"} /\ command.audit => audit \in {"closed", "late", "skipped"}

NotBegun == InPipeline /\ published = Unparsed

\* What is run has no errors, and is over when all its goals were run, the limit
\* was reached or it did not begin.
RunKnown ==
  /\ phase \in During => "error" \in DOMAIN run /\ run.error = FALSE /\ ~Parsed(source).broken
  /\ phase \in Behind =>
       \/ run.error /\ (Stopped \/ NotBegun)
       \/ ~run.error /\ Len(run.goals) = Len(Goals) /\ ~Parsed(source).broken
  /\ phase \in {"provider", "audit", "seed", "execute"} \cup Started
       /\ command.name \in {"run", "debug"} => Errors(source) = {}
  /\ phase = "report" /\ command.save => snapshot = Saved
  /\ phase = "verdict" /\ command.output => workflow = source

\* A snapshot was read before the run, and one that is uneven begins no stage.
SeedKnown ==
  /\ phase = "execute" /\ command.seed => seeded \in {"whole", "part"}
  /\ phase \in During /\ command.seed => seeded = "whole" \/ (seeded = "part" /\ command.name = "run")
  /\ phase \in Behind /\ command.seed => seeded = "whole" \/ (seeded = "part" /\ (command.name = "run" \/ run.error))

TellFailure(events) == Failures \cap Range(events) # {}

\* The events tell what became of the goals, of the run and at last of the command.
EventsTell ==
  /\ phase \in Started => "goals" \in DOMAIN run /\ \E S : run.goals \in Seq(S)
  /\ phase \in During => (TellFailure(published) <=> GoalFailed)
  /\ phase \in Behind => (TellFailure(published) <=> ~Success(run)) /\ (Success(run) => Last(published) = LastOfAll)
  /\ phase = "done" /\ exit = 0 /\ published # <<>> => ~TellFailure(published) /\ Last(published) = LastOfAll
  /\ phase = "done" /\ exit = 1 /\ published # <<>> => TellFailure(published)

\* There is a file to run, or one that was run.
SuiteKnown ==
  /\ results \in Seq(Seq(Verdicts))
  /\ phase = "cases" => files # <<>> \/ results # <<>>
  /\ phase = "inFile" => results # <<>>

CommandInv == CommandKnown /\ TrailKnown /\ RunKnown /\ SeedKnown /\ EventsTell /\ SuiteKnown /\ ExitTruth

\* A flag is given to the commands that know it only.
LEMMA Flags ==
  ASSUME NEW i \in DOMAIN Commands, NEW c, c = Commands[i]
  PROVE  /\ c.name \in Runs \cup {"lint", "inspect", "generate", "test", "version"}
         /\ {c.audit, c.save, c.seed, c.output, c.noLint} \subseteq BOOLEAN
         /\ c.save => c.name = "run"
         /\ c.audit => c.name \in {"run", "pipelineRun"}
         /\ c.seed => c.name \in {"run", "pipelineRun", "pipelineDebug"}
         /\ c.output \/ c.noLint => c.name = "generate"
<1> DEFINE flags == DOMAIN c \ OfTest
<1>1. [f \in flags |-> c[f]] \in Command
  BY CommandLineAssumption
<1>2. flags = {"name", "audit", "seed", "save", "strict", "output", "noLint", "failFast", "step",
                "maxIter"}
  BY <1>1 DEF Command
<1>3. /\ c.name \in Runs \cup {"lint", "inspect", "generate", "test", "version"}
      /\ {c.audit, c.save, c.seed, c.output, c.noLint} \subseteq BOOLEAN
  BY <1>1, <1>2 DEF Command
<1>4. \A f \in {"audit", "save", "seed", "output", "noLint"} : c[f] => f \in Accepted(c.name)
  BY <1>2, CommandLineAssumption
<1>5. /\ c.save => "save" \in Accepted(c.name)
      /\ c.audit => "audit" \in Accepted(c.name)
      /\ c.seed => "seed" \in Accepted(c.name)
      /\ c.output => "output" \in Accepted(c.name)
      /\ c.noLint => "noLint" \in Accepted(c.name)
  BY <1>4
<1> QED
  BY <1>3, <1>5 DEF Accepted, Runs, Debugging

LEMMA ErrorsIfBroken ==
  ASSUME Errors(source) = {}
  PROVE  ~Parsed(source).broken
<1>1. Parsed(source).broken => <<"E001", None>> \in Errors(source)
  BY DEF Errors, Lint
<1> QED
  BY <1>1

LEMMA CommandsStart == ASSUME CommandsInit PROVE CommandInv
BY DEF CommandsInit, CommandInv, CommandKnown, TrailKnown, LogKnown, RunKnown, SeedKnown, EventsTell,
       SuiteKnown, ExitTruth, Idle, Ahead, Started, During, Behind

\* A new command.
LEMMA StartKept == ASSUME CommandInv, Start PROVE CommandInv'
<1>1. PICK i \in DOMAIN Commands : command' = Commands[i] /\ phase' = Head(Route(Commands[i].name))
  BY DEF Start
<1>2. /\ phase' \in {"file", "config", "paths", "versions"}
         \/ (phase' = "provider" /\ command'.name = "generate")
      /\ OnRoute(command'.name, phase')
  BY <1>1, Flags DEF Route, OnRoute, Runs, Debugging, RunPhases, DebugPhases,
     PipelineRunPhases, PipelineDebugPhases
<1>3. /\ published' = <<>> /\ log' = <<>> /\ handled' = 0 /\ missed' = 0
      /\ results' = <<>> /\ audit' = "none"
  BY DEF Start, Fresh
<1>4. CommandKnown'
  BY <1>1, <1>2 DEF CommandKnown
<1>5. TrailKnown'
  BY <1>2, <1>3 DEF TrailKnown, LogKnown, Ahead, Started, During, Behind
<1>6. RunKnown' /\ SeedKnown' /\ EventsTell'
  BY <1>2 DEF RunKnown, SeedKnown, EventsTell, Started, During, Behind
<1>7. SuiteKnown' /\ ExitTruth'
  BY <1>2, <1>3 DEF SuiteKnown, ExitTruth
<1> QED
  BY <1>4, <1>5, <1>6, <1>7 DEF CommandInv

LEMMA EditKept == ASSUME CommandInv, Edit PROVE CommandInv'
<1>1. /\ phase' = "idle" /\ published' = <<>> /\ log' = <<>> /\ handled' = 0 /\ missed' = 0
      /\ results' = <<>> /\ audit' = "none"
  BY DEF Edit, Fresh
<1>2. CommandKnown' /\ RunKnown' /\ SeedKnown' /\ EventsTell' /\ SuiteKnown' /\ ExitTruth'
  BY <1>1 DEF CommandKnown, RunKnown, SeedKnown, EventsTell, SuiteKnown, ExitTruth, Idle, Started, During, Behind
<1>3. TrailKnown'
  BY <1>1 DEF TrailKnown, LogKnown, Ahead, Started, During, Behind
<1> QED
  BY <1>2, <1>3 DEF CommandInv

LEMMA CommandIs ==
  ASSUME CommandInv, phase # "idle"
  PROVE  /\ command.name \in Runs \cup {"lint", "inspect", "generate", "test", "version"}
         /\ {command.audit, command.save, command.seed, command.output, command.noLint} \subseteq BOOLEAN
         /\ command.save => command.name = "run"
         /\ command.audit => command.name \in {"run", "pipelineRun"}
         /\ command.seed => command.name \in {"run", "pipelineRun", "pipelineDebug"}
         /\ command.output \/ command.noLint => command.name = "generate"
         /\ ~Idle => OnRoute(command.name, phase)
<1>1. PICK i \in DOMAIN Commands : command = Commands[i]
  BY DEF CommandInv, CommandKnown
<1> QED
  BY <1>1, Flags DEF CommandInv, CommandKnown

\* A command ends.
LEMMA Ended ==
  ASSUME CommandInv, ~Idle, phase' = "done", UNCHANGED <<command, published, audit, writer>>,
         results' \in Seq(Seq(Verdicts)), ExitTruth', EventsTell'
  PROVE  CommandInv'
<1>1. CommandKnown' /\ RunKnown' /\ SeedKnown' /\ SuiteKnown'
  BY DEF CommandInv, CommandKnown, RunKnown, SeedKnown, SuiteKnown, Idle, Started, During, Behind
<1>2. TrailKnown'
  BY DEF CommandInv, TrailKnown, LogKnown, writer, Ahead, Started, During, Behind
<1> QED
  BY <1>1, <1>2 DEF CommandInv

\* It ends because it cannot go on.
LEMMA Failed ==
  ASSUME CommandInv, ~Idle, Exit(2), UNCHANGED <<command, published, audit, writer>>,
         results' \in Seq(Seq(Verdicts))
  PROVE  CommandInv'
<1>1. ExitTruth' /\ EventsTell'
  BY DEF Exit, ExitTruth, EventsTell, Started, During, Behind
<1> QED
  BY <1>1, Ended DEF Exit

\* It ends before anything was published.
LEMMA NothingTold ==
  ASSUME phase' = "done", published' = <<>>
  PROVE  EventsTell'
BY DEF EventsTell, Started, During, Behind

\* It goes on to another of its phases.
LEMMA WentOn ==
  ASSUME CommandInv, ~Idle, phase' \notin {"idle", "done"}, OnRoute(command.name, phase'),
         UNCHANGED command, TrailKnown', RunKnown', SeedKnown', EventsTell', SuiteKnown'
  PROVE  CommandInv'
<1>1. CommandKnown' /\ ExitTruth'
  BY DEF CommandInv, CommandKnown, ExitTruth, Idle
<1> QED
  BY <1>1 DEF CommandInv

\* Before a run there are no events, and before it is executed no seed is needed.
LEMMA StillAhead ==
  ASSUME phase' \in {"lint", "issues", "parse", "provider", "audit", "seed", "complete", "write", "verdict",
                    "cases", "inFile"}
  PROVE  EventsTell' /\ SeedKnown'
BY DEF EventsTell, SeedKnown, Started, During, Behind

LEMMA SuiteApart ==
  ASSUME CommandInv, UNCHANGED results, phase' \notin {"cases", "inFile"}
  PROVE  SuiteKnown'
BY DEF CommandInv, SuiteKnown

\* Nothing is published, and the audit stays what it is.
LEMMA TrailApart ==
  ASSUME CommandInv, ~Idle, UNCHANGED <<command, published, audit, writer>>,
         phase \in Ahead \/ phase' \notin Ahead,
         phase \in Started <=> phase' \in Started,
         audit = "closed" => phase' \in {"save", "report"},
         phase' \in {"seed", "execute", "close"} \cup During /\ command.audit =>
           phase \in {"seed", "execute", "close"} \cup During,
         phase' \in {"save", "report"} /\ command.audit => phase \in {"save", "report"}
  PROVE  TrailKnown'
BY DEF CommandInv, TrailKnown, LogKnown, writer

LEMMA ReadFileKept == ASSUME CommandInv, ReadFile PROVE CommandInv'
<1>1. /\ phase = "file" /\ ~Idle
      /\ UNCHANGED <<command, published, audit, writer, results>>
  BY DEF ReadFile, trail, suite, given, Idle
<1>2. ASSUME Exit(2) PROVE CommandInv'
  BY <1>1, <1>2, Failed DEF CommandInv, SuiteKnown
<1>3. ASSUME Proceed PROVE CommandInv'
  <2>1. OnRoute(command.name, phase)
    BY <1>1, CommandIs DEF Idle
  <2>2. phase' = IF command.name \in {"run", "debug"} THEN "lint"
                 ELSE IF command.name = "lint" THEN "issues" ELSE "parse"
    BY <1>1, <1>3, <2>1, GoesOn
  <2>3. OnRoute(command.name, phase')
    BY <1>1, <2>1, <2>2 DEF OnRoute, During, Behind
  <2>4. TrailKnown'
    BY <1>1, <2>2, TrailApart DEF Ahead, Started, During, Behind, CommandInv, TrailKnown
  <2>5. RunKnown'
    BY <2>2 DEF RunKnown, Started, During, Behind
  <2> QED
    BY <1>1, <2>2, <2>3, <2>4, <2>5, SuiteApart, StillAhead, WentOn
<1> QED
  BY <1>2, <1>3 DEF ReadFile

LEMMA LintFirstKept == ASSUME CommandInv, LintFirst PROVE CommandInv'
<1>1. /\ phase = "lint" /\ ~Idle
      /\ UNCHANGED <<command, source, published, audit, writer, results>>
  BY DEF LintFirst, trail, suite, given, Idle
<1>2. OnRoute(command.name, phase) /\ command.name \in {"run", "debug"}
  BY <1>1, CommandIs DEF Idle, OnRoute, During, Behind
<1>3. ASSUME Errors(source) # {}, Exit(1) PROVE CommandInv'
  <2>1. published = <<>>
    BY <1>1 DEF CommandInv, TrailKnown, Ahead
  <2>2. ExitTruth'
    BY <1>1, <1>2, <1>3, <2>1 DEF ExitTruth, Exit, Runs
  <2> QED
    BY <1>1, <1>3, <2>1, <2>2, NothingTold, Ended DEF CommandInv, SuiteKnown, Exit
<1>4. ASSUME Errors(source) = {}, Proceed PROVE CommandInv'
  <2>1. phase' = "provider"
    BY <1>1, <1>2, <1>4, GoesOn
  <2>2. OnRoute(command.name, phase')
    BY <1>2, <2>1 DEF OnRoute
  <2>3. TrailKnown'
    BY <1>1, <2>1, TrailApart DEF Ahead, Started, During, Behind, CommandInv, TrailKnown
  <2>4. RunKnown'
    BY <1>1, <1>4, <2>1 DEF RunKnown, Started, During, Behind, Errors
  <2> QED
    BY <1>1, <2>1, <2>2, <2>3, <2>4, SuiteApart, StillAhead, WentOn
<1> QED
  BY <1>3, <1>4 DEF LintFirst

\* lint, inspect and version only report.
LEMMA ReportedKept == ASSUME CommandInv, Issues \/ Inspect \/ Version PROVE CommandInv'
<1>1. /\ phase \in {"issues", "parse", "versions"} /\ ~Idle
      /\ UNCHANGED <<command, source, published, audit, writer, results>>
  BY DEF Issues, Inspect, Version, trail, suite, given, Idle
<1>2. /\ command.name \in {"lint", "inspect", "version"}
      /\ ~command.save /\ ~command.audit /\ ~command.seed
      /\ published = <<>>
  BY <1>1, CommandIs DEF Idle, OnRoute, During, Behind, CommandInv, TrailKnown, Ahead
<1>3. command.name = "lint" <=> phase = "issues"
  BY <1>1, CommandIs DEF Idle, OnRoute, During, Behind
<1>4. phase' = "done" /\ exit' \in {0, 1}
  BY DEF Issues, Inspect, Version, Exit
<1>5. phase = "issues" /\ exit' = 0 => Errors(source) = {}
  BY DEF Issues, Inspect, Version, Exit
<1>6. ExitTruth'
  BY <1>1, <1>2, <1>3, <1>4, <1>5, ErrorsIfBroken DEF ExitTruth, Runs, Debugging
<1> QED
  BY <1>1, <1>2, <1>4, <1>6, NothingTold, Ended DEF CommandInv, SuiteKnown

LEMMA ReadConfigKept == ASSUME CommandInv, ReadConfig PROVE CommandInv'
<1>1. /\ phase = "config" /\ ~Idle
      /\ UNCHANGED <<command, published, audit, writer, results>>
  BY DEF ReadConfig, trail, suite, given, Idle
<1>2. ASSUME Exit(2) PROVE CommandInv'
  BY <1>1, <1>2, Failed DEF CommandInv, SuiteKnown
<1>3. ASSUME Proceed PROVE CommandInv'
  <2>1. OnRoute(command.name, phase) /\ command.name \in {"pipelineRun", "pipelineDebug"}
    BY <1>1, CommandIs DEF Idle, OnRoute, During, Behind
  <2>2. phase' = "provider"
    BY <1>1, <1>3, <2>1, GoesOn
  <2>3. OnRoute(command.name, phase')
    BY <2>1, <2>2 DEF OnRoute
  <2>4. TrailKnown'
    BY <1>1, <2>2, TrailApart DEF Ahead, Started, During, Behind, CommandInv, TrailKnown
  <2>5. RunKnown'
    BY <1>1, <2>1, <2>2 DEF RunKnown, Started, During, Behind
  <2> QED
    BY <1>1, <2>2, <2>3, <2>4, <2>5, SuiteApart, StillAhead, WentOn
<1> QED
  BY <1>2, <1>3 DEF ReadConfig

LEMMA MakeProviderKept == ASSUME CommandInv, MakeProvider PROVE CommandInv'
<1>1. /\ phase = "provider" /\ ~Idle
      /\ UNCHANGED <<command, source, published, audit, writer, results>>
  BY DEF MakeProvider, trail, suite, given, Idle
<1>2. ASSUME Exit(2) PROVE CommandInv'
  BY <1>1, <1>2, Failed DEF CommandInv, SuiteKnown
<1>3. ASSUME Proceed PROVE CommandInv'
  <2>1. /\ OnRoute(command.name, phase)
        /\ command.name \in {"run", "debug", "pipelineRun", "pipelineDebug", "generate"}
        /\ command.audit => command.name \in {"run", "pipelineRun"}
    BY <1>1, CommandIs DEF Idle, OnRoute, During, Behind
  <2>2. phase' = IF command.name = "generate" THEN "complete"
                 ELSE IF command.name = "debug" THEN "execute"
                 ELSE IF command.name = "pipelineDebug" THEN "seed" ELSE "audit"
    BY <1>1, <1>3, <2>1, GoesOn
  <2>3. OnRoute(command.name, phase')
    BY <2>1, <2>2 DEF OnRoute
  <2>4. phase' \in {"complete", "execute", "seed", "audit"}
        /\ (command.audit => phase' = "audit")
    BY <2>1, <2>2
  <2>5. TrailKnown'
    BY <1>1, <2>4, TrailApart DEF Ahead, Started, During, Behind, CommandInv, TrailKnown
  <2>6. RunKnown'
    BY <1>1, <2>4 DEF CommandInv, RunKnown, Started, During, Behind, Errors
  <2>7. EventsTell' /\ SeedKnown'
    <3>1. phase' = "execute" => ~command.seed
      BY <1>1, <2>1, <2>2, CommandIs DEF Idle
    <3> QED
      BY <1>1, <2>4, <3>1 DEF EventsTell, SeedKnown, Started, During, Behind
  <2> QED
    BY <1>1, <2>3, <2>4, <2>5, <2>6, <2>7, SuiteApart, WentOn
<1> QED
  BY <1>2, <1>3 DEF MakeProvider

LEMMA OpenAuditKept == ASSUME CommandInv, OpenAudit PROVE CommandInv'
<1>1. /\ phase = "audit" /\ ~Idle
      /\ UNCHANGED <<command, source, published, writer, results>>
  BY DEF OpenAudit, suite, given, Idle
<1>2. ASSUME Exit(2), UNCHANGED audit PROVE CommandInv'
  BY <1>1, <1>2, Failed DEF CommandInv, SuiteKnown
<1>3. ASSUME Proceed, audit' \in IF command.audit THEN {"open", "skipped"} ELSE {"none"} PROVE CommandInv'
  <2>1. OnRoute(command.name, phase) /\ command.name \in {"run", "pipelineRun"}
    BY <1>1, CommandIs DEF Idle, OnRoute, During, Behind
  <2>2. phase' = "seed"
    BY <1>1, <1>3, <2>1, GoesOn
  <2>3. OnRoute(command.name, phase')
    BY <2>1, <2>2 DEF OnRoute
  <2>4. TrailKnown'
    BY <1>1, <1>3, <2>2 DEF CommandInv, TrailKnown, LogKnown, writer, Ahead, Started, During, Behind
  <2>5. RunKnown'
    BY <1>1, <2>2 DEF CommandInv, RunKnown, Started, During, Behind, Errors
  <2> QED
    BY <1>1, <2>2, <2>3, <2>4, <2>5, SuiteApart, StillAhead, WentOn
<1> QED
  BY <1>2, <1>3 DEF OpenAudit

LEMMA LoadSeedKept == ASSUME CommandInv, LoadSeed PROVE CommandInv'
<1>1. /\ phase = "seed" /\ ~Idle
      /\ UNCHANGED <<command, source, published, audit, writer, results>>
  BY DEF LoadSeed, trail, suite, Idle
<1>2. ASSUME Exit(2) PROVE CommandInv'
  BY <1>1, <1>2, Failed DEF CommandInv, SuiteKnown
<1>3. ASSUME Proceed, command.seed => seeded' \in {"whole", "part"} PROVE CommandInv'
  <2>1. OnRoute(command.name, phase) /\ command.name \in {"run", "pipelineRun", "pipelineDebug"}
    BY <1>1, CommandIs DEF Idle, OnRoute, During, Behind
  <2>2. phase' = "execute"
    BY <1>1, <1>3, <2>1, GoesOn
  <2>3. OnRoute(command.name, phase')
    BY <2>1, <2>2 DEF OnRoute
  <2>4. TrailKnown'
    BY <1>1, <2>2, TrailApart DEF Ahead, Started, During, Behind, CommandInv, TrailKnown
  <2>5. RunKnown'
    BY <1>1, <2>2 DEF CommandInv, RunKnown, Started, During, Behind, Errors
  <2>6. SeedKnown' /\ EventsTell'
    BY <1>1, <1>3, <2>2 DEF SeedKnown, EventsTell, Started, During, Behind
  <2> QED
    BY <1>1, <2>2, <2>3, <2>4, <2>5, <2>6, SuiteApart, WentOn
<1>4. Exit(2) \/ (Proceed /\ (command.seed => seeded' \in {"whole", "part"}))
  BY DEF LoadSeed
<1> QED
  BY <1>2, <1>3, <1>4

-----------------------------------------------------------------------------
(* Executing a workflow.                                                   *)

\* Nothing a run begins with has raised, and no goal of it was run.
LEMMA BegunWhole ==
  /\ \A ast : "error" \in DOMAIN Begun(ast) /\ Begun(ast).error = FALSE /\ "goals" \in DOMAIN Begun(ast) /\ Begun(ast).goals = <<>>
  /\ \A text, seed : /\ "error" \in DOMAIN SeededRun(text, seed) /\ SeededRun(text, seed).error = FALSE
                     /\ "goals" \in DOMAIN SeededRun(text, seed) /\ SeededRun(text, seed).goals = <<>>
BY DEF Begun, NewRun, SeededRun

LEMMA OneEvent ==
  ASSUME NEW S, NEW a \in S
  PROVE  <<a>> \in Seq(S) /\ <<a>> # <<>> /\ Range(<<a>>) = {a} /\ Last(<<a>>) = a
<1>1. <<a>> \in [1..1 -> S] /\ <<a>> # <<>>
  OBVIOUS
<1>2. <<a>> \in Seq(S)
  BY <1>1, SeqDef
<1>3. Range(<<a>>) = {a} /\ Last(<<a>>) = a
  BY DEF Range, Last
<1> QED
  BY <1>1, <1>2, <1>3

LEMMA ThreeEvents ==
  ASSUME NEW S, NEW a \in S, NEW b \in S, NEW c \in S
  PROVE  <<a, b, c>> \in Seq(S) /\ <<a, b, c>> # <<>> /\ Range(<<a, b, c>>) = {a, b, c} /\ Last(<<a, b, c>>) = c
<1>1. <<a, b, c>> \in [1..3 -> S] /\ DOMAIN <<a, b, c>> = {1, 2, 3} /\ <<a, b, c>> # <<>>
  OBVIOUS
<1>2. <<a, b, c>> \in Seq(S)
  BY <1>1, SeqDef
<1>3. Range(<<a, b, c>>) = {a, b, c} /\ Last(<<a, b, c>>) = c
  BY <1>1 DEF Range, Last
<1> QED
  BY <1>1, <1>2, <1>3

LEMMA FourEvents ==
  ASSUME NEW S, NEW a \in S, NEW b \in S, NEW c \in S, NEW d \in S
  PROVE  <<a, b, c, d>> \in Seq(S) /\ <<a, b, c, d>> # <<>> /\ Range(<<a, b, c, d>>) = {a, b, c, d}
<1>1. <<a, b, c, d>> \in [1..4 -> S] /\ DOMAIN <<a, b, c, d>> = {1, 2, 3, 4} /\ <<a, b, c, d>> # <<>>
  OBVIOUS
<1>2. <<a, b, c, d>> \in Seq(S)
  BY <1>1, SeqDef
<1>3. Range(<<a, b, c, d>>) = {a, b, c, d}
  BY <1>1 DEF Range
<1> QED
  BY <1>1, <1>2, <1>3

\* What one, three, or four events tell.
LEMMA OneTold ==
  ASSUME NEW a \in EventNames, NEW s, s = <<a>>
  PROVE  s \in Seq(EventNames) /\ s # <<>> /\ Last(s) = a /\ (TellFailure(s) <=> a \in Failures)
<1>1. s \in Seq(EventNames) /\ s # <<>> /\ Range(s) = {a} /\ Last(s) = a
  BY OneEvent
<1>2. TellFailure(s) <=> Failures \cap {a} # {}
  BY <1>1 DEF TellFailure
<1>3. (Failures \cap {a} # {}) <=> a \in Failures
  OBVIOUS
<1> QED
  BY <1>1, <1>2, <1>3

LEMMA ThreeTold ==
  ASSUME NEW a \in EventNames, NEW b \in EventNames, NEW c \in EventNames, NEW s, s = <<a, b, c>>
  PROVE  /\ s \in Seq(EventNames) /\ s # <<>> /\ Last(s) = c
         /\ (TellFailure(s) <=> (a \in Failures \/ b \in Failures \/ c \in Failures))
<1>1. s \in Seq(EventNames) /\ s # <<>> /\ Range(s) = {a, b, c} /\ Last(s) = c
  BY ThreeEvents
<1>2. TellFailure(s) <=> Failures \cap {a, b, c} # {}
  BY <1>1 DEF TellFailure
<1>3. (Failures \cap {a, b, c} # {}) <=> (a \in Failures \/ b \in Failures \/ c \in Failures)
  OBVIOUS
<1> QED
  BY <1>1, <1>2, <1>3

LEMMA FourTold ==
  ASSUME NEW a \in EventNames, NEW b \in EventNames, NEW c \in EventNames, NEW d \in EventNames,
         NEW s, s = <<a, b, c, d>>, c \in Failures
  PROVE  s \in Seq(EventNames) /\ s # <<>> /\ TellFailure(s)
<1>1. s \in Seq(EventNames) /\ s # <<>> /\ Range(s) = {a, b, c, d}
  BY FourEvents
<1>2. TellFailure(s) <=> Failures \cap {a, b, c, d} # {}
  BY <1>1 DEF TellFailure
<1> QED
  BY <1>1, <1>2

\* What is told by one sequence of events after another.
LEMMA ToldTogether ==
  ASSUME NEW S, NEW s \in Seq(S), NEW t \in Seq(S)
  PROVE  /\ s \o t \in Seq(S) /\ Range(s \o t) = Range(s) \cup Range(t)
         /\ t # <<>> => s \o t # <<>> /\ Last(s \o t) = Last(t)
<1>1. /\ s \o t \in Seq(S) /\ Len(s \o t) = Len(s) + Len(t)
      /\ \A i \in 1..Len(s) : (s \o t)[i] = s[i]
      /\ \A i \in 1..Len(t) : (s \o t)[Len(s) + i] = t[i]
  OBVIOUS
<1>2. \A i \in 1..Len(s \o t) : i \in 1..Len(s) \/ i - Len(s) \in 1..Len(t)
  BY <1>1
<1>3. Range(s \o t) \subseteq Range(s) \cup Range(t)
  <2> SUFFICES ASSUME NEW i \in 1..Len(s \o t) PROVE (s \o t)[i] \in Range(s) \cup Range(t)
    BY <1>1 DEF Range
  <2>1. CASE i \in 1..Len(s)
    BY <1>1, <2>1 DEF Range
  <2>2. CASE i - Len(s) \in 1..Len(t)
    <3>1. (s \o t)[Len(s) + (i - Len(s))] = t[i - Len(s)] /\ Len(s) + (i - Len(s)) = i
      BY <1>1, <2>2
    <3> QED
      BY <2>2, <3>1 DEF Range
  <2> QED
    BY <1>2, <2>1, <2>2
<1>4. Range(s) \subseteq Range(s \o t)
  <2>1. \A i \in 1..Len(s) : i \in 1..Len(s \o t)
    BY <1>1
  <2> QED
    BY <1>1, <2>1 DEF Range
<1>5. Range(t) \subseteq Range(s \o t)
  <2> SUFFICES ASSUME NEW i \in 1..Len(t) PROVE t[i] \in Range(s \o t)
    BY DEF Range
  <2>1. Len(s) + i \in 1..Len(s \o t)
    BY <1>1
  <2> QED
    BY <1>1, <2>1 DEF Range
<1>6. ASSUME t # <<>> PROVE s \o t # <<>> /\ Last(s \o t) = Last(t)
  <2>1. Len(t) \in 1..Len(t) /\ Len(s \o t) > 0
    BY <1>1, <1>6
  <2> QED
    BY <1>1, <2>1 DEF Last
<1> QED
  BY <1>1, <1>3, <1>4, <1>5, <1>6

LEMMA EventsKnown ==
  /\ EventsBefore \in Seq(EventNames) /\ EventsBefore # <<>> /\ ~TellFailure(EventsBefore)
  /\ Unparsed \in Seq(EventNames) /\ Unparsed # <<>> /\ TellFailure(Unparsed)
  /\ EventsStopped \in Seq(EventNames) /\ EventsStopped # <<>> /\ TellFailure(EventsStopped)
  /\ \A ok \in BOOLEAN :
       /\ EventsAfter(ok) \in Seq(EventNames) /\ EventsAfter(ok) # <<>>
       /\ TellFailure(EventsAfter(ok)) => ~ok
       /\ ok => Last(EventsAfter(ok)) = LastOfAll
<1> DEFINE begun == "pipeline.started"
           staged == "stage.started"
           started == "run.started"
           completed == "run.completed"
           stageDone == "stage.completed"
           allDone == "pipeline.completed"
           failed == "run.failed"
           stageFailed == "stage.failed"
           allFailed == "pipeline.failed"
<1>1. /\ begun \in EventNames /\ staged \in EventNames /\ started \in EventNames
      /\ completed \in EventNames /\ stageDone \in EventNames /\ allDone \in EventNames
      /\ failed \in EventNames /\ stageFailed \in EventNames /\ allFailed \in EventNames
  BY Zenon DEF EventNames
<1>2. /\ begun \notin Failures /\ staged \notin Failures /\ started \notin Failures
      /\ completed \notin Failures /\ stageDone \notin Failures /\ allDone \notin Failures
      /\ failed \in Failures /\ stageFailed \in Failures
  BY Zenon DEF Failures
<1>3. /\ InPipeline => EventsBefore = <<begun, staged, started>>
      /\ ~InPipeline => EventsBefore = <<started>>
  BY Zenon DEF EventsBefore
<1>4. Unparsed = <<begun, staged, stageFailed, allFailed>>
  BY Zenon DEF Unparsed
<1>5. /\ InPipeline => EventsStopped = <<failed, stageFailed, allFailed>>
      /\ ~InPipeline => EventsStopped = <<failed>>
  BY Zenon DEF EventsStopped
<1>6. ASSUME NEW ok \in BOOLEAN
      PROVE  /\ ~InPipeline => EventsAfter(ok) = <<completed>> /\ LastOfAll = completed
             /\ InPipeline /\ ok => EventsAfter(ok) = <<completed, stageDone, allDone>> /\ LastOfAll = allDone
             /\ InPipeline /\ ~ok => EventsAfter(ok) = <<completed, stageFailed, allFailed>>
  BY Zenon DEF EventsAfter, LastOfAll
<1> HIDE DEF begun, staged, started, completed, stageDone, allDone, failed, stageFailed, allFailed
<1>7. EventsBefore \in Seq(EventNames) /\ EventsBefore # <<>> /\ ~TellFailure(EventsBefore)
  <2>1. CASE InPipeline
    BY <1>1, <1>2, <1>3, <2>1, ThreeTold
  <2>2. CASE ~InPipeline
    BY <1>1, <1>2, <1>3, <2>2, OneTold
  <2> QED
    BY <2>1, <2>2
<1>8. Unparsed \in Seq(EventNames) /\ Unparsed # <<>> /\ TellFailure(Unparsed)
  BY <1>1, <1>2, <1>4, FourTold
<1>9. EventsStopped \in Seq(EventNames) /\ EventsStopped # <<>> /\ TellFailure(EventsStopped)
  <2>1. CASE InPipeline
    BY <1>1, <1>2, <1>5, <2>1, ThreeTold
  <2>2. CASE ~InPipeline
    BY <1>1, <1>2, <1>5, <2>2, OneTold
  <2> QED
    BY <2>1, <2>2
<1>10. ASSUME NEW ok \in BOOLEAN
       PROVE  /\ EventsAfter(ok) \in Seq(EventNames) /\ EventsAfter(ok) # <<>>
              /\ TellFailure(EventsAfter(ok)) => ~ok
              /\ ok => Last(EventsAfter(ok)) = LastOfAll
  <2>1. CASE ~InPipeline
    BY <1>1, <1>2, <1>6, <2>1, OneTold
  <2>2. CASE InPipeline /\ ok
    <3>1. EventsAfter(ok) = <<completed, stageDone, allDone>> /\ LastOfAll = allDone
      BY <1>6, <2>2
    <3> DEFINE after == EventsAfter(ok)
    <3> HIDE DEF after
    <3>2. after = <<completed, stageDone, allDone>>
      BY <3>1 DEF after
    <3>3. /\ after \in Seq(EventNames) /\ after # <<>> /\ Last(after) = allDone
          /\ (TellFailure(after) <=> (completed \in Failures \/ stageDone \in Failures \/ allDone \in Failures))
      BY <1>1, <3>2, ThreeTold
    <3> QED
      BY <1>2, <3>1, <3>3 DEF after
  <2>3. CASE InPipeline /\ ~ok
    <3>1. EventsAfter(ok) = <<completed, stageFailed, allFailed>>
      BY <1>6, <2>3
    <3> DEFINE after == EventsAfter(ok)
    <3> HIDE DEF after
    <3>2. after = <<completed, stageFailed, allFailed>>
      BY <3>1 DEF after
    <3>3. after \in Seq(EventNames) /\ after # <<>>
      BY <1>1, <3>2, ThreeTold
    <3> QED
      BY <2>3, <3>3 DEF after
  <2> QED
    BY <2>1, <2>2, <2>3
<1> QED
  BY <1>7, <1>8, <1>9, <1>10

\* More is published; what was logged stays the beginning of it.
LEMMA PublishedMore ==
  ASSUME CommandInv, NEW more \in Seq(EventNames), published' = published \o more, UNCHANGED writer
  PROVE  /\ LogKnown'
         /\ TellFailure(published') <=> (TellFailure(published) \/ TellFailure(more))
         /\ more # <<>> => published' # <<>> /\ Last(published') = Last(more)
         /\ published # <<>> => published' # <<>>
<1>1. /\ log \in Seq(EventNames) /\ published \in Seq(EventNames) /\ Len(published) \in Nat
      /\ handled \in Nat /\ handled <= Len(published) /\ missed \in Nat
      /\ Range(log) \subseteq Range(published)
      /\ missed = 0 => Len(log) = handled /\ \A i \in 1..Len(log) : log[i] = published[i]
  BY DEF CommandInv, TrailKnown, LogKnown
<1>2. /\ published' \in Seq(EventNames) /\ Range(published') = Range(published) \cup Range(more)
      /\ more # <<>> => published' # <<>> /\ Last(published') = Last(more)
  BY <1>1, ToldTogether
<1>3. Len(published') = Len(published) + Len(more) /\ Len(more) \in Nat
      /\ \A i \in 1..Len(published) : published'[i] = published[i]
  BY <1>1
<1>4. handled <= Len(published')
  BY <1>1, <1>3
<1>5. missed = 0 => \A i \in 1..Len(log) : log[i] = published'[i]
  BY <1>1, <1>3
<1>6. published # <<>> => published' # <<>>
  BY <1>1, <1>3
<1>7. LogKnown'
  BY <1>1, <1>2, <1>4, <1>5 DEF LogKnown, writer
<1>8. TellFailure(published') <=> TellFailure(published) \/ TellFailure(more)
  BY <1>2 DEF TellFailure
<1> QED
  BY <1>2, <1>6, <1>7, <1>8

LEMMA BeginKept == ASSUME CommandInv, Begin PROVE CommandInv'
<1>1. /\ phase = "execute" /\ ~Idle /\ published = <<>> /\ log = <<>> /\ audit # "closed"
      /\ UNCHANGED <<command, seeded, audit, writer, results, snapshot, workflow>>
      /\ command.seed => seeded \in {"whole", "part"}
  BY DEF Begin, suite, Idle, directory, CommandInv, TrailKnown, SeedKnown, Ahead
<1>2. OnRoute(command.name, phase) /\ command.name \in Runs
      /\ (command.audit => command.name \in {"run", "pipelineRun"})
      /\ (command.seed => command.name \in {"run", "pipelineRun", "pipelineDebug"})
  BY <1>1, CommandIs DEF Idle, OnRoute, During, Behind, Runs, Debugging
<1>3. ASSUME NEW more \in Seq(EventNames), published' = more, more # <<>>
      PROVE  LogKnown' /\ published' # <<>>
  <2>1. published' = published \o more
    BY <1>1, <1>3
  <2> QED
    BY <1>1, <1>3, <2>1, PublishedMore
<1>4. ASSUME phase' = "nextGoal", published' = EventsBefore,
             "error" \in DOMAIN run', run'.error = FALSE, "goals" \in DOMAIN run', run'.goals = <<>>, ~Parsed(source').broken,
             command.name \in {"run", "debug"} => source' = source,
             command.seed => seeded = "whole" \/ command.name = "run"
      PROVE  CommandInv'
  <2>1. OnRoute(command.name, phase')
    BY <1>2, <1>4 DEF OnRoute, During, Runs, Debugging
  <2>2. TrailKnown'
    BY <1>1, <1>3, <1>4, EventsKnown DEF CommandInv, TrailKnown, Ahead, Started, During, Behind
  <2>3. RunKnown'
    BY <1>1, <1>4 DEF CommandInv, RunKnown, Started, During, Behind, Errors
  <2>4. SeedKnown'
    BY <1>1, <1>4 DEF SeedKnown, During, Behind
  <2>5. run'.goals \in Seq({}) /\ ~GoalFailed'
    BY <1>4 DEF GoalFailed, Range
  <2>6. EventsTell'
    BY <1>4, <2>5, EventsKnown DEF EventsTell, Started, During, Behind
  <2> QED
    BY <1>1, <1>4, <2>1, <2>2, <2>3, <2>4, <2>6, SuiteApart, WentOn
<1>5. CASE InPipeline /\ ~StageReads
  <2>1. run' = [NewRun(run.attrs, run.words, {}) EXCEPT !.error = TRUE] /\ published' = Unparsed /\ Proceed
    BY <1>5 DEF Begin
  <2>2. run'.error = TRUE /\ "goals" \in DOMAIN run' /\ run'.goals = <<>>
    BY <2>1 DEF NewRun
  <2>3. phase' = IF command.name \in Debugging THEN "report" ELSE "close"
    BY <1>1, <1>2, <2>1, GoesOn
  <2>4. command.name \in {"pipelineRun", "pipelineDebug"} /\ ~command.save
    BY <1>1, <1>5, CommandIs DEF InPipeline, Idle
  <2>5. OnRoute(command.name, phase') /\ phase' \in {"report", "close"}
    BY <2>3, <2>4 DEF OnRoute, Debugging
  <2>6. phase' = "report" => ~command.audit
    BY <1>2, <2>3, <2>4 DEF Debugging
  <2>7. TrailKnown'
    BY <1>1, <1>3, <2>1, <2>5, <2>6, EventsKnown DEF CommandInv, TrailKnown, Ahead, Started, During, Behind
  <2>8. NotBegun'
    BY <1>1, <1>5, <2>1 DEF NotBegun, InPipeline
  <2>9. RunKnown'
    BY <1>1, <2>2, <2>4, <2>5, <2>8 DEF CommandInv, RunKnown, Started, During, Behind
  <2>10. SeedKnown'
    BY <1>1, <2>2, <2>5 DEF SeedKnown, During, Behind
  <2>11. EventsTell'
    <3>1. "goals" \in DOMAIN run' /\ run'.goals \in Seq({})
      BY <2>2
    <3>2. ~Success(run)' /\ ~Success(run')
      BY <2>2 DEF Success
    <3> QED
      BY <2>1, <2>5, <3>1, <3>2, EventsKnown DEF EventsTell, Started, During, Behind
  <2> QED
    BY <1>1, <2>5, <2>7, <2>9, <2>10, <2>11, SuiteApart, WentOn
<1>6. CASE ~InPipeline
  <2>1. PICK attrs \in Seeds(run.attrs) : run' = SeededRun(source, [attrs |-> attrs, words |-> run.words])
    BY <1>6 DEF Begin
  <2>2. source' = source /\ published' = EventsBefore /\ phase' = "nextGoal"
    BY <1>6 DEF Begin
  <2>3. command.name \in {"run", "debug"} /\ (command.seed => command.name = "run")
    BY <1>2, <1>6 DEF InPipeline, Runs, Debugging
  <2>4. ~Parsed(source').broken
    BY <1>1, <2>2, <2>3, ErrorsIfBroken DEF CommandInv, RunKnown
  <2> QED
    BY <1>4, <2>1, <2>2, <2>3, <2>4, BegunWhole
<1>7. CASE InPipeline /\ StageReads
  <2>1. /\ run' = Begun(Parsed(StageText)) /\ source' = StageText
        /\ published' = EventsBefore /\ phase' = "nextGoal"
    BY <1>7 DEF Begin
  <2>2. command.name \notin {"run", "debug"}
    BY <1>7 DEF InPipeline
  <2>3. seeded # "part" /\ ~Parsed(StageText).broken
    BY <1>7 DEF StageReads
  <2> QED
    BY <1>1, <1>4, <2>1, <2>2, <2>3, BegunWhole
<1> QED
  BY <1>5, <1>6, <1>7

\* A run goes on: the trail is that of a run, and tells what became of its goals.
LEMMA RunWentOn ==
  ASSUME CommandInv, phase \in During, phase' \in During,
         NEW more \in Seq(EventNames), published' = published \o more,
         UNCHANGED <<command, given, audit, writer, results>>,
         "error" \in DOMAIN run', run'.error = FALSE,
         "goals" \in DOMAIN run', NEW S, run'.goals \in Seq(S), GoalFailed' <=> (GoalFailed \/ TellFailure(more))
  PROVE  CommandInv'
<1>1. ~Idle
  BY DEF During, Idle
<1>2. OnRoute(command.name, phase) /\ command.name \in Runs
  BY <1>1, CommandIs DEF OnRoute, During, Behind, Runs, Debugging, Idle
<1>3. OnRoute(command.name, phase') /\ phase' \notin {"idle", "done"}
  BY <1>2 DEF OnRoute, Runs, Debugging, During
<1>4. LogKnown' /\ published' # <<>> /\ (TellFailure(published') <=> (TellFailure(published) \/ TellFailure(more)))
  BY PublishedMore DEF CommandInv, TrailKnown, Started, During
<1>5. TrailKnown'
  <2>1. audit # "closed" /\ (command.audit => audit \in {"open", "skipped"})
    BY DEF CommandInv, TrailKnown, Started, During
  <2> QED
    BY <1>4, <2>1 DEF TrailKnown, Ahead, Started, During, Behind
<1>6. RunKnown' /\ SeedKnown'
  BY DEF CommandInv, RunKnown, SeedKnown, given, Started, During, Behind, Errors
<1>7. EventsTell'
  <2>1. TellFailure(published) <=> GoalFailed
    BY DEF CommandInv, EventsTell
  <2> QED
    BY <1>4, <2>1 DEF EventsTell, Started, During, Behind
<1>8. SuiteKnown'
  BY SuiteApart DEF During
<1> QED
  BY <1>1, <1>3, <1>5, <1>6, <1>7, <1>8, WentOn

LEMMA GoalsListed ==
  ASSUME CommandInv, phase \in Started
  PROVE  "goals" \in DOMAIN run /\ \E S : run.goals \in Seq(S)
BY DEF CommandInv, EventsTell

LEMMA StepStartsKept == ASSUME CommandInv, StepStarts PROVE CommandInv'
<1>1. /\ phase \in During /\ phase' \in During /\ phase \in Started
      /\ UNCHANGED <<command, given, run, audit, writer, results>>
  BY DEF StepStarts, During, Started, suite
<1> DEFINE more == <<"step.started">>
<1>2. more \in Seq(EventNames) /\ ~TellFailure(more)
  <2>1. "step.started" \in EventNames /\ "step.started" \notin Failures
    BY Zenon DEF EventNames, Failures
  <2>2. \A a \in EventNames : <<a>> \in Seq(EventNames) /\ Range(<<a>>) = {a}
    BY OneEvent
  <2>3. more \in Seq(EventNames) /\ Range(more) = {"step.started"}
    BY <2>1, <2>2, Zenon
  <2> QED
    BY <2>1, <2>3, Zenon DEF TellFailure
<1>3. published' = published \o more
  <2>1. published' = Append(published, "step.started")
    BY Zenon DEF StepStarts
  <2>2. \A name : Append(published, name) = published \o <<name>>
    BY DEF CommandInv, TrailKnown, LogKnown
  <2> QED
    BY <2>1, <2>2, Zenon
<1>4. "error" \in DOMAIN run' /\ run'.error = FALSE /\ (GoalFailed' <=> GoalFailed)
      /\ "goals" \in DOMAIN run'
  BY <1>1, GoalsListed DEF CommandInv, RunKnown, GoalFailed
<1>5. PICK S : run.goals \in Seq(S)
  BY <1>1, GoalsListed
<1> HIDE DEF more
<1> QED
  BY <1>1, <1>2, <1>3, <1>4, <1>5, RunWentOn

LEMMA StepEndsKept == ASSUME CommandInv, StepEnds PROVE CommandInv'
<1>1. /\ phase \in During /\ phase' \in During /\ phase \in Started
      /\ UNCHANGED <<command, given, audit, writer, results>>
  BY DEF StepEnds, During, Started, suite
<1>2. PICK expr, reply : run' = Replied(run, expr, reply, "rl")
  BY Zenon DEF StepEnds
<1>3. PICK S : run.goals \in Seq(S)
  BY <1>1, GoalsListed
<1>4. "error" \in DOMAIN run /\ run.error = FALSE
  BY <1>1 DEF CommandInv, RunKnown
<1>5. "error" \in DOMAIN run' /\ run'.error = FALSE
  BY <1>2, <1>4 DEF Replied
<1>6. "goals" \in DOMAIN run' /\ \E goal : run'.goals = Append(run.goals, goal)
  <2>1. "goals" \in DOMAIN run
    BY <1>1, GoalsListed
  <2> QED
    BY <1>2, <2>1 DEF Replied
<1> PICK goal : run'.goals = Append(run.goals, goal)
  BY <1>6
<1> DEFINE T == S \cup {goal}
<1>7. /\ run'.goals \in Seq(T) /\ Range(run'.goals) = Range(run.goals) \cup {goal}
      /\ Last(run'.goals) = goal
  <2>1. <<goal>> \in Seq(T) /\ Range(<<goal>>) = {goal} /\ Last(<<goal>>) = goal
    <3>1. goal \in T
      OBVIOUS
    <3> HIDE DEF T
    <3> QED
      BY <3>1, OneEvent
  <2>2. run.goals \in Seq(T)
    <3>1. S \subseteq T
      OBVIOUS
    <3> HIDE DEF T
    <3> QED
      BY <1>3, <3>1
  <2>3. run'.goals = run.goals \o <<goal>> /\ <<goal>> # <<>>
    BY <1>3
  <2> DEFINE s == run.goals
             t == <<goal>>
  <2>4. s \in Seq(T) /\ t \in Seq(T) /\ t # <<>> /\ run'.goals = s \o t
    BY <2>1, <2>2, <2>3
  <2>5. Range(t) = {goal} /\ Last(t) = goal
    BY <2>1
  <2> HIDE DEF T, s, t
  <2>6. run'.goals \in Seq(T) /\ Range(run'.goals) = Range(s) \cup Range(t) /\ Last(run'.goals) = Last(t)
    BY <2>4, ToldTogether
  <2> QED
    BY <2>5, <2>6 DEF s
<1>8. GoalFailed' <=> (GoalFailed \/ goal.status # "ACHIEVED")
  BY <1>7 DEF GoalFailed
<1>9. PICK name \in EventNames :
        published' = Append(published, name) /\ (name \in Failures <=> goal.status # "ACHIEVED")
  <2>1. /\ "step.completed" \in EventNames /\ "step.failed" \in EventNames
        /\ "step.completed" \notin Failures /\ "step.failed" \in Failures
    BY Zenon DEF EventNames, Failures
  <2>2. /\ goal.status = "ACHIEVED" => published' = Append(published, "step.completed")
        /\ goal.status # "ACHIEVED" => published' = Append(published, "step.failed")
    BY <1>7, Zenon DEF StepEnds
  <2> QED
    BY <2>1, <2>2, Zenon
<1>10. /\ <<name>> \in Seq(EventNames) /\ published' = published \o <<name>>
       /\ TellFailure(<<name>>) <=> goal.status # "ACHIEVED"
  <2>1. <<name>> \in Seq(EventNames) /\ Range(<<name>>) = {name}
    BY OneEvent
  <2>2. published' = published \o <<name>>
    BY <1>9 DEF CommandInv, TrailKnown, LogKnown
  <2> QED
    BY <1>9, <2>1, <2>2 DEF TellFailure
<1> HIDE DEF T
<1> QED
  BY <1>1, <1>5, <1>6, <1>7, <1>8, <1>10, RunWentOn

LEMMA PressKept == ASSUME CommandInv, Press PROVE CommandInv'
<1>1. /\ phase \in During /\ phase' \in During /\ phase \in Started
      /\ UNCHANGED <<command, given, run, published, audit, writer, results>>
  BY DEF Press, During, Started, trail, suite
<1>2. <<>> \in Seq(EventNames) /\ published' = published \o <<>> /\ ~TellFailure(<<>>)
  BY <1>1 DEF CommandInv, TrailKnown, LogKnown, TellFailure, Range
<1>3. "error" \in DOMAIN run' /\ run'.error = FALSE /\ (GoalFailed' <=> GoalFailed)
      /\ "goals" \in DOMAIN run'
  BY <1>1, GoalsListed DEF CommandInv, RunKnown, GoalFailed
<1>4. PICK S : run.goals \in Seq(S)
  BY <1>1, GoalsListed
<1> QED
  BY <1>1, <1>2, <1>3, <1>4, RunWentOn

\* A run is over, whether it is at its end or was stopped.
LEMMA RunIsOver ==
  ASSUME CommandInv, phase = "nextGoal", AfterRun,
         UNCHANGED <<command, given, audit, writer, results, directory>>,
         NEW more \in Seq(EventNames), published' = published \o more, more # <<>>,
         "goals" \in DOMAIN run', run' = run \/ ("error" \in DOMAIN run' /\ run'.error = TRUE /\ run'.goals = run.goals),
         Stopped' \/ (run' = run /\ Len(run.goals) = Len(Goals)),
         (TellFailure(published) \/ TellFailure(more)) <=> ~Success(run'),
         Success(run') => Last(more) = LastOfAll
  PROVE  CommandInv'
<1>1. ~Idle /\ phase \in During /\ phase \in Started
  BY DEF Idle, During, Started
<1>2. /\ OnRoute(command.name, phase) /\ command.name \in Runs
      /\ command.audit => command.name \in {"run", "pipelineRun"}
      /\ command.save => command.name = "run"
      /\ command.seed => command.name \in {"run", "pipelineRun", "pipelineDebug"}
  BY <1>1, CommandIs DEF OnRoute, During, Behind, Runs, Debugging, Idle
<1>3. /\ OnRoute(command.name, phase') /\ phase' \in {"report", "close"}
      /\ phase' = "report" => ~command.audit /\ ~command.save
  BY <1>1, <1>2 DEF AfterRun, OnRoute, Runs, Debugging, Behind
<1>4. /\ LogKnown' /\ published' # <<>> /\ Last(published') = Last(more)
      /\ TellFailure(published') <=> (TellFailure(published) \/ TellFailure(more))
  BY PublishedMore
<1>5. TrailKnown'
  <2>1. audit # "closed" /\ (command.audit => audit \in {"open", "skipped"})
    BY <1>1 DEF CommandInv, TrailKnown, Started, During
  <2> QED
    BY <1>3, <1>4, <2>1 DEF TrailKnown, Ahead, Started, During, Behind
<1>6. RunKnown'
  <2>1. "error" \in DOMAIN run /\ run.error = FALSE /\ ~Parsed(source).broken
    BY <1>1 DEF CommandInv, RunKnown
  <2>2. source' = source /\ Goals' = Goals
    BY DEF given, Goals
  <2>3. (run'.error /\ Stopped') \/ (~run'.error /\ Len(run'.goals) = Len(Goals'))
    BY <2>1, <2>2 DEF Stopped
  <2>4. command.name \in {"run", "debug"} => Errors(source) = {}
    BY <1>1 DEF CommandInv, RunKnown
  <2> QED
    BY <1>3, <2>1, <2>2, <2>3, <2>4 DEF RunKnown, Started, During, Behind, Errors
<1>7. SeedKnown'
  BY <1>1, <1>3 DEF CommandInv, SeedKnown, given, During, Behind
<1>8. EventsTell'
  <2>1. PICK S : run.goals \in Seq(S)
    BY <1>1, GoalsListed
  <2>2. run'.goals \in Seq(S)
    BY <2>1
  <2>3. LastOfAll' = LastOfAll /\ (Success(run)' <=> Success(run'))
    BY DEF LastOfAll, InPipeline, Success
  <2> QED
    BY <1>3, <1>4, <2>2, <2>3 DEF EventsTell, Started, During, Behind
<1>9. SuiteKnown'
  BY <1>3, SuiteApart
<1> QED
  BY <1>1, <1>3, <1>5, <1>6, <1>7, <1>8, <1>9, WentOn

\* A run that has not raised is a success when no goal failed.
LEMMA Succeeded ==
  ASSUME CommandInv, phase \in During
  PROVE  Success(run) <=> ~GoalFailed
BY DEF CommandInv, RunKnown, Success, GoalFailed, Range

LEMMA RunEndsKept == ASSUME CommandInv, RunEnds PROVE CommandInv'
<1>1. /\ phase = "nextGoal" /\ AfterRun /\ Len(run.goals) = Len(Goals)
      /\ UNCHANGED <<command, given, run, audit, writer, results, directory>>
      /\ "goals" \in DOMAIN run
  BY GoalsListed DEF RunEnds, suite, During, Started
<1> DEFINE more == EventsAfter(Success(run))
<1>2. Success(run) \in BOOLEAN /\ published' = published \o more
  BY DEF RunEnds, Success
<1>3. /\ more \in Seq(EventNames) /\ more # <<>>
      /\ TellFailure(more) => ~Success(run)
      /\ Success(run) => Last(more) = LastOfAll
  BY <1>2, EventsKnown
<1>4. TellFailure(published) <=> ~Success(run)
  BY <1>1, Succeeded DEF CommandInv, EventsTell, During
<1> HIDE DEF more
<1>5. Success(run') = Success(run)
  BY <1>1
<1> QED
  BY <1>1, <1>2, <1>3, <1>4, <1>5, RunIsOver

LEMMA RunStopsKept == ASSUME CommandInv, RunStops PROVE CommandInv'
<1>1. /\ phase = "nextGoal" /\ AfterRun /\ Len(run.goals) < Len(Goals) /\ Len(run.goals) >= Limit
      /\ run' = [run EXCEPT !.error = TRUE] /\ published' = published \o EventsStopped
      /\ UNCHANGED <<command, given, audit, writer, results, directory>>
  BY DEF RunStops, suite
<1>2. "error" \in DOMAIN run
  BY <1>1 DEF CommandInv, RunKnown, During
<1>3. "error" \in DOMAIN run' /\ run'.error = TRUE /\ run'.goals = run.goals /\ "goals" \in DOMAIN run'
  <2>1. "goals" \in DOMAIN run
    BY <1>1, GoalsListed DEF During, Started
  <2> QED
    BY <1>1, <1>2, <2>1
<1>4. Stopped'
  BY <1>1, <1>3 DEF Stopped, Goals, Limit, InPipeline, given
<1>5. ~Success(run')
  BY <1>3 DEF Success
<1> QED
  BY <1>1, <1>3, <1>4, <1>5, EventsKnown, RunIsOver

\* The writer thread.
LEMMA LogLineKept == ASSUME CommandInv, LogLine PROVE CommandInv'
<1>1. /\ ~Idle /\ audit \in {"open", "late"} /\ handled < Len(published) /\ handled' = handled + 1
      /\ \/ log' = Append(log, published[handled + 1]) /\ missed' = missed
         \/ missed' = missed + 1 /\ log' = log
      /\ UNCHANGED <<command, phase, given, source, seeded, run, published, audit, files, results, snapshot,
                     workflow, exit>>
  BY DEF LogLine, suite, directory, given
<1>2. /\ log \in Seq(EventNames) /\ published \in Seq(EventNames) /\ Len(published) \in Nat
      /\ handled \in Nat /\ missed \in Nat /\ Range(log) \subseteq Range(published)
      /\ missed = 0 => Len(log) = handled /\ \A i \in 1..Len(log) : log[i] = published[i]
  BY DEF CommandInv, TrailKnown, LogKnown
<1>3. /\ handled + 1 \in 1..Len(published) /\ published[handled + 1] \in EventNames
      /\ published[handled + 1] \in Range(published)
  BY <1>1, <1>2 DEF Range
<1>4. LogKnown'
  <2>1. CASE missed' = missed + 1 /\ log' = log
    BY <1>1, <1>2, <1>3, <2>1 DEF LogKnown
  <2>2. CASE log' = Append(log, published[handled + 1]) /\ missed' = missed
    <3> DEFINE line == published[handled + 1]
    <3>1. line \in EventNames /\ line \in Range(published)
      BY <1>3
    <3> HIDE DEF line
    <3>2. log' = log \o <<line>>
      BY <1>2, <2>2 DEF line
    <3>3. <<line>> \in Seq(EventNames) /\ Range(<<line>>) = {line}
      BY <3>1, OneEvent
    <3>4. log' \in Seq(EventNames) /\ Range(log') \subseteq Range(published)
      <4> DEFINE t == <<line>>
      <4>1. t \in Seq(EventNames) /\ Range(t) = {line} /\ log' = log \o t
        BY <3>2, <3>3
      <4> HIDE DEF t
      <4>2. log' \in Seq(EventNames) /\ Range(log') = Range(log) \cup {line}
        BY <1>2, <4>1, ToldTogether
      <4> QED
        BY <1>2, <3>1, <4>2
    <3>5. Len(log') = Len(log) + 1 /\ \A i \in 1..Len(log) : log'[i] = log[i]
      BY <1>2, <3>1, <3>2
    <3>6. log'[Len(log) + 1] = line
      BY <1>2, <3>1, <3>2
    <3>7. missed = 0 => \A i \in 1..Len(log') : log'[i] = published[i]
      BY <1>2, <3>5, <3>6 DEF line
    <3> QED
      BY <1>1, <1>2, <1>3, <2>2, <3>4, <3>5, <3>7 DEF LogKnown
  <2> QED
    BY <1>1, <2>1, <2>2
<1>5. published # <<>>
  BY <1>2, <1>3
<1>6. TrailKnown'
  BY <1>1, <1>4, <1>5 DEF CommandInv, TrailKnown, Ahead, Started, During, Behind
<1>7. RunKnown' /\ SeedKnown' /\ SuiteKnown'
  BY <1>1 DEF CommandInv, RunKnown, SeedKnown, SuiteKnown, Errors, Goals, Saved, Stopped, NotBegun, Limit, InPipeline
<1>8. EventsTell'
  BY <1>1 DEF CommandInv, EventsTell, GoalFailed, Success, LastOfAll, InPipeline
<1>9. OnRoute(command.name, phase') /\ phase' \notin {"idle", "done"}
  BY <1>1, CommandIs DEF Idle
<1> QED
  BY <1>1, <1>6, <1>7, <1>8, <1>9, WentOn

LEMMA CloseAuditKept == ASSUME CommandInv, CloseAudit PROVE CommandInv'
<1>1. /\ phase = "close" /\ ~Idle /\ Proceed
      /\ UNCHANGED <<command, given, source, seeded, run, published, writer, results, snapshot, workflow>>
      /\ \/ audit # "open" /\ audit' = audit
         \/ audit = "open" /\ handled = Len(published) /\ audit' = "closed"
         \/ audit = "open" /\ audit' = "late"
  BY DEF CloseAudit, suite, directory, given, Idle
<1>2. /\ OnRoute(command.name, phase) /\ command.name \in {"run", "pipelineRun"}
      /\ command.save => command.name = "run"
  BY <1>1, CommandIs DEF OnRoute, During, Behind, Idle
<1>3. phase' = IF command.name = "run" THEN "save" ELSE "report"
  BY <1>1, <1>2, GoesOn
<1>4. OnRoute(command.name, phase') /\ phase' \in {"save", "report"} /\ (phase' = "report" => ~command.save)
  BY <1>2, <1>3 DEF OnRoute, Behind
<1>5. TrailKnown'
  BY <1>1, <1>4 DEF CommandInv, TrailKnown, LogKnown, writer, Ahead, Started, During, Behind
<1>6. RunKnown' /\ SeedKnown'
  BY <1>1, <1>4 DEF CommandInv, RunKnown, SeedKnown, Started, During, Behind, Errors, Goals, Stopped, NotBegun,
     Limit, InPipeline
<1>7. EventsTell'
  BY <1>1, <1>4 DEF CommandInv, EventsTell, Started, During, Behind, GoalFailed, Success, LastOfAll, InPipeline
<1>8. SuiteKnown'
  BY <1>1, <1>4, SuiteApart
<1> QED
  BY <1>1, <1>4, <1>5, <1>6, <1>7, <1>8, WentOn

LEMMA SaveSnapshotKept == ASSUME CommandInv, SaveSnapshot PROVE CommandInv'
<1>1. /\ phase = "save" /\ ~Idle
      /\ UNCHANGED <<command, given, source, seeded, run, published, audit, writer, results, workflow>>
  BY DEF SaveSnapshot, trail, suite, given, Idle
<1>2. ASSUME Exit(2) PROVE CommandInv'
  BY <1>1, <1>2, Failed DEF CommandInv, SuiteKnown
<1>3. ASSUME Proceed, command.save => snapshot' = Saved PROVE CommandInv'
  <2>1. OnRoute(command.name, phase) /\ command.name = "run"
    BY <1>1, CommandIs DEF Idle, OnRoute, During, Behind
  <2>2. phase' = "report"
    BY <1>1, <1>3, <2>1, GoesOn
  <2>3. OnRoute(command.name, phase')
    BY <2>1, <2>2 DEF OnRoute, Behind
  <2>4. TrailKnown'
    BY <1>1, <2>2, TrailApart DEF Ahead, Started, During, Behind, CommandInv, TrailKnown
  <2>5. RunKnown' /\ SeedKnown'
    BY <1>1, <1>3, <2>2 DEF CommandInv, RunKnown, SeedKnown, Started, During, Behind, Errors, Goals, Saved, Stopped,
       NotBegun, Limit, InPipeline
  <2>6. EventsTell'
    BY <1>1, <2>2 DEF CommandInv, EventsTell, Started, During, Behind, GoalFailed, Success, LastOfAll, InPipeline
  <2> QED
    BY <1>1, <2>2, <2>3, <2>4, <2>5, <2>6, SuiteApart, WentOn
<1> QED
  BY <1>2, <1>3 DEF SaveSnapshot, Saved

\* The goals of a run that did not all end well.
LEMMA Unsuccessful ==
  ASSUME ~Success(run)
  PROVE  run.error \/ GoalFailed
BY DEF Success, GoalFailed, Range

LEMMA ReportKept == ASSUME CommandInv, Report PROVE CommandInv'
<1>1. /\ phase = "report" /\ ~Idle /\ phase' = "done" /\ exit' = IF Success(run) THEN 0 ELSE 1
      /\ UNCHANGED <<command, source, seeded, run, published, audit, writer, results, snapshot, workflow>>
  BY DEF Report, trail, suite, given, directory, Idle, Exit
<1>2. /\ command.name \in Runs /\ ~command.output
      /\ {command.audit, command.save, command.seed} \subseteq BOOLEAN
  BY <1>1, CommandIs DEF Idle, OnRoute, During, Behind, Runs, Debugging
<1>3. /\ Len(published) > 0 /\ published # <<>>
      /\ command.audit => audit \in {"closed", "late", "skipped"}
      /\ command.save => snapshot = Saved
      /\ \/ run.error /\ (Stopped \/ NotBegun)
         \/ ~run.error /\ Len(run.goals) = Len(Goals) /\ ~Parsed(source).broken
      /\ command.seed => seeded = "whole" \/ (seeded = "part" /\ (command.name = "run" \/ run.error))
  <2>1. published # <<>> /\ published \in Seq(EventNames)
    BY <1>1 DEF CommandInv, TrailKnown, LogKnown, Started, Behind
  <2>2. Len(published) > 0
    BY <2>1
  <2> QED
    BY <1>1, <2>1, <2>2 DEF CommandInv, TrailKnown, RunKnown, SeedKnown, Behind
<1>4. Success(run) => ~run.error /\ ~GoalFailed
  BY DEF Success, GoalFailed, Range
<1>5. /\ UNCHANGED <<GoalFailed, Goals, Saved, InPipeline, LastOfAll>>
      /\ Stopped' = Stopped
  BY <1>1 DEF GoalFailed, Goals, Saved, InPipeline, LastOfAll, Stopped, Limit
<1>6. Success(run) => phase' = "done" /\ exit' = 0
  BY <1>1
<1>7. ~Success(run) => phase' = "done" /\ exit' = 1
  BY <1>1
<1>8. ExitTruth'
  <2>1. CASE Success(run)
    BY <1>1, <1>2, <1>3, <1>4, <1>5, <1>6, <2>1 DEF ExitTruth, Runs, Debugging
  <2>2. CASE ~Success(run)
    BY <1>1, <1>2, <1>3, <1>5, <1>7, <2>2, Unsuccessful DEF ExitTruth, Runs, Debugging, NotBegun
  <2> QED
    BY <2>1, <2>2
<1>9. EventsTell'
  <2>1. (TellFailure(published) <=> ~Success(run)) /\ (Success(run) => Last(published) = LastOfAll)
    BY <1>1 DEF CommandInv, EventsTell, Behind
  <2> QED
    BY <1>1, <1>5, <2>1 DEF EventsTell, Started, During, Behind
<1> QED
  BY <1>1, <1>8, <1>9, Ended DEF CommandInv, SuiteKnown

LEMMA AbortKept == ASSUME CommandInv, Abort PROVE CommandInv'
BY Failed DEF Abort, trail, suite, given, CommandInv, SuiteKnown

-----------------------------------------------------------------------------
(* generate and test.                                                      *)

LEMMA CompleteKept == ASSUME CommandInv, Complete PROVE CommandInv'
<1>1. /\ phase = "complete" /\ ~Idle /\ published = <<>>
      /\ UNCHANGED <<command, published, audit, writer, results>>
  BY DEF Complete, trail, suite, Idle, CommandInv, TrailKnown, Ahead
<1>2. /\ OnRoute(command.name, phase) /\ command.name = "generate"
      /\ ~command.audit /\ ~command.save
  BY <1>1, CommandIs DEF Idle, OnRoute, During, Behind
<1>3. ASSUME Exit(1) PROVE CommandInv'
  <2>1. ExitTruth'
    BY <1>1, <1>2, <1>3 DEF ExitTruth, Exit, Runs, Debugging
  <2> QED
    BY <1>1, <1>3, <2>1, NothingTold, Ended DEF CommandInv, SuiteKnown, Exit
<1>4. ASSUME Proceed PROVE CommandInv'
  <2>1. phase' = "write"
    BY <1>1, <1>2, <1>4, GoesOn
  <2>2. OnRoute(command.name, phase')
    BY <1>2, <2>1 DEF OnRoute
  <2>3. TrailKnown'
    BY <1>1, <1>2, <2>1, TrailApart DEF CommandInv, TrailKnown, Ahead, Started, During, Behind
  <2>4. RunKnown'
    BY <2>1 DEF RunKnown, Started, During, Behind
  <2> QED
    BY <1>1, <2>1, <2>2, <2>3, <2>4, SuiteApart, StillAhead, WentOn
<1> QED
  BY <1>3, <1>4 DEF Complete

LEMMA WriteWorkflowKept == ASSUME CommandInv, WriteWorkflow PROVE CommandInv'
<1>1. /\ phase = "write" /\ ~Idle /\ Proceed
      /\ workflow' = IF command.output THEN source ELSE workflow
      /\ UNCHANGED <<command, source, published, audit, writer, results>>
  BY DEF WriteWorkflow, trail, suite, given, Idle
<1>2. OnRoute(command.name, phase) /\ command.name = "generate" /\ ~command.audit
  BY <1>1, CommandIs DEF Idle, OnRoute, During, Behind
<1>3. phase' = "verdict"
  BY <1>1, <1>2, GoesOn
<1>4. OnRoute(command.name, phase')
  BY <1>2, <1>3 DEF OnRoute
<1>5. TrailKnown'
  BY <1>1, <1>2, <1>3, TrailApart DEF CommandInv, TrailKnown, Ahead, Started, During, Behind
<1>6. RunKnown'
  BY <1>1, <1>3 DEF RunKnown, Started, During, Behind
<1> QED
  BY <1>1, <1>3, <1>4, <1>5, <1>6, SuiteApart, StillAhead, WentOn

LEMMA GenerateVerdictKept == ASSUME CommandInv, GenerateVerdict PROVE CommandInv'
<1>1. /\ phase = "verdict" /\ ~Idle /\ phase' = "done" /\ published = <<>>
      /\ exit' = IF command.noLint \/ Errors(source) = {} THEN 0 ELSE 1
      /\ UNCHANGED <<command, source, workflow, published, audit, writer, results>>
  BY DEF GenerateVerdict, trail, suite, given, directory, Idle, Exit, CommandInv, TrailKnown, Ahead
<1>2. /\ command.name = "generate" /\ ~command.audit /\ ~command.save /\ ~command.seed
      /\ {command.output, command.noLint} \subseteq BOOLEAN
      /\ command.output => workflow = source
  BY <1>1, CommandIs DEF Idle, OnRoute, During, Behind, CommandInv, RunKnown
<1>3. exit' \in {0, 1} /\ (exit' = 0 /\ ~command.noLint => ~Parsed(source).broken)
  BY <1>1, ErrorsIfBroken
<1>4. ExitTruth'
  BY <1>1, <1>2, <1>3 DEF ExitTruth, Runs, Debugging
<1> QED
  BY <1>1, <1>4, NothingTold, Ended DEF CommandInv, SuiteKnown

\* A phase of test, where nothing is published and no audit is asked for.
LEMMA TestGoesOn ==
  ASSUME CommandInv, phase \in {"paths", "cases", "inFile"}, phase' \in {"cases", "inFile"},
         UNCHANGED <<command, published, audit, writer>>, SuiteKnown'
  PROVE  CommandInv'
<1>1. ~Idle
  BY DEF Idle
<1>2. command.name = "test" /\ ~command.audit
  BY <1>1, CommandIs DEF Idle, OnRoute, During, Behind
<1>3. OnRoute(command.name, phase')
  BY <1>2 DEF OnRoute
<1>4. TrailKnown'
  BY <1>2, TrailApart, <1>1 DEF CommandInv, TrailKnown, Ahead, Started, During, Behind
<1>5. RunKnown'
  BY DEF RunKnown, Started, During, Behind
<1> QED
  BY <1>1, <1>3, <1>4, <1>5, StillAhead, WentOn

\* test has no report.
LEMMA TestStops ==
  ASSUME CommandInv, phase \in {"paths", "cases", "inFile"}, phase' = "done",
         UNCHANGED <<command, published, audit, writer>>, results' \in Seq(Seq(Verdicts)),
         exit' = 2 \/ (exit' = 3 /\ results' = <<>>)
  PROVE  CommandInv'
<1>1. ~Idle /\ published' = <<>>
  BY DEF Idle, CommandInv, TrailKnown, Ahead
<1>2. command.name = "test"
  BY <1>1, CommandIs DEF Idle, OnRoute, During, Behind
<1>3. ExitTruth'
  BY <1>2 DEF ExitTruth
<1> QED
  BY <1>1, <1>3, NothingTold, Ended

LEMMA ResolvePathsKept == ASSUME CommandInv, ResolvePaths PROVE CommandInv'
<1>1. /\ phase = "paths" /\ ~Idle /\ results' = <<>>
      /\ UNCHANGED <<command, published, audit, writer>>
  BY DEF ResolvePaths, trail, Idle
<1>2. results' \in Seq(Seq(Verdicts))
  BY <1>1
<1> DEFINE found == FlattenSeq([i \in DOMAIN command.paths |-> command.paths[i].files])
           bad == \E i \in DOMAIN command.paths : command.paths[i].kind \notin {"directory", "file"}
<1>3. CASE bad
  <2>1. Exit(2)
    BY <1>3 DEF ResolvePaths
  <2> QED
    BY <1>1, <1>2, <2>1, TestStops DEF Exit
<1>4. CASE ~bad /\ found = <<>>
  <2>1. Exit(3)
    BY <1>4 DEF ResolvePaths
  <2> QED
    BY <1>1, <1>2, <2>1, TestStops DEF Exit
<1>5. CASE ~bad /\ found # <<>>
  <2>1. Proceed /\ files' # <<>>
    BY <1>5 DEF ResolvePaths
  <2>2. OnRoute(command.name, phase) /\ command.name = "test"
    BY <1>1, CommandIs DEF Idle, OnRoute, During, Behind
  <2>3. phase' = "cases"
    BY <1>1, <2>1, <2>2, GoesOn
  <2>4. SuiteKnown'
    BY <1>2, <2>1, <2>3 DEF SuiteKnown
  <2> QED
    BY <1>1, <2>3, <2>4, TestGoesOn
<1> QED
  BY <1>3, <1>4, <1>5

LEMMA OpenSuiteKept == ASSUME CommandInv, OpenSuite PROVE CommandInv'
<1>1. /\ phase = "cases" /\ UNCHANGED <<command, published, audit, writer>>
      /\ results \in Seq(Seq(Verdicts))
  BY DEF OpenSuite, trail, CommandInv, SuiteKnown
<1>2. ASSUME Exit(2), UNCHANGED suite PROVE CommandInv'
  BY <1>1, <1>2, TestStops DEF Exit, suite
<1>3. ASSUME results' = Append(results, <<>>), phase' = "inFile" PROVE CommandInv'
  <2>1. <<>> \in Seq(Verdicts)
    OBVIOUS
  <2>2. results' \in Seq(Seq(Verdicts)) /\ Len(results') = Len(results) + 1
    BY <1>1, <1>3, <2>1
  <2>3. results' # <<>>
    BY <1>1, <2>2
  <2>4. SuiteKnown'
    BY <1>3, <2>2, <2>3 DEF SuiteKnown
  <2> QED
    BY <1>1, <1>3, <2>4, TestGoesOn
<1> QED
  BY <1>2, <1>3 DEF OpenSuite

LEMMA VerdictsKnown == \A case, ran : Verdict(case, ran) \in Verdicts
BY DEF Verdict, Verdicts

LEMMA RunCaseKept == ASSUME CommandInv, RunCase PROVE CommandInv'
<1>1. /\ phase = "inFile" /\ UNCHANGED <<command, published, audit, writer>>
      /\ results \in Seq(Seq(Verdicts)) /\ results # <<>>
  BY DEF RunCase, trail, CommandInv, SuiteKnown
<1>2. PICK verdict \in Verdicts : results' = [results EXCEPT ![Len(results)] = Append(@, verdict)]
  BY VerdictsKnown DEF RunCase
<1>3. Len(results) \in 1..Len(results)
  BY <1>1
<1>4. Append(results[Len(results)], verdict) \in Seq(Verdicts)
  BY <1>1, <1>3
<1>5. results' \in Seq(Seq(Verdicts)) /\ Len(results') = Len(results)
  BY <1>1, <1>2, <1>3, <1>4
<1>6. results' # <<>>
  BY <1>3, <1>5
<1>7. phase' \in {"cases", "inFile"}
  BY <1>1 DEF RunCase, FileIsDone
<1>8. SuiteKnown'
  BY <1>5, <1>6 DEF SuiteKnown
<1> QED
  BY <1>1, <1>7, <1>8, TestGoesOn

LEMMA PassedOverKept == ASSUME CommandInv, PassOver \/ CloseSuite PROVE CommandInv'
<1>1. /\ phase = "inFile" /\ phase' \in {"cases", "inFile"}
      /\ UNCHANGED <<command, published, audit, writer, results>>
  BY DEF PassOver, CloseSuite, FileIsDone, trail
<1>2. SuiteKnown'
  BY <1>1 DEF CommandInv, SuiteKnown
<1> QED
  BY <1>1, <1>2, TestGoesOn

\* A file passed when it has verdicts and none of them says that a case failed.
LEMMA PassedTells ==
  ASSUME NEW verdicts \in Seq(Verdicts)
  PROVE  AllPassed(verdicts) <=> verdicts # <<>> /\ Range(verdicts) \subseteq {"pass", "skip"}
<1>1. Range(verdicts) \subseteq Verdicts
  BY DEF Range
<1> QED
  BY <1>1 DEF AllPassed, Failing, Verdicts

LEMMA TestReportKept == ASSUME CommandInv, TestReport PROVE CommandInv'
<1>1. /\ phase = "cases" /\ ~Idle /\ phase' = "done" /\ files = <<>> /\ published = <<>>
      /\ exit' = IF \A i \in DOMAIN results : AllPassed(results[i]) THEN 0 ELSE 1
      /\ UNCHANGED <<command, published, audit, writer, results, files>>
      /\ results \in Seq(Seq(Verdicts)) /\ results # <<>>
  BY DEF TestReport, trail, suite, Idle, Exit, CommandInv, SuiteKnown, TrailKnown, Ahead
<1>2. command.name = "test" /\ ~command.save /\ ~command.audit /\ ~command.seed
  BY <1>1, CommandIs DEF Idle, OnRoute, During, Behind
<1>3. \A i \in DOMAIN results :
        AllPassed(results[i]) <=> results[i] # <<>> /\ Range(results[i]) \subseteq {"pass", "skip"}
  BY <1>1, PassedTells
<1>4. ExitTruth'
  BY <1>1, <1>2, <1>3 DEF ExitTruth, Runs, Debugging
<1> QED
  BY <1>1, <1>4, NothingTold, Ended

-----------------------------------------------------------------------------
(* Every step.                                                             *)

LEMMA CommandsStep == ASSUME CommandInv, CommandsNext PROVE CommandInv'
BY StartKept, EditKept, ReadFileKept, LintFirstKept, ReportedKept, ReadConfigKept, MakeProviderKept,
   OpenAuditKept, LoadSeedKept, BeginKept, StepStartsKept, StepEndsKept, PressKept, RunEndsKept, RunStopsKept,
   LogLineKept, CloseAuditKept, SaveSnapshotKept, ReportKept, AbortKept, CompleteKept, WriteWorkflowKept,
   GenerateVerdictKept, ResolvePathsKept, OpenSuiteKept, RunCaseKept, PassedOverKept, TestReportKept,
   Zenon DEF CommandsNext

LEMMA CommandsStutter == ASSUME CommandInv, UNCHANGED commandsVars PROVE CommandInv'
<1>1. UNCHANGED <<workflow, snapshot, command, phase, source, seeded, run, published, audit, handled, missed, log,
                  files, results, exit>>
  BY DEF commandsVars
<1>2. UNCHANGED <<Goals, Saved, InPipeline, LastOfAll, GoalFailed, Idle>> /\ Stopped' = Stopped /\ NotBegun' = NotBegun
  BY <1>1 DEF Goals, Saved, InPipeline, LastOfAll, GoalFailed, Idle, Stopped, NotBegun, Limit
<1>3. CommandKnown' /\ TrailKnown' /\ SuiteKnown'
  BY <1>1, <1>2 DEF CommandInv, CommandKnown, TrailKnown, LogKnown, SuiteKnown
<1>4. RunKnown' /\ SeedKnown' /\ EventsTell'
  BY <1>1, <1>2 DEF CommandInv, RunKnown, SeedKnown, EventsTell, Errors, Success
<1>5. ExitTruth'
  BY <1>1, <1>2 DEF CommandInv, ExitTruth, Errors
<1> QED
  BY <1>3, <1>4, <1>5 DEF CommandInv

LEMMA CommandsInvariant == CommandsSpec => []CommandInv
<1>1. CommandsInit => CommandInv
  BY CommandsStart
<1>2. CommandInv /\ [CommandsNext]_commandsVars => CommandInv'
  BY CommandsStep, CommandsStutter
<1> QED
  BY <1>1, <1>2, PTL DEF CommandsSpec

\* The exit code of a command tells the truth: 0 that all was done that was
\* asked for, or that a warning was given; 1 that what was run, linted or tested failed,
\* or that a run was cut at its limit of iterations (main's return codes).
THEOREM ExitTells == CommandsSpec => []ExitTruth
<1>1. CommandInv => ExitTruth
  BY DEF CommandInv
<1> QED
  BY <1>1, CommandsInvariant, PTL

\* What an auditor concludes from the log of a command is true: that it failed, whatever
\* the log lost; and, when the log was closed in time and lost nothing, whether it
\* ended with 0 or 1 (the sink of --audit-log and main's return codes).
THEOREM AuditIsTrue == CommandsSpec => []AuditTells
<1>1. ASSUME CommandInv PROVE AuditTells
  <2>1. /\ log \in Seq(EventNames) /\ published \in Seq(EventNames) /\ Range(log) \subseteq Range(published)
        /\ missed = 0 => Len(log) = handled /\ \A i \in 1..Len(log) : log[i] = published[i]
        /\ audit = "closed" => handled = Len(published)
    BY <1>1 DEF CommandInv, TrailKnown, LogKnown
  <2>2. /\ phase = "done" /\ exit = 0 /\ published # <<>> => ~TellFailure(published) /\ Last(published) = LastOfAll
        /\ phase = "done" /\ exit = 1 /\ published # <<>> => TellFailure(published)
    BY <1>1 DEF CommandInv, EventsTell
  <2>3. TellFailure(log) => TellFailure(published) /\ published # <<>>
    <3>1. published = <<>> => Range(published) = {}
      BY DEF Range
    <3> QED
      BY <2>1, <3>1 DEF TellFailure
  <2>4. audit = "closed" /\ missed = 0 => log = published
    BY <2>1
  <2> QED
    BY <2>2, <2>3, <2>4 DEF AuditTells, TellFailure
<1> QED
  BY <1>1, CommandsInvariant, PTL
=============================================================================
