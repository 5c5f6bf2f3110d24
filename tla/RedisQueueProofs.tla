------------------------- MODULE RedisQueueProofs -------------------------
(***************************************************************************)
(* Proofs about RedisQueue, for any number of records and subscriptions,   *)
(* any buffer, batch and retention.  Sequences enter the argument only     *)
(* through the sets of records they hold and through the position of a     *)
(* record in a subscriber's stream.                                        *)
(***************************************************************************)
EXTENDS RedisQueue, SequenceTheorems, WellFoundedInduction, TLAPS

Item == [rec : Kept, at : Nat]
Sent == Rec \cup {Hello}

TypeOK ==
    /\ clock \in Nat /\ enabled \in BOOLEAN /\ clearing \in BOOLEAN
    /\ items \in Seq(Item) /\ held \in Seq(Kept) /\ pub \in Seq(Rec)
    /\ subscribed \subseteq Sub /\ subs \subseteq subscribed
    /\ toClose \in [Sub -> Nat] /\ closes \in [Sub -> Nat] /\ from \in [Sub -> Nat]
    /\ buf \in [Sub -> Seq(Sent)] /\ got \in [Sub -> Seq(Sent)]
    /\ pc \in [Rec -> {"new", "again", "publish", "stamp", "enqueue", "done"}]
    /\ \A r \in Rec \ Kept : pc[r] \in {"publish", "done"}
    /\ stamp \in [Rec -> Nat]
    /\ fwd \in {"pop", "push", "requeue"} \cup Kept

\* No record is twice in the queue or twice in the forwarder's hands.
DistinctItems(q) == \A i, j \in 1..Len(q) : q[i].rec = q[j].rec => i = j
Distinct(q) == \A i, j \in 1..Len(q) : q[i] = q[j] => i = j

\* The forwarder pops only with empty hands.
FwdInv ==
    /\ DistinctItems(items) /\ Distinct(held)
    /\ fwd = "pop" => held = <<>>
    /\ fwd = "push" => held # <<>>

\* A record whose Enqueue goes on is nowhere, one whose Enqueue is done is in one place;
\* Home may have it besides if the answer to a push was lost.
Accounted(queue, hand, told, left) ==
    \A r \in Kept :
        /\ pc[r] = "done" => r \in queue \cup hand \cup told \cup left \cup homeGot
        /\ pc[r] # "done" => r \notin queue \cup hand \cup told \cup left
        /\ r \in queue => r \notin hand \cup told \cup left
        /\ r \in hand => r \notin told \cup left
        /\ r \in told => r \notin left
        /\ r \in homeGot \ unsure => pc[r] = "done" /\ r \notin queue \cup hand \cup told \cup left

AccountInv == Accounted(Records(items), ToSet(held), ToSet(pub), gone)

\* A stream is the greeting and the records published since, up to the last one
\* for whoever is still subscribed.
StreamOk(stream, start, live, told) ==
    /\ start <= Len(told)
    /\ Len(stream) \in 1..(1 + Len(told) - start)
    /\ live => Len(stream) = 1 + Len(told) - start
    /\ \A i \in 1..Len(stream) : stream[i] = IF i = 1 THEN Hello ELSE told[start + i - 1]

StreamInv ==
    /\ \A s \in Sub \ subscribed : got[s] = <<>> /\ buf[s] = <<>>
    /\ \A s \in subscribed : StreamOk(got[s] \o buf[s], from[s], s \in subs, pub)

\* Every record sent to the subscribers is in the stream of one of them, or a full
\* subscriber was closed when its stream had come to just before it.
TakenBy(s, i) == from[s] < i /\ i < from[s] + Len(Stream(s))
StoppedAt(s, i) ==
    /\ s \notin subs /\ from[s] + Len(Stream(s)) = i
    /\ Len(Stream(s)) >= Buffer /\ closes[s] > 0
TakenInv == \A i \in 1..Len(pub) : \E s \in subscribed : TakenBy(s, i) \/ StoppedAt(s, i)

QueueInv == TypeOK /\ FwdInv /\ AccountInv /\ StreamInv /\ ClosedOnce /\ TakenInv

-----------------------------------------------------------------------------
(* Sequences.                                                              *)

\* A nonempty set of indices has a least one.
LEMMA LeastIndex ==
  ASSUME NEW n \in Nat, NEW I \in SUBSET (1..n), I # {}
  PROVE  Min(I) \in I
<1>1. I \subseteq Nat OBVIOUS
<1>a. IsWellFoundedOn({ss \in Nat \X Nat : ss[1] < ss[2]}, Nat)
  BY NatLessThanWellFounded DEF OpToRel
<1>2. PICK x \in I : \A y \in I : ~(<<y, x>> \in {ss \in Nat \X Nat : ss[1] < ss[2]})
  BY <1>1, <1>a, WFMin
<1>3. ASSUME NEW y \in I PROVE x <= y
  <2>1. x \in Nat /\ y \in Nat BY <1>1
  <2>2. ~(y < x)
    <3>1. SUFFICES ASSUME y < x PROVE FALSE OBVIOUS
    <3>2. <<y, x>> \in Nat \X Nat /\ <<y, x>>[1] = y /\ <<y, x>>[2] = x BY <2>1
    <3>3. <<y, x>> \in {ss \in Nat \X Nat : ss[1] < ss[2]} BY <3>1, <3>2
    <3> QED BY <1>2, <3>3
  <2> QED BY <2>1, <2>2
<1> QED BY <1>3 DEF Min

\* What SubSeq keeps of a sequence from position k on.
LEMMA SuffixFacts ==
  ASSUME NEW S, NEW q \in Seq(S), NEW k \in 1..(Len(q) + 1)
  PROVE  /\ SubSeq(q, k, Len(q)) \in Seq(S) /\ Len(SubSeq(q, k, Len(q))) = Len(q) + 1 - k
         /\ \A i \in 1..(Len(q) + 1 - k) : SubSeq(q, k, Len(q))[i] = q[k + i - 1]
<1> DEFINE n == Len(q)
<1>1. n \in Nat /\ k \in Int /\ n \in Int /\ \A i \in k..n : q[i] \in S OBVIOUS
<1>2. /\ SubSeq(q, k, n) \in Seq(S)
      /\ Len(SubSeq(q, k, n)) = IF k <= n THEN n - k + 1 ELSE 0
      /\ \A i \in 1..(n - k + 1) : SubSeq(q, k, n)[i] = q[k + i - 1]
  BY <1>1, SubSeqProperties
<1>3. ASSUME NEW m \in Nat, k \in 1..(m + 1)
      PROVE  m - k + 1 = m + 1 - k /\ (IF k <= m THEN m - k + 1 ELSE 0) = m + 1 - k
  BY <1>3
<1>4. n - k + 1 = n + 1 - k /\ (IF k <= n THEN n - k + 1 ELSE 0) = n + 1 - k BY <1>1, <1>3
<1> QED BY <1>2, <1>4

\* The prune leaves an end of the queue.
LEMMA PrunedFacts ==
  ASSUME NEW S, NEW q \in Seq(S)
  PROVE  \E k \in 1..(Len(q) + 1) : Pruned(q) = SubSeq(q, k, Len(q))
<1>1. Len(q) \in Nat OBVIOUS
<1> DEFINE I == {i \in 1..Len(q) : Fresh(q[i])}
<1>2. CASE I = {}
  <2>1. Pruned(q) = <<>> BY <1>2 DEF Pruned, SelectInSeq
  <2>2. Len(q) + 1 \in Int /\ Len(q) \in Int /\ Len(q) < Len(q) + 1 /\ Len(q) + 1 \in 1..(Len(q) + 1) BY <1>1
  <2>3. SubSeq(q, Len(q) + 1, Len(q)) = <<>> BY <2>2, SubSeqEmpty
  <2> QED BY <2>1, <2>2, <2>3
<1>3. CASE I # {}
  <2>1. Min(I) \in I BY <1>1, <1>3, LeastIndex
  <2>2. Min(I) \in 1..(Len(q) + 1) /\ Min(I) # 0 BY <1>1, <2>1
  <2>3. Pruned(q) = SubSeq(q, Min(I), Len(q)) BY <1>3, <2>2 DEF Pruned, SelectInSeq
  <2> QED BY <2>2, <2>3
<1> QED BY <1>2, <1>3

LEMMA RecordsAre ==
  ASSUME NEW q \in Seq(Item)
  PROVE  /\ Records(q) \subseteq Kept
         /\ \A r : r \in Records(q) <=> \E i \in 1..Len(q) : q[i].rec = r
<1>1. DOMAIN q = 1..Len(q) /\ \A i \in 1..Len(q) : q[i] \in Item OBVIOUS
<1>2. \A x \in Item : x.rec \in Kept BY DEF Item
<1> QED BY <1>1, <1>2 DEF Records

LEMMA SetAre ==
  ASSUME NEW S, NEW q \in Seq(S)
  PROVE  /\ ToSet(q) \subseteq S
         /\ \A r : r \in ToSet(q) <=> \E i \in 1..Len(q) : q[i] = r
<1>1. DOMAIN q = 1..Len(q) /\ \A i \in 1..Len(q) : q[i] \in S OBVIOUS
<1> QED BY <1>1 DEF ToSet

LEMMA EmptySets == /\ ToSet(<<>>) = {} /\ Records(<<>>) = {}
                   /\ Distinct(<<>>) /\ DistinctItems(<<>>)
BY DEF ToSet, Records, Distinct, DistinctItems

\* The end of a queue holds what it held behind that position.
LEMMA SuffixRecords ==
  ASSUME NEW q \in Seq(Item), DistinctItems(q), NEW k \in 1..(Len(q) + 1)
  PROVE  LET t == SubSeq(q, k, Len(q))
         IN  /\ t \in Seq(Item) /\ DistinctItems(t) /\ Records(t) \subseteq Records(q)
             /\ \A r : r \in Records(t) <=> \E i \in k..Len(q) : q[i].rec = r
<1> DEFINE t == SubSeq(q, k, Len(q))
<1>0. Len(q) \in Nat OBVIOUS
<1>1. /\ t \in Seq(Item) /\ Len(t) = Len(q) + 1 - k
      /\ \A i \in 1..(Len(q) + 1 - k) : t[i] = q[k + i - 1]
  BY SuffixFacts
<1> HIDE DEF t
<1>2. \A i \in 1..Len(t) : k + i - 1 \in k..Len(q) BY <1>0, <1>1
<1>3. \A j \in k..Len(q) : j - k + 1 \in 1..Len(t) /\ k + (j - k + 1) - 1 = j BY <1>0, <1>1
<1>4. k..Len(q) \subseteq 1..Len(q) BY <1>0
<1>5. DistinctItems(t)
  <2> SUFFICES ASSUME NEW i \in 1..Len(t), NEW j \in 1..Len(t), t[i].rec = t[j].rec PROVE i = j
    BY DEF DistinctItems
  <2>1. /\ t[i] = q[k + i - 1] /\ t[j] = q[k + j - 1]
        /\ k + i - 1 \in 1..Len(q) /\ k + j - 1 \in 1..Len(q)
    BY <1>1, <1>2, <1>4
  <2>2. k + i - 1 = k + j - 1 BY <2>1 DEF DistinctItems
  <2> QED BY <1>0, <1>1, <2>2
<1>6. ASSUME NEW r PROVE r \in Records(t) <=> \E i \in k..Len(q) : q[i].rec = r
  <2>1. ASSUME r \in Records(t) PROVE \E i \in k..Len(q) : q[i].rec = r
    <3>1. PICK i \in 1..Len(t) : t[i].rec = r BY <1>1, <2>1, RecordsAre
    <3> QED BY <1>1, <1>2, <3>1
  <2>2. ASSUME NEW j \in k..Len(q), q[j].rec = r PROVE r \in Records(t)
    <3>1. t[j - k + 1] = q[j] BY <1>1, <1>3
    <3> QED BY <1>1, <1>3, <2>2, <3>1, RecordsAre
  <2> QED BY <2>1, <2>2
<1>7. Records(t) \subseteq Records(q) BY <1>4, <1>6, RecordsAre
<1> QED BY <1>1, <1>5, <1>6, <1>7 DEF t

LEMMA AppendRecord ==
  ASSUME NEW q \in Seq(Item), DistinctItems(q), NEW x \in Item, x.rec \notin Records(q)
  PROVE  /\ Append(q, x) \in Seq(Item) /\ DistinctItems(Append(q, x))
         /\ Records(Append(q, x)) = Records(q) \cup {x.rec}
<1> DEFINE t == Append(q, x)
<1>1. /\ t \in Seq(Item) /\ Len(t) = Len(q) + 1 /\ Len(q) \in Nat
      /\ t[Len(q) + 1] = x /\ \A i \in 1..Len(q) : t[i] = q[i]
  OBVIOUS
<1> HIDE DEF t
<1>2. \A i \in 1..Len(t) : i = Len(q) + 1 \/ i \in 1..Len(q) BY <1>1
<1>3. Len(q) + 1 \in 1..Len(t) /\ 1..Len(q) \subseteq 1..Len(t) BY <1>1
<1>4. \A i \in 1..Len(q) : q[i].rec # x.rec BY RecordsAre
<1>5. DistinctItems(t) BY <1>1, <1>2, <1>4 DEF DistinctItems
<1>6. \A r : r \in Records(t) <=> r \in Records(q) \/ r = x.rec
  BY <1>1, <1>2, <1>3, RecordsAre
<1> QED BY <1>1, <1>5, <1>6 DEF t

\* Taking the first n records of a queue splits it.
LEMMA FirstRecords ==
  ASSUME NEW q \in Seq(Item), DistinctItems(q), NEW n \in 0..Len(q)
  PROVE  LET h == [i \in 1..n |-> q[i].rec]
             t == SubSeq(q, n + 1, Len(q))
         IN  /\ h \in Seq(Kept) /\ Len(h) = n /\ Distinct(h)
             /\ t \in Seq(Item) /\ DistinctItems(t)
             /\ ToSet(h) \cap Records(t) = {} /\ ToSet(h) \cup Records(t) = Records(q)
<1> DEFINE h == [i \in 1..n |-> q[i].rec]
           t == SubSeq(q, n + 1, Len(q))
<1>0. Len(q) \in Nat /\ n \in Nat /\ n + 1 \in 1..(Len(q) + 1) OBVIOUS
<1>a. \A i \in 1..n : i \in 1..Len(q) /\ q[i] \in Item BY <1>0
<1>b. \A x \in Item : x.rec \in Kept BY DEF Item
<1>1. \A i \in 1..n : i \in 1..Len(q) /\ q[i].rec \in Kept BY <1>a, <1>b
<1>2. h \in Seq(Kept) /\ Len(h) = n BY <1>0, <1>1
<1>3. \A i \in 1..n : h[i] = q[i].rec OBVIOUS
<1>4. /\ t \in Seq(Item) /\ DistinctItems(t) /\ Records(t) \subseteq Records(q)
      /\ \A r : r \in Records(t) <=> \E i \in (n + 1)..Len(q) : q[i].rec = r
  BY <1>0, SuffixRecords
<1> HIDE DEF h, t
<1>5. Distinct(h) BY <1>1, <1>2, <1>3 DEF Distinct, DistinctItems
<1>6. \A r : r \in ToSet(h) <=> \E i \in 1..n : q[i].rec = r BY <1>2, <1>3, SetAre
<1>7. \A i \in 1..Len(q) : i \in 1..n \/ i \in (n + 1)..Len(q) BY <1>0
<1>8. \A i \in 1..n, j \in (n + 1)..Len(q) : i \in 1..Len(q) /\ j \in 1..Len(q) /\ i # j BY <1>0
<1>9. ToSet(h) \cap Records(t) = {} BY <1>4, <1>6, <1>8 DEF DistinctItems
<1>10. \A r : r \in ToSet(h) \cup Records(t) <=> r \in Records(q)
  BY <1>1, <1>4, <1>6, <1>7, <1>8, RecordsAre
<1> QED BY <1>2, <1>4, <1>5, <1>9, <1>10 DEF h, t

LEMMA TailSet ==
  ASSUME NEW S, NEW h \in Seq(S), h # <<>>, Distinct(h)
  PROVE  /\ Head(h) \in S /\ Head(h) \in ToSet(h)
         /\ Tail(h) \in Seq(S) /\ Distinct(Tail(h)) /\ ToSet(Tail(h)) = ToSet(h) \ {Head(h)}
<1> DEFINE t == Tail(h)
<1>1. /\ Len(h) \in Nat /\ Len(h) > 0 /\ Head(h) = h[1] /\ Head(h) \in S
      /\ t \in Seq(S) /\ Len(t) = Len(h) - 1
      /\ \A i \in 1..Len(t) : t[i] = h[i + 1]
  BY HeadTailProperties
<1> HIDE DEF t
<1>2. \A i \in 1..Len(t) : i + 1 \in 1..Len(h) /\ i + 1 # 1 BY <1>1
<1>3. \A i \in 1..Len(h) : i = 1 \/ (i - 1 \in 1..Len(t) /\ (i - 1) + 1 = i) BY <1>1
<1>4. 1 \in 1..Len(h) BY <1>1
<1>5. Distinct(t)
  <2> SUFFICES ASSUME NEW i \in 1..Len(t), NEW j \in 1..Len(t), t[i] = t[j] PROVE i = j BY DEF Distinct
  <2>1. i + 1 = j + 1 BY <1>1, <1>2 DEF Distinct
  <2> QED BY <1>1, <2>1
<1>6. ASSUME NEW r PROVE r \in ToSet(t) <=> r \in ToSet(h) /\ r # Head(h)
  <2>1. ASSUME r \in ToSet(t) PROVE r \in ToSet(h) /\ r # Head(h)
    <3>1. PICK i \in 1..Len(t) : t[i] = r BY <1>1, <2>1, SetAre
    <3>2. r = h[i + 1] /\ i + 1 \in 1..Len(h) /\ i + 1 # 1 BY <1>1, <1>2, <3>1
    <3> QED BY <1>1, <1>4, <3>2, SetAre DEF Distinct
  <2>2. ASSUME r \in ToSet(h), r # Head(h) PROVE r \in ToSet(t)
    <3>1. PICK i \in 1..Len(h) : h[i] = r BY <2>2, SetAre
    <3>2. i - 1 \in 1..Len(t) /\ (i - 1) + 1 = i BY <1>1, <1>3, <2>2, <3>1
    <3>3. t[i - 1] = r BY <1>1, <3>1, <3>2
    <3> QED BY <1>1, <3>2, <3>3, SetAre
  <2> QED BY <2>1, <2>2
<1> QED BY <1>1, <1>4, <1>5, <1>6, SetAre DEF t

LEMMA AppendSet ==
  ASSUME NEW S, NEW q \in Seq(S), NEW x \in S
  PROVE  Append(q, x) \in Seq(S) /\ ToSet(Append(q, x)) = ToSet(q) \cup {x}
<1> DEFINE t == Append(q, x)
<1>1. /\ t \in Seq(S) /\ Len(t) = Len(q) + 1 /\ Len(q) \in Nat
      /\ t[Len(q) + 1] = x /\ \A i \in 1..Len(q) : t[i] = q[i]
  OBVIOUS
<1> HIDE DEF t
<1>2. \A i \in 1..Len(t) : i = Len(q) + 1 \/ i \in 1..Len(q) BY <1>1
<1>3. Len(q) + 1 \in 1..Len(t) /\ 1..Len(q) \subseteq 1..Len(t) BY <1>1
<1>4. \A r : r \in ToSet(t) <=> r \in ToSet(q) \/ r = x BY <1>1, <1>2, <1>3, SetAre
<1> QED BY <1>1, <1>4 DEF t

\* What the queue holds after the prune.
LEMMA PrunedRecords ==
  ASSUME TypeOK, FwdInv
  PROVE  /\ Pruned(items) \in Seq(Item) /\ DistinctItems(Pruned(items))
         /\ Records(Pruned(items)) \subseteq Records(items)
<1>1. items \in Seq(Item) /\ DistinctItems(items) BY DEF TypeOK, FwdInv
<1>2. PICK k \in 1..(Len(items) + 1) : Pruned(items) = SubSeq(items, k, Len(items)) BY <1>1, PrunedFacts
<1> QED BY <1>1, <1>2, SuffixRecords

-----------------------------------------------------------------------------
LEMMA QueueInit == Init => QueueInv
<1> SUFFICES ASSUME Init PROVE QueueInv OBVIOUS
<1> USE QueueAssumption DEF Init
<1>0. <<>> \in Seq(Item) /\ <<>> \in Seq(Kept) /\ <<>> \in Seq(Rec) /\ <<>> \in Seq(Sent) OBVIOUS
<1>1. TypeOK BY <1>0 DEF TypeOK
<1>2. FwdInv BY EmptySets DEF FwdInv
<1>3. AccountInv BY EmptySets DEF AccountInv, Accounted
<1>4. StreamInv BY DEF StreamInv
<1>5. ClosedOnce BY DEF ClosedOnce
<1>6. TakenInv BY DEF TakenInv
<1> QED BY <1>1, <1>2, <1>3, <1>4, <1>5, <1>6 DEF QueueInv

\* The records the forwarder takes and what it leaves in the queue.
LEMMA Popped ==
  ASSUME TypeOK, FwdInv, FwdPop
  PROVE  /\ held' \in Seq(Kept) /\ Distinct(held')
         /\ items' \in Seq(Item) /\ DistinctItems(items')
         /\ ToSet(held') \cap Records(items') = {}
         /\ ToSet(held') \cup Records(items') = Records(Pruned(items))
         /\ fwd' = (IF held' = <<>> THEN "pop" ELSE "push")
<1> DEFINE q == Pruned(items)
           n == IF Len(q) < Batch THEN Len(q) ELSE Batch
<1>1. q \in Seq(Item) /\ DistinctItems(q) BY PrunedRecords
<1>2. n \in 0..Len(q) /\ n \in Nat
  <2> HIDE DEF q
  <2> QED BY <1>1, QueueAssumption
<1>3. /\ held' = [i \in 1..n |-> q[i].rec] /\ items' = SubSeq(q, n + 1, Len(q))
      /\ fwd' = IF n = 0 THEN "pop" ELSE "push"
  BY DEF FwdPop
<1> HIDE DEF q, n
<1>4. /\ held' \in Seq(Kept) /\ Len(held') = n /\ Distinct(held')
      /\ items' \in Seq(Item) /\ DistinctItems(items')
      /\ ToSet(held') \cap Records(items') = {}
      /\ ToSet(held') \cup Records(items') = Records(q)
  BY <1>1, <1>2, <1>3, FirstRecords
<1>5. n = 0 <=> held' = <<>> BY <1>2, <1>4
<1> QED BY <1>3, <1>4, <1>5 DEF q

\* The record a client takes, if the prune leaves any.
LEMMA PopLeaves ==
  ASSUME TypeOK, FwdInv, Pop
  PROVE  /\ items' \in Seq(Item) /\ DistinctItems(items')
         /\ Records(items') \subseteq Records(items)
<1> DEFINE q == Pruned(items)
<1>1. q \in Seq(Item) /\ DistinctItems(q) /\ Records(q) \subseteq Records(items) BY PrunedRecords
<1>2. items' = SubSeq(q, 2, Len(q)) BY DEF Pop
<1> HIDE DEF q
<1>3. Len(q) \in Nat BY <1>1
<1>4. CASE Len(q) = 0
  <2>1. 2 \in Int /\ Len(q) \in Int /\ Len(q) < 2 BY <1>4
  <2>2. items' = <<>> BY <1>2, <2>1, SubSeqEmpty
  <2> QED BY <2>2, EmptySets
<1>5. CASE Len(q) > 0
  <2>1. 2 \in 1..(Len(q) + 1) BY <1>3, <1>5
  <2> QED BY <1>1, <1>2, <2>1, SuffixRecords
<1> QED BY <1>3, <1>4, <1>5

\* What Enqueue makes of the queue.
LEMMA Enqueued ==
  ASSUME TypeOK, FwdInv, AccountInv, NEW r \in Rec, Enqueue(r)
  PROVE  /\ r \in Kept /\ r \notin Records(items)
         /\ items' \in Seq(Item) /\ DistinctItems(items')
         /\ Records(items') = Records(Pruned(items)) \cup {r}
<1> DEFINE q == Pruned(items)
           x == [rec |-> r, at |-> stamp[r]]
<1>1. q \in Seq(Item) /\ DistinctItems(q) /\ Records(q) \subseteq Records(items) BY PrunedRecords
<1>2. pc[r] = "enqueue" /\ items' = Append(q, x) BY DEF Enqueue
<1>3. r \in Kept BY <1>2 DEF TypeOK
<1>4. r \notin Records(items) BY <1>2, <1>3 DEF AccountInv, Accounted
<1>5. x \in Item /\ x.rec = r BY <1>3 DEF TypeOK, Item
<1> HIDE DEF q, x
<1>6. x.rec \notin Records(q) BY <1>1, <1>4, <1>5
<1>7. /\ Append(q, x) \in Seq(Item) /\ DistinctItems(Append(q, x))
      /\ Records(Append(q, x)) = Records(q) \cup {x.rec}
  BY <1>1, <1>5, <1>6, AppendRecord
<1> QED BY <1>2, <1>3, <1>4, <1>5, <1>7 DEF q

LEMMA Handed ==
  ASSUME TypeOK, FwdInv, held # <<>>
  PROVE  /\ Head(held) \in Kept /\ Head(held) \in ToSet(held)
         /\ Tail(held) \in Seq(Kept) /\ Distinct(Tail(held))
         /\ ToSet(Tail(held)) = ToSet(held) \ {Head(held)}
BY TailSet DEF TypeOK, FwdInv

LEMMA FwdStep ==
  ASSUME QueueInv, [Next]_vars
  PROVE  FwdInv'
<1> USE DEF QueueInv
<1>U. ASSUME UNCHANGED <<items, held, fwd>> PROVE FwdInv' BY <1>U DEF FwdInv
<1>1. ASSUME NEW r \in Rec, CheckEnabled(r) \/ Publish(r) \/ ReadClock(r) PROVE FwdInv'
  BY <1>U, <1>1 DEF CheckEnabled, Publish, ReadClock, fwdVars
<1>2. ASSUME NEW r \in Rec, Enqueue(r) PROVE FwdInv'
  BY <1>2, Enqueued DEF Enqueue, fwdVars, FwdInv
<1>3. ASSUME NEW s \in Sub, Subscribe(s) \/ Read(s) \/ Unsubscribe(s) \/ CloseChan(s) PROVE FwdInv'
  BY <1>U, <1>3 DEF Subscribe, Read, Unsubscribe, CloseChan, fwdVars
<1>4. ASSUME NEW value \in BOOLEAN, SetEnabled(value) PROVE FwdInv' BY <1>U, <1>4 DEF SetEnabled, fwdVars
<1>5. CASE Tick BY <1>U, <1>5 DEF Tick, fwdVars
<1>6. CASE Clear BY <1>6, EmptySets DEF Clear, fwdVars, FwdInv
<1>7. CASE Pop BY <1>7, PopLeaves DEF Pop, fwdVars, FwdInv
<1>8. CASE FwdPop BY <1>8, Popped DEF FwdInv
<1>9. CASE FwdPush
  <2>1. held # <<>> BY <1>9 DEF FwdPush, FwdInv
  <2> QED BY <1>9, <2>1, Handed DEF FwdPush, FwdInv
<1>10. ASSUME NEW arrived \in BOOLEAN, FwdPushFail(arrived) PROVE FwdInv' BY <1>10 DEF FwdPushFail, FwdInv
<1>11. CASE FwdRequeue
  <2>1. held # <<>> /\ Head(held) \in Kept /\ fwd' = Head(held) BY <1>11, Handed DEF FwdRequeue
  <2>2. fwd' \notin {"pop", "push", "requeue"} BY <2>1, QueueAssumption
  <2> QED BY <1>11, <2>1, <2>2, Handed DEF FwdRequeue, FwdInv
<1>12. CASE FwdRequeued BY <1>12 DEF FwdRequeued, FwdInv
<1>13. CASE UNCHANGED vars BY <1>U, <1>13 DEF vars, fwdVars
<1> QED BY <1>1, <1>2, <1>3, <1>4, <1>5, <1>6, <1>7, <1>8, <1>9, <1>10, <1>11, <1>12, <1>13 DEF Next

LEMMA AccountStep ==
  ASSUME QueueInv, [Next]_vars
  PROVE  AccountInv'
<1> USE DEF QueueInv
<1>U. ASSUME UNCHANGED <<items, held, pub, gone, pc, homeGot, unsure>> PROVE AccountInv'
  BY <1>U DEF AccountInv, Accounted
<1>K. /\ Kept \subseteq Rec /\ pc \in [Rec -> {"new", "again", "publish", "stamp", "enqueue", "done"}]
      /\ \A r \in Rec \ Kept : pc[r] \in {"publish", "done"}
  BY QueueAssumption DEF TypeOK
<1>1. ASSUME NEW r \in Rec, CheckEnabled(r) PROVE AccountInv'
  BY <1>1, <1>K DEF CheckEnabled, fwdVars, AccountInv, Accounted
<1>2. ASSUME NEW r \in Rec, Publish(r) PROVE AccountInv'
  <2>1. ToSet(Append(pub, r)) = ToSet(pub) \cup {r} BY AppendSet DEF TypeOK
  <2>2. \/ pc'[r] = "done" /\ ToSet(pub') = ToSet(pub) \cup {r}
        \/ pc'[r] # "done" /\ pub' = pub
        \/ r \notin Kept /\ pub' = pub
    BY <1>2, <1>K, <2>1 DEF Publish
  <2>3. \A x \in Kept : x # r => pc'[x] = pc[x] BY <1>2, <1>K DEF Publish
  <2>4. UNCHANGED <<items, held, homeGot, unsure, gone>> /\ pc[r] # "done" BY <1>2 DEF Publish, fwdVars
  <2> QED BY <2>2, <2>3, <2>4 DEF AccountInv, Accounted
<1>3. ASSUME NEW r \in Rec, ReadClock(r) PROVE AccountInv'
  BY <1>3, <1>K DEF ReadClock, fwdVars, AccountInv, Accounted
<1>4. ASSUME NEW r \in Rec, Enqueue(r) PROVE AccountInv'
  <2>1. /\ r \in Kept /\ Records(items') = Records(Pruned(items)) \cup {r} /\ r \notin Records(items)
        /\ Records(Pruned(items)) \subseteq Records(items)
    BY <1>4, Enqueued, PrunedRecords
  <2>2. /\ gone' = gone \cup (Records(items) \ Records(Pruned(items)))
        /\ UNCHANGED <<held, homeGot, unsure, pub>> /\ pc[r] = "enqueue"
        /\ pc' = [pc EXCEPT ![r] = "done"]
    BY <1>4 DEF Enqueue, fwdVars
  <2>3. pc'[r] = "done" /\ \A x \in Kept : x # r => pc'[x] = pc[x] BY <1>K, <2>2
  <2> QED BY <2>1, <2>2, <2>3 DEF AccountInv, Accounted
<1>5. ASSUME NEW s \in Sub, Subscribe(s) \/ Read(s) \/ Unsubscribe(s) \/ CloseChan(s) PROVE AccountInv'
  BY <1>U, <1>5 DEF Subscribe, Read, Unsubscribe, CloseChan, fwdVars
<1>6. ASSUME NEW value \in BOOLEAN, SetEnabled(value) PROVE AccountInv' BY <1>U, <1>6 DEF SetEnabled, fwdVars
<1>7. CASE Tick BY <1>U, <1>7 DEF Tick, fwdVars
<1>8. CASE Clear
  <2>1. /\ Records(items') = {} /\ gone' = gone \cup Records(items)
        /\ UNCHANGED <<held, homeGot, unsure, pub, pc>>
    BY <1>8, EmptySets DEF Clear, fwdVars
  <2> QED BY <2>1 DEF AccountInv, Accounted
<1>9. CASE Pop
  <2>1. /\ Records(items') \subseteq Records(items) /\ gone' = gone \cup (Records(items) \ Records(items'))
        /\ UNCHANGED <<held, homeGot, unsure, pub, pc>>
    BY <1>9, PopLeaves DEF Pop, fwdVars
  <2> QED BY <2>1 DEF AccountInv, Accounted
<1>10. CASE FwdPop
  <2>1. /\ ToSet(held') \cap Records(items') = {}
        /\ ToSet(held') \cup Records(items') = Records(Pruned(items))
        /\ Records(Pruned(items)) \subseteq Records(items)
    BY <1>10, Popped, PrunedRecords
  <2>2. /\ gone' = gone \cup (Records(items) \ Records(Pruned(items))) /\ ToSet(held) = {}
        /\ UNCHANGED <<homeGot, unsure, pub, pc>>
    BY <1>10, EmptySets DEF FwdPop, FwdInv
  <2> QED BY <2>1, <2>2 DEF AccountInv, Accounted
<1>11. CASE FwdPush
  <2>1. held # <<>> BY <1>11 DEF FwdPush, FwdInv
  <2>2. /\ Head(held) \in ToSet(held) /\ ToSet(held') = ToSet(held) \ {Head(held)}
        /\ homeGot' = homeGot \cup {Head(held)} /\ UNCHANGED <<items, unsure, pub, pc, gone>>
    BY <1>11, <2>1, Handed DEF FwdPush
  <2> QED BY <2>2 DEF AccountInv, Accounted
<1>12. ASSUME NEW arrived \in BOOLEAN, FwdPushFail(arrived) PROVE AccountInv'
  <2>1. held # <<>> BY <1>12 DEF FwdPushFail, FwdInv
  <2>2. /\ Head(held) \in ToSet(held) /\ UNCHANGED <<items, held, pub, pc, gone>>
        /\ \/ homeGot' = homeGot \cup {Head(held)} /\ unsure' = unsure \cup {Head(held)}
           \/ UNCHANGED <<homeGot, unsure>>
    BY <1>12, <2>1, Handed DEF FwdPushFail
  <2> QED BY <2>2 DEF AccountInv, Accounted
<1>13. CASE FwdRequeue
  <2> DEFINE x == Head(held)
  <2>1. /\ x \in Kept /\ x \in ToSet(held) /\ ToSet(held') = ToSet(held) \ {x}
        /\ pc' = [pc EXCEPT ![x] = "again"] /\ UNCHANGED <<items, homeGot, unsure, pub, gone>>
    BY <1>13, Handed DEF FwdRequeue
  <2> HIDE DEF x
  <2>2. pc'[x] = "again" /\ \A y \in Kept : y # x => pc'[y] = pc[y] BY <1>K, <2>1
  <2> QED BY <2>1, <2>2 DEF AccountInv, Accounted
<1>14. CASE FwdRequeued BY <1>U, <1>14 DEF FwdRequeued
<1>15. CASE UNCHANGED vars BY <1>U, <1>15 DEF vars, fwdVars
<1> QED BY <1>1, <1>2, <1>3, <1>4, <1>5, <1>6, <1>7, <1>8, <1>9, <1>10, <1>11, <1>12, <1>13, <1>14, <1>15
        DEF Next

-----------------------------------------------------------------------------
LEMMA TypeStep ==
  ASSUME QueueInv, [Next]_vars
  PROVE  TypeOK'
<1> USE DEF QueueInv
<1>K. Kept \subseteq Rec /\ Rec \subseteq Sent /\ Hello \in Sent BY QueueAssumption DEF Sent
<1>E. <<>> \in Seq(Item) OBVIOUS
<1>1. ASSUME NEW r \in Rec, CheckEnabled(r) PROVE TypeOK'
  BY <1>1, <1>K DEF CheckEnabled, timeVars, chanVars, fwdVars, TypeOK
<1>2. ASSUME NEW r \in Rec, Publish(r) PROVE TypeOK'
  <2>1. Append(pub, r) \in Seq(Rec) /\ r \in Sent BY <1>K DEF TypeOK
  <2>2. \A s \in Sub : Append(buf[s], r) \in Seq(Sent) BY <2>1 DEF TypeOK
  <2>3. pub' \in Seq(Rec) BY <1>2, <2>1 DEF Publish, TypeOK
  <2>4. buf' \in [Sub -> Seq(Sent)] BY <1>2, <2>2 DEF Publish, TypeOK
  <2>5. closes' \in [Sub -> Nat] BY <1>2 DEF Publish, TypeOK
  <2>6. subs' \subseteq subscribed' /\ subscribed' \subseteq Sub BY <1>2 DEF Publish, TypeOK
  <2>7. /\ pc' \in [Rec -> {"new", "again", "publish", "stamp", "enqueue", "done"}]
        /\ \A x \in Rec \ Kept : pc'[x] \in {"publish", "done"}
    BY <1>2 DEF Publish, TypeOK
  <2> QED BY <1>2, <2>3, <2>4, <2>5, <2>6, <2>7 DEF Publish, timeVars, fwdVars, TypeOK
<1>3. ASSUME NEW r \in Rec, ReadClock(r) PROVE TypeOK'
  BY <1>3, <1>K DEF ReadClock, timeVars, chanVars, fwdVars, TypeOK
<1>4. ASSUME NEW r \in Rec, Enqueue(r) PROVE TypeOK'
  <2>1. items' \in Seq(Item) BY <1>4, Enqueued
  <2> QED BY <1>4, <2>1 DEF Enqueue, timeVars, chanVars, fwdVars, TypeOK
<1>5. ASSUME NEW s \in Sub, Subscribe(s) PROVE TypeOK'
  <2>1. <<Hello>> \in Seq(Sent) /\ Len(pub) \in Nat BY <1>K DEF TypeOK
  <2> QED BY <1>5, <2>1 DEF Subscribe, timeVars, fwdVars, TypeOK
<1>6. ASSUME NEW s \in Sub, Read(s) PROVE TypeOK'
  <2>1. buf[s] \in Seq(Sent) /\ got[s] \in Seq(Sent) /\ buf[s] # <<>> BY <1>6 DEF Read, TypeOK
  <2>2. Head(buf[s]) \in Sent /\ Tail(buf[s]) \in Seq(Sent) BY <2>1, HeadTailProperties
  <2>3. Append(got[s], Head(buf[s])) \in Seq(Sent) BY <2>1, <2>2
  <2>4. buf' \in [Sub -> Seq(Sent)] /\ got' \in [Sub -> Seq(Sent)] BY <1>6, <2>2, <2>3 DEF Read, TypeOK
  <2> QED BY <1>6, <2>4 DEF Read, timeVars, fwdVars, TypeOK
<1>7. ASSUME NEW s \in Sub, Unsubscribe(s) \/ CloseChan(s) PROVE TypeOK'
  <2>1. toClose' \in [Sub -> Nat] /\ closes' \in [Sub -> Nat]
    <3>1. CASE Unsubscribe(s) BY <3>1 DEF Unsubscribe, TypeOK
    <3>2. CASE CloseChan(s)
      <4>1. toClose[s] \in Nat /\ toClose[s] > 0 BY <3>2 DEF CloseChan, TypeOK
      <4>2. toClose[s] - 1 \in Nat BY <4>1
      <4> QED BY <3>2, <4>2 DEF CloseChan, TypeOK
    <3> QED BY <1>7, <3>1, <3>2
  <2> QED BY <1>7, <2>1 DEF Unsubscribe, CloseChan, timeVars, fwdVars, TypeOK
<1>8. ASSUME NEW value \in BOOLEAN, SetEnabled(value) PROVE TypeOK'
  BY <1>8 DEF SetEnabled, chanVars, fwdVars, TypeOK
<1>9. CASE Clear
  <2>1. toClose' \in [Sub -> Nat] BY <1>9 DEF Clear, TypeOK
  <2> QED BY <1>9, <1>E, <2>1 DEF Clear, fwdVars, TypeOK
<1>10. CASE Tick BY <1>10 DEF Tick, chanVars, fwdVars, TypeOK
<1>11. CASE Pop
  <2>1. items' \in Seq(Item) BY <1>11, PopLeaves
  <2> QED BY <1>11, <2>1 DEF Pop, timeVars, chanVars, fwdVars, TypeOK
<1>12. CASE FwdPop
  <2>1. items' \in Seq(Item) /\ held' \in Seq(Kept) /\ fwd' \in {"pop", "push"} BY <1>12, Popped
  <2> QED BY <1>12, <2>1 DEF FwdPop, timeVars, chanVars, TypeOK
<1>13. CASE FwdPush
  <2>1. held # <<>> BY <1>13 DEF FwdPush, FwdInv
  <2>2. held' \in Seq(Kept) /\ fwd' \in {"pop", "push"} BY <1>13, <2>1, Handed DEF FwdPush
  <2> QED BY <1>13, <2>2 DEF FwdPush, timeVars, chanVars, TypeOK
<1>14. ASSUME NEW arrived \in BOOLEAN, FwdPushFail(arrived) PROVE TypeOK'
  BY <1>14 DEF FwdPushFail, timeVars, chanVars, TypeOK
<1>15. CASE FwdRequeue
  <2> DEFINE x == Head(held)
  <2>1. /\ held' \in Seq(Kept) /\ x \in Kept /\ fwd' = x
        /\ pc' = [pc EXCEPT ![x] = "again"]
    BY <1>15, Handed DEF FwdRequeue
  <2> HIDE DEF x
  <2> QED BY <1>15, <1>K, <2>1 DEF FwdRequeue, timeVars, chanVars, TypeOK
<1>16. CASE FwdRequeued BY <1>16 DEF FwdRequeued, timeVars, chanVars, TypeOK
<1>17. CASE UNCHANGED vars BY <1>17 DEF vars, timeVars, chanVars, fwdVars, TypeOK
<1> QED BY <1>1, <1>2, <1>3, <1>4, <1>5, <1>6, <1>7, <1>8, <1>9, <1>10, <1>11, <1>12, <1>13, <1>14, <1>15,
           <1>16, <1>17 DEF Next

\* A channel leaves the map with the close it is owed, and nothing else owes it one.
LEMMA ClosedStep ==
  ASSUME QueueInv, [Next]_vars
  PROVE  ClosedOnce'
<1> USE DEF QueueInv
<1>T. /\ subscribed \subseteq Sub /\ subs \subseteq subscribed
      /\ toClose \in [Sub -> Nat] /\ closes \in [Sub -> Nat]
  BY DEF TypeOK
<1>U. ASSUME UNCHANGED <<subscribed, subs, toClose, closes>> PROVE ClosedOnce' BY <1>U DEF ClosedOnce
<1>1. ASSUME NEW r \in Rec, CheckEnabled(r) \/ ReadClock(r) \/ Enqueue(r) PROVE ClosedOnce'
  BY <1>U, <1>1 DEF CheckEnabled, ReadClock, Enqueue, chanVars
<1>2. ASSUME NEW r \in Rec, Publish(r) PROVE ClosedOnce' BY <1>2, <1>T DEF Publish, ClosedOnce
<1>3. ASSUME NEW s \in Sub, Subscribe(s) PROVE ClosedOnce' BY <1>3, <1>T DEF Subscribe, ClosedOnce
<1>4. ASSUME NEW s \in Sub, Read(s) PROVE ClosedOnce' BY <1>U, <1>4 DEF Read
<1>5. ASSUME NEW s \in Sub, Unsubscribe(s) PROVE ClosedOnce' BY <1>5, <1>T DEF Unsubscribe, ClosedOnce
<1>6. ASSUME NEW s \in Sub, CloseChan(s) PROVE ClosedOnce' BY <1>6, <1>T DEF CloseChan, ClosedOnce
<1>7. ASSUME NEW value \in BOOLEAN, SetEnabled(value) PROVE ClosedOnce' BY <1>U, <1>7 DEF SetEnabled, chanVars
<1>8. CASE Clear BY <1>8, <1>T DEF Clear, ClosedOnce
<1>9. CASE Tick \/ Pop BY <1>U, <1>9 DEF Tick, Pop, chanVars
<1>10. CASE FwdPop \/ FwdPush \/ FwdRequeue \/ FwdRequeued
  BY <1>U, <1>10 DEF FwdPop, FwdPush, FwdRequeue, FwdRequeued, chanVars
<1>11. ASSUME NEW arrived \in BOOLEAN, FwdPushFail(arrived) PROVE ClosedOnce'
  BY <1>U, <1>11 DEF FwdPushFail, chanVars
<1>12. CASE UNCHANGED vars BY <1>U, <1>12 DEF vars, chanVars
<1> QED BY <1>1, <1>2, <1>3, <1>4, <1>5, <1>6, <1>7, <1>8, <1>9, <1>10, <1>11, <1>12 DEF Next

-----------------------------------------------------------------------------
(* The streams.                                                            *)

\* A publication a subscriber does not get leaves its stream a beginning.
LEMMA StreamMissed ==
  ASSUME NEW st \in Seq(Sent), NEW f \in Nat, NEW p \in Seq(Rec), NEW r \in Rec,
         NEW live, StreamOk(st, f, live, p)
  PROVE  StreamOk(st, f, FALSE, p) /\ StreamOk(st, f, FALSE, Append(p, r))
<1>1. /\ Len(p) \in Nat /\ Len(st) \in Nat /\ Len(Append(p, r)) = Len(p) + 1
      /\ \A i \in 1..Len(p) : Append(p, r)[i] = p[i]
  OBVIOUS
<1>2. f <= Len(p) /\ Len(st) \in 1..(1 + Len(p) - f) BY DEF StreamOk
<1>3. f <= Len(p) + 1 /\ Len(st) \in 1..(1 + (Len(p) + 1) - f) BY <1>1, <1>2
<1>4. \A i \in 1..Len(st) : i # 1 => f + i - 1 \in 1..Len(p) BY <1>1, <1>2
<1>5. \A i \in 1..Len(st) : st[i] = IF i = 1 THEN Hello ELSE p[f + i - 1] BY DEF StreamOk
<1>6. \A i \in 1..Len(st) : st[i] = IF i = 1 THEN Hello ELSE Append(p, r)[f + i - 1] BY <1>1, <1>4, <1>5
<1>7. StreamOk(st, f, FALSE, p) BY <1>2, <1>5 DEF StreamOk
<1>8. StreamOk(st, f, FALSE, Append(p, r)) BY <1>1, <1>3, <1>6 DEF StreamOk
<1> QED BY <1>7, <1>8

\* One that a subscriber gets is the next of its stream.
LEMMA StreamNext ==
  ASSUME NEW st \in Seq(Sent), NEW f \in Nat, NEW p \in Seq(Rec), NEW r \in Rec,
         StreamOk(st, f, TRUE, p)
  PROVE  StreamOk(Append(st, r), f, TRUE, Append(p, r))
<1>0. r \in Sent BY DEF Sent
<1>1. /\ Len(p) \in Nat /\ Len(st) \in Nat /\ Len(Append(p, r)) = Len(p) + 1
      /\ \A i \in 1..Len(p) : Append(p, r)[i] = p[i]
  OBVIOUS
<1>2. Append(p, r)[Len(p) + 1] = r OBVIOUS
<1>3. /\ Len(Append(st, r)) = Len(st) + 1 /\ Append(st, r)[Len(st) + 1] = r
      /\ \A i \in 1..Len(st) : Append(st, r)[i] = st[i]
  BY <1>0
<1>4. f <= Len(p) /\ Len(st) = 1 + Len(p) - f /\ Len(st) >= 1 BY <1>1 DEF StreamOk
<1>5. \A i \in 1..Len(st) : st[i] = IF i = 1 THEN Hello ELSE p[f + i - 1] BY DEF StreamOk
<1>6. \A i \in 1..Len(st) : i # 1 => f + i - 1 \in 1..Len(p) BY <1>1, <1>4
<1>7. \A i \in 1..(Len(st) + 1) : i \in 1..Len(st) \/ (i = Len(st) + 1 /\ i # 1 /\ f + i - 1 = Len(p) + 1)
  BY <1>1, <1>4
<1>8. \A i \in 1..(Len(st) + 1) : Append(st, r)[i] = IF i = 1 THEN Hello ELSE Append(p, r)[f + i - 1]
  BY <1>1, <1>2, <1>3, <1>5, <1>6, <1>7
<1>9. /\ f <= Len(p) + 1 /\ Len(st) + 1 \in 1..(1 + (Len(p) + 1) - f)
      /\ Len(st) + 1 = 1 + (Len(p) + 1) - f
  BY <1>1, <1>4
<1> QED BY <1>1, <1>3, <1>8, <1>9 DEF StreamOk

LEMMA StreamBegins ==
  ASSUME NEW p \in Seq(Rec)
  PROVE  StreamOk(<<Hello>>, Len(p), TRUE, p)
<1>1. Len(p) \in Nat /\ Len(<<Hello>>) = 1 /\ <<Hello>>[1] = Hello OBVIOUS
<1>2. 1 \in 1..(1 + Len(p) - Len(p)) /\ 1 = 1 + Len(p) - Len(p) /\ \A i \in 1..1 : i = 1 BY <1>1
<1> QED BY <1>1, <1>2 DEF StreamOk

LEMMA ConcatAppend ==
  \A S : \A g, b \in Seq(S), x \in S : g \o Append(b, x) = Append(g \o b, x)
<1> SUFFICES ASSUME NEW S, NEW g \in Seq(S), NEW b \in Seq(S), NEW x \in S
             PROVE  g \o Append(b, x) = Append(g \o b, x)
  OBVIOUS
<1>1. <<x>> \in Seq(S) /\ g \o b \in Seq(S) OBVIOUS
<1>2. Append(b, x) = b \o <<x>> /\ Append(g \o b, x) = (g \o b) \o <<x>> BY <1>1, AppendIsConcat
<1>3. (g \o b) \o <<x>> = g \o (b \o <<x>>) BY <1>1, ConcatAssociative
<1> QED BY <1>2, <1>3

\* What moves from the channel to the reader stays where it was in the stream.
LEMMA ConcatRead ==
  ASSUME NEW S, NEW g \in Seq(S), NEW b \in Seq(S), b # <<>>
  PROVE  Append(g, Head(b)) \o Tail(b) = g \o b
<1>1. Head(b) \in S /\ Tail(b) \in Seq(S) /\ Len(Tail(b)) = Len(b) - 1
      /\ \A i \in 1..Len(Tail(b)) : Tail(b)[i] = b[i + 1]
  BY HeadTailProperties
<1>2. <<Head(b)>> \in Seq(S) /\ Len(<<Head(b)>>) = 1 /\ <<Head(b)>>[1] = Head(b) BY <1>1
<1>3. Len(b) \in Nat /\ Len(b) > 0 /\ Head(b) = b[1] OBVIOUS
<1> DEFINE c == <<Head(b)>> \o Tail(b)
<1>4. /\ c \in Seq(S) /\ Len(c) = 1 + Len(Tail(b))
      /\ \A i \in 1..(1 + Len(Tail(b))) : c[i] = IF i <= 1 THEN <<Head(b)>>[i] ELSE Tail(b)[i - 1]
  BY <1>1, <1>2, ConcatProperties
<1> HIDE DEF c
<1>5. Len(c) = Len(b) BY <1>1, <1>3, <1>4
<1>6. ASSUME NEW i \in 1..Len(c) PROVE c[i] = b[i]
  <2>1. CASE i = 1 BY <1>2, <1>3, <1>4, <2>1
  <2>2. CASE i # 1
    <3>1. i - 1 \in 1..Len(Tail(b)) /\ (i - 1) + 1 = i /\ ~(i <= 1) BY <1>1, <1>3, <1>5, <2>2
    <3> QED BY <1>1, <1>4, <3>1
  <2> QED BY <2>1, <2>2
<1>7. c = b BY <1>4, <1>5, <1>6, SeqEqual
<1>8. Append(g, Head(b)) = g \o <<Head(b)>> BY <1>1, AppendIsConcat
<1>9. (g \o <<Head(b)>>) \o Tail(b) = g \o (<<Head(b)>> \o Tail(b)) BY <1>1, <1>2, ConcatAssociative
<1> QED BY <1>7, <1>8, <1>9 DEF c

LEMMA StreamStep ==
  ASSUME QueueInv, [Next]_vars
  PROVE  StreamInv'
<1> USE DEF QueueInv
<1>T. /\ subscribed \subseteq Sub /\ subs \subseteq subscribed /\ from \in [Sub -> Nat] /\ pub \in Seq(Rec)
      /\ buf \in [Sub -> Seq(Sent)] /\ got \in [Sub -> Seq(Sent)]
  BY DEF TypeOK
<1>C. \A s \in Sub : got[s] \in Seq(Sent) /\ buf[s] \in Seq(Sent) /\ got[s] \o buf[s] \in Seq(Sent) BY <1>T
<1>U. ASSUME UNCHANGED <<subscribed, subs, from, pub, buf, got>> PROVE StreamInv' BY <1>U DEF StreamInv
<1>D. ASSUME UNCHANGED <<subscribed, from, pub, buf, got>>, subs' \subseteq subs PROVE StreamInv'
  <2>1. ASSUME NEW s \in subscribed PROVE StreamOk(got[s] \o buf[s], from[s], s \in subs', pub)
    <3>1. /\ got[s] \o buf[s] \in Seq(Sent) /\ from[s] \in Nat
          /\ StreamOk(got[s] \o buf[s], from[s], s \in subs, pub)
      BY <1>C, <1>T DEF StreamInv
    <3> QED BY <1>D, <3>1 DEF StreamOk
  <2> QED BY <1>D, <2>1 DEF StreamInv
<1>1. ASSUME NEW r \in Rec, CheckEnabled(r) \/ ReadClock(r) \/ Enqueue(r) PROVE StreamInv'
  BY <1>U, <1>1 DEF CheckEnabled, ReadClock, Enqueue, chanVars
<1>2. ASSUME NEW r \in Rec, Publish(r) PROVE StreamInv'
  <2>0. r \in Sent BY DEF Sent
  <2>1. CASE subs = {}
    <3>1. subs' = {} /\ UNCHANGED <<subscribed, from, pub, got>> BY <1>2, <2>1 DEF Publish
    <3>2. buf' = buf BY <1>2, <1>T, <2>1 DEF Publish
    <3> QED BY <1>D, <3>1, <3>2
  <2>2. CASE subs # {}
    <3>1. /\ subs' \subseteq subs /\ UNCHANGED <<subscribed, from, got>> /\ pub' = Append(pub, r)
          /\ \A s \in Sub : buf'[s] = IF s \in subs' THEN Append(buf[s], r) ELSE buf[s]
      BY <1>2, <2>2 DEF Publish
    <3>2. ASSUME NEW s \in subscribed PROVE StreamOk(got[s] \o buf'[s], from[s], s \in subs', Append(pub, r))
      <4>1. /\ s \in Sub /\ got[s] \in Seq(Sent) /\ buf[s] \in Seq(Sent)
            /\ got[s] \o buf[s] \in Seq(Sent) /\ from[s] \in Nat
            /\ StreamOk(got[s] \o buf[s], from[s], s \in subs, pub)
        BY <1>C, <1>T DEF StreamInv
      <4>2. CASE s \in subs'
        <5>1. StreamOk(got[s] \o buf[s], from[s], TRUE, pub) BY <3>1, <4>1, <4>2 DEF StreamOk
        <5>2. StreamOk(Append(got[s] \o buf[s], r), from[s], TRUE, Append(pub, r))
          BY <1>T, <4>1, <5>1, StreamNext
        <5>3. buf'[s] = Append(buf[s], r) BY <3>1, <4>1, <4>2
        <5>4. got[s] \o Append(buf[s], r) = Append(got[s] \o buf[s], r)
          <6> DEFINE g == got[s]
                     b == buf[s]
          <6>1. g \in Seq(Sent) /\ b \in Seq(Sent) BY <4>1
          <6> HIDE DEF g, b
          <6>2. g \o Append(b, r) = Append(g \o b, r) BY <2>0, <6>1, ConcatAppend
          <6> QED BY <6>2 DEF g, b
        <5> QED BY <4>2, <5>2, <5>3, <5>4 DEF StreamOk
      <4>3. CASE s \notin subs'
        <5>1. StreamOk(got[s] \o buf[s], from[s], FALSE, Append(pub, r)) BY <1>T, <4>1, StreamMissed
        <5>2. buf'[s] = buf[s] BY <3>1, <4>1, <4>3
        <5> QED BY <4>3, <5>1, <5>2 DEF StreamOk
      <4> QED BY <4>2, <4>3
    <3>3. \A s \in Sub \ subscribed : got[s] = <<>> /\ buf'[s] = <<>> BY <1>T, <3>1 DEF StreamInv
    <3> QED BY <3>1, <3>2, <3>3 DEF StreamInv
  <2> QED BY <2>1, <2>2
<1>3. ASSUME NEW s \in Sub, Subscribe(s) PROVE StreamInv'
  <2>1. /\ s \notin subscribed /\ subscribed' = subscribed \cup {s} /\ subs' = subs \cup {s}
        /\ UNCHANGED <<got, pub>> /\ buf'[s] = <<Hello>> /\ from'[s] = Len(pub) /\ got[s] = <<>>
        /\ \A x \in Sub : x # s => buf'[x] = buf[x] /\ from'[x] = from[x]
    BY <1>3, <1>T DEF Subscribe, StreamInv
  <2>2. got[s] \o buf'[s] = <<Hello>>
    <3>1. <<Hello>> \in Seq(Sent) BY DEF Sent
    <3>2. <<>> \o <<Hello>> = <<Hello>> BY <3>1, ConcatEmptySeq
    <3> QED BY <2>1, <3>2
  <2>3. StreamOk(got[s] \o buf'[s], from'[s], s \in subs', pub)
    <3>1. StreamOk(<<Hello>>, Len(pub), TRUE, pub) BY <1>T, StreamBegins
    <3> QED BY <2>1, <2>2, <3>1 DEF StreamOk
  <2>4. ASSUME NEW x \in subscribed PROVE StreamOk(got[x] \o buf'[x], from'[x], x \in subs', pub)
    <3>1. x # s /\ x \in Sub /\ buf'[x] = buf[x] /\ from'[x] = from[x] BY <1>T, <2>1
    <3>2. x \in subs' <=> x \in subs BY <2>1, <3>1
    <3>3. StreamOk(got[x] \o buf[x], from[x], x \in subs, pub) BY DEF StreamInv
    <3> QED BY <3>1, <3>2, <3>3 DEF StreamOk
  <2> QED BY <2>1, <2>3, <2>4 DEF StreamInv
<1>4. ASSUME NEW s \in Sub, Read(s) PROVE StreamInv'
  <2>1. /\ buf[s] # <<>> /\ UNCHANGED <<subscribed, subs, from, pub>>
        /\ got'[s] = Append(got[s], Head(buf[s])) /\ buf'[s] = Tail(buf[s])
        /\ \A x \in Sub : x # s => buf'[x] = buf[x] /\ got'[x] = got[x]
    BY <1>4, <1>T DEF Read
  <2>2. got'[s] \o buf'[s] = got[s] \o buf[s] BY <1>C, <2>1, ConcatRead
  <2>3. s \in subscribed BY <2>1 DEF StreamInv
  <2>4. \A x \in Sub : got'[x] \o buf'[x] = got[x] \o buf[x] BY <2>1, <2>2
  <2> QED BY <1>T, <2>1, <2>3, <2>4 DEF StreamInv
<1>5. ASSUME NEW s \in Sub, Unsubscribe(s) \/ CloseChan(s) PROVE StreamInv'
  BY <1>D, <1>5 DEF Unsubscribe, CloseChan
<1>6. ASSUME NEW value \in BOOLEAN, SetEnabled(value) PROVE StreamInv' BY <1>U, <1>6 DEF SetEnabled, chanVars
<1>7. CASE Clear BY <1>D, <1>7 DEF Clear
<1>8. CASE Tick \/ Pop BY <1>U, <1>8 DEF Tick, Pop, chanVars
<1>9. CASE FwdPop \/ FwdPush \/ FwdRequeue \/ FwdRequeued
  BY <1>U, <1>9 DEF FwdPop, FwdPush, FwdRequeue, FwdRequeued, chanVars
<1>10. ASSUME NEW arrived \in BOOLEAN, FwdPushFail(arrived) PROVE StreamInv'
  BY <1>U, <1>10 DEF FwdPushFail, chanVars
<1>11. CASE UNCHANGED vars BY <1>U, <1>11 DEF vars, chanVars
<1> QED BY <1>1, <1>2, <1>3, <1>4, <1>5, <1>6, <1>7, <1>8, <1>9, <1>10, <1>11 DEF Next

LEMMA TakenStep ==
  ASSUME QueueInv, [Next]_vars
  PROVE  TakenInv'
<1> USE DEF QueueInv
<1>T. /\ subscribed \subseteq Sub /\ subs \subseteq subscribed /\ from \in [Sub -> Nat] /\ pub \in Seq(Rec)
      /\ buf \in [Sub -> Seq(Sent)] /\ got \in [Sub -> Seq(Sent)] /\ closes \in [Sub -> Nat]
  BY DEF TypeOK
<1>L. \A s \in Sub : /\ Len(got[s]) \in Nat /\ Len(buf[s]) \in Nat
                     /\ Len(Stream(s)) = Len(got[s]) + Len(buf[s]) /\ Len(Stream(s)) \in Nat
  BY <1>T DEF Stream
<1>P. Len(pub) \in Nat BY <1>T
\* No step takes anything back from a stream, or adds to one that is not subscribed.
<1>K. ASSUME UNCHANGED pub, subscribed \subseteq subscribed',
             \A s \in subscribed : /\ from'[s] = from[s] /\ Len(Stream(s))' = Len(Stream(s))
                                   /\ closes'[s] \in Nat /\ closes'[s] >= closes[s]
                                   /\ s \in subs' => s \in subs
      PROVE  TakenInv'
  <2> SUFFICES ASSUME NEW i \in 1..Len(pub)
               PROVE  \E s \in subscribed' : TakenBy(s, i)' \/ StoppedAt(s, i)'
    BY <1>K DEF TakenInv
  <2>1. PICK s \in subscribed : TakenBy(s, i) \/ StoppedAt(s, i) BY DEF TakenInv
  <2>2. /\ from'[s] = from[s] /\ Len(Stream(s))' = Len(Stream(s))
        /\ closes'[s] \in Nat /\ closes[s] \in Nat /\ closes'[s] >= closes[s]
        /\ s \notin subs => s \notin subs'
    BY <1>K, <1>T
  <2> QED BY <1>K, <2>1, <2>2 DEF TakenBy, StoppedAt
<1>U. ASSUME UNCHANGED <<subscribed, subs, closes, from, pub, buf, got>> PROVE TakenInv'
  BY <1>K, <1>T, <1>U DEF Stream
<1>1. ASSUME NEW r \in Rec, CheckEnabled(r) \/ ReadClock(r) \/ Enqueue(r) PROVE TakenInv'
  BY <1>U, <1>1 DEF CheckEnabled, ReadClock, Enqueue, chanVars
<1>2. ASSUME NEW r \in Rec, Publish(r) PROVE TakenInv'
  <2>0. r \in Sent BY DEF Sent
  <2> DEFINE full == {s \in subs : Len(buf[s]) >= Buffer}
  <2>1. /\ UNCHANGED <<subscribed, from, got>> /\ subs' = subs \ full
        /\ \A s \in Sub : /\ closes'[s] = IF s \in full THEN closes[s] + 1 ELSE closes[s]
                          /\ buf'[s] = IF s \in subs \ full THEN Append(buf[s], r) ELSE buf[s]
        /\ pub' = IF subs = {} THEN pub ELSE Append(pub, r)
    BY <1>2 DEF Publish
  <2>2. \A s \in full : Len(buf[s]) >= Buffer /\ s \in subs OBVIOUS
  <2> HIDE DEF full
  <2>3. ASSUME NEW s \in Sub
        PROVE  /\ s \in subs \ full => Len(Stream(s))' = Len(Stream(s)) + 1
               /\ s \notin subs \ full => Len(Stream(s))' = Len(Stream(s))
               /\ closes'[s] \in Nat /\ closes'[s] >= closes[s]
    <3>1. got'[s] = got[s] /\ closes[s] \in Nat BY <1>T, <2>1
    <3>2. CASE s \in subs \ full
      <4>1. buf'[s] = Append(buf[s], r) BY <2>1, <3>2
      <4>2. Len(buf'[s]) = Len(buf[s]) + 1 /\ buf'[s] \in Seq(Sent) /\ got[s] \in Seq(Sent)
        BY <1>T, <2>0, <4>1
      <4>3. Len(got[s] \o buf'[s]) = Len(got[s]) + Len(buf'[s])
        <5> DEFINE g == got[s]
                   b == buf'[s]
        <5>1. g \in Seq(Sent) /\ b \in Seq(Sent) BY <4>2
        <5> HIDE DEF g, b
        <5>2. Len(g \o b) = Len(g) + Len(b) BY <5>1
        <5> QED BY <5>2 DEF g, b
      <4>4. Stream(s)' = got[s] \o buf'[s] BY <3>1 DEF Stream
      <4>5. closes'[s] = closes[s] BY <2>1, <3>2
      <4>6. Len(Stream(s))' = Len(Stream(s)) + 1
        <5>1. Len(Stream(s)') = Len(got[s]) + Len(buf'[s]) BY <4>3, <4>4
        <5>2. /\ Len(got[s]) \in Nat /\ Len(buf[s]) \in Nat /\ Len(buf'[s]) = Len(buf[s]) + 1
              /\ Len(Stream(s)) = Len(got[s]) + Len(buf[s])
          BY <1>L, <4>2
        <5>3. \A g, b \in Nat : g + (b + 1) = (g + b) + 1 OBVIOUS
        <5>4. Len(Stream(s)') = Len(Stream(s)) + 1 BY <5>1, <5>2, <5>3
        <5> QED BY <5>4
      <4> QED BY <3>1, <3>2, <4>5, <4>6
    <3>3. CASE s \notin subs \ full
      <4>1. Stream(s)' = Stream(s) BY <2>1, <3>1, <3>3 DEF Stream
      <4> QED BY <2>1, <3>1, <3>3, <4>1
    <3> QED BY <3>2, <3>3
  <2>4. CASE subs = {} BY <1>K, <1>T, <2>1, <2>3, <2>4
  <2>5. CASE subs # {}
    <3>1. Len(pub') = Len(pub) + 1 BY <1>T, <2>1, <2>5
    <3>2. ASSUME NEW i \in 1..Len(pub)
          PROVE  \E s \in subscribed : TakenBy(s, i)' \/ StoppedAt(s, i)'
      <4>1. PICK s \in subscribed : TakenBy(s, i) \/ StoppedAt(s, i) BY DEF TakenInv
      <4>2. /\ s \in Sub /\ from'[s] = from[s] /\ from[s] \in Nat /\ Len(Stream(s)) \in Nat
            /\ closes[s] \in Nat
        BY <1>L, <1>T, <2>1
      <4>3. CASE TakenBy(s, i)
        <5>1. Len(Stream(s))' = Len(Stream(s)) + 1 \/ Len(Stream(s))' = Len(Stream(s)) BY <2>3, <4>2
        <5>2. TakenBy(s, i)' BY <4>2, <4>3, <5>1 DEF TakenBy
        <5> QED BY <5>2
      <4>4. CASE StoppedAt(s, i)
        <5>1. s \notin subs /\ s \notin subs' BY <2>1, <4>4 DEF StoppedAt
        <5>2. Len(Stream(s))' = Len(Stream(s)) /\ closes'[s] >= closes[s] /\ closes'[s] \in Nat
          BY <2>3, <4>2, <5>1
        <5> QED BY <4>2, <4>4, <5>1, <5>2 DEF StoppedAt
      <4> QED BY <4>1, <4>3, <4>4
    <3>n. PICK n \in Nat : n = Len(pub) + 1 BY <1>P
    <3>3. \E s \in subscribed : TakenBy(s, n)' \/ StoppedAt(s, n)'
      <4>1. PICK s \in subs : TRUE BY <2>5
      <4>2. StreamOk(Stream(s), from[s], s \in subs, pub) BY <1>T DEF StreamInv, Stream
      <4>3. /\ s \in Sub /\ from[s] \in Nat /\ from'[s] = from[s] /\ from[s] <= Len(pub)
            /\ Len(Stream(s)) = 1 + Len(pub) - from[s] /\ closes[s] \in Nat
        BY <1>T, <2>1, <4>2 DEF StreamOk
      <4>4. CASE s \in full
        <5>1. Len(Stream(s))' = Len(Stream(s)) /\ closes'[s] = closes[s] + 1 /\ s \notin subs'
          BY <2>1, <2>3, <4>3, <4>4
        <5>2. Len(Stream(s)) >= Buffer
          <6>1. /\ Len(buf[s]) >= Buffer /\ Len(got[s]) \in Nat /\ Len(buf[s]) \in Nat
                /\ Len(Stream(s)) = Len(got[s]) + Len(buf[s]) /\ Buffer \in Nat
            BY <1>L, <2>2, <4>3, <4>4, QueueAssumption
          <6>2. \A g, b \in Nat : b >= Buffer => g + b >= Buffer BY <6>1
          <6> QED BY <6>1, <6>2
        <5>3. from[s] + Len(Stream(s)) = n /\ closes[s] + 1 > 0 BY <1>P, <3>n, <4>3
        <5>4. StoppedAt(s, n)' BY <4>3, <5>1, <5>2, <5>3 DEF StoppedAt
        <5> QED BY <1>T, <5>4
      <4>5. CASE s \notin full
        <5>1. Len(Stream(s))' = Len(Stream(s)) + 1 BY <2>3, <4>3, <4>5
        <5>2. from[s] < n /\ n < from[s] + (Len(Stream(s)) + 1) BY <1>P, <3>n, <4>3
        <5>3. TakenBy(s, n)' BY <4>3, <5>1, <5>2 DEF TakenBy
        <5> QED BY <1>T, <5>3
      <4> QED BY <4>4, <4>5
    <3>4. \A i \in 1..(Len(pub) + 1) : i \in 1..Len(pub) \/ i = n BY <1>P, <3>n
    <3>5. subscribed' = subscribed BY <2>1
    <3>6. SUFFICES ASSUME NEW i \in 1..Len(pub')
                   PROVE  \E s \in subscribed' : TakenBy(s, i)' \/ StoppedAt(s, i)'
      BY DEF TakenInv
    <3> QED BY <3>1, <3>2, <3>3, <3>4, <3>5
  <2> QED BY <2>4, <2>5
<1>3. ASSUME NEW s \in Sub, Subscribe(s) PROVE TakenInv'
  <2>1. \A x \in subscribed : /\ x # s /\ from'[x] = from[x] /\ Stream(x)' = Stream(x)
                              /\ x \in subs' => x \in subs
    BY <1>3, <1>T DEF Subscribe, Stream
  <2>2. UNCHANGED <<pub, closes>> /\ subscribed \subseteq subscribed' BY <1>3 DEF Subscribe
  <2> QED BY <1>K, <1>T, <2>1, <2>2
<1>4. ASSUME NEW s \in Sub, Read(s) PROVE TakenInv'
  <2>1. /\ buf[s] # <<>> /\ UNCHANGED <<subscribed, subs, closes, from, pub>>
        /\ got'[s] = Append(got[s], Head(buf[s])) /\ buf'[s] = Tail(buf[s])
        /\ \A x \in Sub : x # s => buf'[x] = buf[x] /\ got'[x] = got[x]
    BY <1>4, <1>T DEF Read
  <2>2. got'[s] \o buf'[s] = got[s] \o buf[s] BY <1>T, <2>1, ConcatRead
  <2>3. \A x \in Sub : Stream(x)' = Stream(x) BY <2>1, <2>2 DEF Stream
  <2> QED BY <1>K, <1>T, <2>1, <2>3
<1>5. ASSUME NEW s \in Sub, Unsubscribe(s) PROVE TakenInv'
  BY <1>K, <1>T, <1>5 DEF Unsubscribe, Stream
<1>6. ASSUME NEW s \in Sub, CloseChan(s) PROVE TakenInv'
  BY <1>K, <1>T, <1>6 DEF CloseChan, Stream
<1>7. ASSUME NEW value \in BOOLEAN, SetEnabled(value) PROVE TakenInv' BY <1>U, <1>7 DEF SetEnabled, chanVars
<1>8. CASE Clear BY <1>K, <1>T, <1>8 DEF Clear, Stream
<1>9. CASE Tick \/ Pop BY <1>U, <1>9 DEF Tick, Pop, chanVars
<1>10. CASE FwdPop \/ FwdPush \/ FwdRequeue \/ FwdRequeued
  BY <1>U, <1>10 DEF FwdPop, FwdPush, FwdRequeue, FwdRequeued, chanVars
<1>11. ASSUME NEW arrived \in BOOLEAN, FwdPushFail(arrived) PROVE TakenInv'
  BY <1>U, <1>11 DEF FwdPushFail, chanVars
<1>12. CASE UNCHANGED vars BY <1>U, <1>12 DEF vars, chanVars
<1> QED BY <1>1, <1>2, <1>3, <1>4, <1>5, <1>6, <1>7, <1>8, <1>9, <1>10, <1>11, <1>12 DEF Next

LEMMA QueueStep == QueueInv /\ [Next]_vars => QueueInv'
BY TypeStep, FwdStep, AccountStep, ClosedStep, StreamStep, TakenStep DEF QueueInv

-----------------------------------------------------------------------------
\* What was sent is with a subscriber or was refused by a full one.
LEMMA SentOrRefused ==
  ASSUME QueueInv, NEW r \in Rec
  PROVE  r \in ToSet(pub) <=> Delivered(r) \/ Refused(r)
<1>T. /\ subscribed \subseteq Sub /\ subs \subseteq subscribed /\ from \in [Sub -> Nat] /\ pub \in Seq(Rec)
      /\ buf \in [Sub -> Seq(Sent)] /\ got \in [Sub -> Seq(Sent)]
  BY DEF QueueInv, TypeOK
<1>S. \A s \in subscribed : /\ Stream(s) \in Seq(Sent) /\ from[s] \in Nat
                            /\ StreamOk(Stream(s), from[s], s \in subs, pub)
  BY <1>T DEF Stream, QueueInv, StreamInv
<1>P. Len(pub) \in Nat /\ DOMAIN pub = 1..Len(pub) BY <1>T
<1>1. ASSUME r \in ToSet(pub), ~Delivered(r) PROVE Refused(r)
  <2>1. PICK i \in 1..Len(pub) : pub[i] = r BY <1>1, <1>T, SetAre
  <2>2. PICK s \in subscribed : TakenBy(s, i) \/ StoppedAt(s, i) BY DEF QueueInv, TakenInv
  <2>3. ~TakenBy(s, i)
    <3> SUFFICES ASSUME TakenBy(s, i) PROVE FALSE OBVIOUS
    <3>1. /\ Len(Stream(s)) \in Nat /\ from[s] \in Nat /\ from[s] < i /\ i < from[s] + Len(Stream(s))
      BY <1>S DEF TakenBy
    <3>2. /\ i - from[s] + 1 \in 1..Len(Stream(s)) /\ i - from[s] + 1 # 1
          /\ from[s] + (i - from[s] + 1) - 1 = i
      BY <1>P, <3>1
    <3>3. Stream(s)[i - from[s] + 1] = r BY <1>S, <2>1, <3>2 DEF StreamOk
    <3>4. r \in ToSet(Stream(s)) BY <1>S, <3>2, <3>3, SetAre
    <3> QED BY <1>1, <3>4 DEF Delivered
  <2> QED BY <1>1, <1>P, <2>1, <2>2, <2>3 DEF Refused, StoppedAt
<1>2. ASSUME Delivered(r) PROVE r \in ToSet(pub)
  <2>1. PICK s \in subscribed : r \in ToSet(Stream(s)) BY <1>2 DEF Delivered
  <2>2. PICK k \in 1..Len(Stream(s)) : Stream(s)[k] = r BY <1>S, <2>1, SetAre
  <2>3. k # 1 /\ pub[from[s] + k - 1] = r BY <1>S, <2>2, QueueAssumption DEF StreamOk
  <2>4. /\ from[s] \in Nat /\ Len(Stream(s)) \in Nat /\ from[s] <= Len(pub)
        /\ Len(Stream(s)) \in 1..(1 + Len(pub) - from[s])
    BY <1>S DEF StreamOk
  <2>5. from[s] + k - 1 \in 1..Len(pub) BY <1>P, <2>3, <2>4
  <2> QED BY <1>T, <2>3, <2>5, SetAre
<1>3. ASSUME Refused(r) PROVE r \in ToSet(pub) BY <1>3, <1>T, <1>P, SetAre DEF Refused
<1> QED BY <1>1, <1>2, <1>3

LEMMA AccountedFromInv == QueueInv => AccountedOnce
<1> SUFFICES ASSUME QueueInv, NEW r \in Kept
             PROVE  /\ pc[r] = "done" => Places(r) # {} \/ Refused(r)
                    /\ r \notin unsure => (\A p, q \in Places(r) : p = q) /\ (Refused(r) => Places(r) = {})
  BY DEF AccountedOnce
<1>1. /\ "queue" \in Places(r) <=> r \in Records(items)
      /\ "held" \in Places(r) <=> r \in ToSet(held)
      /\ "subscriber" \in Places(r) <=> Delivered(r)
      /\ "home" \in Places(r) <=> r \in homeGot
      /\ "gone" \in Places(r) <=> r \in gone
  BY DEF Places
<1>2. Places(r) \subseteq {"queue", "held", "subscriber", "home", "gone"} BY DEF Places
<1>3. AccountInv BY DEF QueueInv
<1>4. r \in ToSet(pub) <=> Delivered(r) \/ Refused(r) BY QueueAssumption, SentOrRefused
<1>5. ~(Delivered(r) /\ Refused(r)) BY DEF Refused
<1> QED BY <1>1, <1>2, <1>3, <1>4, <1>5 DEF AccountInv, Accounted

LEMMA PrefixIs ==
  ASSUME NEW S, NEW s \in Seq(S), NEW t \in Seq(S), Len(s) <= Len(t), Len(s) >= 1,
         \A i \in 1..Len(s) : s[i] = t[i]
  PROVE  IsPrefix(s, t)
<1> DEFINE n == Len(s)
<1>0. n \in Nat /\ n \in Int /\ 1 \in Int /\ Len(t) \in Nat OBVIOUS
<1>1. (\A i \in 1..n : s[i] \in S) /\ (\A i \in 1..n : t[i] \in S) OBVIOUS
<1>2. /\ SubSeq(s, 1, n) \in Seq(S) /\ Len(SubSeq(s, 1, n)) = IF 1 <= n THEN n - 1 + 1 ELSE 0
      /\ \A i \in 1..(n - 1 + 1) : SubSeq(s, 1, n)[i] = s[1 + i - 1]
  BY <1>0, <1>1, SubSeqProperties
<1>3. /\ SubSeq(t, 1, n) \in Seq(S) /\ Len(SubSeq(t, 1, n)) = IF 1 <= n THEN n - 1 + 1 ELSE 0
      /\ \A i \in 1..(n - 1 + 1) : SubSeq(t, 1, n)[i] = t[1 + i - 1]
  BY <1>0, <1>1, SubSeqProperties
<1>4. n >= 1 /\ n <= Len(t) /\ \A i \in 1..n : s[i] = t[i] OBVIOUS
<1> HIDE DEF n
<1>5. n - 1 + 1 = n /\ 1 <= n BY <1>0, <1>4
<1>6. \A i \in 1..n : 1 + i - 1 = i BY <1>0
<1>7. \A i \in 1..n : SubSeq(s, 1, n)[i] = SubSeq(t, 1, n)[i] BY <1>2, <1>3, <1>4, <1>5, <1>6
<1>8. Len(SubSeq(s, 1, n)) = n /\ Len(SubSeq(t, 1, n)) = n BY <1>2, <1>3, <1>5
<1>9. SubSeq(s, 1, n) = SubSeq(t, 1, n) BY <1>2, <1>3, <1>7, <1>8, SeqEqual
<1> QED BY <1>4, <1>9 DEF IsPrefix, n

LEMMA GaplessFromInv == QueueInv => GaplessStream
<1> SUFFICES ASSUME QueueInv, NEW s \in subscribed
             PROVE  LET all == <<Hello>> \o SubSeq(pub, from[s] + 1, Len(pub))
                    IN  IsPrefix(Stream(s), all) /\ (s \in subs => Stream(s) = all)
  BY DEF GaplessStream
<1> DEFINE stream == Stream(s)
           f == from[s]
           rest == SubSeq(pub, from[s] + 1, Len(pub))
           all == <<Hello>> \o SubSeq(pub, from[s] + 1, Len(pub))
<1>1. /\ f \in Nat /\ pub \in Seq(Rec) /\ Rec \subseteq Sent
      /\ got[s] \in Seq(Sent) /\ buf[s] \in Seq(Sent)
  BY DEF QueueInv, TypeOK, Sent
<1>2. stream \in Seq(Sent) BY <1>1 DEF Stream
<1>3. StreamOk(stream, f, s \in subs, pub) BY DEF QueueInv, StreamInv, Stream
<1>4. f <= Len(pub) /\ Len(pub) \in Nat BY <1>1, <1>3 DEF StreamOk
<1>5. pub \in Seq(Sent) BY <1>1, SeqMonotonic
<1>6. f + 1 \in 1..(Len(pub) + 1) BY <1>1, <1>4
<1>7. /\ rest \in Seq(Sent) /\ Len(rest) = Len(pub) + 1 - (f + 1)
      /\ \A i \in 1..(Len(pub) + 1 - (f + 1)) : rest[i] = pub[(f + 1) + i - 1]
  BY <1>5, <1>6, SuffixFacts
<1>8. <<Hello>> \in Seq(Sent) /\ Len(<<Hello>>) = 1 /\ <<Hello>>[1] = Hello BY DEF Sent
<1>9. /\ all \in Seq(Sent) /\ Len(all) = 1 + Len(rest)
      /\ \A i \in 1..(1 + Len(rest)) : all[i] = IF i <= 1 THEN <<Hello>>[i] ELSE rest[i - 1]
  BY <1>7, <1>8, ConcatProperties
<1> HIDE DEF stream, f, rest, all
<1>10. Len(rest) = Len(pub) - f /\ Len(all) = 1 + Len(pub) - f BY <1>1, <1>4, <1>7, <1>9
<1>11. /\ Len(stream) \in 1..(1 + Len(pub) - f) /\ (s \in subs => Len(stream) = 1 + Len(pub) - f)
       /\ \A i \in 1..Len(stream) : stream[i] = IF i = 1 THEN Hello ELSE pub[f + i - 1]
  BY <1>3 DEF StreamOk
<1>12. Len(stream) \in Nat /\ Len(stream) >= 1 /\ Len(stream) <= Len(all) BY <1>1, <1>4, <1>10, <1>11
<1>13. ASSUME NEW i \in 1..Len(stream) PROVE stream[i] = all[i]
  <2>0. i \in 1..(1 + Len(rest)) BY <1>1, <1>4, <1>10, <1>12
  <2>1. CASE i = 1 BY <1>8, <1>9, <1>11, <2>0, <2>1
  <2>2. CASE i # 1
    <3>1. /\ i - 1 \in 1..(Len(pub) + 1 - (f + 1)) /\ (f + 1) + (i - 1) - 1 = f + i - 1 /\ ~(i <= 1)
      BY <1>1, <1>4, <1>10, <2>0, <2>2
    <3>2. rest[i - 1] = pub[f + i - 1] BY <1>7, <3>1
    <3> QED BY <1>9, <1>11, <2>0, <2>2, <3>1, <3>2
  <2> QED BY <2>1, <2>2
<1>14. IsPrefix(stream, all) BY <1>2, <1>9, <1>12, <1>13, PrefixIs
<1>15. s \in subs => stream = all
  <2> HAVE s \in subs
  <2>1. Len(stream) = Len(all) BY <1>10, <1>11
  <2> QED BY <1>2, <1>9, <1>13, <2>1, SeqEqual
<1> QED BY <1>14, <1>15 DEF stream, all

\* However many producers, subscribers and pops there are, however a push fails and
\* whenever the queue is switched, a usage record is in exactly one place once its
\* Enqueue has returned: the queue, the forwarder, the stream of a subscriber, Home, or
\* taken out by a client, the prune, a clear or a disabled queue.  It is in none only if
\* nobody took it when it was published and a full subscriber was closed at it; only a
\* push whose answer was lost can put it in two.
THEOREM AccountedForOnce == Spec => []AccountedOnce
<1>1. Init => QueueInv BY QueueInit
<1>2. QueueInv /\ [Next]_vars => QueueInv' BY QueueStep
<1>3. QueueInv => AccountedOnce BY AccountedFromInv
<1> QED BY <1>1, <1>2, <1>3, PTL DEF Spec

\* Every subscription is a gapless piece of what publishToSubscribers sent, from its
\* greeting to the moment it leaves the map, and its channel is closed at most once,
\* by whoever took it out: for any number of subscribers and any buffer.
THEOREM SubscriptionsHold == Spec => []SubscriptionSound
<1>1. Init => QueueInv BY QueueInit
<1>2. QueueInv /\ [Next]_vars => QueueInv' BY QueueStep
<1>3. QueueInv => SubscriptionSound BY GaplessFromInv DEF SubscriptionSound, QueueInv
<1> QED BY <1>1, <1>2, <1>3, PTL DEF Spec
=============================================================================
