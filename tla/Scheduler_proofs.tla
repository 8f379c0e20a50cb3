------------------------- MODULE Scheduler_proofs -------------------------
(***************************************************************************)
(* What the two schedulers do to their queue, for PCBs of any kind.        *)
(***************************************************************************)
EXTENDS Scheduler, SequenceTheorems, WellFoundedInduction, TLAPS

\* A set of naturals that is not empty has a least member.
LEMMA LeastExists ==
  ASSUME NEW S, S \subseteq Nat, S # {}
  PROVE  \E x \in S : \A y \in S : x =< y
<1>1. IsWellFoundedOn(OpToRel(<, Nat), Nat)
  BY NatLessThanWellFounded, Zenon
<1>2. PICK x \in S : \A y \in S : ~ (<<y, x>> \in OpToRel(<, Nat))
  BY <1>1, WFMin, Zenon
<1>3. \A y \in S : x =< y
  <2>1. SUFFICES ASSUME NEW y \in S, ~ (x =< y) PROVE FALSE
    OBVIOUS
  <2>2. <<y, x>> \in Nat \X Nat /\ y < x
    BY <2>1
  <2>3. <<y, x>> \in OpToRel(<, Nat)
    BY <2>2 DEF OpToRel
  <2> QED BY <1>2, <2>3
<1> QED BY <1>3

\* Min picks it: a member of the set,
LEMMA MinIsMember ==
  ASSUME NEW S, S \subseteq Nat, S # {}
  PROVE  Min(S) \in S
BY LeastExists, Zenon DEF Min

\* and no greater than any other.
LEMMA MinIsLeast ==
  ASSUME NEW S, S \subseteq Nat, NEW y \in S
  PROVE  Min(S) =< y
BY LeastExists, Zenon DEF Min

\* q with pcb inserted at k, place by place.
Inserted(q, k, pcb) ==
  [j \in 1 .. Len(q) + 1 |->
     IF j < k THEN q[j] ELSE IF j = k THEN pcb ELSE q[j - 1]]

\* The result is a sequence again, longer by one.
LEMMA InsertedIsSeq ==
  ASSUME NEW S, NEW q \in Seq(S), NEW pcb \in S, NEW k \in 1 .. Len(q) + 1
  PROVE  /\ Inserted(q, k, pcb) \in Seq(S)
         /\ Len(Inserted(q, k, pcb)) = Len(q) + 1
<1>1. Len(q) + 1 \in Nat /\ \A j \in 1 .. Len(q) : q[j] \in S
  OBVIOUS
<1>2. Inserted(q, k, pcb) \in [1 .. Len(q) + 1 -> S]
  BY <1>1 DEF Inserted
<1> QED BY <1>1, <1>2, SeqDef

\* A sequence that agrees with it place by place is the result.
LEMMA IsInserted ==
  ASSUME NEW S, NEW q \in Seq(S), NEW pcb \in S, NEW k \in 1 .. Len(q) + 1,
         NEW t \in Seq(S), Len(t) = Len(q) + 1,
         \A j \in 1 .. Len(q) + 1 : t[j] = Inserted(q, k, pcb)[j]
  PROVE  t = Inserted(q, k, pcb)
<1> DEFINE u == Inserted(q, k, pcb)
<1>1. u \in Seq(S) /\ Len(u) = Len(q) + 1
  BY InsertedIsSeq
<1> HIDE DEF u
<1>2. Len(t) = Len(u) /\ \A i \in 1 .. Len(t) : t[i] = u[i]
  BY <1>1 DEF u
<1>3. t = u
  BY <1>1, <1>2, SeqEqual, Zenon
<1> QED BY <1>3 DEF u

\* The search of PriorityQueue ends at a place in or behind the queue.
LEMMA PlaceInQueue ==
  ASSUME NEW S, NEW q \in Seq(S), NEW pcb
  PROVE  PlaceOf(q, pcb) \in 1 .. Len(q) + 1
<1> DEFINE places == {i \in 1 .. Len(q) + 1 :
                        i = Len(q) + 1 \/ pcb.priority < q[i].priority}
<1>1. places \subseteq Nat /\ Len(q) + 1 \in places
  OBVIOUS
<1>2. Min(places) \in places
  BY <1>1, MinIsMember
<1> QED BY <1>2 DEF PlaceOf

\* It is the first one behind all PCBs that are as urgent as the new one.
LEMMA PlaceIsFirst ==
  ASSUME NEW S, \A x \in S : x.priority \in Int,
         NEW q \in Seq(S), NEW pcb \in S
  PROVE  LET k == PlaceOf(q, pcb)
         IN /\ k \in 1 .. Len(q) + 1
            /\ k = Len(q) + 1 \/ pcb.priority < q[k].priority
            /\ \A i \in 1 .. Len(q) :
                 i < k => q[i].priority <= pcb.priority
<1> DEFINE places == {i \in 1 .. Len(q) + 1 :
                        i = Len(q) + 1 \/ pcb.priority < q[i].priority}
           k == PlaceOf(q, pcb)
<1>1. places \subseteq Nat /\ Len(q) + 1 \in places
  OBVIOUS
<1>2. k \in places /\ \A i \in places : k <= i
  BY <1>1, MinIsMember, MinIsLeast DEF PlaceOf
<1>3. \A i \in 1 .. Len(q) : q[i].priority \in Int
  OBVIOUS
<1>4. ASSUME NEW i \in 1 .. Len(q), i < k
      PROVE  q[i].priority <= pcb.priority
  <2>1. i \notin places
    BY <1>2, <1>4, <1>1
  <2> QED BY <2>1, <1>3
<1>5. /\ k \in 1 .. Len(q) + 1
      /\ k = Len(q) + 1 \/ pcb.priority < q[k].priority
  BY <1>2
<1> QED BY <1>4, <1>5

\* What PriorityQueue makes of a queue when it inserts at k,
InsertedAt(q, k, pcb) ==
  SubSeq(q, 1, k - 1) \o <<pcb>> \o SubSeq(q, k, Len(q))

\* is the queue with its rest moved back by one.
LEMMA InsertedAtPlaces ==
  ASSUME NEW S, NEW q \in Seq(S), NEW pcb \in S, NEW k \in 1 .. Len(q) + 1
  PROVE  InsertedAt(q, k, pcb) = Inserted(q, k, pcb)
<1> DEFINE before == SubSeq(q, 1, k - 1)
           after  == SubSeq(q, k, Len(q))
<1>1. /\ before \in Seq(S) /\ Len(before) = k - 1
      /\ \A j \in 1 .. k - 1 : before[j] = q[j]
  OBVIOUS
<1>2. /\ after \in Seq(S) /\ Len(after) = Len(q) - k + 1
      /\ \A j \in 1 .. Len(q) - k + 1 : after[j] = q[k + j - 1]
  OBVIOUS
<1> HIDE DEF before, after
<1>3. InsertedAt(q, k, pcb) = before \o <<pcb>> \o after
  BY DEF InsertedAt, before, after
<1> DEFINE front == before \o <<pcb>>
<1>4. /\ front \in Seq(S) /\ Len(front) = k
      /\ \A j \in 1 .. k : front[j] = IF j = k THEN pcb ELSE q[j]
  BY <1>1
<1> HIDE DEF front
<1>5. InsertedAt(q, k, pcb) = front \o after
  BY <1>3 DEF front
<1>6. /\ front \o after \in Seq(S) /\ Len(front \o after) = Len(q) + 1
      /\ \A j \in 1 .. Len(q) + 1 :
           (front \o after)[j] = IF j <= k THEN front[j] ELSE after[j - k]
  <2>1. Len(front) + Len(after) = Len(q) + 1
    BY <1>2, <1>4
  <2> QED BY <1>2, <1>4, <2>1, ConcatProperties
<1>7. \A j \in 1 .. Len(q) + 1 :
        (front \o after)[j] = Inserted(q, k, pcb)[j]
  BY <1>2, <1>4, <1>6 DEF Inserted
<1> QED BY <1>5, <1>6, <1>7, IsInserted

\* Both schedulers insert the PCB somewhere and leave the others in order.
THEOREM EnqueueInserts ==
  ASSUME NEW S, NEW q \in Seq(S), NEW pcb \in S, NEW option
  PROVE  \E k \in 1 .. Len(q) + 1 :
           Enqueue(option, q, pcb) = Inserted(q, k, pcb)
<1>1. CASE option = SCHEDULER_FCFS
  <2>1. Enqueue(option, q, pcb) = Append(q, pcb)
    BY <1>1 DEF Enqueue
  <2>2. Len(q) + 1 \in 1 .. Len(q) + 1
    OBVIOUS
  <2>3. /\ Append(q, pcb) \in Seq(S) /\ Len(Append(q, pcb)) = Len(q) + 1
        /\ \A j \in 1 .. Len(q) + 1 :
             Append(q, pcb)[j] = Inserted(q, Len(q) + 1, pcb)[j]
    BY DEF Inserted
  <2>4. Append(q, pcb) = Inserted(q, Len(q) + 1, pcb)
    BY <2>2, <2>3, IsInserted
  <2> QED BY <2>1, <2>2, <2>4
<1>2. CASE option # SCHEDULER_FCFS
  BY <1>2, PlaceInQueue, InsertedAtPlaces DEF Enqueue, InsertedAt
<1> QED BY <1>1, <1>2

\* The most urgent PCB is in front, and so on.
Sorted(q) ==
  \A i, j \in DOMAIN q : i < j => q[i].priority <= q[j].priority

\* PriorityQueue stays sorted.
LEMMA EnqueueSorted ==
  ASSUME NEW S, \A x \in S : x.priority \in Int,
         NEW q \in Seq(S), NEW pcb \in S, Sorted(q)
  PROVE  Sorted(Enqueue(SCHEDULER_PRIORITY, q, pcb))
<1> DEFINE n == Len(q)
           k == PlaceOf(q, pcb)
           r == Enqueue(SCHEDULER_PRIORITY, q, pcb)
<1>1. n \in Nat /\ DOMAIN q = 1 .. n
  OBVIOUS
<1>2. /\ k \in 1 .. n + 1
      /\ k = n + 1 \/ pcb.priority < q[k].priority
      /\ \A i \in 1 .. n : i < k => q[i].priority <= pcb.priority
  BY PlaceIsFirst
<1>3. /\ DOMAIN r = 1 .. n + 1
      /\ \A j \in 1 .. n + 1 :
           r[j] = IF j < k THEN q[j] ELSE IF j = k THEN pcb ELSE q[j - 1]
  <2> HIDE DEF k
  <2>1. r = InsertedAt(q, k, pcb)
    <3>1. SCHEDULER_PRIORITY # SCHEDULER_FCFS
      BY DEF SCHEDULER_FCFS, SCHEDULER_PRIORITY
    <3> QED BY <3>1, Zenon DEF r, k, Enqueue, InsertedAt
  <2>2. r = Inserted(q, k, pcb)
    BY <1>2, <2>1, InsertedAtPlaces
  <2> QED BY <2>2 DEF Inserted
<1>4. /\ \A i \in 1 .. n : q[i].priority \in Int
      /\ pcb.priority \in Int
      /\ \A i, j \in 1 .. n : i <= j => q[i].priority <= q[j].priority
  BY DEF Sorted
<1> HIDE DEF n, k, r
<1> SUFFICES ASSUME NEW i \in 1 .. n + 1, NEW j \in 1 .. n + 1, i < j
             PROVE  r[i].priority <= r[j].priority
  BY <1>3 DEF Sorted, r
<1>5. CASE j < k
  BY <1>1, <1>2, <1>3, <1>4, <1>5
<1>6. CASE j = k
  BY <1>1, <1>2, <1>3, <1>6
<1>7. CASE k < j
  <2>1. j - 1 \in 1 .. n /\ r[j] = q[j - 1]
    BY <1>1, <1>2, <1>3, <1>7
  <2>2. CASE i < k
    <3>1. i \in 1 .. n /\ r[i] = q[i] /\ i <= j - 1
      BY <1>1, <1>2, <1>3, <1>7, <2>2
    <3> QED BY <1>4, <2>1, <3>1
  <2>3. CASE i = k
    <3>1. k \in 1 .. n /\ k <= j - 1 /\ pcb.priority < q[k].priority
      BY <1>1, <1>2, <1>7
    <3>2. q[k].priority <= q[j - 1].priority
      BY <1>4, <2>1, <3>1
    <3>3. r[i] = pcb
      BY <1>3, <2>3
    <3> QED BY <1>4, <2>1, <3>1, <3>2, <3>3
  <2>4. CASE k < i
    <3>1. i - 1 \in 1 .. n /\ r[i] = q[i - 1] /\ i - 1 <= j - 1
      BY <1>1, <1>2, <1>3, <2>4
    <3> QED BY <1>4, <2>1, <3>1
  <2> QED BY <1>2, <2>2, <2>3, <2>4
<1> QED BY <1>2, <1>5, <1>6, <1>7
============================================================================
