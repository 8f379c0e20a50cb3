------------------------- MODULE ReadyQueue_proofs -------------------------
(***************************************************************************)
(* For queues of any length and PCBs of any kind: the queue of either      *)
(* scheduler implements the policy ReadyPool states on the order of        *)
(* arrival.  The proofs carry along the permutation that relates the two.  *)
(***************************************************************************)
EXTENDS ReadyQueue, Scheduler_proofs, FiniteSetTheorems, FunctionTheorems

\* f leads from a place in the queue q to one in the order of arrival a, and
\* meets every place once.
Permutes(q, a, f) ==
  /\ f \in [1 .. Len(q) -> 1 .. Len(a)]
  /\ \A i, j \in 1 .. Len(q) : f[i] = f[j] => i = j
  /\ \A m \in 1 .. Len(a) : \E i \in 1 .. Len(q) : f[i] = m
  /\ \A i \in 1 .. Len(q) : q[i] = a[f[i]]

\* Of two PCBs in the queue the first is the more urgent, or came earlier.
Ordered(opt, q, f) ==
  \A i, j \in 1 .. Len(q) :
    i < j => IF opt = SCHEDULER_FCFS THEN f[i] < f[j]
             ELSE \/ q[i].priority < q[j].priority
                  \/ q[i].priority = q[j].priority /\ f[i] < f[j]

\* The inductive invariant, for a queue and an order of arrival.
Arranged(opt, q, a) ==
  /\ q \in Seq(PCBs) /\ a \in Seq(PCBs) /\ Len(q) = Len(a)
  /\ \E f : Permutes(q, a, f) /\ Ordered(opt, q, f)

\* A PCB that arrives is put behind all that must come before it.
LEMMA EnqueueArranges ==
  ASSUME NEW opt \in SchedulerOptions, NEW q, NEW a, Arranged(opt, q, a),
         NEW pcb \in PCBs
  PROVE  Arranged(opt, Enqueue(opt, q, pcb), Append(a, pcb))
<1> DEFINE n == Len(q)
<1>1. /\ q \in Seq(PCBs) /\ a \in Seq(PCBs)
      /\ n \in Nat /\ Len(q) = n /\ Len(a) = n
  BY DEF Arranged
<1> HIDE DEF n
<1>2. PICK f : Permutes(q, a, f) /\ Ordered(opt, q, f)
  BY DEF Arranged
<1>3. \E k \in 1 .. n + 1 :
        /\ Enqueue(opt, q, pcb) = Inserted(q, k, pcb)
        /\ opt = SCHEDULER_FCFS => k = n + 1
        /\ opt # SCHEDULER_FCFS =>
             /\ k = n + 1 \/ pcb.priority < q[k].priority
             /\ \A i \in 1 .. n : i < k => q[i].priority <= pcb.priority
  <2>1. CASE opt = SCHEDULER_FCFS
    <3>1. Enqueue(opt, q, pcb) = Append(q, pcb)
      BY <2>1 DEF Enqueue
    <3>2. /\ Append(q, pcb) \in Seq(PCBs) /\ Len(Append(q, pcb)) = n + 1
          /\ \A j \in 1 .. n + 1 :
               Append(q, pcb)[j] = Inserted(q, n + 1, pcb)[j]
      BY <1>1 DEF Inserted
    <3>3. n + 1 \in 1 .. Len(q) + 1
      BY <1>1
    <3>4. Append(q, pcb) = Inserted(q, n + 1, pcb)
      BY <1>1, <3>2, <3>3, IsInserted, ZenonT(60)
    <3> QED BY <1>1, <2>1, <3>1, <3>4
  <2>2. CASE opt # SCHEDULER_FCFS
    BY <1>1, <2>2, PCBsAssumption, PlaceIsFirst, InsertedAtPlaces
       DEF Enqueue, InsertedAt
  <2> QED BY <2>1, <2>2
<1>4. PICK k \in 1 .. n + 1 :
        /\ Enqueue(opt, q, pcb) = Inserted(q, k, pcb)
        /\ opt = SCHEDULER_FCFS => k = n + 1
        /\ opt # SCHEDULER_FCFS =>
             /\ k = n + 1 \/ pcb.priority < q[k].priority
             /\ \A i \in 1 .. n : i < k => q[i].priority <= pcb.priority
  BY <1>3
<1> DEFINE r == Inserted(q, k, pcb)
           b == Append(a, pcb)
           g == [j \in 1 .. n + 1 |->
                   IF j < k THEN f[j] ELSE IF j = k THEN n + 1 ELSE f[j - 1]]
<1>5. /\ r \in Seq(PCBs) /\ Len(r) = n + 1
      /\ \A j \in 1 .. n + 1 :
           r[j] = IF j < k THEN q[j] ELSE IF j = k THEN pcb ELSE q[j - 1]
  BY <1>1, InsertedIsSeq DEF Inserted
<1>6. /\ b \in Seq(PCBs) /\ Len(b) = n + 1 /\ b[n + 1] = pcb
      /\ \A m \in 1 .. n : b[m] = a[m]
  BY <1>1
<1>7. /\ \A j \in 1 .. n : f[j] \in 1 .. n /\ q[j] = a[f[j]]
      /\ \A i, j \in 1 .. n : f[i] = f[j] => i = j
      /\ \A m \in 1 .. n : \E i \in 1 .. n : f[i] = m
  BY <1>1, <1>2 DEF Permutes
<1>8. \A i \in 1 .. n : q[i].priority \in Int
  BY <1>1, PCBsAssumption
<1> HIDE DEF r, b
<1>9. Permutes(r, b, g)
  <2> DEFINE old(l) == IF l < k THEN l ELSE l - 1
  <2>0. \A j \in 1 .. n + 1 :
          IF j = k THEN g[j] = n + 1
          ELSE old(j) \in 1 .. n /\ g[j] = f[old(j)] /\ g[j] \in 1 .. n
    <3> SUFFICES ASSUME NEW j \in 1 .. n + 1
                 PROVE  IF j = k THEN g[j] = n + 1
                        ELSE old(j) \in 1 .. n /\ g[j] = f[old(j)]
      BY <1>7
    <3> QED BY <1>1
  <2>1. g \in [1 .. n + 1 -> 1 .. n + 1]
    <3>1. \A j \in 1 .. n + 1 : g[j] \in 1 .. n + 1
      <4> HIDE DEF g, old
      <4> QED BY <1>1, <2>0
    <3>2. g = [j \in 1 .. n + 1 |-> g[j]]
      OBVIOUS
    <3> HIDE DEF g
    <3> QED BY <3>1, <3>2, Zenon
  <2>2. ASSUME NEW i \in 1 .. n + 1, NEW j \in 1 .. n + 1, g[i] = g[j]
        PROVE  i = j
    <3>1. (i = k) <=> (j = k)
      <4> HIDE DEF g, old
      <4> QED BY <1>1, <2>0, <2>2
    <3>2. CASE i # k /\ j # k
      <4> HIDE DEF g
      <4>1. old(i) \in 1 .. n /\ old(j) \in 1 .. n /\ old(i) = old(j)
        <5> HIDE DEF old
        <5> QED BY <1>7, <2>0, <2>2, <3>2
      <4> QED BY <3>2, <4>1
    <3> QED BY <3>1, <3>2
  <2>3. ASSUME NEW m \in 1 .. n + 1 PROVE \E i \in 1 .. n + 1 : g[i] = m
    <3>1. CASE m = n + 1
      BY <3>1
    <3>2. CASE m # n + 1
      <4>1. m \in 1 .. n
        BY <1>1, <3>2
      <4> PICK i \in 1 .. n : f[i] = m
        BY <1>7, <4>1
      <4>2. CASE i < k
        BY <1>1, <4>2
      <4>3. CASE ~ (i < k)
        <5>1. i + 1 \in 1 .. n + 1 /\ g[i + 1] = m
          BY <1>1, <4>3
        <5> QED BY <5>1
      <4> QED BY <4>2, <4>3
    <3> QED BY <3>1, <3>2
  <2>4. ASSUME NEW j \in 1 .. n + 1 PROVE r[j] = b[g[j]]
    <3>1. CASE j < k
      BY <1>1, <1>5, <1>6, <1>7, <3>1
    <3>2. CASE j = k
      BY <1>1, <1>5, <1>6, <3>2
    <3>3. CASE k < j
      <4>1. j - 1 \in 1 .. n /\ g[j] = f[j - 1] /\ r[j] = q[j - 1]
        BY <1>1, <1>5, <3>3
      <4> HIDE DEF g
      <4>2. f[j - 1] \in 1 .. n /\ q[j - 1] = a[f[j - 1]]
        BY <1>7, <4>1
      <4> QED BY <1>6, <4>1, <4>2
    <3> QED BY <3>1, <3>2, <3>3
  <2> QED BY <1>5, <1>6, <2>1, <2>2, <2>3, <2>4 DEF Permutes
<1>10. Ordered(opt, r, g)
  <2> SUFFICES ASSUME NEW i \in 1 .. n + 1, NEW j \in 1 .. n + 1, i < j
               PROVE  IF opt = SCHEDULER_FCFS THEN g[i] < g[j]
                      ELSE \/ r[i].priority < r[j].priority
                           \/ r[i].priority = r[j].priority /\ g[i] < g[j]
    BY <1>5 DEF Ordered
  <2> DEFINE old(l) == IF l < k THEN l ELSE l - 1
  <2>1. CASE i # k /\ j # k
    <3>1. /\ old(i) \in 1 .. n /\ old(j) \in 1 .. n /\ old(i) < old(j)
          /\ r[i] = q[old(i)] /\ r[j] = q[old(j)]
          /\ g[i] = f[old(i)] /\ g[j] = f[old(j)]
      BY <1>1, <1>5, <2>1
    <3> HIDE DEF g, old
    <3> QED BY <1>1, <1>2, <3>1 DEF Ordered
  <2>2. CASE j = k
    <3>1. /\ i \in 1 .. n /\ r[i] = q[i] /\ r[j] = pcb
          /\ g[i] = f[i] /\ g[j] = n + 1 /\ f[i] < n + 1
      BY <1>1, <1>5, <1>7, <2>2, SMTT(30)
    <3> HIDE DEF g
    <3>2. pcb.priority \in Int
      BY PCBsAssumption
    <3> QED BY <1>1, <1>4, <1>8, <2>2, <3>1, <3>2
  <2>3. CASE i = k
    <3>1. /\ opt # SCHEDULER_FCFS /\ k \in 1 .. n
          /\ pcb.priority < q[k].priority
      BY <1>1, <1>4, <2>3
    <3>2. j - 1 \in 1 .. n /\ k <= j - 1 /\ r[j] = q[j - 1] /\ r[i] = pcb
      BY <1>1, <1>5, <2>3
    <3>3. q[k].priority <= q[j - 1].priority
      <4>1. CASE k = j - 1
        BY <1>8, <3>1, <4>1
      <4>2. CASE k < j - 1
        BY <1>1, <1>2, <1>8, <3>1, <3>2, <4>2 DEF Ordered
      <4> QED BY <3>2, <4>1, <4>2
    <3>4. pcb.priority < q[j - 1].priority
      BY <1>8, <3>1, <3>2, <3>3, PCBsAssumption
    <3> QED BY <3>1, <3>2, <3>4
  <2> QED BY <2>1, <2>2, <2>3
<1> HIDE DEF g
<1>11. Arranged(opt, r, b)
  BY <1>5, <1>6, <1>9, <1>10 DEF Arranged
<1> QED BY <1>4, <1>11 DEF r, b

\* The sequence without its place k, place by place.
LEMMA RemovedPlaces ==
  ASSUME NEW S, NEW a \in Seq(S), NEW k \in 1 .. Len(a)
  PROVE  /\ RemoveAt(a, k) \in Seq(S)
         /\ Len(RemoveAt(a, k)) = Len(a) - 1
         /\ \A m \in 1 .. Len(a) - 1 :
              RemoveAt(a, k)[m] = IF m < k THEN a[m] ELSE a[m + 1]
<1> DEFINE before == SubSeq(a, 1, k - 1)
           after  == SubSeq(a, k + 1, Len(a))
           n      == Len(a)
<1>1. /\ before \in Seq(S) /\ Len(before) = k - 1
      /\ \A j \in 1 .. k - 1 : before[j] = a[j]
  OBVIOUS
<1>2. /\ after \in Seq(S) /\ Len(after) = n - k
      /\ \A j \in 1 .. n - k : after[j] = a[k + j]
  OBVIOUS
<1>3. RemoveAt(a, k) = before \o after
  BY DEF RemoveAt
<1>4. n \in Nat /\ k \in 1 .. n
  OBVIOUS
<1> HIDE DEF before, after, n
<1>5. /\ before \o after \in Seq(S)
      /\ Len(before \o after) = Len(before) + Len(after)
      /\ \A m \in 1 .. Len(before) + Len(after) :
           (before \o after)[m] = IF m <= Len(before) THEN before[m]
                                  ELSE after[m - Len(before)]
  BY <1>1, <1>2, ConcatProperties
<1>6. Len(before) + Len(after) = n - 1
  BY <1>1, <1>2, <1>4
<1>7. ASSUME NEW m \in 1 .. n - 1
      PROVE  (before \o after)[m] = IF m < k THEN a[m] ELSE a[m + 1]
  <2>1. (before \o after)[m] = IF m <= k - 1 THEN before[m]
                               ELSE after[m - (k - 1)]
    BY <1>1, <1>5, <1>6
  <2>2. CASE m < k
    BY <1>1, <1>4, <2>1, <2>2
  <2>3. CASE ~ (m < k)
    <3>1. m - (k - 1) \in 1 .. n - k /\ k + (m - (k - 1)) = m + 1
      BY <1>4, <2>3
    <3>2. (before \o after)[m] = after[m - (k - 1)]
      BY <1>4, <2>1, <2>3
    <3> QED BY <1>2, <2>3, <3>1, <3>2
  <2> QED BY <2>2, <2>3
<1> QED BY <1>3, <1>5, <1>6, <1>7 DEF n

\* RemoveFirst removes the first place of its element.
LEMMA RemoveFirstAt ==
  ASSUME NEW S, NEW a \in Seq(S), NEW k \in 1 .. Len(a),
         \A m \in 1 .. Len(a) : a[m] = a[k] => k <= m
  PROVE  RemoveFirst(a, a[k]) = RemoveAt(a, k)
<1> DEFINE places == {i \in 1 .. Len(a) : a[i] = a[k]}
<1>1. places \subseteq Nat /\ k \in places
  OBVIOUS
<1>2. Min(places) \in places /\ Min(places) <= k
  BY <1>1, MinIsMember, MinIsLeast
<1>3. Min(places) = k
  BY <1>2
<1>4. SelectInSeq(a, LAMBDA v : v = a[k]) = Min(places)
  BY <1>1 DEF SelectInSeq
<1> QED BY <1>1, <1>3, <1>4 DEF RemoveFirst

\* What getNext returns came first of those that the policy allows, and the
\* rest of the queue keeps its relation to the order of arrival.
LEMMA TailArranges ==
  ASSUME NEW opt, NEW q, NEW a, Arranged(opt, q, a), q # <<>>
  PROVE  \E k \in 1 .. Len(a) :
           /\ a[k] = Head(q)
           /\ RemoveFirst(a, Head(q)) = RemoveAt(a, k)
           /\ Arranged(opt, Tail(q), RemoveAt(a, k))
           /\ opt = SCHEDULER_FCFS => k = 1
           /\ opt # SCHEDULER_FCFS =>
                /\ \A j \in 1 .. k - 1 : a[k].priority < a[j].priority
                /\ \A j \in k + 1 .. Len(a) : a[k].priority <= a[j].priority
<1> DEFINE n == Len(q)
<1>1. /\ q \in Seq(PCBs) /\ a \in Seq(PCBs)
      /\ n \in Nat /\ Len(q) = n /\ Len(a) = n /\ 1 <= n
  BY DEF Arranged
<1>2. PICK f : Permutes(q, a, f) /\ Ordered(opt, q, f)
  BY DEF Arranged
<1> HIDE DEF n
<1> DEFINE k == f[1]
           r == Tail(q)
           b == RemoveAt(a, k)
           shifted(m) == IF m < k THEN m ELSE m - 1
           g == [i \in 1 .. n - 1 |-> shifted(f[i + 1])]
<1>3. /\ \A j \in 1 .. n : f[j] \in 1 .. n /\ q[j] = a[f[j]]
      /\ \A i, j \in 1 .. n : f[i] = f[j] => i = j
      /\ \A m \in 1 .. n : \E i \in 1 .. n : f[i] = m
  BY <1>1, <1>2 DEF Permutes
<1>4. \A i, j \in 1 .. n :
        i < j => IF opt = SCHEDULER_FCFS THEN f[i] < f[j]
                 ELSE \/ q[i].priority < q[j].priority
                      \/ q[i].priority = q[j].priority /\ f[i] < f[j]
  BY <1>1, <1>2 DEF Ordered
<1>5. /\ 1 \in 1 .. n /\ k \in 1 .. n /\ a[k] = q[1] /\ q[1] = Head(q)
  BY <1>1, <1>3, SMTT(30)
<1>6. \A m \in 1 .. n : a[m].priority \in Int
  BY <1>1, PCBsAssumption
<1>7. ASSUME NEW m \in 1 .. n, m # k
      PROVE  IF opt = SCHEDULER_FCFS THEN k < m
             ELSE \/ a[k].priority < a[m].priority
                  \/ a[k].priority = a[m].priority /\ k < m
  <2>1. PICK i \in 1 .. n : f[i] = m
    BY <1>3
  <2>2. 1 < i
    BY <1>7, <2>1
  <2>3. IF opt = SCHEDULER_FCFS THEN f[1] < f[i]
        ELSE \/ q[1].priority < q[i].priority
             \/ q[1].priority = q[i].priority /\ f[1] < f[i]
    BY <1>4, <1>5, <2>2
  <2>4. q[1] = a[k] /\ q[i] = a[m]
    BY <1>3, <1>5, <2>1
  <2> QED BY <2>1, <2>3, <2>4
<1>8. \A m \in 1 .. n : a[m] = a[k] => k <= m
  <2> HIDE DEF k
  <2> QED BY <1>1, <1>5, <1>6, <1>7
<1>9. RemoveFirst(a, Head(q)) = b
  BY <1>1, <1>5, <1>8, RemoveFirstAt
<1>10. opt = SCHEDULER_FCFS => k = 1
  <2> HIDE DEF k
  <2> QED BY <1>1, <1>5, <1>7
<1>11. opt # SCHEDULER_FCFS =>
         /\ \A j \in 1 .. k - 1 : a[k].priority < a[j].priority
         /\ \A j \in k + 1 .. Len(a) : a[k].priority <= a[j].priority
  <2> HIDE DEF k
  <2> SUFFICES ASSUME opt # SCHEDULER_FCFS
               PROVE  /\ \A j \in 1 .. k - 1 : a[k].priority < a[j].priority
                      /\ \A j \in k + 1 .. n : a[k].priority <= a[j].priority
    BY <1>1
  <2>1. ASSUME NEW j \in 1 .. k - 1 PROVE a[k].priority < a[j].priority
    <3>1. j \in 1 .. n /\ j # k /\ ~ (k < j)
      BY <1>1, <1>5
    <3> QED BY <1>7, <3>1
  <2>2. ASSUME NEW j \in k + 1 .. n PROVE a[k].priority <= a[j].priority
    <3>1. j \in 1 .. n /\ j # k
      BY <1>1, <1>5
    <3> QED BY <1>5, <1>6, <1>7, <3>1
  <2> QED BY <2>1, <2>2
<1>12. /\ r \in Seq(PCBs) /\ Len(r) = n - 1
       /\ \A i \in 1 .. n - 1 : r[i] = q[i + 1]
  BY <1>1
<1>13. /\ b \in Seq(PCBs) /\ Len(b) = n - 1
       /\ \A m \in 1 .. n - 1 : b[m] = IF m < k THEN a[m] ELSE a[m + 1]
  <2> HIDE DEF k
  <2> QED BY <1>1, <1>5, RemovedPlaces, ZenonT(60)
<1> HIDE DEF r, b
<1>14. \A i \in 1 .. n - 1 :
         /\ i + 1 \in 1 .. n /\ f[i + 1] \in 1 .. n /\ f[i + 1] # k
         /\ g[i] = shifted(f[i + 1]) /\ g[i] \in 1 .. n - 1
  <2> SUFFICES ASSUME NEW i \in 1 .. n - 1
               PROVE  /\ i + 1 \in 1 .. n /\ f[i + 1] \in 1 .. n
                      /\ f[i + 1] # k
                      /\ g[i] = shifted(f[i + 1]) /\ g[i] \in 1 .. n - 1
    BY Zenon
  <2>1. i + 1 \in 1 .. n /\ i + 1 # 1
    BY <1>1
  <2>2. f[i + 1] \in 1 .. n /\ f[i + 1] # k
    BY <1>3, <1>5, <2>1
  <2>3. g[i] = shifted(f[i + 1])
    OBVIOUS
  <2>4. shifted(f[i + 1]) \in 1 .. n - 1
    <3> HIDE DEF k
    <3> QED BY <1>1, <1>5, <2>2
  <2> QED BY <2>1, <2>2, <2>3, <2>4
<1>15. Permutes(r, b, g)
  <2>1. g \in [1 .. n - 1 -> 1 .. n - 1]
    <3>1. g = [i \in 1 .. n - 1 |-> g[i]]
      OBVIOUS
    <3> HIDE DEF g
    <3> QED BY <1>14, <3>1, Zenon
  <2> HIDE DEF g, k
  <2>2. ASSUME NEW i \in 1 .. n - 1, NEW j \in 1 .. n - 1, g[i] = g[j]
        PROVE  i = j
    <3>1. f[i + 1] = f[j + 1]
      <4>1. /\ f[i + 1] \in 1 .. n /\ f[i + 1] # k
            /\ f[j + 1] \in 1 .. n /\ f[j + 1] # k
            /\ shifted(f[i + 1]) = shifted(f[j + 1])
        <5> HIDE DEF shifted
        <5> QED BY <1>14, <2>2
      <4> QED BY <1>1, <1>5, <4>1
    <3>2. i + 1 = j + 1
      BY <1>3, <1>14, <3>1
    <3> QED BY <3>2
  <2>3. ASSUME NEW m \in 1 .. n - 1 PROVE \E i \in 1 .. n - 1 : g[i] = m
    <3> DEFINE old == IF m < k THEN m ELSE m + 1
    <3>1. old \in 1 .. n /\ old # k /\ shifted(old) = m
      BY <1>1, <1>5
    <3>2. PICK i \in 1 .. n : f[i] = old
      BY <1>3, <3>1
    <3>3. i # 1
      BY <3>1, <3>2 DEF k
    <3>4. i - 1 \in 1 .. n - 1 /\ (i - 1) + 1 = i
      BY <1>1, <3>3
    <3>5. g[i - 1] = shifted(f[i])
      BY <1>14, <3>4
    <3> QED BY <3>1, <3>2, <3>4, <3>5
  <2>4. ASSUME NEW i \in 1 .. n - 1 PROVE r[i] = b[g[i]]
    <3>1. r[i] = a[f[i + 1]]
      BY <1>3, <1>12, <1>14
    <3>2. b[g[i]] = IF g[i] < k THEN a[g[i]] ELSE a[g[i] + 1]
      BY <1>13, <1>14
    <3>3. (IF g[i] < k THEN g[i] ELSE g[i] + 1) = f[i + 1]
      BY <1>1, <1>5, <1>14
    <3> QED BY <3>1, <3>2, <3>3
  <2> QED BY <1>12, <1>13, <2>1, <2>2, <2>3, <2>4 DEF Permutes
<1>16. Ordered(opt, r, g)
  <2> HIDE DEF g, k
  <2> SUFFICES ASSUME NEW i \in 1 .. n - 1, NEW j \in 1 .. n - 1, i < j
               PROVE  IF opt = SCHEDULER_FCFS THEN g[i] < g[j]
                      ELSE \/ r[i].priority < r[j].priority
                           \/ r[i].priority = r[j].priority /\ g[i] < g[j]
    BY <1>12 DEF Ordered
  <2>1. i + 1 \in 1 .. n /\ j + 1 \in 1 .. n /\ i + 1 < j + 1
    BY <1>1
  <2>2. f[i + 1] < f[j + 1] => g[i] < g[j]
    <3>1. /\ f[i + 1] \in 1 .. n /\ f[i + 1] # k
          /\ f[j + 1] \in 1 .. n /\ f[j + 1] # k
          /\ g[i] = shifted(f[i + 1]) /\ g[j] = shifted(f[j + 1])
      <4> HIDE DEF shifted
      <4> QED BY <1>14
    <3> QED BY <1>1, <1>5, <3>1
  <2> QED BY <1>4, <1>12, <2>1, <2>2
<1> HIDE DEF g, k
<1>17. Arranged(opt, r, b)
  BY <1>12, <1>13, <1>15, <1>16 DEF Arranged
<1> QED BY <1>1, <1>5, <1>9, <1>10, <1>11, <1>17 DEF r, b

----------------------------------------------------------------------------

Inv == option \in SchedulerOptions /\ Arranged(option, queue, arrived)

\* No step breaks the relation between the queue and the order of arrival.
THEOREM QueueArranged == Spec => []Inv
<1>1. Init => Inv
  <2> SUFFICES ASSUME Init PROVE Arranged(option, queue, arrived)
    BY DEF Init, Inv
  <2>1. /\ queue \in Seq(PCBs) /\ arrived \in Seq(PCBs)
        /\ Len(queue) = 0 /\ Len(arrived) = 0
    BY DEF Init
  <2>2. /\ Permutes(queue, arrived, [i \in 1 .. 0 |-> i])
        /\ Ordered(option, queue, [i \in 1 .. 0 |-> i])
    BY <2>1 DEF Permutes, Ordered
  <2> QED BY <2>1, <2>2 DEF Arranged
<1>2. Inv /\ [Next]_vars => Inv'
  <2> SUFFICES ASSUME Inv, [Next]_vars PROVE Inv'
    OBVIOUS
  <2>1. ASSUME NEW pcb \in PCBs, schedule(pcb) PROVE Inv'
    BY <2>1, EnqueueArranges DEF schedule, Inv
  <2>2. CASE getNext
    <3>1. CASE queue # <<>>
      <4>1. PICK k \in 1 .. Len(arrived) :
              /\ RemoveFirst(arrived, Head(queue)) = RemoveAt(arrived, k)
              /\ Arranged(option, Tail(queue), RemoveAt(arrived, k))
        BY <3>1, TailArranges DEF Inv
      <4>2. /\ queue' = Tail(queue) /\ option' = option
            /\ arrived' = RemoveAt(arrived, k)
        BY <2>2, <3>1, <4>1 DEF getNext
      <4> QED BY <4>1, <4>2 DEF Inv
    <3>2. CASE queue = <<>>
      BY <2>2, <3>2 DEF getNext, Inv
    <3> QED BY <3>1, <3>2
  <2>3. CASE UNCHANGED vars
    BY <2>3 DEF vars, Inv
  <2> QED BY <2>1, <2>2, <2>3 DEF Next
<1> QED BY <1>1, <1>2, PTL DEF Spec

\* FCFS returns the oldest PCB and PriorityQueue the oldest of the most urgent
\* ones: the insertion into the list and the removal of its head implement the
\* policy that is stated on the order of arrival alone.
THEOREM QueueImplementsPolicy == Spec => PolicySpec
<1>1. Init => Policy!Init
  BY DEF Init, Policy!Init
<1>2. Inv /\ [Next]_vars => [Policy!Next]_(Policy!vars)
  <2> SUFFICES ASSUME Inv, [Next]_vars PROVE [Policy!Next]_(Policy!vars)
    OBVIOUS
  <2>1. ASSUME NEW pcb \in PCBs, schedule(pcb) PROVE Policy!Next
    BY <2>1 DEF schedule, Policy!Next, Policy!Arrive
  <2>2. CASE getNext
    <3>1. CASE queue # <<>>
      <4>1. PICK k \in 1 .. Len(arrived) :
              /\ arrived[k] = Head(queue)
              /\ RemoveFirst(arrived, Head(queue)) = RemoveAt(arrived, k)
              /\ option = SCHEDULER_FCFS => k = 1
              /\ option # SCHEDULER_FCFS =>
                   /\ \A j \in 1 .. k - 1 :
                        arrived[k].priority < arrived[j].priority
                   /\ \A j \in k + 1 .. Len(arrived) :
                        arrived[k].priority <= arrived[j].priority
        BY <3>1, TailArranges DEF Inv
      <4>2. Policy!IsNext(k)
        BY <4>1 DEF Policy!IsNext, Inv, SchedulerOptions,
             SCHEDULER_FCFS, SCHEDULER_PRIORITY
      <4>3. /\ nextPCB' = arrived[k] /\ UNCHANGED option
            /\ arrived' = SubSeq(arrived, 1, k - 1)
                            \o SubSeq(arrived, k + 1, Len(arrived))
        BY <2>2, <3>1, <4>1 DEF getNext, RemoveAt
      <4>4. Policy!Choose
        BY <4>2, <4>3 DEF Policy!Choose
      <4> QED BY <4>3, <4>4 DEF Policy!Next
    <3>2. CASE queue = <<>>
      <4>1. arrived = <<>>
        BY <3>2 DEF Inv, Arranged
      <4> QED BY <2>2, <3>2, <4>1
            DEF getNext, Policy!Next, Policy!NothingReady
    <3> QED BY <3>1, <3>2
  <2>3. CASE UNCHANGED vars
    BY <2>3 DEF vars, Policy!vars
  <2> QED BY <2>1, <2>2, <2>3 DEF Next
<1> QED BY <1>1, <1>2, QueueArranged, PTL DEF Spec, PolicySpec, Policy!Spec

\* The permutation pairs the places of a PCB in the queue with those in the
\* order of arrival: there are as many, so none was lost or doubled.
THEOREM QueueLosesNothing == Spec => []NothingLost
<1>1. Inv => NothingLost
  <2> SUFFICES ASSUME Inv, NEW pcb \in PCBs
               PROVE  Cardinality({i \in DOMAIN queue : queue[i] = pcb}) =
                        Cardinality({i \in DOMAIN arrived : arrived[i] = pcb})
    BY DEF NothingLost
  <2> DEFINE S == {i \in DOMAIN queue : queue[i] = pcb}
             T == {i \in DOMAIN arrived : arrived[i] = pcb}
  <2>1. /\ DOMAIN queue = 1 .. Len(queue) /\ Len(queue) \in Nat
        /\ DOMAIN arrived = 1 .. Len(arrived)
    BY DEF Inv, Arranged
  <2>2. PICK f : Permutes(queue, arrived, f)
    BY DEF Inv, Arranged
  <2> DEFINE g == [i \in S |-> f[i]]
  <2>3. g \in [S -> T] /\ \A i, j \in S : g[i] = g[j] => i = j
    BY <2>1, <2>2 DEF Permutes
  <2>4. ASSUME NEW m \in T PROVE \E i \in S : g[i] = m
    <3>1. PICK i \in 1 .. Len(queue) : f[i] = m
      BY <2>1, <2>2 DEF Permutes
    <3>2. i \in S
      BY <2>1, <2>2, <3>1 DEF Permutes
    <3> QED BY <3>1, <3>2
  <2> HIDE DEF g
  <2>5. g \in Bijection(S, T)
    BY <2>3, <2>4, Fun_IsBij
  <2>6. IsFiniteSet(S)
    <3>1. IsFiniteSet(1 .. Len(queue))
      BY <2>1, FS_Interval
    <3>2. S \in SUBSET (1 .. Len(queue))
      BY <2>1
    <3> QED BY <3>1, <3>2, FS_Subset
  <2> QED BY <2>5, <2>6, FS_Bijection DEF ExistsBijection
<1> QED BY <1>1, QueueArranged, PTL
============================================================================
