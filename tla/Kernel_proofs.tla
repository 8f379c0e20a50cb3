-------------------------- MODULE Kernel_proofs --------------------------
(***************************************************************************)
(* Theorems about Kernel for every set of processes and all integers as    *)
(* priorities, with either scheduler.                                      *)
(*                                                                         *)
(* The handlers call one another, so the facts below are about the record  *)
(* k of a kernel's state, also one between two steps of a handler.         *)
(***************************************************************************)
EXTENDS KernelPriority, Scheduler_proofs

KernelSet ==
  [ scheduler  : SchedulerOptions,
    processing : BOOLEAN,
    queue      : Seq(PcbSet),
    table      : [Pids -> [state    : States,
                           type     : Types \cup {0},
                           priority : -128 .. 127]],
    out_put    : Seq(OutputSet),
    armed      : BOOLEAN ]

\* The processes of a queue.
PidsIn(q) == {q[i].PID : i \in DOMAIN q}

In(k, s) == {p \in Pids : k.table[p].state = s}

\* The queue is the set of READY processes, each once, as the table has them.
Queued(k) ==
  /\ \A i \in DOMAIN k.queue : k.queue[i] = PCB(k, k.queue[i].PID)
  /\ PidsIn(k.queue) = In(k, READY)
  /\ \A i, j \in DOMAIN k.queue : k.queue[i].PID = k.queue[j].PID => i = j

Scheduled(k) ==
  (\E i \in DOMAIN k.out_put : k.out_put[i].port = "ctrlApp") => k.armed

\* What holds also between the two steps of a handler, when the process that
\* ran has given up the processor and the next one has not started.
Settled(k) == k \in KernelSet /\ Queued(k) /\ Scheduled(k)

\* What holds between handlers.  The two parts of OneRunning are inductive
\* together: only because one process runs at most does the flag that is
\* cleared when a process leaves say that none is left.
Consistent(k) ==
  /\ Settled(k)
  /\ k.processing <=> In(k, RUNNING) # {}
  /\ \A p, q \in In(k, RUNNING) : p = q
  /\ ~ k.processing => k.queue = <<>>

\* The properties of Kernel in these terms.
LEMMA KernelProperties ==
  Consistent(kernel) /\ asked \subseteq Pids
    <=> /\ TypeOK /\ OneRunning /\ WorkConserving
        /\ QueueIsReady /\ QueueMatchesTable /\ StartsScheduled
BY DEF Consistent, Settled, KernelSet, Queued, Scheduled, In, TypeOK,
       OneRunning, WorkConserving, QueueIsReady, QueueMatchesTable,
       StartsScheduled, InState, PidsIn

----------------------------------------------------------------------------
(* The queue.                                                              *)

\* Taking the head out of a queue of different processes leaves the others.
LEMMA TailOfQueue ==
  ASSUME NEW S, NEW q \in Seq(S), q # <<>>,
         \A i, j \in DOMAIN q : q[i].PID = q[j].PID => i = j
  PROVE  /\ Head(q) = q[1] /\ 1 \in DOMAIN q /\ Tail(q) \in Seq(S)
         /\ \A i \in DOMAIN Tail(q) : i + 1 \in DOMAIN q
                                      /\ Tail(q)[i] = q[i + 1]
         /\ PidsIn(Tail(q)) = PidsIn(q) \ {Head(q).PID}
         /\ \A i, j \in DOMAIN Tail(q) :
              Tail(q)[i].PID = Tail(q)[j].PID => i = j
<1>1. /\ Len(q) \in Nat \ {0} /\ DOMAIN q = 1 .. Len(q)
      /\ DOMAIN Tail(q) = 1 .. Len(q) - 1
      /\ Tail(q) \in Seq(S)
      /\ \A i \in 1 .. Len(q) - 1 : Tail(q)[i] = q[i + 1]
  BY HeadTailProperties, EmptySeq, LenProperties
<1>2. Head(q) = q[1] /\ 1 \in DOMAIN q
  BY <1>1
<1>3. \A i \in DOMAIN Tail(q) : i + 1 \in DOMAIN q /\ Tail(q)[i] = q[i + 1]
  BY <1>1
<1>4. PidsIn(Tail(q)) = PidsIn(q) \ {Head(q).PID}
  <2>1. ASSUME NEW i \in DOMAIN q, q[i].PID # q[1].PID
        PROVE  i - 1 \in DOMAIN Tail(q) /\ Tail(q)[i - 1] = q[i]
    BY <1>1, <2>1
  <2>2. ASSUME NEW i \in DOMAIN Tail(q)
        PROVE  q[i + 1].PID # q[1].PID
    BY <1>1
  <2> QED BY <1>2, <1>3, <2>1, <2>2 DEF PidsIn
<1>5. \A i, j \in DOMAIN Tail(q) : Tail(q)[i].PID = Tail(q)[j].PID => i = j
  BY <1>1
<1> QED BY <1>1, <1>2, <1>3, <1>4, <1>5, Zenon

\* Inserting a process that is not there keeps the processes different.
LEMMA InsertInQueue ==
  ASSUME NEW S, NEW q \in Seq(S), NEW pcb \in S, NEW option,
         \A i, j \in DOMAIN q : q[i].PID = q[j].PID => i = j,
         \A i \in DOMAIN q : q[i].PID # pcb.PID
  PROVE  LET r == Enqueue(option, q, pcb) IN
         /\ r \in Seq(S) /\ r # <<>>
         /\ \A i \in DOMAIN r : r[i] = pcb \/ \E j \in DOMAIN q : r[i] = q[j]
         /\ PidsIn(r) = PidsIn(q) \cup {pcb.PID}
         /\ \A i, j \in DOMAIN r : r[i].PID = r[j].PID => i = j
<1> DEFINE r == Enqueue(option, q, pcb)
<1>1. PICK k \in 1 .. Len(q) + 1 : r = Inserted(q, k, pcb)
  BY EnqueueInserts
<1>2. /\ r \in Seq(S) /\ Len(r) = Len(q) + 1
      /\ DOMAIN r = 1 .. Len(q) + 1 /\ DOMAIN q = 1 .. Len(q)
      /\ \A j \in 1 .. Len(q) + 1 :
           r[j] = IF j < k THEN q[j] ELSE IF j = k THEN pcb ELSE q[j - 1]
  BY <1>1, InsertedIsSeq, LenProperties DEF Inserted
<1> HIDE DEF r
<1>3. r # <<>>
  BY <1>2
<1>4. \A i \in DOMAIN r : r[i] = pcb \/ \E j \in DOMAIN q : r[i] = q[j]
  <2> SUFFICES ASSUME NEW i \in DOMAIN r, r[i] # pcb
               PROVE  \E j \in DOMAIN q : r[i] = q[j]
    OBVIOUS
  <2>1. CASE i < k
    BY <1>2, <2>1
  <2>2. CASE i > k
    <3>1. i - 1 \in DOMAIN q /\ r[i] = q[i - 1]
      BY <1>2, <2>2
    <3> QED BY <3>1
  <2> QED BY <1>2, <2>1, <2>2
<1>5. PidsIn(r) = PidsIn(q) \cup {pcb.PID}
  <2>1. ASSUME NEW i \in DOMAIN q
        PROVE  \E j \in DOMAIN r : r[j] = q[i]
    <3>1. CASE i < k
      BY <1>2, <3>1
    <3>2. CASE ~ (i < k)
      <4>1. i + 1 \in DOMAIN r /\ r[i + 1] = q[i]
        BY <1>2, <3>2
      <4> QED BY <4>1
    <3> QED BY <3>1, <3>2
  <2>2. k \in DOMAIN r /\ r[k] = pcb
    BY <1>2
  <2> QED BY <1>4, <2>1, <2>2 DEF PidsIn
<1>6. ASSUME NEW i \in DOMAIN r, NEW j \in DOMAIN r, r[i].PID = r[j].PID
      PROVE  i = j
  <2> DEFINE old(n) == IF n < k THEN n ELSE n - 1
  <2>1. \A n \in DOMAIN r : n # k => old(n) \in DOMAIN q /\ r[n] = q[old(n)]
    BY <1>2
  <2>2. r[k] = pcb
    BY <1>2
  <2>3. \A m, n \in DOMAIN r : m # k /\ n # k /\ old(m) = old(n) => m = n
    BY <1>2
  <2> HIDE DEF old
  <2>4. CASE i = k
    BY <1>6, <2>1, <2>2, <2>4
  <2>5. CASE j = k
    BY <1>6, <2>1, <2>2, <2>5
  <2>6. CASE i # k /\ j # k
    <3>1. q[old(i)].PID = q[old(j)].PID
      BY <1>6, <2>1, <2>6
    <3>2. old(i) = old(j)
      BY <2>1, <2>6, <3>1
    <3> QED BY <2>3, <2>6, <3>2
  <2> QED BY <2>4, <2>5, <2>6
<1> QED BY <1>2, <1>3, <1>4, <1>5, <1>6 DEF r

----------------------------------------------------------------------------
(* The table.                                                              *)

TableSet ==
  [Pids -> [state : States, type : Types \cup {0}, priority : -128 .. 127]]

Moved(k, pid, s) == [k.table EXCEPT ![pid].state = s]

\* A new state of one process moves it between the sets In and changes no
\* PCB.
LEMMA StateChange ==
  ASSUME NEW k, NEW n, k.table \in TableSet, NEW pid \in Pids,
         NEW s \in States, n.table = Moved(k, pid, s)
  PROVE  /\ n.table \in TableSet
         /\ In(n, s) = In(k, s) \cup {pid}
         /\ \A t : t # s => In(n, t) = In(k, t) \ {pid}
         /\ \A p \in Pids : PCB(n, p) = PCB(k, p)
<1>1. /\ n.table \in TableSet
      /\ \A p \in Pids :
           /\ n.table[p].state = IF p = pid THEN s ELSE k.table[p].state
           /\ n.table[p].type = k.table[p].type
           /\ n.table[p].priority = k.table[p].priority
  BY DEF TableSet, Moved
<1>2. In(n, s) = In(k, s) \cup {pid}
  BY <1>1 DEF In
<1>3. \A t : t # s => In(n, t) = In(k, t) \ {pid}
  BY <1>1 DEF In
<1>4. \A p \in Pids : PCB(n, p) = PCB(k, p)
  BY <1>1 DEF PCB
<1> QED BY <1>1, <1>2, <1>3, <1>4

\* A PCB copied from the table has the type of a PCB.
LEMMA PCBTyped ==
  ASSUME NEW k, k.table \in TableSet, NEW pid \in Pids
  PROVE  PCB(k, pid) \in PcbSet /\ PCB(k, pid).PID = pid
BY DEF TableSet, PCB, PcbSet

\* Starting the next process from a settled state in which none runs makes
\* the state consistent: one process runs, or the queue is empty.
LEMMA StartNextConsistent ==
  ASSUME NEW k, Settled(k), ~ k.processing, In(k, RUNNING) = {}
  PROVE  Consistent(StartNext(k))
<1>1. CASE k.queue = <<>>
  <2>1. StartNext(k) = k
    BY <1>1 DEF StartNext
  <2> QED BY <1>1, <2>1 DEF Consistent
<1>2. CASE k.queue # <<>>
  <2> DEFINE n == StartNext(k)
             pid == Head(k.queue).PID
             start == CtrlApp(Head(k.queue))
  <2>0. /\ k \in KernelSet /\ k.queue \in Seq(PcbSet)
        /\ k.table \in TableSet /\ k.out_put \in Seq(OutputSet)
        /\ Queued(k)
    BY DEF Settled, KernelSet, TableSet
  <2>1. /\ n.processing = TRUE /\ n.queue = Tail(k.queue)
        /\ n.out_put = Append(k.out_put, start)
        /\ n.armed = TRUE /\ n.scheduler = k.scheduler
        /\ n.table = Moved(k, pid, RUNNING)
        /\ n = [scheduler |-> n.scheduler, processing |-> n.processing,
                queue |-> n.queue, table |-> n.table,
                out_put |-> n.out_put, armed |-> n.armed]
    BY <1>2, <2>0 DEF StartNext, KernelSet, Moved
  <2>2. /\ Head(k.queue) = k.queue[1] /\ 1 \in DOMAIN k.queue
        /\ Tail(k.queue) \in Seq(PcbSet)
        /\ \A i \in DOMAIN Tail(k.queue) :
             i + 1 \in DOMAIN k.queue /\ Tail(k.queue)[i] = k.queue[i + 1]
        /\ PidsIn(Tail(k.queue)) = PidsIn(k.queue) \ {pid}
        /\ \A i, j \in DOMAIN Tail(k.queue) :
             Tail(k.queue)[i].PID = Tail(k.queue)[j].PID => i = j
    BY <1>2, <2>0, TailOfQueue DEF Queued
  <2>3. pid \in In(k, READY) /\ pid \in Pids /\ Head(k.queue) \in PcbSet
    BY <2>0, <2>2, ElementOfSeq, LenProperties DEF Queued, In, PidsIn
  <2>4. start \in OutputSet
    BY <2>3 DEF CtrlApp, OutputSet, PcbSet
  <2> HIDE DEF n, pid, start
  <2>5. /\ n.table \in TableSet
        /\ In(n, RUNNING) = In(k, RUNNING) \cup {pid}
        /\ In(n, READY) = In(k, READY) \ {pid}
        /\ \A p \in Pids : PCB(n, p) = PCB(k, p)
    <3>1. RUNNING \in States /\ READY # RUNNING
      BY DEF States, RUNNING, READY
    <3> QED BY <2>0, <2>1, <2>3, <3>1, StateChange, SMTT(30)
  <2>6. n \in KernelSet
    <3>1. n.out_put \in Seq(OutputSet)
      BY <2>0, <2>1, <2>4
    <3>2. n.scheduler \in SchedulerOptions
      BY <2>0, <2>1 DEF KernelSet
    <3> QED BY <2>1, <2>2, <2>5, <3>1, <3>2 DEF KernelSet, TableSet
  <2>7. Queued(n)
    <3>1. \A j \in DOMAIN k.queue : k.queue[j].PID \in Pids
      BY <2>0 DEF Queued, In, PidsIn
    <3>2. \A i \in DOMAIN n.queue : n.queue[i] = PCB(n, n.queue[i].PID)
      <4> SUFFICES ASSUME NEW i \in DOMAIN n.queue
                   PROVE  n.queue[i] = PCB(n, n.queue[i].PID)
        OBVIOUS
      <4>1. i + 1 \in DOMAIN k.queue /\ n.queue[i] = k.queue[i + 1]
        BY <2>1, <2>2
      <4>2. k.queue[i + 1] = PCB(k, k.queue[i + 1].PID)
        BY <2>0, <4>1 DEF Queued
      <4> QED BY <2>5, <3>1, <4>1, <4>2
    <3>3. PidsIn(n.queue) = In(n, READY)
      BY <2>0, <2>1, <2>2, <2>5 DEF Queued
    <3>4. \A i, j \in DOMAIN n.queue :
            n.queue[i].PID = n.queue[j].PID => i = j
      BY <2>1, <2>2, Zenon
    <3> QED BY <3>2, <3>3, <3>4 DEF Queued
  <2>8. Scheduled(n)
    BY <2>1 DEF Scheduled
  <2>9. In(n, RUNNING) = {pid}
    BY <2>5
  <2> QED BY <2>1, <2>6, <2>7, <2>8, <2>9 DEF Consistent, Settled, n
<1> QED BY <1>1, <1>2

----------------------------------------------------------------------------
(* The common parts of the handlers.                                       *)

\* k with its fields written out, as a handler that keeps them leaves it.
IsRecord(n) ==
  n = [f \in {"scheduler", "processing", "queue", "table", "out_put", "armed"}
         |-> n[f]]

\* The parts of a consistent state.
LEMMA ConsistentParts ==
  ASSUME NEW k, Consistent(k)
  PROVE  /\ k \in KernelSet /\ k.table \in TableSet
         /\ k.queue \in Seq(PcbSet) /\ k.out_put \in Seq(OutputSet)
         /\ k.scheduler \in SchedulerOptions /\ k.processing \in BOOLEAN
         /\ k.armed \in BOOLEAN
         /\ Settled(k) /\ Queued(k) /\ Scheduled(k)
         /\ k.processing <=> In(k, RUNNING) # {}
         /\ \A p, q \in In(k, RUNNING) : p = q
         /\ ~ k.processing => k.queue = <<>>
BY DEF Consistent, Settled, KernelSet, TableSet

\* A state built from typed fields is typed.
LEMMA KernelTyped ==
  ASSUME NEW n, IsRecord(n), n.table \in TableSet, n.queue \in Seq(PcbSet),
         n.out_put \in Seq(OutputSet), n.scheduler \in SchedulerOptions,
         n.processing \in BOOLEAN, n.armed \in BOOLEAN
  PROVE  n \in KernelSet
BY DEF IsRecord, KernelSet, TableSet

\* A queue and a table whose READY processes and PCBs are the same still
\* agree.
LEMMA QueuedKept ==
  ASSUME NEW k, NEW n, Queued(k), n.queue = k.queue,
         In(n, READY) = In(k, READY),
         \A p \in In(k, READY) : PCB(n, p) = PCB(k, p)
  PROVE  Queued(n)
<1>1. \A i \in DOMAIN k.queue : k.queue[i].PID \in In(k, READY)
  BY DEF Queued, PidsIn
<1>2. \A i \in DOMAIN n.queue : n.queue[i] = PCB(n, n.queue[i].PID)
  BY <1>1 DEF Queued
<1> QED BY <1>2 DEF Queued

\* A new message that starts no process leaves the starts scheduled.
LEMMA ScheduledKept ==
  ASSUME NEW k, NEW n, Scheduled(k), k.out_put \in Seq(OutputSet),
         NEW m \in OutputSet, m.port # "ctrlApp",
         n.out_put = Append(k.out_put, m), n.armed = k.armed \/ n.armed = TRUE
  PROVE  Scheduled(n) /\ n.out_put \in Seq(OutputSet)
<1>1. n.out_put \in Seq(OutputSet)
  OBVIOUS
<1>2. \A i \in DOMAIN n.out_put : n.out_put[i].port = "ctrlApp"
        => i \in DOMAIN k.out_put /\ k.out_put[i].port = "ctrlApp"
  OBVIOUS
<1> QED BY <1>1, <1>2 DEF Scheduled

\* The process joins the queue: this needs that it is neither in the queue nor
\* running.
LEMMA JoinQueueSettled ==
  ASSUME NEW k, Consistent(k), NEW pid \in Pids,
         k.table[pid].state \notin {READY, RUNNING}
  PROVE  LET n == JoinQueue(k, pid) IN
         /\ Settled(n) /\ n.table = Moved(k, pid, READY)
         /\ In(n, RUNNING) = In(k, RUNNING) /\ n.processing = k.processing
         /\ n.queue # <<>>
<1> DEFINE pcb == PCB(k, pid)
           n == JoinQueue(k, pid)
<1>2. /\ n.table = Moved(k, pid, READY)
      /\ n.queue = Enqueue(k.scheduler, k.queue, pcb)
      /\ n.armed = TRUE /\ n.processing = k.processing
      /\ n.out_put = k.out_put /\ n.scheduler = k.scheduler /\ IsRecord(n)
  <2>1. k \in KernelSet
    BY ConsistentParts
  <2> HIDE DEF pcb
  <2>2. n.table = Moved(k, pid, READY)
    BY <2>1 DEF JoinQueue, KernelSet, Moved
  <2>3. n.queue = Enqueue(k.scheduler, k.queue, pcb)
    BY <2>1 DEF JoinQueue, KernelSet, pcb
  <2>4. /\ n.armed = TRUE /\ n.processing = k.processing
        /\ n.out_put = k.out_put /\ n.scheduler = k.scheduler
    BY <2>1 DEF JoinQueue, KernelSet
  <2>5. IsRecord(n)
    BY <2>1 DEF JoinQueue, KernelSet, IsRecord
  <2> QED BY <2>2, <2>3, <2>4, <2>5
<1>3. pcb \in PcbSet /\ pcb.PID = pid
  BY ConsistentParts, PCBTyped
<1> HIDE DEF n, pcb
<1>4. /\ n.table \in TableSet
      /\ In(n, READY) = In(k, READY) \cup {pid}
      /\ In(n, RUNNING) = In(k, RUNNING) \ {pid}
      /\ \A p \in Pids : PCB(n, p) = PCB(k, p)
  <2>1. READY \in States /\ READY # RUNNING
    BY DEF States, RUNNING, READY
  <2> QED BY <1>2, <2>1, ConsistentParts, StateChange, SMTT(30)
<1>5. pid \notin In(k, RUNNING) /\ pid \notin In(k, READY)
  BY DEF In
<1>6. \A i \in DOMAIN k.queue :
        /\ k.queue[i].PID # pid
        /\ k.queue[i].PID \in Pids
        /\ k.queue[i] = PCB(k, k.queue[i].PID)
  BY <1>5, ConsistentParts DEF Queued, PidsIn, In
<1>7. /\ n.queue \in Seq(PcbSet) /\ n.queue # <<>>
      /\ \A i \in DOMAIN n.queue :
           \/ n.queue[i] = pcb
           \/ \E j \in DOMAIN k.queue : n.queue[i] = k.queue[j]
      /\ PidsIn(n.queue) = PidsIn(k.queue) \cup {pid}
      /\ \A i, j \in DOMAIN n.queue :
           n.queue[i].PID = n.queue[j].PID => i = j
  <2>1. /\ k.queue \in Seq(PcbSet)
        /\ \A i, j \in DOMAIN k.queue :
             k.queue[i].PID = k.queue[j].PID => i = j
    BY ConsistentParts DEF Queued
  <2> QED BY <1>2, <1>3, <1>6, <2>1, InsertInQueue
<1>8. Queued(n)
  <2>1. PidsIn(n.queue) = In(n, READY)
    BY <1>4, <1>7, ConsistentParts DEF Queued
  <2>2. \A i \in DOMAIN n.queue : n.queue[i] = PCB(n, n.queue[i].PID)
    <3> SUFFICES ASSUME NEW i \in DOMAIN n.queue
                 PROVE  n.queue[i] = PCB(n, n.queue[i].PID)
      OBVIOUS
    <3>1. CASE n.queue[i] = pcb
      BY <1>3, <1>4, <3>1 DEF pcb
    <3>2. CASE \E j \in DOMAIN k.queue : n.queue[i] = k.queue[j]
      BY <1>4, <1>6, <3>2
    <3> QED BY <1>7, <3>1, <3>2
  <2> QED BY <1>7, <2>1, <2>2 DEF Queued
<1>9. Settled(n)
  <2>1. n \in KernelSet
    BY <1>2, <1>4, <1>7, ConsistentParts, KernelTyped
  <2> QED BY <1>2, <1>8, <2>1 DEF Settled, Scheduled
<1>10. In(n, RUNNING) = In(k, RUNNING)
  BY <1>4, <1>5
<1> QED BY <1>2, <1>7, <1>9, <1>10 DEF n

\* The process joins the queue, and the first of the queue starts if none
\* runs.
LEMMA MakeReadyConsistent ==
  ASSUME NEW k, Consistent(k), NEW pid \in Pids,
         k.table[pid].state \notin {READY, RUNNING}
  PROVE  Consistent(MakeReady(k, pid))
<1> DEFINE n == JoinQueue(k, pid)
<1>1. /\ Settled(n)
      /\ In(n, RUNNING) = In(k, RUNNING) /\ n.processing = k.processing
  BY JoinQueueSettled
<1>2. CASE k.processing
  <2>1. MakeReady(k, pid) = n
    BY <1>2 DEF MakeReady
  <2> HIDE DEF n
  <2> QED BY <1>1, <1>2, <2>1, ConsistentParts DEF Consistent
<1>3. CASE ~ k.processing
  <2>1. MakeReady(k, pid) = StartNext(n)
    BY <1>3 DEF MakeReady
  <2> HIDE DEF n
  <2>2. In(n, RUNNING) = {} /\ ~ n.processing
    BY <1>1, <1>3, ConsistentParts
  <2> QED BY <1>1, <2>1, <2>2, StartNextConsistent
<1> QED BY <1>2, <1>3

\* The process that ran leaves the processor, with a state in which it is
\* neither ready nor running: this needs that no other process runs.
LEMMA LeaveSettled ==
  ASSUME NEW k, NEW n, Consistent(k), NEW pid \in Pids,
         k.table[pid].state = RUNNING,
         NEW s \in {WAITING, TERMINATED}, n.table = Moved(k, pid, s),
         n.processing = FALSE, n.queue = k.queue, n.armed = k.armed,
         n.scheduler = k.scheduler, IsRecord(n),
         n.out_put \in Seq(OutputSet), Scheduled(n)
  PROVE  Settled(n) /\ In(n, RUNNING) = {}
<1>1. /\ n.table \in TableSet
      /\ In(n, READY) = In(k, READY) \ {pid}
      /\ In(n, RUNNING) = In(k, RUNNING) \ {pid}
      /\ \A p \in Pids : PCB(n, p) = PCB(k, p)
  <2>1. s \in States /\ READY # s /\ RUNNING # s
    BY DEF States, RUNNING, READY, WAITING, TERMINATED
  <2> QED BY <2>1, ConsistentParts, StateChange, SMTT(30)
<1>2. pid \in In(k, RUNNING) /\ pid \notin In(k, READY)
  BY DEF In, READY, RUNNING
<1>3. In(n, READY) = In(k, READY) /\ In(n, RUNNING) = {}
  BY <1>1, <1>2, ConsistentParts
<1>4. Queued(n)
  <2>1. \A p \in In(k, READY) : PCB(n, p) = PCB(k, p)
    BY <1>1 DEF In
  <2> QED BY <1>3, <2>1, ConsistentParts, QueuedKept
<1>5. n \in KernelSet
  BY <1>1, ConsistentParts, KernelTyped
<1> QED BY <1>3, <1>4, <1>5 DEF Settled

----------------------------------------------------------------------------
(* The life cycle.                                                         *)

\* The life that each state stands for.
LEMMA LifeOfStates ==
  /\ {READY, RUNNING, WAITING, TERMINATED, UNDEFINED} = States
  /\ LifeOf(READY) = "ready" /\ LifeOf(RUNNING) = "running"
  /\ LifeOf(WAITING) = "waiting"
  /\ LifeOf(TERMINATED) = "absent" /\ LifeOf(UNDEFINED) = "absent"
BY DEF LifeOf, States, READY, RUNNING, WAITING, TERMINATED, UNDEFINED

\* The processes that run and those that are ready, seen from both sides.
LEMMA LifeIn ==
  ASSUME NEW k
  PROVE  /\ LifeCycle!In(Life(k), "running") = In(k, RUNNING)
         /\ LifeCycle!In(Life(k), "ready") = In(k, READY)
BY DEF LifeCycle!In, Life, LifeOf, In, READY, RUNNING, WAITING

\* A new state of one process is a move of that process.
LEMMA LifeMoves ==
  ASSUME NEW k, NEW n, k.table \in TableSet, NEW pid \in Pids,
         NEW s \in States, n.table = Moved(k, pid, s)
  PROVE  Life(n) = LifeCycle!With(Life(k), pid, LifeOf(s))
<1>1. \A p \in Pids :
        n.table[p].state = IF p = pid THEN s ELSE k.table[p].state
  BY DEF TableSet, Moved
<1> QED BY <1>1 DEF Life, LifeCycle!With

\* Starting the next process gives the free processor away.
LEMMA StartNextDispatches ==
  ASSUME NEW k, Settled(k), ~ k.processing, In(k, RUNNING) = {}
  PROVE  Life(StartNext(k)) \in LifeCycle!Dispatched(Life(k))
<1>1. /\ k \in KernelSet /\ k.queue \in Seq(PcbSet)
      /\ k.table \in TableSet /\ Queued(k)
  BY DEF Settled, KernelSet, TableSet
<1>2. LifeCycle!In(Life(k), "running") = {}
  BY LifeIn
<1>3. CASE k.queue = <<>>
  <2>1. StartNext(k) = k
    BY <1>3 DEF StartNext
  <2>2. In(k, READY) = {}
    BY <1>1, <1>3 DEF Queued, PidsIn
  <2>3. LifeCycle!In(Life(k), "ready") = {}
    BY <2>2, LifeIn
  <2> QED BY <2>1, <2>3 DEF LifeCycle!Dispatched
<1>4. CASE k.queue # <<>>
  <2> DEFINE pid == Head(k.queue).PID
             n == StartNext(k)
  <2>1. pid \in In(k, READY)
    <3>1. Head(k.queue) = k.queue[1] /\ 1 \in DOMAIN k.queue
      BY <1>1, <1>4, TailOfQueue DEF Queued
    <3> QED BY <1>1, <3>1 DEF Queued, PidsIn
  <2>2. n.table = Moved(k, pid, RUNNING)
    BY <1>1, <1>4 DEF StartNext, KernelSet, Moved
  <2> HIDE DEF n, pid
  <2>3. LifeOf(RUNNING) = "running" /\ RUNNING \in States /\ pid \in Pids
    BY <2>1, LifeOfStates DEF In
  <2>4. Life(n) = LifeCycle!With(Life(k), pid, "running")
    BY <1>1, <2>2, <2>3, LifeMoves
  <2>5. pid \in LifeCycle!In(Life(k), "ready")
    BY <2>1, LifeIn
  <2> QED BY <1>2, <2>4, <2>5 DEF LifeCycle!Dispatched, n
<1> QED BY <1>3, <1>4

\* A process that gets ready moves there, and the processor is given away if
\* it is free.
LEMMA MakeReadyMoves ==
  ASSUME NEW k, Consistent(k), NEW pid \in Pids,
         k.table[pid].state \notin {READY, RUNNING}
  PROVE  Life(MakeReady(k, pid))
           \in LifeCycle!Dispatched(LifeCycle!With(Life(k), pid, "ready"))
<1> DEFINE n == JoinQueue(k, pid)
<1>1. /\ Settled(n) /\ n.table = Moved(k, pid, READY)
      /\ In(n, RUNNING) = In(k, RUNNING) /\ n.processing = k.processing
  BY JoinQueueSettled
<1>2. MakeReady(k, pid) = IF k.processing THEN n ELSE StartNext(n)
  BY DEF MakeReady
<1> HIDE DEF n
<1>3. Life(n) = LifeCycle!With(Life(k), pid, "ready")
  <2>1. LifeOf(READY) = "ready" /\ READY \in States
    BY LifeOfStates
  <2> QED BY <1>1, <2>1, ConsistentParts, LifeMoves
<1>4. CASE k.processing
  <2>1. LifeCycle!In(Life(n), "running") # {}
    BY <1>1, <1>4, ConsistentParts, LifeIn
  <2> QED BY <1>2, <1>3, <1>4, <2>1 DEF LifeCycle!Dispatched
<1>5. CASE ~ k.processing
  <2>1. In(n, RUNNING) = {} /\ ~ n.processing
    BY <1>1, <1>5, ConsistentParts
  <2>2. Life(StartNext(n)) \in LifeCycle!Dispatched(Life(n))
    BY <1>1, <2>1, StartNextDispatches
  <2> QED BY <1>2, <1>3, <1>5, <2>2
<1> QED BY <1>4, <1>5

\* The running process moves out, and the processor is given away.
LEMMA LeaveMoves ==
  ASSUME NEW k, NEW n, Consistent(k), NEW pid \in Pids,
         k.table[pid].state = RUNNING,
         NEW s \in {WAITING, TERMINATED}, n.table = Moved(k, pid, s),
         n.processing = FALSE, n.queue = k.queue, n.armed = k.armed,
         n.scheduler = k.scheduler, IsRecord(n),
         n.out_put \in Seq(OutputSet), Scheduled(n)
  PROVE  Life(StartNext(n))
           \in LifeCycle!Dispatched(LifeCycle!With(Life(k), pid, LifeOf(s)))
<1>1. Settled(n) /\ In(n, RUNNING) = {}
  BY LeaveSettled
<1>2. Life(StartNext(n)) \in LifeCycle!Dispatched(Life(n))
  BY <1>1, StartNextDispatches
<1>3. Life(n) = LifeCycle!With(Life(k), pid, LifeOf(s))
  BY LifeOfStates, ConsistentParts, LifeMoves
<1> QED BY <1>2, <1>3

----------------------------------------------------------------------------
(* The handlers: each keeps the state consistent and makes one move of the *)
(* life cycle, or none.                                                    *)

\* The low eight bits of any integer make a signed char.
LEMMA CharRange == \A v \in Int : Char(v) \in -128 .. 127
<1>1. \A x \in Int : x % 256 \in 0 .. 255
  OBVIOUS
<1>2. \A v \in Int : v + 128 \in Int
  OBVIOUS
<1>3. \A v \in Int : (v + 128) % 256 \in 0 .. 255
  BY <1>1, <1>2, Zenon
<1>4. \A y \in 0 .. 255 : y - 128 \in -128 .. 127
  OBVIOUS
<1> QED BY <1>3, <1>4, ZenonT(60) DEF Char

\* A process that is not alive asks for memory: its new type and priority
\* disagree with no copy in the queue, for it is not in the queue.
LEMMA AskMemoryConsistent ==
  ASSUME NEW k, Consistent(k), NEW pid \in FreePids(k), NEW msg,
         msg.value2 \in Types, msg.value3 \in Int, msg.value4 \in BlockSizes
  PROVE  /\ Consistent(AskMemory(k, pid, msg))
         /\ Life(AskMemory(k, pid, msg)) = Life(k)
<1> DEFINE type == msg.value2
           request == RequestMemory(pid, msg.value4)
           c == Char(msg.value3)
           n == AskMemory(k, pid, msg)
<1>0. k \in KernelSet /\ k.table \in TableSet
  BY ConsistentParts
<1>1. pid \in Pids /\ k.table[pid].state \in {TERMINATED, UNDEFINED}
  BY DEF FreePids
<1>2. c \in -128 .. 127 /\ type \in Types
  BY CharRange
<1> HIDE DEF c, request, type
<1>8. /\ n.table = [k.table EXCEPT ![pid].type = type, ![pid].priority = c]
      /\ n.out_put = Append(k.out_put, request)
  BY <1>0, <1>1 DEF AskMemory, KernelSet, c, type, request
<1>9. /\ n.processing = k.processing /\ n.queue = k.queue
      /\ n.scheduler = k.scheduler /\ n.armed = k.armed
  BY <1>0 DEF AskMemory, KernelSet
<1>10. IsRecord(n)
  BY <1>0, ZenonT(60) DEF AskMemory, KernelSet, IsRecord
<1> HIDE DEF n
<1>3. /\ n.table \in TableSet
      /\ \A p \in Pids : n.table[p].state = k.table[p].state
      /\ \A p \in Pids : p # pid => n.table[p] = k.table[p]
  <2> DEFINE entry == [state |-> k.table[pid].state, type |-> type,
                       priority |-> c]
  <2>3. n.table = [k.table EXCEPT ![pid] = entry]
    BY <1>0, <1>1, <1>2, <1>8 DEF TableSet
  <2>4. entry \in [state : States, type : Types \cup {0},
                  priority : -128 .. 127]
    BY <1>0, <1>1, <1>2, <1>8 DEF TableSet
  <2>5. entry.state = k.table[pid].state
    OBVIOUS
  <2> HIDE DEF entry
  <2>6. n.table[pid] = entry /\ \A p \in Pids : p # pid
                                 => n.table[p] = k.table[p]
    BY <1>0, <1>1, <2>3 DEF TableSet
  <2>7. n.table \in TableSet
    <3> DEFINE Entries == [state : States, type : Types \cup {0},
                           priority : -128 .. 127]
    <3>1. k.table \in [Pids -> Entries] /\ entry \in Entries
      BY <1>0, <2>4 DEF TableSet
    <3> HIDE DEF Entries
    <3>2. n.table \in [Pids -> Entries]
      BY <1>1, <2>3, <3>1
    <3> QED BY <3>2 DEF Entries, TableSet
  <2> QED BY <2>5, <2>6, <2>7, Zenon
<1>4. In(n, READY) = In(k, READY) /\ In(n, RUNNING) = In(k, RUNNING)
  BY <1>3 DEF In
<1>5. Queued(n)
  <2>1. \A p \in In(k, READY) : PCB(n, p) = PCB(k, p)
    BY <1>1, <1>3 DEF In, PCB, READY, TERMINATED, UNDEFINED
  <2> QED BY <1>4, <1>9, <2>1, ConsistentParts, QueuedKept
<1>6. n.out_put \in Seq(OutputSet) /\ Scheduled(n)
  <2>1. request \in OutputSet /\ request.port # "ctrlApp"
    BY <1>1 DEF request, RequestMemory, OutputSet
  <2> QED BY <1>8, <1>9, <2>1, ConsistentParts, ScheduledKept, ZenonT(60)
<1>7. n \in KernelSet
  BY <1>3, <1>6, <1>9, <1>10, ConsistentParts, KernelTyped
<1>11. Consistent(n)
  BY <1>4, <1>5, <1>6, <1>7, <1>9, ConsistentParts DEF Consistent, Settled
<1>12. Life(n) = Life(k)
  BY <1>3 DEF Life
<1> QED BY <1>11, <1>12 DEF n

\* The answer of the memory: the process is neither ready nor running, and
\* joins the queue or becomes undefined.
LEMMA ResponseConsistent ==
  ASSUME NEW k, Consistent(k), NEW pid \in FreePids(k), NEW msg,
         msg.value = pid
  PROVE  LET n == OnResponseMemory(k, msg) IN
         /\ Consistent(n)
         /\ \/ Life(n) = Life(k)
            \/ Life(n) \in LifeCycle!Dispatched(
                              LifeCycle!With(Life(k), pid, "ready"))
<1>1. pid \in Pids /\ k.table[pid].state \notin {READY, RUNNING}
  BY DEF FreePids, READY, RUNNING, TERMINATED, UNDEFINED
<1>2. CASE msg.value2 # MEMORY_NOT_OK
  BY <1>1, <1>2, MakeReadyConsistent, MakeReadyMoves DEF OnResponseMemory
<1>3. CASE msg.value2 = MEMORY_NOT_OK
  <2> DEFINE n == [k EXCEPT !.table[pid].state = UNDEFINED]
  <2>0. OnResponseMemory(k, msg) = n
    BY <1>3 DEF OnResponseMemory
  <2>1. k \in KernelSet
    BY ConsistentParts
  <2>2. /\ n.table = Moved(k, pid, UNDEFINED) /\ n.queue = k.queue
        /\ n.out_put = k.out_put /\ n.armed = k.armed
        /\ n.processing = k.processing /\ n.scheduler = k.scheduler
        /\ IsRecord(n)
    BY <2>1 DEF KernelSet, Moved, IsRecord
  <2> HIDE DEF n
  <2>3. /\ n.table \in TableSet
        /\ In(n, READY) = In(k, READY) \ {pid}
        /\ In(n, RUNNING) = In(k, RUNNING) \ {pid}
        /\ \A p \in Pids : PCB(n, p) = PCB(k, p)
    <3>1. UNDEFINED \in States /\ READY # UNDEFINED /\ RUNNING # UNDEFINED
      BY DEF States, RUNNING, READY, UNDEFINED
    <3> QED BY <1>1, <2>2, <3>1, ConsistentParts, StateChange, SMTT(30)
  <2>4. In(n, READY) = In(k, READY) /\ In(n, RUNNING) = In(k, RUNNING)
    BY <1>1, <2>3 DEF In
  <2>5. Queued(n)
    <3>1. \A p \in In(k, READY) : PCB(n, p) = PCB(k, p)
      BY <2>3 DEF In
    <3> QED BY <2>2, <2>4, <3>1, ConsistentParts, QueuedKept
  <2>6. n \in KernelSet
    BY <2>2, <2>3, ConsistentParts, KernelTyped
  <2>7. Scheduled(n)
    BY <2>2, ConsistentParts DEF Scheduled
  <2>8. Consistent(n)
    BY <2>2, <2>4, <2>5, <2>6, <2>7, ConsistentParts
       DEF Consistent, Settled
  <2>9. Life(n) = Life(k)
    <3>1. \A p \in Pids : n.table[p].state = IF p = pid THEN UNDEFINED
                                             ELSE k.table[p].state
      BY <2>2, ConsistentParts DEF Moved, TableSet
    <3>2. LifeOf(k.table[pid].state) = LifeOf(UNDEFINED)
      BY LifeOfStates DEF FreePids
    <3> QED BY <1>1, <3>1, <3>2 DEF Life
  <2> QED BY <2>0, <2>8, <2>9
<1> QED BY <1>2, <1>3

\* The running process starts I/O.
LEMMA StartIOConsistent ==
  ASSUME NEW k, Consistent(k), NEW msg, msg.value \in Pids,
         k.table[msg.value].state = RUNNING
  PROVE  LET n == OnStartIO(k, msg) IN
         /\ Consistent(n)
         /\ Life(n) \in LifeCycle!Dispatched(
                           LifeCycle!With(Life(k), msg.value, "waiting"))
<1> DEFINE n == [k EXCEPT !.table[msg.value].state = WAITING,
                          !.processing = FALSE]
<1>1. k \in KernelSet
  BY ConsistentParts
<1>2. /\ n.table = Moved(k, msg.value, WAITING) /\ n.queue = k.queue
      /\ n.out_put = k.out_put /\ n.armed = k.armed
      /\ n.processing = FALSE /\ n.scheduler = k.scheduler
      /\ IsRecord(n)
  BY <1>1 DEF KernelSet, Moved, IsRecord
<1>3. OnStartIO(k, msg) = StartNext(n)
  BY DEF OnStartIO
<1> HIDE DEF n
<1>4. n.out_put \in Seq(OutputSet) /\ Scheduled(n)
  BY <1>2, ConsistentParts DEF Scheduled
<1>5. Settled(n) /\ In(n, RUNNING) = {}
  BY <1>2, <1>4, LeaveSettled
<1>6. Life(StartNext(n)) \in LifeCycle!Dispatched(
        LifeCycle!With(Life(k), msg.value, LifeOf(WAITING)))
  BY <1>2, <1>4, LeaveMoves
<1> QED BY <1>2, <1>3, <1>5, <1>6, LifeOfStates, StartNextConsistent

\* The running process completes; its memory is to be released.
LEMMA CompleteConsistent ==
  ASSUME NEW k, Consistent(k), NEW msg, msg.value \in Pids,
         k.table[msg.value].state = RUNNING
  PROVE  LET n == OnProcessComplete(k, msg) IN
         /\ Consistent(n)
         /\ Life(n) \in LifeCycle!Dispatched(
                           LifeCycle!With(Life(k), msg.value, "absent"))
<1> DEFINE release == ReleaseMemory(msg.value)
           n == [k EXCEPT !.table[msg.value].state = TERMINATED,
                          !.processing = FALSE,
                          !.out_put = Append(@, release)]
<1>0. release \in OutputSet /\ release.port # "ctrlApp"
  BY DEF ReleaseMemory, OutputSet
<1>1. k \in KernelSet
  BY ConsistentParts
<1>2. OnProcessComplete(k, msg) = StartNext(n)
  BY DEF OnProcessComplete
<1> HIDE DEF release
<1>3. /\ n.table = Moved(k, msg.value, TERMINATED) /\ n.queue = k.queue
      /\ n.out_put = Append(k.out_put, release) /\ n.armed = k.armed
      /\ n.processing = FALSE /\ n.scheduler = k.scheduler
      /\ IsRecord(n)
  BY <1>1 DEF KernelSet, Moved, IsRecord
<1> HIDE DEF n
<1>4. n.out_put \in Seq(OutputSet) /\ Scheduled(n)
  BY <1>0, <1>3, ConsistentParts, ScheduledKept
<1>5. Settled(n) /\ In(n, RUNNING) = {}
  BY <1>3, <1>4, LeaveSettled
<1>6. Life(StartNext(n)) \in LifeCycle!Dispatched(
        LifeCycle!With(Life(k), msg.value, LifeOf(TERMINATED)))
  BY <1>3, <1>4, LeaveMoves
<1> QED BY <1>2, <1>3, <1>5, <1>6, LifeOfStates, StartNextConsistent

\* A new process of the generator.
LEMMA AppInConsistent ==
  ASSUME NEW k, Consistent(k), NEW msg \in NewProcess("appIn"),
         msg.value \in FreePids(k)
  PROVE  Consistent(OnAppIn(k, msg)) /\ Life(OnAppIn(k, msg)) = Life(k)
<1>1. /\ msg.value2 \in Types /\ msg.value3 \in Int
      /\ msg.value4 \in BlockSizes
  BY KernelAssumption DEF NewProcess
<1> QED BY <1>1, AskMemoryConsistent DEF OnAppIn

\* A fork: the first free PCB is taken, and without one nothing changes.
LEMMA ForkConsistent ==
  ASSUME NEW k, Consistent(k), NEW msg \in NewProcess("processFork")
  PROVE  /\ Consistent(OnProcessFork(k, msg))
         /\ Life(OnProcessFork(k, msg)) = Life(k)
<1>1. CASE FreePids(k) = {}
  BY <1>1 DEF OnProcessFork
<1>2. CASE FreePids(k) # {}
  <2> DEFINE pid == Min(FreePids(k))
             a == AskMemory(k, pid, msg)
             n == [a EXCEPT !.armed = TRUE]
  <2>1. pid \in FreePids(k)
    <3>1. FreePids(k) \subseteq Nat
      BY KernelAssumption DEF FreePids
    <3> QED BY <1>2, <3>1, MinIsMember
  <2>2. /\ msg.value2 \in Types /\ msg.value3 \in Int
        /\ msg.value4 \in BlockSizes
    BY KernelAssumption DEF NewProcess
  <2> HIDE DEF pid
  <2>3. Consistent(a) /\ Life(a) = Life(k)
    BY <2>1, <2>2, AskMemoryConsistent
  <2>4. OnProcessFork(k, msg) = n
    BY <1>2 DEF OnProcessFork, pid
  <2> HIDE DEF a
  <2>5. a \in KernelSet
    BY <2>3, ConsistentParts
  <2>6. /\ n.armed = TRUE /\ n.queue = a.queue /\ n.table = a.table
        /\ n.processing = a.processing /\ n \in KernelSet
    BY <2>5 DEF KernelSet
  <2> HIDE DEF n
  <2>7. /\ In(n, READY) = In(a, READY) /\ In(n, RUNNING) = In(a, RUNNING)
        /\ \A p \in In(a, READY) : PCB(n, p) = PCB(a, p)
    BY <2>6 DEF In, PCB
  <2>8. Queued(n) /\ Scheduled(n)
    BY <2>3, <2>6, <2>7, ConsistentParts, QueuedKept DEF Scheduled
  <2>9. Consistent(n)
    BY <2>3, <2>6, <2>7, <2>8, ConsistentParts DEF Consistent, Settled
  <2>10. Life(n) = Life(k)
    BY <2>3, <2>6 DEF Life
  <2> QED BY <2>4, <2>9, <2>10
<1> QED BY <1>1, <1>2

\* The internal transition clears what was sent.
LEMMA InternalConsistent ==
  ASSUME NEW k, Consistent(k)
  PROVE  /\ Consistent(KernelInternal(k))
         /\ Life(KernelInternal(k)) = Life(k)
<1> DEFINE n == KernelInternal(k)
<1>1. k \in KernelSet
  BY ConsistentParts
<1>2. /\ n.table = k.table /\ n.queue = k.queue /\ n.out_put = <<>>
      /\ n.armed = FALSE /\ n.processing = k.processing
      /\ n.scheduler = k.scheduler /\ IsRecord(n)
  BY <1>1 DEF KernelInternal, KernelSet, IsRecord
<1> HIDE DEF n
<1>3. /\ In(n, READY) = In(k, READY) /\ In(n, RUNNING) = In(k, RUNNING)
      /\ \A p \in Pids : PCB(n, p) = PCB(k, p)
  BY <1>2 DEF In, PCB
<1>4. Queued(n)
  <2>1. \A p \in In(k, READY) : PCB(n, p) = PCB(k, p)
    BY <1>3 DEF In
  <2> QED BY <1>2, <1>3, <2>1, ConsistentParts, QueuedKept
<1>5. Scheduled(n) /\ n.out_put \in Seq(OutputSet)
  BY <1>2 DEF Scheduled
<1>6. n \in KernelSet
  BY <1>2, <1>5, ConsistentParts, KernelTyped
<1>7. Consistent(n)
  BY <1>2, <1>3, <1>4, <1>5, <1>6, ConsistentParts DEF Consistent, Settled
<1>8. Life(n) = Life(k)
  BY <1>2 DEF Life
<1> QED BY <1>7, <1>8 DEF n

----------------------------------------------------------------------------
(* The specification.                                                      *)

KernelInv == Consistent(kernel) /\ asked \subseteq Pids

\* Initially the table is empty and nothing is queued.
LEMMA InitKernel == Init => KernelInv
<1> SUFFICES ASSUME NEW option \in SchedulerOptions,
                    kernel = InitialKernel(option), asked = {}
             PROVE  KernelInv
  BY DEF Init
<1>1. /\ kernel.scheduler = option /\ kernel.processing = FALSE
      /\ kernel.queue = <<>> /\ kernel.out_put = <<>> /\ kernel.armed = TRUE
      /\ kernel.table = [p \in Pids |-> [state |-> UNDEFINED, type |-> 0,
                                         priority |-> 0]]
      /\ IsRecord(kernel)
  BY DEF InitialKernel, IsRecord
<1>2. kernel.table \in TableSet
  BY <1>1 DEF TableSet, States
<1>3. kernel \in KernelSet
  <2>1. <<>> \in Seq(PcbSet) /\ <<>> \in Seq(OutputSet)
    OBVIOUS
  <2> QED BY <1>1, <1>2, <2>1, KernelTyped
<1>4. In(kernel, READY) = {} /\ In(kernel, RUNNING) = {}
  BY <1>1 DEF In, UNDEFINED, READY, RUNNING
<1>5. Queued(kernel) /\ Scheduled(kernel)
  BY <1>1, <1>4 DEF Queued, Scheduled, PidsIn
<1> QED BY <1>1, <1>3, <1>4, <1>5 DEF KernelInv, Consistent, Settled

\* Memory is asked for only on behalf of processes of the table.
LEMMA SentArePids == KernelInv => SentRequests \subseteq Pids
<1> SUFFICES ASSUME KernelInv PROVE Requested \subseteq Pids
  BY DEF SentRequests
<1>1. kernel.out_put \in Seq(OutputSet)
  BY ConsistentParts DEF KernelInv
<1>2. \A i \in DOMAIN kernel.out_put :
        kernel.out_put[i].port = "requestMemory"
          => kernel.out_put[i].value \in Pids
  BY <1>1, ElementOfSeq, LenProperties DEF OutputSet
<1> QED BY <1>2 DEF Requested

\* A step of the life cycle from the state k to the state n, or none.
LifeStep(k, n) ==
  \/ Life(n) = Life(k)
  \/ \E p \in Pids :
       \E move \in {<<"absent", "ready">>, <<"running", "waiting">>,
                   <<"waiting", "ready">>, <<"running", "absent">>} :
         /\ Life(k)[p] = move[1]
         /\ Life(n) \in LifeCycle!Dispatched(
                           LifeCycle!With(Life(k), p, move[2]))

\* Every handler keeps the state consistent and makes one move of the life
\* cycle at most, for each message in a state in which the kernel expects it.
LEMMA ReceiveConsistent ==
  ASSUME KernelInv, NEW msg, Expected(kernel, msg),
         \/ msg \in NewProcess("appIn")
         \/ msg \in NewProcess("processFork")
         \/ /\ msg.port \in {"responseMemory", "doneIO", "startIO",
                             "processComplete"}
            /\ msg.value \in Pids
  PROVE  /\ Consistent(KernelReceive(kernel, msg))
         /\ LifeStep(kernel, KernelReceive(kernel, msg))
<1>0. Consistent(kernel)
  BY DEF KernelInv
<1>1. CASE msg \in NewProcess("appIn")
  <2>1. msg.port = "appIn"
    BY <1>1 DEF NewProcess
  <2>2. msg.value \in FreePids(kernel)
    BY <2>1 DEF Expected
  <2>3. KernelReceive(kernel, msg) = OnAppIn(kernel, msg)
    BY <2>1 DEF KernelReceive
  <2> QED BY <1>0, <1>1, <2>2, <2>3, AppInConsistent DEF LifeStep
<1>2. CASE msg \in NewProcess("processFork")
  <2>1. msg.port = "processFork"
    BY <1>2 DEF NewProcess
  <2>2. KernelReceive(kernel, msg) = OnProcessFork(kernel, msg)
    BY <2>1 DEF KernelReceive
  <2> QED BY <1>0, <1>2, <2>2, ForkConsistent DEF LifeStep
<1>3. CASE msg.port = "responseMemory" /\ msg.value \in Pids
  <2>1. msg.value \in FreePids(kernel)
    BY <1>3 DEF Expected
  <2>2. Life(kernel)[msg.value] = "absent"
    BY <1>3, <2>1, LifeOfStates DEF Life, FreePids
  <2>3. KernelReceive(kernel, msg) = OnResponseMemory(kernel, msg)
    BY <1>3 DEF KernelReceive
  <2> DEFINE n == OnResponseMemory(kernel, msg)
  <2>4. /\ Consistent(n)
        /\ \/ Life(n) = Life(kernel)
           \/ Life(n) \in LifeCycle!Dispatched(
                LifeCycle!With(Life(kernel), msg.value, "ready"))
    BY <1>0, <2>1, ResponseConsistent
  <2> HIDE DEF n
  <2>5. LifeStep(kernel, n)
    BY <1>3, <2>2, <2>4 DEF LifeStep
  <2> QED BY <2>3, <2>4, <2>5 DEF n
<1>4. CASE msg.port = "doneIO" /\ msg.value \in Pids
  <2>1. kernel.table[msg.value].state = WAITING
    BY <1>4 DEF Expected
  <2>2. Life(kernel)[msg.value] = "waiting"
    BY <1>4, <2>1, LifeOfStates DEF Life
  <2>3. kernel.table[msg.value].state \notin {READY, RUNNING}
    BY <2>1 DEF WAITING, READY, RUNNING
  <2> DEFINE n == MakeReady(kernel, msg.value)
  <2>4. KernelReceive(kernel, msg) = n
    BY <1>4 DEF KernelReceive, OnDoneIO
  <2>5. Consistent(n)
    BY <1>0, <1>4, <2>3, MakeReadyConsistent
  <2>6. Life(n) \in LifeCycle!Dispatched(
          LifeCycle!With(Life(kernel), msg.value, "ready"))
    BY <1>0, <1>4, <2>3, MakeReadyMoves
  <2> HIDE DEF n
  <2>7. LifeStep(kernel, n)
    BY <1>4, <2>2, <2>6 DEF LifeStep
  <2> QED BY <2>4, <2>5, <2>7
<1>5. CASE msg.port = "startIO" /\ msg.value \in Pids
  <2>1. kernel.table[msg.value].state = RUNNING
    BY <1>5 DEF Expected
  <2>2. Life(kernel)[msg.value] = "running"
    BY <1>5, <2>1, LifeOfStates DEF Life
  <2> DEFINE n == OnStartIO(kernel, msg)
  <2>3. KernelReceive(kernel, msg) = n
    BY <1>5 DEF KernelReceive
  <2>4. /\ Consistent(n)
        /\ Life(n) \in LifeCycle!Dispatched(
             LifeCycle!With(Life(kernel), msg.value, "waiting"))
    BY <1>0, <1>5, <2>1, StartIOConsistent
  <2> HIDE DEF n
  <2>5. LifeStep(kernel, n)
    BY <1>5, <2>2, <2>4 DEF LifeStep
  <2> QED BY <2>3, <2>4, <2>5
<1>6. CASE msg.port = "processComplete" /\ msg.value \in Pids
  <2>1. kernel.table[msg.value].state = RUNNING
    BY <1>6 DEF Expected
  <2>2. Life(kernel)[msg.value] = "running"
    BY <1>6, <2>1, LifeOfStates DEF Life
  <2> DEFINE n == OnProcessComplete(kernel, msg)
  <2>3. KernelReceive(kernel, msg) = n
    BY <1>6 DEF KernelReceive
  <2>4. /\ Consistent(n)
        /\ Life(n) \in LifeCycle!Dispatched(
             LifeCycle!With(Life(kernel), msg.value, "absent"))
    BY <1>0, <1>6, <2>1, CompleteConsistent
  <2> HIDE DEF n
  <2>5. LifeStep(kernel, n)
    BY <1>6, <2>2, <2>4 DEF LifeStep
  <2> QED BY <2>3, <2>4, <2>5
<1> QED BY <1>1, <1>2, <1>3, <1>4, <1>5, <1>6

\* The invariant is inductive, and every step is one of the life cycle or
\* leaves it alone.
LEMMA NextKernel ==
  KernelInv /\ [Next]_vars => KernelInv' /\ LifeStep(kernel, kernel')
<1> DEFINE Goal == KernelInv' /\ LifeStep(kernel, kernel')
<1> SUFFICES ASSUME KernelInv, [Next]_vars PROVE Goal
  OBVIOUS
<1>0. asked \subseteq Pids /\ SentRequests \subseteq Pids
  BY SentArePids DEF KernelInv
<1>1. ASSUME NEW msg \in NewProcess("appIn"), AppIn(msg) PROVE Goal
  <2>1. /\ Consistent(KernelReceive(kernel, msg))
        /\ LifeStep(kernel, KernelReceive(kernel, msg))
    BY <1>1, ReceiveConsistent DEF AppIn, Receive
  <2> QED BY <1>0, <1>1, <2>1 DEF AppIn, Receive, KernelInv
<1>2. ASSUME NEW msg \in NewProcess("processFork"), ProcessFork(msg)
      PROVE  Goal
  <2>1. /\ Consistent(KernelReceive(kernel, msg))
        /\ LifeStep(kernel, KernelReceive(kernel, msg))
    BY <1>2, ReceiveConsistent DEF ProcessFork, Receive
  <2> QED BY <1>0, <1>2, <2>1 DEF ProcessFork, Receive, KernelInv
<1>3. CASE ResponseMemory
  <2>1. PICK pid \in asked, answer \in 1 .. 2 :
          /\ Receive([port |-> "responseMemory", value |-> pid,
                      value2 |-> answer])
          /\ asked' = (asked \ {pid}) \cup SentRequests
    BY <1>3 DEF ResponseMemory
  <2> DEFINE msg == [port |-> "responseMemory", value |-> pid,
                     value2 |-> answer]
  <2>2. msg.port = "responseMemory" /\ msg.value \in Pids
    BY <1>0
  <2>3. Receive(msg)
    BY <2>1
  <2> HIDE DEF msg
  <2>4. /\ Consistent(KernelReceive(kernel, msg))
        /\ LifeStep(kernel, KernelReceive(kernel, msg))
    BY <2>2, <2>3, ReceiveConsistent DEF Receive
  <2> QED BY <1>0, <2>1, <2>3, <2>4 DEF Receive, KernelInv
<1>4. ASSUME NEW port \in {"doneIO", "startIO", "processComplete"},
             NEW pid \in Pids, Receive([port |-> port, value |-> pid]),
             asked' = asked \cup SentRequests
      PROVE  Goal
  <2> DEFINE msg == [port |-> port, value |-> pid]
  <2>1. msg.port \in {"responseMemory", "doneIO", "startIO",
                      "processComplete"} /\ msg.value \in Pids
    OBVIOUS
  <2>2. Receive(msg)
    BY <1>4
  <2> HIDE DEF msg
  <2>3. /\ Consistent(KernelReceive(kernel, msg))
        /\ LifeStep(kernel, KernelReceive(kernel, msg))
    BY <2>1, <2>2, ReceiveConsistent DEF Receive
  <2> QED BY <1>0, <1>4, <2>2, <2>3 DEF Receive, KernelInv
<1>5. CASE DoneIO
  BY <1>4, <1>5 DEF DoneIO
<1>6. CASE StartIO
  BY <1>4, <1>6 DEF StartIO
<1>7. CASE ProcessComplete
  BY <1>4, <1>7 DEF ProcessComplete
<1>8. CASE Internal
  BY <1>0, <1>8, InternalConsistent DEF Internal, KernelInv, LifeStep
<1>9. CASE UNCHANGED vars
  BY <1>9 DEF vars, KernelInv, LifeStep
<1> QED BY <1>1, <1>2, <1>3, <1>5, <1>6, <1>7, <1>8, <1>9 DEF Next

\* For every table, every set of priorities and both schedulers, after every
\* order of expected messages: the processing flag tells the truth and one
\* process runs at most, the kernel never idles while a process is ready, the
\* queue holds exactly the ready processes as the table has them, and no
\* start message waits unscheduled.
THEOREM KernelSafe ==
  Spec => [](/\ TypeOK /\ OneRunning /\ WorkConserving
             /\ QueueIsReady /\ QueueMatchesTable /\ StartsScheduled)
<1>1. KernelInv => /\ TypeOK /\ OneRunning /\ WorkConserving
                   /\ QueueIsReady /\ QueueMatchesTable /\ StartsScheduled
  BY KernelProperties DEF KernelInv
<1> QED BY <1>1, InitKernel, NextKernel, PTL DEF Spec


\* The kernel implements the life cycle of processes: seen through the states
\* of its table, every handler moves one process as the life cycle allows, and
\* gives a free processor to a ready process in the same step, or does nothing.
THEOREM KernelImplementsLifeCycle == Spec => LifeCycleSpec
<1>1. Init => LifeCycle!Init
  <2> SUFFICES ASSUME NEW option \in SchedulerOptions,
                      kernel = InitialKernel(option)
               PROVE  LifeCycle!Init
    BY DEF Init
  <2>1. \A p \in Pids : kernel.table[p].state = UNDEFINED
    BY DEF InitialKernel
  <2> QED BY <2>1, LifeOfStates DEF LifeCycle!Init, Life
<1>2. LifeStep(kernel, kernel') => [LifeCycle!Next]_(Life(kernel))
  <2> SUFFICES ASSUME NEW p \in Pids,
                      NEW move \in {<<"absent", "ready">>,
                                    <<"running", "waiting">>,
                                    <<"waiting", "ready">>,
                                    <<"running", "absent">>},
                      Life(kernel)[p] = move[1],
                      Life(kernel') \in LifeCycle!Dispatched(
                         LifeCycle!With(Life(kernel), p, move[2]))
               PROVE  LifeCycle!Next
    BY DEF LifeStep
  <2>1. LifeCycle!Move(p, move[1], move[2])
    BY DEF LifeCycle!Move
  <2> QED BY <2>1 DEF LifeCycle!Next, LifeCycle!Admit, LifeCycle!Block,
                      LifeCycle!Wake, LifeCycle!Exit
<1>3. KernelInv /\ [Next]_vars
        => KernelInv' /\ [LifeCycle!Next]_(Life(kernel))
  BY <1>2, NextKernel
<1> QED BY <1>1, <1>3, InitKernel, PTL DEF Spec, LifeCycleSpec, LifeCycle!Spec

----------------------------------------------------------------------------
(* The priorities: the process that starts was requested as urgently as    *)
(* any that stays behind.                                                  *)

\* The queue of PriorityQueue is sorted.
SortedIn(k) == k.scheduler = SCHEDULER_PRIORITY => Sorted(k.queue)

\* From k to n the queue stays sorted and no stored priority changes; what
\* starts is as urgent as what is left.
Lowest(k, n) ==
  /\ n.scheduler = k.scheduler /\ SortedIn(n)
  /\ \A p \in Pids : n.table[p].priority = k.table[p].priority
  /\ k.scheduler = SCHEDULER_PRIORITY =>
       \A p \in Pids :
         k.table[p].state # RUNNING /\ n.table[p].state = RUNNING =>
           \A i \in DOMAIN n.queue :
             n.table[p].priority <= n.queue[i].priority

\* A new state of one process changes no priority.
LEMMA MovedPriorities ==
  ASSUME NEW k, k.table \in TableSet, NEW pid \in Pids, NEW s
  PROVE  \A p \in Pids :
           /\ Moved(k, pid, s)[p].priority = k.table[p].priority
           /\ Moved(k, pid, s)[p].state = IF p = pid THEN s
                                          ELSE k.table[p].state
BY DEF Moved, TableSet

\* The head of a sorted queue is as urgent as the rest.
LEMMA StartNextLowest ==
  ASSUME NEW k, Settled(k), SortedIn(k)
  PROVE  Lowest(k, StartNext(k))
<1>1. /\ k \in KernelSet /\ k.queue \in Seq(PcbSet)
      /\ k.table \in TableSet /\ Queued(k)
  BY DEF Settled, KernelSet, TableSet
<1>2. CASE k.queue = <<>>
  <2>1. StartNext(k) = k
    BY <1>2 DEF StartNext
  <2> QED BY <2>1 DEF Lowest
<1>3. CASE k.queue # <<>>
  <2> DEFINE n == StartNext(k)
             pid == Head(k.queue).PID
  <2>1. /\ Head(k.queue) = k.queue[1] /\ 1 \in DOMAIN k.queue
        /\ \A i \in DOMAIN Tail(k.queue) :
             i + 1 \in DOMAIN k.queue /\ Tail(k.queue)[i] = k.queue[i + 1]
    BY <1>1, <1>3, TailOfQueue DEF Queued
  <2>2. /\ n.queue = Tail(k.queue) /\ n.scheduler = k.scheduler
        /\ n.table = Moved(k, pid, RUNNING)
    BY <1>1, <1>3 DEF StartNext, KernelSet, Moved
  <2>3. pid \in Pids /\ k.queue[1].priority = k.table[pid].priority
    <3>1. pid \in Pids
      BY <1>1, <2>1 DEF Queued, PidsIn, In
    <3>2. k.queue[1] = PCB(k, pid)
      BY <1>1, <2>1 DEF Queued
    <3> QED BY <3>1, <3>2 DEF PCB
  <2> HIDE DEF n, pid
  <2>4. \A p \in Pids : /\ n.table[p].priority = k.table[p].priority
                        /\ n.table[p].state = IF p = pid THEN RUNNING
                                              ELSE k.table[p].state
    BY <1>1, <2>2, <2>3, MovedPriorities
  <2>5. DOMAIN k.queue = 1 .. Len(k.queue) /\ Len(k.queue) \in Nat
        /\ DOMAIN Tail(k.queue) \subseteq Nat \ {0}
    BY <1>1, <1>3
  <2>6. SortedIn(n)
    <3> SUFFICES ASSUME n.scheduler = SCHEDULER_PRIORITY,
                        NEW i \in DOMAIN Tail(k.queue),
                        NEW j \in DOMAIN Tail(k.queue), i < j
                 PROVE  Tail(k.queue)[i].priority <= Tail(k.queue)[j].priority
      BY <2>2 DEF SortedIn, Sorted
    <3>1. i + 1 < j + 1
      BY <2>5
    <3>2. Sorted(k.queue)
      BY <2>2 DEF SortedIn
    <3> QED BY <2>1, <3>1, <3>2 DEF Sorted
  <2>7. ASSUME k.scheduler = SCHEDULER_PRIORITY,
               NEW p \in Pids, k.table[p].state # RUNNING,
               n.table[p].state = RUNNING, NEW i \in DOMAIN n.queue
        PROVE  n.table[p].priority <= n.queue[i].priority
    <3>1. p = pid
      BY <2>4, <2>7
    <3>2. /\ i + 1 \in DOMAIN k.queue /\ n.queue[i] = k.queue[i + 1]
          /\ 1 < i + 1
      BY <2>1, <2>2, <2>5, <2>7
    <3>3. k.queue[1].priority <= k.queue[i + 1].priority
      BY <2>1, <2>7, <3>2 DEF SortedIn, Sorted
    <3> QED BY <2>3, <2>4, <3>1, <3>2, <3>3
  <2> QED BY <2>2, <2>4, <2>6, <2>7 DEF Lowest, n
<1> QED BY <1>2, <1>3

\* What comes before the start of the next process does not matter, if it
\* starts none itself.
LEMMA LowestAfter ==
  ASSUME NEW k, NEW m, NEW n, Lowest(m, n), m.scheduler = k.scheduler,
         \A p \in Pids : m.table[p].priority = k.table[p].priority,
         \A p \in Pids : m.table[p].state = RUNNING
                           => k.table[p].state = RUNNING
  PROVE  Lowest(k, n)
BY DEF Lowest

\* A step that leaves the queue alone and starts no process.
LEMMA LowestKept ==
  ASSUME NEW k, NEW n, SortedIn(k), n.scheduler = k.scheduler,
         n.queue = k.queue,
         \A p \in Pids : n.table[p].priority = k.table[p].priority,
         \A p \in Pids : n.table[p].state = RUNNING
                           => k.table[p].state = RUNNING
  PROVE  Lowest(k, n)
BY DEF Lowest, SortedIn

\* A process that joins the queue is put where its priority belongs.
LEMMA JoinQueueLowest ==
  ASSUME NEW k, Consistent(k), SortedIn(k), NEW pid \in Pids
  PROVE  LET n == JoinQueue(k, pid) IN
         /\ n.scheduler = k.scheduler /\ SortedIn(n)
         /\ \A p \in Pids : n.table[p].priority = k.table[p].priority
         /\ \A p \in Pids : n.table[p].state = RUNNING
                              => k.table[p].state = RUNNING
<1> DEFINE pcb == PCB(k, pid)
           n == JoinQueue(k, pid)
<1>1. pcb \in PcbSet
  BY ConsistentParts, PCBTyped
<1>2. k \in KernelSet /\ k.queue \in Seq(PcbSet) /\ k.table \in TableSet
  BY ConsistentParts
<1> HIDE DEF pcb
<1>3. /\ n.queue = Enqueue(k.scheduler, k.queue, pcb)
      /\ n.scheduler = k.scheduler /\ n.table = Moved(k, pid, READY)
  BY <1>2 DEF JoinQueue, KernelSet, Moved, pcb
<1> HIDE DEF n
<1>4. SortedIn(n)
  <2> SUFFICES ASSUME k.scheduler = SCHEDULER_PRIORITY PROVE Sorted(n.queue)
    BY <1>3 DEF SortedIn
  <2>1. \A x \in PcbSet : x.priority \in Int
    BY DEF PcbSet
  <2>2. Sorted(k.queue)
    BY DEF SortedIn
  <2>3. Sorted(Enqueue(SCHEDULER_PRIORITY, k.queue, pcb))
    BY <1>1, <1>2, <2>1, <2>2, EnqueueSorted
  <2> QED BY <1>3, <2>3
<1>5. \A p \in Pids : /\ n.table[p].priority = k.table[p].priority
                      /\ n.table[p].state = IF p = pid THEN READY
                                            ELSE k.table[p].state
  BY <1>2, <1>3, MovedPriorities
<1>6. \A p \in Pids : n.table[p].state = RUNNING
                        => k.table[p].state = RUNNING
  BY <1>5 DEF READY, RUNNING
<1> QED BY <1>3, <1>4, <1>5, <1>6 DEF n

\* A process gets ready.
LEMMA MakeReadyLowest ==
  ASSUME NEW k, Consistent(k), SortedIn(k), NEW pid \in Pids,
         k.table[pid].state \notin {READY, RUNNING}
  PROVE  Lowest(k, MakeReady(k, pid))
<1> DEFINE m == JoinQueue(k, pid)
<1>1. /\ m.scheduler = k.scheduler /\ SortedIn(m)
      /\ \A p \in Pids : m.table[p].priority = k.table[p].priority
      /\ \A p \in Pids : m.table[p].state = RUNNING
                           => k.table[p].state = RUNNING
  BY JoinQueueLowest
<1>2. Settled(m)
  BY JoinQueueSettled
<1>3. MakeReady(k, pid) = IF k.processing THEN m ELSE StartNext(m)
  BY DEF MakeReady
<1> HIDE DEF m
<1>4. CASE k.processing
  BY <1>1, <1>3, <1>4 DEF Lowest
<1>5. CASE ~ k.processing
  <2>1. Lowest(m, StartNext(m))
    BY <1>1, <1>2, StartNextLowest
  <2> QED BY <1>1, <1>3, <1>5, <2>1, LowestAfter
<1> QED BY <1>4, <1>5

\* The running process leaves the processor to the next one.
LEMMA LeaveLowest ==
  ASSUME NEW k, NEW m, Consistent(k), SortedIn(k), NEW pid \in Pids,
         NEW s, s # RUNNING, m.table = Moved(k, pid, s),
         m.queue = k.queue, m.scheduler = k.scheduler, Settled(m)
  PROVE  Lowest(k, StartNext(m))
<1>1. k.table \in TableSet
  BY ConsistentParts
<1>2. \A p \in Pids : /\ m.table[p].priority = k.table[p].priority
                      /\ m.table[p].state = IF p = pid THEN s
                                            ELSE k.table[p].state
  BY <1>1, MovedPriorities
<1>3. SortedIn(m)
  BY DEF SortedIn
<1>4. Lowest(m, StartNext(m))
  BY <1>3, StartNextLowest
<1> QED BY <1>2, <1>4, LowestAfter

----------------------------------------------------------------------------
(* The handlers.                                                           *)

\* The answer of the memory.
LEMMA ResponseLowest ==
  ASSUME NEW k, Consistent(k), SortedIn(k), NEW msg,
         msg.value \in FreePids(k)
  PROVE  Lowest(k, OnResponseMemory(k, msg))
<1>1. /\ msg.value \in Pids
      /\ k.table[msg.value].state \notin {READY, RUNNING}
  BY DEF FreePids, READY, RUNNING, TERMINATED, UNDEFINED
<1>2. CASE msg.value2 # MEMORY_NOT_OK
  BY <1>1, <1>2, MakeReadyLowest DEF OnResponseMemory
<1>3. CASE msg.value2 = MEMORY_NOT_OK
  <2> DEFINE n == [k EXCEPT !.table[msg.value].state = UNDEFINED]
  <2>1. k \in KernelSet /\ k.table \in TableSet
    BY ConsistentParts
  <2>2. /\ n.table = Moved(k, msg.value, UNDEFINED)
        /\ n.queue = k.queue /\ n.scheduler = k.scheduler
    BY <2>1 DEF KernelSet, Moved
  <2>3. OnResponseMemory(k, msg) = n
    BY <1>3 DEF OnResponseMemory
  <2> HIDE DEF n
  <2>4. \A p \in Pids :
          /\ n.table[p].priority = k.table[p].priority
          /\ n.table[p].state = IF p = msg.value THEN UNDEFINED
                                ELSE k.table[p].state
    BY <1>1, <2>1, <2>2, MovedPriorities
  <2>5. \A p \in Pids : n.table[p].state = RUNNING
                          => k.table[p].state = RUNNING
    BY <2>4 DEF UNDEFINED, RUNNING
  <2> QED BY <2>2, <2>3, <2>4, <2>5, LowestKept
<1> QED BY <1>2, <1>3

\* The running process starts I/O.
LEMMA StartIOLowest ==
  ASSUME NEW k, Consistent(k), SortedIn(k), NEW msg, msg.value \in Pids,
         k.table[msg.value].state = RUNNING
  PROVE  Lowest(k, OnStartIO(k, msg))
<1> DEFINE m == [k EXCEPT !.table[msg.value].state = WAITING,
                          !.processing = FALSE]
<1>1. k \in KernelSet
  BY ConsistentParts
<1>2. /\ m.table = Moved(k, msg.value, WAITING) /\ m.queue = k.queue
      /\ m.out_put = k.out_put /\ m.armed = k.armed
      /\ m.processing = FALSE /\ m.scheduler = k.scheduler
      /\ IsRecord(m)
  BY <1>1 DEF KernelSet, Moved, IsRecord
<1>3. OnStartIO(k, msg) = StartNext(m)
  BY DEF OnStartIO
<1> HIDE DEF m
<1>4. m.out_put \in Seq(OutputSet) /\ Scheduled(m)
  BY <1>2, ConsistentParts DEF Scheduled
<1>5. Settled(m)
  BY <1>2, <1>4, LeaveSettled
<1>6. WAITING # RUNNING
  BY DEF WAITING, RUNNING
<1> QED BY <1>2, <1>3, <1>5, <1>6, LeaveLowest

\* The running process completes.
LEMMA CompleteLowest ==
  ASSUME NEW k, Consistent(k), SortedIn(k), NEW msg, msg.value \in Pids,
         k.table[msg.value].state = RUNNING
  PROVE  Lowest(k, OnProcessComplete(k, msg))
<1> DEFINE release == ReleaseMemory(msg.value)
           m == [k EXCEPT !.table[msg.value].state = TERMINATED,
                          !.processing = FALSE,
                          !.out_put = Append(@, release)]
<1>1. k \in KernelSet
  BY ConsistentParts
<1>2. release \in OutputSet /\ release.port # "ctrlApp"
  BY DEF ReleaseMemory, OutputSet
<1>3. OnProcessComplete(k, msg) = StartNext(m)
  BY DEF OnProcessComplete
<1> HIDE DEF release
<1>4. /\ m.table = Moved(k, msg.value, TERMINATED) /\ m.queue = k.queue
      /\ m.out_put = Append(k.out_put, release) /\ m.armed = k.armed
      /\ m.processing = FALSE /\ m.scheduler = k.scheduler
      /\ IsRecord(m)
  BY <1>1 DEF KernelSet, Moved, IsRecord
<1> HIDE DEF m
<1>5. m.out_put \in Seq(OutputSet) /\ Scheduled(m)
  BY <1>2, <1>4, ConsistentParts, ScheduledKept
<1>6. Settled(m)
  BY <1>4, <1>5, LeaveSettled
<1>7. TERMINATED # RUNNING
  BY DEF TERMINATED, RUNNING
<1> QED BY <1>3, <1>4, <1>6, <1>7, LeaveLowest

\* A request sets the priority of one process and starts none.
LEMMA AskMemoryPriority ==
  ASSUME NEW k, Consistent(k), NEW pid \in FreePids(k), NEW msg
  PROVE  LET n == AskMemory(k, pid, msg) IN
         /\ n.queue = k.queue /\ n.scheduler = k.scheduler
         /\ \A p \in Pids :
              /\ n.table[p].state = k.table[p].state
              /\ n.table[p].priority = IF p = pid THEN Char(msg.value3)
                                       ELSE k.table[p].priority
<1> DEFINE n == AskMemory(k, pid, msg)
           c == Char(msg.value3)
<1>1. k \in KernelSet /\ k.table \in TableSet /\ pid \in Pids
  BY ConsistentParts DEF FreePids
<1> HIDE DEF c
<1>2. /\ n.queue = k.queue /\ n.scheduler = k.scheduler
      /\ n.table = [k.table EXCEPT ![pid].type = msg.value2,
                                   ![pid].priority = c]
  BY <1>1 DEF AskMemory, KernelSet, c
<1> HIDE DEF n
<1>3. \A p \in Pids :
        /\ n.table[p].state = k.table[p].state
        /\ n.table[p].priority = IF p = pid THEN c ELSE k.table[p].priority
  BY <1>1, <1>2 DEF TableSet
<1> QED BY <1>2, <1>3 DEF n, c

\* A priority that a char can hold is stored as it is.
LEMMA CharKeeps == \A v \in -128 .. 127 : Char(v) = v
<1>1. \A x \in 0 .. 255 : x % 256 = x
  OBVIOUS
<1>2. ASSUME NEW v \in -128 .. 127 PROVE Char(v) = v
  <2>1. v + 128 \in 0 .. 255
    OBVIOUS
  <2>2. (v + 128) % 256 = v + 128
    BY <1>1, <2>1
  <2>3. Char(v) = (v + 128) - 128
    BY <2>2 DEF Char
  <2> QED BY <2>3
<1> QED BY <1>2

----------------------------------------------------------------------------
(* The specification.                                                      *)

\* The table has the priorities of the requests, and so has the queue.
PriorityInv ==
  /\ KernelInv /\ SortedIn(kernel)
  /\ \A p \in Pids : kernel.table[p].priority = requested[p]

\* A copy in the queue has the priority of its process.
LEMMA QueuedPriority ==
  ASSUME NEW k, Queued(k), NEW i \in DOMAIN k.queue
  PROVE  /\ k.queue[i].PID \in Pids
         /\ k.queue[i].priority = k.table[k.queue[i].PID].priority
<1>1. k.queue[i].PID \in Pids
  BY DEF Queued, PidsIn, In
<1>2. k.queue[i] = PCB(k, k.queue[i].PID)
  BY DEF Queued
<1>3. \A p \in Pids : PCB(k, p).priority = k.table[p].priority
  BY DEF PCB
<1> QED BY <1>1, <1>2, <1>3

\* A step after which the queue is sorted and no priority has changed starts
\* a process as it should.
LEMMA LowestStarts ==
  ASSUME PriorityInv, KernelInv', Lowest(kernel, kernel'),
         UNCHANGED requested
  PROVE  /\ PriorityInv'
         /\ kernel.scheduler = SCHEDULER_PRIORITY =>
              \A p \in Pids : Started(p) =>
                \A i \in DOMAIN kernel'.queue :
                  requested[p] <= requested[kernel'.queue[i].PID]
<1>1. \A p \in Pids : kernel'.table[p].priority = requested[p]
  BY DEF PriorityInv, Lowest
<1>2. \A i \in DOMAIN kernel'.queue :
        /\ kernel'.queue[i].PID \in Pids
        /\ kernel'.queue[i].priority
             = kernel'.table[kernel'.queue[i].PID].priority
  <2>1. Queued(kernel')
    BY DEF KernelInv, Consistent, Settled
  <2> QED BY <2>1, QueuedPriority
<1>3. PriorityInv'
  BY <1>1 DEF PriorityInv, Lowest
<1>4. ASSUME kernel.scheduler = SCHEDULER_PRIORITY,
             NEW p \in Pids, Started(p), NEW i \in DOMAIN kernel'.queue
      PROVE  requested[p] <= requested[kernel'.queue[i].PID]
  <2>1. kernel'.table[p].priority <= kernel'.queue[i].priority
    BY <1>4 DEF Started, Lowest
  <2> QED BY <1>1, <1>2, <2>1
<1> QED BY <1>3, <1>4

\* A request that keeps its priority: no process starts.
LEMMA RequestStarts ==
  ASSUME PriorityInv, KernelInv', NEW msg, NewRequest(msg),
         kernel'.queue = kernel.queue,
         kernel'.scheduler = kernel.scheduler,
         \A p \in Pids : /\ kernel'.table[p].state = kernel.table[p].state
                         /\ kernel'.table[p].priority
                              = IF Renamed(p, msg) THEN msg.value3
                                ELSE kernel.table[p].priority
  PROVE  PriorityInv' /\ \A p \in Pids : ~ Started(p)
BY DEF PriorityInv, NewRequest, SortedIn, Started

\* Under the priority scheduler a process starts only if none of those left
\* waiting was requested with a lower priority value, if the char that stores
\* the value can hold it: the run kernel_large_priority shows that this is
\* needed.
THEOREM KernelLowerFirst ==
  ASSUME Priorities \subseteq -128 .. 127
  PROVE  HSpec => LowerValueFirst
<1> DEFINE Goal ==
      /\ PriorityInv'
      /\ [kernel.scheduler = SCHEDULER_PRIORITY =>
            \A p \in Pids : Started(p) =>
              \A i \in DOMAIN kernel'.queue :
                requested[p]
                  <= requested[kernel'.queue[i].PID]]_<<vars, requested>>
<1>1. HInit => PriorityInv
  <2> SUFFICES ASSUME HInit PROVE PriorityInv
    OBVIOUS
  <2>1. PICK option \in SchedulerOptions : kernel = InitialKernel(option)
    BY DEF HInit, Init
  <2>2. /\ kernel.queue = <<>>
        /\ \A p \in Pids : kernel.table[p].priority = requested[p]
    BY <2>1 DEF InitialKernel, HInit
  <2>3. SortedIn(kernel)
    BY <2>2 DEF SortedIn, Sorted
  <2> QED BY <2>2, <2>3, InitKernel DEF HInit, PriorityInv
<1>2. PriorityInv /\ [HNext]_<<vars, requested>> => Goal
  <2> SUFFICES ASSUME PriorityInv, [HNext]_<<vars, requested>> PROVE Goal
    OBVIOUS
  <2>1. KernelInv' /\ Consistent(kernel) /\ SortedIn(kernel)
    <3>1. [Next]_vars
      BY DEF HNext, Next, vars
    <3> QED BY <3>1, NextKernel DEF PriorityInv, KernelInv
  <2>2. ASSUME NEW msg \in NewProcess("appIn"), AppIn(msg), NewRequest(msg)
        PROVE  Goal
    <3>1. msg.port = "appIn" /\ msg.value \in Pids /\ msg.value3 \in Priorities
      BY DEF NewProcess
    <3>2. msg.value \in FreePids(kernel)
      BY <2>2, <3>1 DEF AppIn, Receive, Expected
    <3>3. kernel' = AskMemory(kernel, msg.value, msg)
      BY <2>2, <3>1 DEF AppIn, Receive, KernelReceive, OnAppIn
    <3>4. Char(msg.value3) = msg.value3
      BY <3>1, CharKeeps
    <3>5. \A p \in Pids : Renamed(p, msg) <=> p = msg.value
      BY <3>1 DEF Renamed
    <3>6. PriorityInv' /\ \A p \in Pids : ~ Started(p)
      BY <2>1, <2>2, <3>2, <3>3, <3>4, <3>5, AskMemoryPriority,
         RequestStarts, SMTT(30)
    <3> QED BY <3>6
  <2>3. ASSUME NEW msg \in NewProcess("processFork"), ProcessFork(msg),
               NewRequest(msg)
        PROVE  Goal
    <3>1. msg.port = "processFork" /\ msg.value3 \in Priorities
      BY DEF NewProcess
    <3>2. kernel' = OnProcessFork(kernel, msg)
      BY <2>3, <3>1 DEF ProcessFork, Receive, KernelReceive
    <3>3. CASE FreePids(kernel) = {}
      <4>1. kernel' = kernel
        BY <3>2, <3>3 DEF OnProcessFork
      <4>2. \A p \in Pids : ~ Renamed(p, msg)
        BY <3>1, <3>3 DEF Renamed
      <4>3. PriorityInv' /\ \A p \in Pids : ~ Started(p)
        BY <2>1, <2>3, <4>1, <4>2, RequestStarts
      <4> QED BY <4>3
    <3>4. CASE FreePids(kernel) # {}
      <4> DEFINE pid == Min(FreePids(kernel))
                 a == AskMemory(kernel, pid, msg)
      <4>1. pid \in FreePids(kernel)
        <5>1. FreePids(kernel) \subseteq Nat
          BY KernelAssumption DEF FreePids
        <5> QED BY <3>4, <5>1, MinIsMember
      <4>2. kernel' = [a EXCEPT !.armed = TRUE]
        BY <3>2, <3>4 DEF OnProcessFork
      <4>3. \A p \in Pids : Renamed(p, msg) <=> p = pid
        BY <3>1, <3>4 DEF Renamed
      <4> HIDE DEF pid
      <4>4. /\ a.queue = kernel.queue /\ a.scheduler = kernel.scheduler
            /\ \A p \in Pids :
                 /\ a.table[p].state = kernel.table[p].state
                 /\ a.table[p].priority = IF p = pid THEN Char(msg.value3)
                                          ELSE kernel.table[p].priority
        BY <2>1, <4>1, AskMemoryPriority
      <4>5. Char(msg.value3) = msg.value3
        BY <3>1, CharKeeps
      <4>6. /\ kernel'.queue = a.queue /\ kernel'.table = a.table
            /\ kernel'.scheduler = a.scheduler
        BY <2>1, <4>2 DEF AskMemory, Consistent, Settled, KernelSet
      <4> HIDE DEF a
      <4>7. PriorityInv' /\ \A p \in Pids : ~ Started(p)
        BY <2>1, <2>3, <4>3, <4>4, <4>5, <4>6, RequestStarts
      <4> QED BY <4>7
    <3> QED BY <3>3, <3>4
  <2>4. ASSUME Lowest(kernel, kernel'), UNCHANGED requested PROVE Goal
    BY <2>1, <2>4, LowestStarts
  <2>5. ASSUME ResponseMemory, UNCHANGED requested PROVE Goal
    <3>1. PICK pid \in asked, answer \in 1 .. 2 :
            Receive([port |-> "responseMemory", value |-> pid,
                     value2 |-> answer])
      BY <2>5 DEF ResponseMemory
    <3> DEFINE msg == [port |-> "responseMemory", value |-> pid,
                       value2 |-> answer]
    <3>2. msg.port = "responseMemory" /\ Receive(msg)
      BY <3>1
    <3> HIDE DEF msg
    <3>3. msg.value \in FreePids(kernel)
      BY <3>2 DEF Receive, Expected
    <3>4. kernel' = OnResponseMemory(kernel, msg)
      BY <3>2 DEF Receive, KernelReceive
    <3> QED BY <2>1, <2>4, <2>5, <3>3, <3>4, ResponseLowest
  <2>6. ASSUME DoneIO, UNCHANGED requested PROVE Goal
    <3>1. PICK pid \in Pids : Receive([port |-> "doneIO", value |-> pid])
      BY <2>6 DEF DoneIO
    <3>2. kernel.table[pid].state = WAITING
      BY <3>1 DEF Receive, Expected
    <3>3. kernel' = MakeReady(kernel, pid)
      BY <3>1 DEF Receive, KernelReceive, OnDoneIO
    <3>4. kernel.table[pid].state \notin {READY, RUNNING}
      BY <3>2 DEF WAITING, READY, RUNNING
    <3> QED BY <2>1, <2>4, <2>6, <3>3, <3>4, MakeReadyLowest
  <2>7. ASSUME StartIO, UNCHANGED requested PROVE Goal
    <3>1. PICK pid \in Pids : Receive([port |-> "startIO", value |-> pid])
      BY <2>7 DEF StartIO
    <3> DEFINE msg == [port |-> "startIO", value |-> pid]
    <3>2. msg.port = "startIO" /\ msg.value \in Pids /\ Receive(msg)
      BY <3>1
    <3> HIDE DEF msg
    <3>3. kernel.table[msg.value].state = RUNNING
      BY <3>2 DEF Receive, Expected
    <3>4. kernel' = OnStartIO(kernel, msg)
      BY <3>2 DEF Receive, KernelReceive
    <3> QED BY <2>1, <2>4, <2>7, <3>2, <3>3, <3>4, StartIOLowest
  <2>8. ASSUME ProcessComplete, UNCHANGED requested PROVE Goal
    <3>1. PICK pid \in Pids :
            Receive([port |-> "processComplete", value |-> pid])
      BY <2>8 DEF ProcessComplete
    <3> DEFINE msg == [port |-> "processComplete", value |-> pid]
    <3>2. /\ msg.port = "processComplete" /\ msg.value \in Pids
          /\ Receive(msg)
      BY <3>1
    <3> HIDE DEF msg
    <3>3. kernel.table[msg.value].state = RUNNING
      BY <3>2 DEF Receive, Expected
    <3>4. kernel' = OnProcessComplete(kernel, msg)
      BY <3>2 DEF Receive, KernelReceive
    <3> QED BY <2>1, <2>4, <2>8, <3>2, <3>3, <3>4, CompleteLowest
  <2>9. ASSUME Internal, UNCHANGED requested PROVE Goal
    <3>1. kernel \in KernelSet
      BY <2>1, ConsistentParts
    <3>2. /\ kernel'.queue = kernel.queue /\ kernel'.table = kernel.table
          /\ kernel'.scheduler = kernel.scheduler
      BY <2>9, <3>1 DEF Internal, KernelInternal, KernelSet
    <3> QED BY <2>1, <2>4, <2>9, <3>2, LowestKept
  <2>10. CASE UNCHANGED <<vars, requested>>
    BY <2>10 DEF vars, PriorityInv, KernelInv
  <2> QED BY <2>2, <2>3, <2>5, <2>6, <2>7, <2>8, <2>9, <2>10 DEF HNext
<1> QED BY <1>1, <1>2, PTL DEF HSpec, LowerValueFirst

----------------------------------------------------------------------------
(* What the handlers do to the table and the output, process by process.   *)

\* From k to n no type changes, and no state but that of p, which gets s.
StateMoves(k, n, p, s) ==
  \A r \in Pids : /\ n.table[r].type = k.table[r].type
                  /\ n.table[r].state = IF r = p THEN s ELSE k.table[r].state

\* The start message for p.
StartOf(k, p) ==
  [port |-> "ctrlApp", value |-> p, value2 |-> k.table[p].type]

\* From k to n a ready process starts, if there is any.
Starting(k, n) ==
  \/ In(k, READY) = {} /\ n = k
  \/ \E q \in In(k, READY) :
       /\ StateMoves(k, n, q, RUNNING)
       /\ n.out_put = Append(k.out_put, StartOf(k, q))
       /\ n.armed = TRUE

LEMMA MovedMoves ==
  ASSUME NEW k, NEW n, k.table \in TableSet, NEW p \in Pids, NEW s,
         n.table = Moved(k, p, s)
  PROVE  StateMoves(k, n, p, s)
BY DEF StateMoves, Moved, TableSet

LEMMA StartNextEffect ==
  ASSUME NEW k, Settled(k)
  PROVE  Starting(k, StartNext(k))
<1>1. /\ k \in KernelSet /\ k.queue \in Seq(PcbSet)
      /\ k.table \in TableSet /\ Queued(k)
  BY DEF Settled, KernelSet, TableSet
<1>2. CASE k.queue = <<>>
  <2>1. StartNext(k) = k
    BY <1>2 DEF StartNext
  <2>2. In(k, READY) = {}
    BY <1>1, <1>2 DEF Queued, PidsIn
  <2> QED BY <2>1, <2>2 DEF Starting
<1>3. CASE k.queue # <<>>
  <2> DEFINE n == StartNext(k)
             h == Head(k.queue)
  <2>1. h = k.queue[1] /\ 1 \in DOMAIN k.queue
    BY <1>1, <1>3, TailOfQueue DEF Queued
  <2>2. h.PID \in In(k, READY) /\ h.PID \in Pids /\ h = PCB(k, h.PID)
    BY <1>1, <2>1 DEF Queued, PidsIn, In
  <2>3. CtrlApp(h) = StartOf(k, h.PID)
    BY <2>2 DEF CtrlApp, StartOf, PCB
  <2>4. /\ n.table = Moved(k, h.PID, RUNNING) /\ n.armed = TRUE
        /\ n.out_put = Append(k.out_put, CtrlApp(h))
    BY <1>1, <1>3 DEF StartNext, KernelSet, Moved
  <2> HIDE DEF n, h
  <2>5. StateMoves(k, n, h.PID, RUNNING)
    BY <1>1, <2>2, <2>4, MovedMoves
  <2> QED BY <2>2, <2>3, <2>4, <2>5 DEF Starting, n
<1> QED BY <1>2, <1>3

\* The process becomes READY behind the running one, or runs at once.
LEMMA MakeReadyEffect ==
  ASSUME NEW k, Consistent(k), NEW pid \in Pids,
         k.table[pid].state \notin {READY, RUNNING}
  PROVE  LET n == MakeReady(k, pid) IN
         /\ Consistent(n) /\ n.armed = TRUE
         /\ \/ /\ k.processing
               /\ StateMoves(k, n, pid, READY)
               /\ n.out_put = k.out_put
            \/ /\ ~ k.processing
               /\ StateMoves(k, n, pid, RUNNING)
               /\ n.out_put = Append(k.out_put, StartOf(k, pid))
<1> DEFINE j == JoinQueue(k, pid)
<1>0. Consistent(MakeReady(k, pid))
  BY MakeReadyConsistent
<1>1. /\ Settled(j) /\ j.table = Moved(k, pid, READY)
      /\ In(j, RUNNING) = In(k, RUNNING) /\ j.processing = k.processing
  BY JoinQueueSettled
<1>2. j.armed = TRUE /\ j.out_put = k.out_put
  BY ConsistentParts DEF JoinQueue, KernelSet
<1>3. StateMoves(k, j, pid, READY)
  BY <1>1, ConsistentParts, MovedMoves
<1>4. CASE k.processing
  <2>1. MakeReady(k, pid) = j
    BY <1>4 DEF MakeReady
  <2> HIDE DEF j
  <2> QED BY <1>0, <1>2, <1>3, <1>4, <2>1
<1>5. CASE ~ k.processing
  <2>1. MakeReady(k, pid) = StartNext(j)
    BY <1>5 DEF MakeReady
  <2> DEFINE n == StartNext(j)
  <2> HIDE DEF j
  <2>2. Starting(j, n)
    BY <1>1, StartNextEffect
  <2>3. In(k, READY) = {}
    BY <1>5, ConsistentParts DEF Queued, PidsIn
  <2>4. In(j, READY) = {pid}
    BY <1>3, <2>3 DEF In, StateMoves
  <2> HIDE DEF n
  <2>5. /\ StateMoves(j, n, pid, RUNNING)
        /\ n.out_put = Append(j.out_put, StartOf(j, pid))
        /\ n.armed = TRUE
    BY <2>2, <2>4 DEF Starting
  <2>6. StateMoves(k, n, pid, RUNNING)
    BY <1>3, <2>5 DEF StateMoves
  <2>7. StartOf(j, pid) = StartOf(k, pid)
    BY <1>3 DEF StartOf, StateMoves
  <2> QED BY <1>0, <1>2, <1>5, <2>1, <2>5, <2>6, <2>7 DEF n
<1> QED BY <1>4, <1>5

\* What the memory's answer and the end of an I/O operation do.
LEMMA WakeEffect ==
  ASSUME NEW k, Consistent(k), NEW msg, NEW pid \in Pids, msg.value = pid,
         \/ msg.port = "doneIO" /\ k.table[pid].state = WAITING
         \/ msg.port = "responseMemory" /\ pid \in FreePids(k)
  PROVE  LET n == KernelReceive(k, msg) IN
         /\ Consistent(n)
         /\ IF msg.port = "responseMemory" /\ msg.value2 = MEMORY_NOT_OK
            THEN /\ StateMoves(k, n, pid, UNDEFINED)
                 /\ n.out_put = k.out_put /\ n.armed = k.armed
            ELSE /\ n.armed = TRUE
                 /\ \/ /\ k.processing
                       /\ StateMoves(k, n, pid, READY)
                       /\ n.out_put = k.out_put
                    \/ /\ ~ k.processing
                       /\ StateMoves(k, n, pid, RUNNING)
                       /\ n.out_put = Append(k.out_put, StartOf(k, pid))
<1>1. k.table[pid].state \notin {READY, RUNNING}
  BY DEF FreePids, READY, RUNNING, WAITING, TERMINATED, UNDEFINED
<1>2. CASE msg.port = "responseMemory" /\ msg.value2 = MEMORY_NOT_OK
  <2> DEFINE n == OnResponseMemory(k, msg)
  <2>1. KernelReceive(k, msg) = n
    BY <1>2 DEF KernelReceive
  <2>2. Consistent(n)
    BY <1>2, ResponseConsistent
  <2>3. /\ n.table = Moved(k, pid, UNDEFINED)
        /\ n.out_put = k.out_put /\ n.armed = k.armed
    BY <1>2, ConsistentParts DEF OnResponseMemory, KernelSet, Moved
  <2> HIDE DEF n
  <2>4. StateMoves(k, n, pid, UNDEFINED)
    BY <2>3, ConsistentParts, MovedMoves
  <2> QED BY <1>2, <2>1, <2>2, <2>3, <2>4
<1>3. CASE ~ (msg.port = "responseMemory" /\ msg.value2 = MEMORY_NOT_OK)
  <2>1. KernelReceive(k, msg) = MakeReady(k, pid)
    BY <1>3 DEF KernelReceive, OnResponseMemory, OnDoneIO
  <2> QED BY <1>1, <1>3, <2>1, MakeReadyEffect
<1> QED BY <1>2, <1>3

\* What leaves a process behind that gives up the processor: with s as its
\* state and put as the output, and a ready process started if there is any.
Leaving(k, n, pid, s, put) ==
  \/ /\ In(k, READY) = {}
     /\ StateMoves(k, n, pid, s)
     /\ n.out_put = put /\ n.armed = k.armed
  \/ \E q \in In(k, READY) :
       /\ \A r \in Pids :
            /\ n.table[r].type = k.table[r].type
            /\ n.table[r].state = IF r = q THEN RUNNING
                                  ELSE IF r = pid THEN s
                                  ELSE k.table[r].state
       /\ n.out_put = Append(put, StartOf(k, q))
       /\ n.armed = TRUE

LEMMA LeaveEffect ==
  ASSUME NEW k, NEW n, Consistent(k), NEW pid \in Pids,
         k.table[pid].state = RUNNING, Settled(n),
         NEW s \in {WAITING, TERMINATED}, n.table = Moved(k, pid, s),
         n.armed = k.armed
  PROVE  Leaving(k, StartNext(n), pid, s, n.out_put)
<1> DEFINE m == StartNext(n)
<1>1. Starting(n, m)
  BY StartNextEffect
<1>2. StateMoves(k, n, pid, s)
  BY ConsistentParts, MovedMoves
<1>3. In(n, READY) = In(k, READY)
  BY <1>2 DEF In, StateMoves, READY, RUNNING, WAITING, TERMINATED
<1> HIDE DEF m
<1>4. CASE In(n, READY) = {} /\ m = n
  BY <1>2, <1>3, <1>4 DEF Leaving, m
<1>5. ASSUME NEW q \in In(n, READY), StateMoves(n, m, q, RUNNING),
             m.out_put = Append(n.out_put, StartOf(n, q)), m.armed = TRUE
      PROVE  Leaving(k, m, pid, s, n.out_put)
  <2>1. StartOf(n, q) = StartOf(k, q)
    BY <1>2, <1>5 DEF StartOf, StateMoves, In
  <2>2. \A r \in Pids :
            /\ m.table[r].type = k.table[r].type
            /\ m.table[r].state = IF r = q THEN RUNNING
                                  ELSE IF r = pid THEN s
                                  ELSE k.table[r].state
    BY <1>2, <1>5 DEF StateMoves
  <2> QED BY <1>3, <1>5, <2>1, <2>2 DEF Leaving
<1> QED BY <1>1, <1>4, <1>5 DEF Starting, m

LEMMA StartIOEffect ==
  ASSUME NEW k, Consistent(k), NEW msg, msg.port = "startIO",
         msg.value \in Pids, k.table[msg.value].state = RUNNING
  PROVE  LET n == KernelReceive(k, msg) IN
         /\ Consistent(n)
         /\ Leaving(k, n, msg.value, WAITING, k.out_put)
<1> DEFINE m == [k EXCEPT !.table[msg.value].state = WAITING,
                          !.processing = FALSE]
<1>1. KernelReceive(k, msg) = OnStartIO(k, msg)
  BY DEF KernelReceive
<1>2. /\ m.table = Moved(k, msg.value, WAITING) /\ m.queue = k.queue
      /\ m.out_put = k.out_put /\ m.armed = k.armed
      /\ m.processing = FALSE /\ m.scheduler = k.scheduler
      /\ IsRecord(m)
  <2>1. k \in KernelSet
    BY ConsistentParts
  <2> QED BY <2>1 DEF KernelSet, Moved, IsRecord
<1>3. OnStartIO(k, msg) = StartNext(m)
  BY DEF OnStartIO
<1> HIDE DEF m
<1>4. m.out_put \in Seq(OutputSet) /\ Scheduled(m)
  BY <1>2, ConsistentParts DEF Scheduled
<1>5. Settled(m)
  BY <1>2, <1>4, LeaveSettled
<1>6. Leaving(k, StartNext(m), msg.value, WAITING, m.out_put)
  BY <1>2, <1>5, LeaveEffect
<1> QED BY <1>1, <1>2, <1>3, <1>6, StartIOConsistent

LEMMA CompleteEffect ==
  ASSUME NEW k, Consistent(k), NEW msg, msg.port = "processComplete",
         msg.value \in Pids, k.table[msg.value].state = RUNNING
  PROVE  LET n == KernelReceive(k, msg) IN
         /\ Consistent(n)
         /\ Leaving(k, n, msg.value, TERMINATED,
                    Append(k.out_put, ReleaseMemory(msg.value)))
<1> DEFINE release == ReleaseMemory(msg.value)
           m == [k EXCEPT !.table[msg.value].state = TERMINATED,
                          !.processing = FALSE,
                          !.out_put = Append(@, release)]
<1>0. release \in OutputSet /\ release.port # "ctrlApp"
  BY DEF ReleaseMemory, OutputSet
<1>1. KernelReceive(k, msg) = OnProcessComplete(k, msg)
  BY DEF KernelReceive
<1>2. OnProcessComplete(k, msg) = StartNext(m)
  BY DEF OnProcessComplete
<1> HIDE DEF release
<1>3. /\ m.table = Moved(k, msg.value, TERMINATED) /\ m.queue = k.queue
      /\ m.out_put = Append(k.out_put, release) /\ m.armed = k.armed
      /\ m.processing = FALSE /\ m.scheduler = k.scheduler
      /\ IsRecord(m)
  <2>1. k \in KernelSet
    BY ConsistentParts
  <2> QED BY <2>1 DEF KernelSet, Moved, IsRecord
<1> HIDE DEF m
<1>4. m.out_put \in Seq(OutputSet) /\ Scheduled(m)
  BY <1>0, <1>3, ConsistentParts, ScheduledKept
<1>5. Settled(m)
  BY <1>3, <1>4, LeaveSettled
<1>6. Leaving(k, StartNext(m), msg.value, TERMINATED, m.out_put)
  BY <1>3, <1>5, LeaveEffect
<1> QED BY <1>1, <1>2, <1>3, <1>6, CompleteConsistent DEF release

\* From k to n only the type of p changes, to t, and its memory is asked for.
Asks(k, n, p, t, size) ==
  /\ \A r \in Pids : /\ n.table[r].state = k.table[r].state
                     /\ n.table[r].type = IF r = p THEN t
                                          ELSE k.table[r].type
  /\ n.out_put = Append(k.out_put, RequestMemory(p, size))

LEMMA AskMemoryEffect ==
  ASSUME NEW k, Consistent(k), NEW pid \in FreePids(k), NEW msg,
         msg.value2 \in Types, msg.value3 \in Int, msg.value4 \in BlockSizes
  PROVE  LET n == AskMemory(k, pid, msg) IN
         /\ Consistent(n) /\ n.armed = k.armed
         /\ Asks(k, n, pid, msg.value2, msg.value4)
<1> DEFINE n == AskMemory(k, pid, msg)
<1>1. Consistent(n)
  BY AskMemoryConsistent
<1>2. pid \in Pids
  BY DEF FreePids
<1>3. /\ n.armed = k.armed
      /\ n.out_put = Append(k.out_put, RequestMemory(pid, msg.value4))
  BY ConsistentParts DEF AskMemory, KernelSet
<1>4. n.table = [k.table EXCEPT ![pid].type = msg.value2,
                               ![pid].priority = Char(msg.value3)]
  BY ConsistentParts DEF AskMemory, KernelSet
<1> HIDE DEF n
<1>5. \A r \in Pids : /\ n.table[r].state = k.table[r].state
                      /\ n.table[r].type = IF r = pid THEN msg.value2
                                           ELSE k.table[r].type
  BY <1>2, <1>4, ConsistentParts DEF TableSet
<1> QED BY <1>1, <1>3, <1>5 DEF Asks, n

LEMMA ForkEffect ==
  ASSUME NEW k, Consistent(k), NEW msg, msg.port = "processFork",
         msg.value2 \in Types, msg.value3 \in Int, msg.value4 \in BlockSizes
  PROVE  LET n == KernelReceive(k, msg) IN
         /\ Consistent(n)
         /\ \/ n = k
            \/ /\ \E pid \in FreePids(k) :
                     Asks(k, n, pid, msg.value2, msg.value4)
               /\ n.armed = TRUE
<1>0. KernelReceive(k, msg) = OnProcessFork(k, msg)
  BY DEF KernelReceive
<1>1. CASE FreePids(k) = {}
  BY <1>0, <1>1 DEF OnProcessFork
<1>2. CASE FreePids(k) # {}
  <2> DEFINE pid == Min(FreePids(k))
             a == AskMemory(k, pid, msg)
             n == [a EXCEPT !.armed = TRUE]
  <2>1. pid \in FreePids(k)
    <3>1. FreePids(k) \subseteq Nat
      BY KernelAssumption DEF FreePids
    <3> QED BY <1>2, <3>1, MinIsMember
  <2> HIDE DEF pid
  <2>3. Consistent(a) /\ Asks(k, a, pid, msg.value2, msg.value4)
    BY <2>1, AskMemoryEffect
  <2>4. OnProcessFork(k, msg) = n
    BY <1>2 DEF OnProcessFork, pid
  <2> HIDE DEF a
  <2>5. a \in KernelSet
    BY <2>3, ConsistentParts
  <2>6. /\ n.armed = TRUE /\ n.queue = a.queue /\ n.table = a.table
        /\ n.processing = a.processing /\ n \in KernelSet
        /\ n.out_put = a.out_put
    BY <2>5 DEF KernelSet
  <2> HIDE DEF n
  <2>7. /\ In(n, READY) = In(a, READY) /\ In(n, RUNNING) = In(a, RUNNING)
        /\ \A p \in In(a, READY) : PCB(n, p) = PCB(a, p)
    BY <2>6 DEF In, PCB
  <2>8. Queued(n) /\ Scheduled(n)
    BY <2>3, <2>6, <2>7, ConsistentParts, QueuedKept DEF Scheduled
  <2>9. Consistent(n)
    BY <2>3, <2>6, <2>7, <2>8, ConsistentParts DEF Consistent, Settled
  <2>10. Asks(k, n, pid, msg.value2, msg.value4)
    BY <2>3, <2>6 DEF Asks
  <2> QED BY <1>0, <2>1, <2>4, <2>6, <2>9, <2>10
<1> QED BY <1>1, <1>2

----------------------------------------------------------------------------
(* Whole bags: the states between the messages, by induction.              *)

Loop == INSTANCE Handling_proofs WITH Handle <- KernelReceive

LEMMA KernelIsLoop ==
  \A k, bag : KernelExternal(k, bag) = Loop!Result(k, bag)
BY Zenon DEF KernelExternal, HandleAll, MapThenFoldSet, Max,
       Loop!Result, Loop!HandleAll, Loop!MapThenFoldSet,
       Loop!Max

\* f gives the state before the first message of the bag, between any two, and
\* after the last one.
KernelRun(f, k, bag) ==
  /\ DOMAIN f = 0 .. Len(bag)
  /\ f[0] = k
  /\ \A i \in 1 .. Len(bag) : f[i] = KernelReceive(f[i - 1], bag[i])
  /\ KernelExternal(k, bag) = f[Len(bag)]
  /\ \A i \in 0 .. Len(bag) : KernelExternal(k, SubSeq(bag, 1, i)) = f[i]

LEMMA KernelRuns ==
  ASSUME NEW k, NEW T, NEW bag \in Seq(T)
  PROVE  \E f : KernelRun(f, k, bag)
<1>1. PICK f : /\ Loop!IsRun(f, Len(bag), k, bag)
               /\ Loop!Result(k, bag) = f[Len(bag)]
               /\ \A i \in 0 .. Len(bag) :
                    Loop!Result(k, SubSeq(bag, 1, i)) = f[i]
  BY Loop!LoopPrefixes
<1>2. KernelRun(f, k, bag)
  BY <1>1, KernelIsLoop, Zenon DEF KernelRun, Loop!IsRun
<1> QED BY <1>2
\* A bag of answers of the memory and of ends of I/O operations, all for
\* different processes.
Refused(msg) == msg.port = "responseMemory" /\ msg.value2 = MEMORY_NOT_OK

WakeBag(k, bag) ==
  /\ \A i \in DOMAIN bag :
       /\ bag[i].value \in Pids
       /\ \/ bag[i].port = "doneIO" /\ k.table[bag[i].value].state = WAITING
          \/ bag[i].port = "responseMemory" /\ bag[i].value \in FreePids(k)
  /\ \A i, j \in DOMAIN bag : bag[i].value = bag[j].value => i = j

\* What the first l messages of such a bag make of k.
Woken(k, n, bag, l) ==
  /\ Consistent(n)
  /\ \A p \in Pids : n.table[p].type = k.table[p].type
  /\ \A p \in Pids : (\A i \in 1 .. l : bag[i].value # p) =>
                       n.table[p].state = k.table[p].state
  /\ \A i \in 1 .. l :
       n.table[bag[i].value].state \in IF Refused(bag[i]) THEN {UNDEFINED}
                                       ELSE {READY, RUNNING}
  /\ \/ n.out_put = k.out_put /\ In(n, RUNNING) = In(k, RUNNING)
     \/ \E i \in 1 .. l :
          /\ ~ Refused(bag[i])
          /\ n.out_put = Append(k.out_put, StartOf(k, bag[i].value))
          /\ In(n, RUNNING) = {bag[i].value} /\ In(k, RUNNING) = {}
  /\ n.armed <=> (k.armed \/ \E i \in 1 .. l : ~ Refused(bag[i]))

LEMMA WokenStep ==
  ASSUME NEW k, NEW T, NEW bag \in Seq(T), WakeBag(k, bag),
         NEW l \in Nat, l + 1 \in DOMAIN bag, NEW s, Woken(k, s, bag, l)
  PROVE  /\ Expected(s, bag[l + 1])
         /\ Woken(k, KernelReceive(s, bag[l + 1]), bag, l + 1)
<1> DEFINE msg == bag[l + 1]
           pid == msg.value
           n   == KernelReceive(s, msg)
<1>0. /\ \A i \in 1 .. l : i \in DOMAIN bag /\ i # l + 1
      /\ 1 .. l + 1 = 1 .. l \cup {l + 1}
  BY LenProperties
<1>1. /\ pid \in Pids
      /\ \A i \in 1 .. l : bag[i].value # pid
      /\ s.table[pid].state = k.table[pid].state
  BY <1>0 DEF WakeBag, Woken
<1>2. \/ msg.port = "doneIO" /\ s.table[pid].state = WAITING
      \/ msg.port = "responseMemory" /\ pid \in FreePids(s)
  BY <1>1 DEF WakeBag, FreePids
<1>3. Consistent(s)
  BY DEF Woken
<1>4. Expected(s, msg)
  BY <1>2 DEF Expected
<1>5. /\ Consistent(n)
      /\ IF Refused(msg)
         THEN /\ StateMoves(s, n, pid, UNDEFINED)
              /\ n.out_put = s.out_put /\ n.armed = s.armed
         ELSE /\ n.armed = TRUE
              /\ \/ /\ s.processing
                    /\ StateMoves(s, n, pid, READY)
                    /\ n.out_put = s.out_put
                 \/ /\ ~ s.processing
                    /\ StateMoves(s, n, pid, RUNNING)
                    /\ n.out_put = Append(s.out_put, StartOf(s, pid))
  BY <1>1, <1>2, <1>3, WakeEffect DEF Refused
<1>6. StartOf(s, pid) = StartOf(k, pid)
  BY <1>1 DEF Woken, StartOf
<1> HIDE DEF n, msg, pid
<1>7. PICK x \in {READY, RUNNING, UNDEFINED} : StateMoves(s, n, pid, x)
  BY <1>5
<1>8. \A p \in Pids : n.table[p].type = k.table[p].type
  BY <1>7 DEF StateMoves, Woken
<1>9. \A p \in Pids : (\A i \in 1 .. l + 1 : bag[i].value # p) =>
                       n.table[p].state = k.table[p].state
  BY <1>0, <1>7, Zenon DEF StateMoves, Woken, msg, pid
<1>10. \A i \in 1 .. l + 1 :
       n.table[bag[i].value].state \in IF Refused(bag[i]) THEN {UNDEFINED}
                                       ELSE {READY, RUNNING}
  <2>1. ASSUME NEW i \in 1 .. l
        PROVE  n.table[bag[i].value].state
                 \in IF Refused(bag[i]) THEN {UNDEFINED} ELSE {READY, RUNNING}
    <3>1. bag[i].value \in Pids /\ bag[i].value # pid
      BY <1>0, <1>1 DEF WakeBag
    <3>2. n.table[bag[i].value].state = s.table[bag[i].value].state
      BY <1>7, <3>1 DEF StateMoves
    <3> QED BY <3>2 DEF Woken
  <2>2. n.table[pid].state \in IF Refused(msg) THEN {UNDEFINED}
                               ELSE {READY, RUNNING}
    BY <1>1, <1>5 DEF StateMoves
  <2> QED BY <1>0, <2>1, <2>2 DEF pid, msg
<1>11. n.armed <=> (k.armed \/ \E i \in 1 .. l + 1 : ~ Refused(bag[i]))
  <2>1. (\E i \in 1 .. l + 1 : ~ Refused(bag[i]))
          <=> (\E i \in 1 .. l : ~ Refused(bag[i])) \/ ~ Refused(msg)
    BY <1>0 DEF msg
  <2> QED BY <1>5, <2>1 DEF Woken
<1>12. \/ n.out_put = k.out_put /\ In(n, RUNNING) = In(k, RUNNING)
       \/ \E i \in 1 .. l + 1 :
          /\ ~ Refused(bag[i])
          /\ n.out_put = Append(k.out_put, StartOf(k, bag[i].value))
          /\ In(n, RUNNING) = {bag[i].value} /\ In(k, RUNNING) = {}
  <2>1. pid \notin In(s, RUNNING)
    BY <1>2 DEF In, FreePids, RUNNING, WAITING, TERMINATED, UNDEFINED
  <2>2. CASE n.out_put = s.out_put /\ x # RUNNING
    <3>1. In(n, RUNNING) = In(s, RUNNING)
      BY <1>7, <2>1, <2>2 DEF In, StateMoves
    <3> QED BY <1>0, <2>2, <3>1 DEF Woken
  <2>3. CASE /\ ~ s.processing /\ ~ Refused(msg)
             /\ StateMoves(s, n, pid, RUNNING)
             /\ n.out_put = Append(s.out_put, StartOf(s, pid))
    <3>1. In(s, RUNNING) = {}
      BY <1>3, <2>3, ConsistentParts
    <3>2. s.out_put = k.out_put /\ In(k, RUNNING) = {}
      BY <3>1 DEF Woken
    <3>3. In(n, RUNNING) = {pid}
      BY <1>1, <2>3, <3>1, SMTT(30) DEF In, StateMoves
    <3> QED BY <1>0, <1>6, <2>3, <3>2, <3>3 DEF pid, msg
  <2>4. \/ StateMoves(s, n, pid, UNDEFINED) /\ n.out_put = s.out_put
        \/ StateMoves(s, n, pid, READY) /\ n.out_put = s.out_put
        \/ /\ ~ s.processing /\ ~ Refused(msg)
           /\ StateMoves(s, n, pid, RUNNING)
           /\ n.out_put = Append(s.out_put, StartOf(s, pid))
    BY <1>5
  <2>5. n.table[pid].state = x
    BY <1>1, <1>7 DEF StateMoves
  <2>6. n.table[pid].state # RUNNING => x # RUNNING
    BY <2>5
  <2> QED BY <1>1, <2>2, <2>3, <2>4, <2>6
          DEF StateMoves, RUNNING, READY, UNDEFINED
<1> QED BY <1>4, <1>5, <1>8, <1>9, <1>10, <1>11, <1>12, Zenon
        DEF Woken, n, msg

\* Every message of the bag finds its process in the expected state, and in
\* the end all of them have done their work.
LEMMA WakeBagEffect ==
  ASSUME NEW k, Consistent(k), NEW T, NEW bag \in Seq(T), WakeBag(k, bag)
  PROVE  /\ \A i \in DOMAIN bag :
              Expected(KernelExternal(k, SubSeq(bag, 1, i - 1)), bag[i])
         /\ Woken(k, KernelExternal(k, bag), bag, Len(bag))
<1>1. PICK f : KernelRun(f, k, bag)
  BY KernelRuns
<1> DEFINE S == {i \in Nat : Woken(k, f[i], bag, i)}
<1>2. Len(bag) \in Nat /\ DOMAIN bag = 1 .. Len(bag)
  OBVIOUS
<1>3. 0 \in S
  <2>1. Woken(k, k, bag, 0)
    BY DEF Woken
  <2>2. f[0] = k
    BY <1>1 DEF KernelRun
  <2> QED BY <2>1, <2>2
<1>4. ASSUME NEW i \in 0 .. Len(bag) - 1, i \in S
      PROVE  i + 1 \in S /\ Expected(f[i], bag[i + 1])
  <2>1. i + 1 \in DOMAIN bag /\ i \in Nat /\ i + 1 \in Nat
    BY <1>2, <1>4
  <2>2. /\ Expected(f[i], bag[i + 1])
        /\ Woken(k, KernelReceive(f[i], bag[i + 1]), bag, i + 1)
    BY <1>4, <2>1, WokenStep
  <2>3. f[i + 1] = KernelReceive(f[i], bag[i + 1])
    <3>1. i + 1 \in 1 .. Len(bag) /\ i + 1 - 1 = i
      BY <1>2, <2>1
    <3> QED BY <1>1, <3>1 DEF KernelRun
  <2> QED BY <2>1, <2>2, <2>3
<1>5. 0 .. Len(bag) \subseteq S
  <2> HIDE DEF S
  <2> QED BY <1>2, <1>3, <1>4, Loop!UpTo
<1>6. ASSUME NEW i \in DOMAIN bag
      PROVE  Expected(KernelExternal(k, SubSeq(bag, 1, i - 1)), bag[i])
  <2>1. i - 1 \in 0 .. Len(bag) - 1 /\ i - 1 \in 0 .. Len(bag)
        /\ i - 1 + 1 = i
    BY <1>2
  <2>2. Expected(f[i - 1], bag[i])
    BY <1>4, <1>5, <2>1
  <2> QED BY <1>1, <2>1, <2>2 DEF KernelRun
<1>7. Woken(k, f[Len(bag)], bag, Len(bag))
  BY <1>2, <1>5
<1> QED BY <1>1, <1>6, <1>7 DEF KernelRun
\* A bag of new processes.
ArrivalBag(k, bag) ==
  \A i \in DOMAIN bag :
    /\ bag[i].port = "appIn" /\ bag[i].value \in FreePids(k)
    /\ bag[i].value2 \in Types /\ bag[i].value3 \in Int
    /\ bag[i].value4 \in BlockSizes

\* What its first l messages make of k, if nothing was to be sent before.
Arrived(k, n, bag, l) ==
  /\ Consistent(n) /\ n.armed = k.armed
  /\ \A p \in Pids : n.table[p].state = k.table[p].state
  /\ \A p \in Pids : (\A i \in 1 .. l : bag[i].value # p) =>
                       n.table[p].type = k.table[p].type
  /\ \A i \in 1 .. l : n.table[bag[i].value].type \in Types
  /\ Len(n.out_put) = l
  /\ \A i \in 1 .. l :
       n.out_put[i] = RequestMemory(bag[i].value, bag[i].value4)

LEMMA ArrivedStep ==
  ASSUME NEW k, NEW T, NEW bag \in Seq(T), ArrivalBag(k, bag),
         NEW l \in Nat, l + 1 \in DOMAIN bag, NEW s, Arrived(k, s, bag, l)
  PROVE  /\ Expected(s, bag[l + 1])
         /\ Arrived(k, KernelReceive(s, bag[l + 1]), bag, l + 1)
<1> DEFINE msg == bag[l + 1]
           pid == msg.value
           n   == KernelReceive(s, msg)
           req == RequestMemory(pid, msg.value4)
<1>0. /\ \A i \in 1 .. l : i \in DOMAIN bag /\ i # l + 1
      /\ 1 .. l + 1 = 1 .. l \cup {l + 1}
  BY LenProperties
<1>1. /\ msg.port = "appIn" /\ pid \in FreePids(s)
      /\ msg.value2 \in Types /\ msg.value3 \in Int
      /\ msg.value4 \in BlockSizes
  BY DEF ArrivalBag, Arrived, FreePids
<1>2. Expected(s, msg)
  BY <1>1 DEF Expected
<1>3. n = AskMemory(s, pid, msg)
  BY <1>1 DEF KernelReceive, OnAppIn
<1>4. /\ Consistent(n) /\ n.armed = s.armed
      /\ Asks(s, n, pid, msg.value2, msg.value4)
  BY <1>1, <1>3, AskMemoryEffect DEF Arrived
<1>5. pid \in Pids
  BY <1>1 DEF FreePids
<1> HIDE DEF n, msg, pid
<1>6. \A p \in Pids : n.table[p].state = k.table[p].state
  BY <1>4 DEF Asks, Arrived
<1>7. \A p \in Pids : (\A i \in 1 .. l + 1 : bag[i].value # p) =>
                       n.table[p].type = k.table[p].type
  BY <1>0, <1>4, ZenonT(60) DEF Asks, Arrived, msg, pid
<1>8. \A i \in 1 .. l + 1 : n.table[bag[i].value].type \in Types
  <2>1. ASSUME NEW i \in 1 .. l PROVE n.table[bag[i].value].type \in Types
    <3>1. bag[i].value \in Pids
      BY <1>0 DEF ArrivalBag, FreePids
    <3> QED BY <1>1, <1>4, <3>1 DEF Asks, Arrived
  <2>2. n.table[pid].type \in Types
    BY <1>1, <1>4, <1>5 DEF Asks
  <2> QED BY <1>0, <2>1, <2>2 DEF pid, msg
<1>9. n.out_put = Append(s.out_put, req) /\ s.out_put \in Seq(OutputSet)
  BY <1>4, ConsistentParts DEF Asks, Arrived
<1> HIDE DEF req
<1>10. /\ Len(n.out_put) = l + 1 /\ n.out_put[l + 1] = req
       /\ \A i \in 1 .. l : n.out_put[i] = s.out_put[i]
  BY <1>9, AppendProperties, ElementOfSeq DEF Arrived
<1>11. \A i \in 1 .. l + 1 :
         n.out_put[i] = RequestMemory(bag[i].value, bag[i].value4)
  BY <1>0, <1>10 DEF Arrived, req, pid, msg
<1> QED BY <1>2, <1>4, <1>6, <1>7, <1>8, <1>10, <1>11
        DEF Arrived, n, msg

LEMMA ArrivalBagEffect ==
  ASSUME NEW k, Consistent(k), k.out_put = <<>>,
         NEW T, NEW bag \in Seq(T), ArrivalBag(k, bag)
  PROVE  /\ \A i \in DOMAIN bag :
              Expected(KernelExternal(k, SubSeq(bag, 1, i - 1)), bag[i])
         /\ Arrived(k, KernelExternal(k, bag), bag, Len(bag))
<1>1. PICK f : KernelRun(f, k, bag)
  BY KernelRuns
<1> DEFINE S == {i \in Nat : Arrived(k, f[i], bag, i)}
<1>2. Len(bag) \in Nat /\ DOMAIN bag = 1 .. Len(bag)
  OBVIOUS
<1>3. 0 \in S
  <2>1. Arrived(k, k, bag, 0)
    BY DEF Arrived
  <2>2. f[0] = k
    BY <1>1 DEF KernelRun
  <2> QED BY <2>1, <2>2
<1>4. ASSUME NEW i \in 0 .. Len(bag) - 1, i \in S
      PROVE  i + 1 \in S /\ Expected(f[i], bag[i + 1])
  <2>1. i + 1 \in DOMAIN bag /\ i \in Nat /\ i + 1 \in Nat
    BY <1>2, <1>4
  <2>2. /\ Expected(f[i], bag[i + 1])
        /\ Arrived(k, KernelReceive(f[i], bag[i + 1]), bag, i + 1)
    BY <1>4, <2>1, ArrivedStep
  <2>3. f[i + 1] = KernelReceive(f[i], bag[i + 1])
    <3>1. i + 1 \in 1 .. Len(bag) /\ i + 1 - 1 = i
      BY <1>2, <2>1
    <3> QED BY <1>1, <3>1 DEF KernelRun
  <2> QED BY <2>1, <2>2, <2>3
<1>5. 0 .. Len(bag) \subseteq S
  <2> HIDE DEF S
  <2> QED BY <1>2, <1>3, <1>4, Loop!UpTo
<1>6. ASSUME NEW i \in DOMAIN bag
      PROVE  Expected(KernelExternal(k, SubSeq(bag, 1, i - 1)), bag[i])
  <2>1. i - 1 \in 0 .. Len(bag) - 1 /\ i - 1 \in 0 .. Len(bag)
        /\ i - 1 + 1 = i
    BY <1>2
  <2>2. Expected(f[i - 1], bag[i])
    BY <1>4, <1>5, <2>1
  <2> QED BY <1>1, <2>1, <2>2 DEF KernelRun
<1>7. Arrived(k, f[Len(bag)], bag, Len(bag))
  BY <1>2, <1>5
<1> QED BY <1>1, <1>6, <1>7 DEF KernelRun

\* A bag with at most one message that the kernel knows is as good as that
\* message.
KnownPorts == {"appIn", "responseMemory", "doneIO", "startIO",
               "processComplete", "processFork"}

LEMMA CallBagEffect ==
  ASSUME NEW k, NEW T, NEW bag \in Seq(T),
         \A i, j \in DOMAIN bag :
           bag[i].port \in KnownPorts /\ bag[j].port \in KnownPorts => i = j,
         \A i \in DOMAIN bag : Expected(k, bag[i])
  PROVE  /\ \A i \in DOMAIN bag :
              Expected(KernelExternal(k, SubSeq(bag, 1, i - 1)), bag[i])
         /\ \A i \in DOMAIN bag : bag[i].port \in KnownPorts =>
              KernelExternal(k, bag) = KernelReceive(k, bag[i])
         /\ (\A i \in DOMAIN bag : bag[i].port \notin KnownPorts) =>
              KernelExternal(k, bag) = k
<1>1. PICK f : KernelRun(f, k, bag)
  BY KernelRuns
<1>2. Len(bag) \in Nat /\ DOMAIN bag = 1 .. Len(bag)
  OBVIOUS
<1> DEFINE Seen(i) == {j \in 1 .. i : bag[j].port \in KnownPorts}
           P(i) == /\ Seen(i) = {} => f[i] = k
                   /\ \A j \in Seen(i) : f[i] = KernelReceive(k, bag[j])
           S == {i \in Nat : P(i)}
<1>3. 0 \in S
  <2>1. f[0] = k /\ Seen(0) = {}
    BY <1>1 DEF KernelRun
  <2> HIDE DEF Seen
  <2> QED BY <2>1
<1>4. ASSUME NEW i \in 0 .. Len(bag) - 1, i \in S
      PROVE  i + 1 \in S
  <2>1. /\ i + 1 \in DOMAIN bag /\ i \in Nat /\ i + 1 \in Nat
        /\ i + 1 \in 1 .. Len(bag) /\ i + 1 - 1 = i
        /\ \A j \in 1 .. i : j \in DOMAIN bag /\ j # i + 1
        /\ 1 .. i + 1 = 1 .. i \cup {i + 1}
    BY <1>2, <1>4
  <2>2. f[i + 1] = KernelReceive(f[i], bag[i + 1])
    BY <1>1, <2>1 DEF KernelRun
  <2>3. CASE bag[i + 1].port \in KnownPorts
    <3>1. Seen(i) = {} /\ Seen(i + 1) = {i + 1}
      BY <2>1, <2>3
    <3> HIDE DEF Seen
    <3> QED BY <1>4, <2>1, <2>2, <3>1
  <2>4. CASE bag[i + 1].port \notin KnownPorts
    <3>1. Seen(i + 1) = Seen(i)
      BY <2>1, <2>4
    <3>2. f[i + 1] = f[i]
      BY <2>2, <2>4 DEF KernelReceive, KnownPorts
    <3> HIDE DEF Seen
    <3> QED BY <1>4, <2>1, <3>1, <3>2
  <2> QED BY <2>3, <2>4
<1>5. \A i \in 0 .. Len(bag) : P(i)
  <2>1. 0 .. Len(bag) \subseteq S
    <3> HIDE DEF S
    <3> QED BY <1>2, <1>3, <1>4, Loop!UpTo
  <2> QED BY <2>1
<1>6. ASSUME NEW i \in DOMAIN bag
      PROVE  Expected(KernelExternal(k, SubSeq(bag, 1, i - 1)), bag[i])
  <2>1. /\ i - 1 \in 0 .. Len(bag)
        /\ \A j \in 1 .. i - 1 : j \in DOMAIN bag /\ j # i
    BY <1>2
  <2>2. KernelExternal(k, SubSeq(bag, 1, i - 1)) = f[i - 1]
    BY <1>1, <2>1 DEF KernelRun
  <2>3. CASE bag[i].port \in KnownPorts
    <3>1. Seen(i - 1) = {}
      BY <2>1, <2>3
    <3> HIDE DEF Seen
    <3> QED BY <1>5, <2>1, <2>2, <3>1
  <2>4. CASE bag[i].port \notin KnownPorts
    BY <2>4 DEF Expected, KnownPorts
  <2> QED BY <2>3, <2>4
<1>7. P(Len(bag)) /\ KernelExternal(k, bag) = f[Len(bag)]
  BY <1>1, <1>2, <1>5 DEF KernelRun
<1>8. Seen(Len(bag)) = {i \in DOMAIN bag : bag[i].port \in KnownPorts}
  BY <1>2
<1> HIDE DEF Seen
<1> QED BY <1>6, <1>7, <1>8
============================================================================
