------------------------------ MODULE Kernel ------------------------------
(***************************************************************************)
(* The Kernel atomic model (atomics/kernel.hpp): the process table, the    *)
(* scheduler's queue, the flag that a process is running, and the output   *)
(* not yet sent.  As in MemoryModel the handlers are operators on the      *)
(* record of the model's state, one per port, and next_internal, which is  *)
(* 0 or infinity, is the flag armed.                                       *)
(*                                                                         *)
(* A message carries only the fields that its receiver reads.  The number  *)
(* that the code appends to a port name ("ctrlApp3") is always the value   *)
(* of the message too, and stays there.                                    *)
(***************************************************************************)
EXTENDS Scheduler, Handling

CONSTANTS
  Pids,         \* 1..20 in the code: the entries of table
  Types,        \* program types a request may name
  Priorities,   \* the integers that arrive as value3
  BlockSizes,   \* the memory sizes that arrive as value4
  MaxOutput     \* bound: messages that may wait in out_put

ASSUME KernelAssumption ==
  /\ Pids \subseteq Nat \ {0}
  /\ Priorities \subseteq Int
  /\ MaxOutput \in Nat

PROGRAM_IO   == 1
PROGRAM_FORK == 2

MEMORY_NOT_OK == 2

WAITING    == "waiting"
READY      == "ready"
RUNNING    == "running"
TERMINATED == "terminated"
UNDEFINED  == "undefined"
States     == {WAITING, READY, RUNNING, TERMINATED, UNDEFINED}

\* PCB.priority is a char, signed with the compilers this code is built with:
\* the integer of the message keeps its low eight bits.
Char(v) == ((v + 128) % 256) - 128

InitialKernel(option) ==
  [ scheduler  |-> option,
    processing |-> FALSE,
    queue      |-> <<>>,
    table      |-> [p \in Pids |->
                      [state |-> UNDEFINED, type |-> 0, priority |-> 0]],
    out_put    |-> <<>>,
    armed      |-> TRUE ]   \* the constructor shadows next_internal

CtrlApp(pcb) ==
  [port |-> "ctrlApp", value |-> pcb.PID, value2 |-> pcb.type]
RequestMemory(pid, size) ==
  [port |-> "requestMemory", value |-> pid, value2 |-> size]
ReleaseMemory(pid) ==
  [port |-> "releaseMemory", value |-> pid]

\* The copy of the table entry that goes into the scheduler's queue.
PCB(k, pid) ==
  [PID |-> pid, type |-> k.table[pid].type, priority |-> k.table[pid].priority]

\* Mutant: a process that waits for I/O counts as free.
FreePids_Waiting(k) ==
  {p \in Pids : k.table[p].state \in {TERMINATED, UNDEFINED, WAITING}}

FreePids(k) == {p \in Pids : k.table[p].state \in {TERMINATED, UNDEFINED}}

----------------------------------------------------------------------------
(* The handlers.                                                           *)

\* Mutant: the process that is started stays READY.
StartNext_KeepsState(k) ==
  IF k.queue = <<>> THEN k
  ELSE [k EXCEPT !.processing = TRUE,
                 !.queue      = Tail(@),
                 !.out_put    = Append(@, CtrlApp(Head(k.queue))),
                 !.armed      = TRUE]

\* Mutant: the process that is started stays in the queue.
StartNext_KeepsQueue(k) ==
  IF k.queue = <<>> THEN k
  ELSE [k EXCEPT !.processing = TRUE,
                 !.out_put    = Append(@, CtrlApp(Head(k.queue))),
                 !.armed      = TRUE,
                 !.table[Head(k.queue).PID].state = RUNNING]

\* Mutant: the start message is queued but not scheduled.
StartNext_NotArmed(k) ==
  IF k.queue = <<>> THEN k
  ELSE [k EXCEPT !.processing = TRUE,
                 !.queue      = Tail(@),
                 !.out_put    = Append(@, CtrlApp(Head(k.queue))),
                 !.table[Head(k.queue).PID].state = RUNNING]

\* getNext, and the start of the process it returns.
StartNext(k) ==
  IF k.queue = <<>> THEN k
  ELSE [k EXCEPT !.processing = TRUE,
                 !.queue      = Tail(@),
                 !.out_put    = Append(@, CtrlApp(Head(k.queue))),
                 !.armed      = TRUE,
                 !.table[Head(k.queue).PID].state = RUNNING]

\* Mutant: the copy that goes into the queue lacks the priority.
JoinQueue_StaleCopy(k, pid) ==
  [k EXCEPT !.table[pid].state = READY,
            !.queue = Enqueue(k.scheduler, @,
                              [PCB(k, pid) EXCEPT !.priority = 0]),
            !.armed = TRUE]

JoinQueue(k, pid) ==
  [k EXCEPT !.table[pid].state = READY,
            !.queue = Enqueue(k.scheduler, @, PCB(k, pid)),
            !.armed = TRUE]

\* Mutant: a process starts although another one is running.
MakeReady_Preempts(k, pid) == StartNext(JoinQueue(k, pid))

\* Mutant: an idle kernel only enqueues.
MakeReady_NoStart(k, pid) == JoinQueue(k, pid)

\* The common part of responseMemory and doneIO: the process joins the queue,
\* and the first of the queue starts if nothing is running.
MakeReady(k, pid) ==
  IF k.processing THEN JoinQueue(k, pid) ELSE StartNext(JoinQueue(k, pid))

\* The entry of a new process is filled in and its memory is asked for.
AskMemory(k, pid, msg) ==
  [k EXCEPT !.table[pid].type     = msg.value2,
            !.table[pid].priority = Char(msg.value3),
            !.out_put = Append(@, RequestMemory(pid, msg.value4))]

\* A process of the input file.  next_internal is left as it is.
OnAppIn(k, msg) == AskMemory(k, msg.value, msg)

OnResponseMemory(k, msg) ==
  IF msg.value2 = MEMORY_NOT_OK
  THEN [k EXCEPT !.table[msg.value].state = UNDEFINED]
  ELSE MakeReady(k, msg.value)

OnDoneIO(k, msg) == MakeReady(k, msg.value)

\* Mutant: the flag is left set when the queue is empty.
OnStartIO_KeepsProcessing(k, msg) ==
  StartNext([k EXCEPT !.table[msg.value].state = WAITING])

OnStartIO(k, msg) ==
  StartNext([k EXCEPT !.table[msg.value].state = WAITING,
                      !.processing = FALSE])

\* The release is queued; it is scheduled only if another process starts.
OnProcessComplete(k, msg) ==
  StartNext([k EXCEPT !.table[msg.value].state = TERMINATED,
                      !.processing = FALSE,
                      !.out_put = Append(@, ReleaseMemory(msg.value))])

\* Mutant: the first entry of the table is taken without asking its state.
OnProcessFork_AnyPcb(k, msg) ==
  [AskMemory(k, Min(Pids), msg) EXCEPT !.armed = TRUE]

\* Mutant: the failure of get_free_pcb is not noticed.
OnProcessFork_Unchecked(k, msg) ==
  LET pid == IF FreePids(k) = {} THEN 0 ELSE Min(FreePids(k)) IN
  [k EXCEPT !.table = [p \in Pids |->
              IF p = pid THEN [@[p] EXCEPT !.type = msg.value2,
                                           !.priority = Char(msg.value3)]
              ELSE @[p]],
            !.out_put = Append(@, RequestMemory(pid, msg.value4)),
            !.armed = TRUE]

\* Mutant: the request of a fork is queued as that of appIn.
OnProcessFork_NotArmed(k, msg) ==
  IF FreePids(k) = {} THEN k ELSE AskMemory(k, Min(FreePids(k)), msg)

\* get_free_pcb returns the first free entry; without one the fork is dropped.
OnProcessFork(k, msg) ==
  IF FreePids(k) = {} THEN k
  ELSE [AskMemory(k, Min(FreePids(k)), msg) EXCEPT !.armed = TRUE]

\* One message of the bag; a port the kernel does not know is ignored.
KernelReceive(k, msg) ==
  CASE msg.port = "appIn"           -> OnAppIn(k, msg)
    [] msg.port = "responseMemory"  -> OnResponseMemory(k, msg)
    [] msg.port = "doneIO"          -> OnDoneIO(k, msg)
    [] msg.port = "startIO"         -> OnStartIO(k, msg)
    [] msg.port = "processComplete" -> OnProcessComplete(k, msg)
    [] msg.port = "processFork"     -> OnProcessFork(k, msg)
    [] OTHER                        -> k

\* external, and confluence, which only calls external: out_put is not
\* cleared.  A finite next_internal is 0 and so is the time that passed.
KernelExternal(k, bag) == HandleAll(KernelReceive, k, bag)

\* Mutant: the output is cleared but the model stays due.
KernelInternal_StaysArmed(k) == [k EXCEPT !.out_put = <<>>]

KernelInternal(k) == [k EXCEPT !.out_put = <<>>, !.armed = FALSE]

\* The state in which each message is expected: a process starts or finishes
\* while it runs, I/O ends for a process that waits for it, and memory is
\* asked for and granted only while the process is not alive.
Expected(k, msg) ==
  CASE msg.port = "startIO"         -> k.table[msg.value].state = RUNNING
    [] msg.port = "processComplete" -> k.table[msg.value].state = RUNNING
    [] msg.port = "doneIO"          -> k.table[msg.value].state = WAITING
    [] msg.port = "appIn"           -> msg.value \in FreePids(k)
    [] msg.port = "responseMemory"  -> msg.value \in FreePids(k)
    [] OTHER                        -> TRUE

----------------------------------------------------------------------------
(* The kernel on its own: any expected message, one at a time, and its     *)
(* internal transition, in any order.  The memory answers only what it was *)
(* asked.                                                                  *)

VARIABLES
  kernel,
  asked      \* the processes whose request was sent and is not answered

vars == <<kernel, asked>>

Init ==
  /\ kernel \in {InitialKernel(option) : option \in SchedulerOptions}
  /\ asked = {}

\* The processes asked for in out_put, which is sent whenever the model is due.
Requested == {kernel.out_put[i].value : i \in {j \in DOMAIN kernel.out_put :
                kernel.out_put[j].port = "requestMemory"}}

SentRequests == IF kernel.armed THEN Requested ELSE {}

\* MaxOutput bounds the output that piles up before an internal transition,
\* and before the next new process where nothing is scheduled.
Receive(msg) ==
  /\ kernel.armed => Len(kernel.out_put) < MaxOutput
  /\ Expected(kernel, msg)
  /\ kernel' = KernelReceive(kernel, msg)

NewProcess(port) ==
  [port : {port}, value : Pids, value2 : Types, value3 : Priorities,
   value4 : BlockSizes]

AppIn(msg) ==
  /\ Len(kernel.out_put) < MaxOutput
  /\ Receive(msg)
  /\ asked' = asked \cup SentRequests

ResponseMemory ==
  \E pid \in asked, answer \in 1 .. 2 :
    /\ Receive([port |-> "responseMemory", value |-> pid, value2 |-> answer])
    /\ asked' = (asked \ {pid}) \cup SentRequests

DoneIO ==
  /\ \E pid \in Pids : Receive([port |-> "doneIO", value |-> pid])
  /\ asked' = asked \cup SentRequests

StartIO ==
  /\ \E pid \in Pids : Receive([port |-> "startIO", value |-> pid])
  /\ asked' = asked \cup SentRequests

ProcessComplete ==
  /\ \E pid \in Pids : Receive([port |-> "processComplete", value |-> pid])
  /\ asked' = asked \cup SentRequests

\* Only a running program forks.
ProcessFork(msg) ==
  /\ kernel.processing
  /\ Receive(msg)
  /\ asked' = asked \cup SentRequests

Internal ==
  /\ kernel.armed
  /\ kernel' = KernelInternal(kernel)
  /\ asked' = asked \cup SentRequests

Next ==
  \/ \E msg \in NewProcess("appIn") : AppIn(msg)
  \/ \E msg \in NewProcess("processFork") : ProcessFork(msg)
  \/ ResponseMemory \/ DoneIO \/ StartIO \/ ProcessComplete
  \/ Internal

Spec == Init /\ [][Next]_vars

----------------------------------------------------------------------------
(* Properties.                                                             *)

InState(s) == {p \in Pids : kernel.table[p].state = s}

PcbSet == [PID : Pids, type : Types \cup {0}, priority : -128 .. 127]

OutputSet ==
  [port : {"ctrlApp"}, value : Pids, value2 : Types \cup {0}]
    \cup [port : {"requestMemory"}, value : Pids, value2 : BlockSizes]
    \cup [port : {"releaseMemory"}, value : Pids]

\* The type invariant of the kernel's state.
TypeOK ==
  /\ kernel \in [ scheduler  : SchedulerOptions,
                  processing : BOOLEAN,
                  queue      : Seq(PcbSet),
                  table      : [Pids -> [state    : States,
                                         type     : Types \cup {0},
                                         priority : -128 .. 127]],
                  out_put    : Seq(OutputSet),
                  armed      : BOOLEAN ]
  /\ asked \subseteq Pids

\* The flag processing, which decides whether the next ready process starts,
\* agrees with the table after every handler: it is set exactly when some
\* process is RUNNING, and never two are.
OneRunning ==
  /\ kernel.processing <=> InState(RUNNING) # {}
  /\ \A p, q \in InState(RUNNING) : p = q

\* The kernel never idles while a process could run.
WorkConserving == ~ kernel.processing => kernel.queue = <<>>

\* The scheduler's queue and the table tell the same story: the queue holds
\* exactly the READY processes, each once.
QueueIsReady ==
  /\ {kernel.queue[i].PID : i \in DOMAIN kernel.queue} = InState(READY)
  /\ \A i, j \in DOMAIN kernel.queue :
        kernel.queue[i].PID = kernel.queue[j].PID => i = j

\* The copies in the queue are never stale: the type and priority with which
\* a process waits are those of its table entry.
QueueMatchesTable ==
  \A i \in DOMAIN kernel.queue :
    kernel.queue[i] = PCB(kernel, kernel.queue[i].PID)

\* A start message in out_put is always scheduled to be sent.
StartsScheduled ==
  (\E i \in DOMAIN kernel.out_put : kernel.out_put[i].port = "ctrlApp")
    => kernel.armed

\* The life that the table gives a process.
LifeOf(s) ==
  CASE s = READY   -> "ready"
    [] s = RUNNING -> "running"
    [] s = WAITING -> "waiting"
    [] OTHER       -> "absent"
Life(k) == [p \in Pids |-> LifeOf(k.table[p].state)]

LifeCycle == INSTANCE ProcessLifeCycle WITH state <- Life(kernel)

\* Table, flag and queue implement the life cycle of processes: no handler
\* moves a process in any other way or moves a second one, except that a free
\* processor goes to a ready process in the same step.
LifeCycleSpec == LifeCycle!Spec
============================================================================
