------------------------------ MODULE OSSim ------------------------------
(***************************************************************************)
(* The whole simulation of top_model/main.cpp: the generator that plays    *)
(* the input file, the kernel, the system interface, the memory, and for   *)
(* each process a program and its two I/O functions, coupled as in main    *)
(* and driven by the coordinator.  A step is one pass of the runner's      *)
(* loop.  The nondeterminism is that of the program: the times, sizes and  *)
(* priorities drawn from rand(), and the input file.                       *)
(***************************************************************************)
EXTENDS Program, RWFunction, SystemInterface

CONSTANTS
  Pids,            \* 1..20 in main
  MemorySize,      \* 10000 in main
  BlockSizes,      \* the sizes in the input file and of the forks
  ExecTimes,       \* the results of rand() % 100 + 1
  Children,        \* the [size, priority] that a fork may draw
  Workloads        \* the input files: sequences of [wait, arrivals]

ASSUME OSSimAssumption ==
  /\ IsFiniteSet(Pids) /\ Pids = 1 .. Cardinality(Pids)
  /\ MemorySize \in Nat
  /\ BlockSizes \subseteq Nat \ {0}
  /\ ExecTimes \subseteq 1 .. Infinity - 1
  /\ Children \subseteq [size : BlockSizes, priority : Int]

VARIABLES
  generator, kernel, sci, memory, program, write, read,
  left, since      \* the coordinator's times, see module Coordinator

vars == <<generator, kernel, sci, memory, program, write, read, left, since>>

----------------------------------------------------------------------------
(* The models and their couplings.                                         *)

Generator  == <<"generator", 0>>
KernelM    == <<"kernel", 0>>
SciM       == <<"sci", 0>>
MemoryM    == <<"memory", 0>>
ProgramM(p) == <<"program", p>>
WriteM(p)   == <<"write", p>>
ReadM(p)    == <<"read", p>>

ModelOrder ==
  <<Generator, KernelM, SciM, MemoryM>>
    \o Flatten([p \in Pids |-> <<ProgramM(p), WriteM(p), ReadM(p)>>])

Couplings ==
  {<<Generator, KernelM>>, <<SciM, KernelM>>, <<KernelM, MemoryM>>,
   <<MemoryM, KernelM>>}
    \cup UNION {{<<ProgramM(p), SciM>>, <<KernelM, ProgramM(p)>>,
                 <<SciM, ReadM(p)>>, <<SciM, WriteM(p)>>,
                 <<ReadM(p), SciM>>, <<WriteM(p), SciM>>,
                 <<ReadM(p), KernelM>>, <<WriteM(p), KernelM>>} : p \in Pids}

Ker == INSTANCE Kernel WITH asked <- {}, MaxOutput <- 0,
         Types <- {PROGRAM_IO, PROGRAM_FORK},
         Priorities <- {c.priority : c \in Children}
Mem == INSTANCE MemoryModel WITH mem <- memory, MaxReplies <- 0
Sim == INSTANCE Coordinator

\* Models whose external transition looks at the time that passed.
Timed == {ProgramM(p) : p \in Pids} \cup {WriteM(p) : p \in Pids}
           \cup {ReadM(p) : p \in Pids}

----------------------------------------------------------------------------
(* The generator: input_event_stream over the lines of the input file,     *)
(* which come in batches of equal time, each with the time since the last. *)

GeneratorInternal(g) == Tail(g)

Wait(g) == IF g = <<>> THEN Infinity ELSE Head(g).wait

----------------------------------------------------------------------------

Arming(flag) == IF flag THEN 0 ELSE Infinity

\* advance() of each model.
TimeAdvance(m) ==
  CASE m = Generator -> Wait(generator)
    [] m = KernelM   -> Arming(kernel.armed)
    [] m = SciM      -> Arming(sci.armed)
    [] m = MemoryM   -> Arming(memory.armed)
    [] m[1] = "program" -> program[m[2]].next_internal
    [] m[1] = "write"   -> write[m[2]].next_internal
    [] m[1] = "read"    -> read[m[2]].next_internal

\* out() of each model that is due; child is what a fork draws.
OutputOf(m, child) ==
  CASE m = Generator -> Head(generator).arrivals
    [] m = KernelM   -> kernel.out_put
    [] m = SciM      -> sci.out_put
    [] m = MemoryM   -> memory.out_put
    [] m[1] = "program" -> ProgramOut(program[m[2]], m[2], child)
    [] m[1] = "write"   -> FunctionOut(write[m[2]])
    [] m[1] = "read"    -> FunctionOut(read[m[2]])

Outputs(child) == [m \in Sim!Due(left) |-> OutputOf(m, child)]

Forks(p) == program[p].type = PROGRAM_FORK /\ ProgramM(p) \in Sim!Due(left)

\* The programs that draw a new time in this step.
Draws(calls) ==
  {p \in Pids : Forks(p) \/ Starts(calls[ProgramM(p)].inbox, p) # {}}

Init ==
  /\ generator \in Workloads
  /\ kernel \in {Ker!InitialKernel(o) : o \in Ker!SchedulerOptions}
  /\ sci     = InitialInterface
  /\ memory  = Mem!InitialMemory
  /\ program = [p \in Pids |-> InitialProgram]
  /\ write   = [p \in Pids |-> InitialFunction]
  /\ read    = [p \in Pids |-> InitialFunction]
  /\ left    = [m \in Sim!Models |-> TimeAdvance(m)]
  /\ since   = [m \in Timed |-> 0]

\* The transitions of all the models in one step, d time units after the last
\* one; calls is what each of them finds, draw gives the programs' times.
Transitions(d, calls, draw) ==
  /\ generator' = IF calls[Generator].due
                  THEN GeneratorInternal(generator) ELSE generator
  /\ kernel' = Sim!Advance(calls[KernelM], kernel, 0, Ker!KernelInternal,
                           LAMBDA s, bag, t : Ker!KernelExternal(s, bag),
                           LAMBDA s : s.armed)
  /\ sci' = Sim!Advance(calls[SciM], sci, 0, InterfaceInternal,
                        LAMBDA s, bag, t : InterfaceExternal(s, bag),
                        LAMBDA s : s.armed)
  /\ memory' = Sim!Advance(calls[MemoryM], memory, 0, Mem!MemoryInternal,
                           LAMBDA s, bag, t : Mem!MemoryExternal(s, bag),
                           LAMBDA s : s.armed)
  /\ program' = [p \in Pids |->
       Sim!Advance(calls[ProgramM(p)], program[p], since[ProgramM(p)] + d,
                   LAMBDA s : ProgramInternal(s, draw[p]),
                   LAMBDA s, bag, t : ProgramExternal(s, p, bag, t, draw[p]),
                   LAMBDA s : s.next_internal = 0)]
  /\ write' = [p \in Pids |->
       Sim!Advance(calls[WriteM(p)], write[p], since[WriteM(p)] + d,
                   FunctionInternal,
                   LAMBDA s, bag, t :
                     FunctionExternal(s, "WriteFunction", p, bag, t),
                   LAMBDA s : s.next_internal = 0)]
  /\ read' = [p \in Pids |->
       Sim!Advance(calls[ReadM(p)], read[p], since[ReadM(p)] + d,
                   FunctionInternal,
                   LAMBDA s, bag, t :
                     FunctionExternal(s, "ReadFunction", p, bag, t),
                   LAMBDA s : s.next_internal = 0)]

\* Mutant: a visit without messages moves _next as if a transition had run.
Times_EmptyVisitReschedules(d, calls) ==
  /\ left' = [m \in Sim!Models |->
                IF Sim!Called(calls[m]) THEN TimeAdvance(m)'
                ELSE Minus(left[m], d)]
  /\ since' = [m \in Timed |->
                 IF Sim!Called(calls[m]) \/ TimeAdvance(m)' = Infinity THEN 0
                 ELSE since[m] + d]

\* The simulators' _next and _last.  A call with an empty inbox moves _last
\* alone.  The time since _last matters only while a timer runs, and is kept
\* at 0 otherwise.
Times(d, calls) ==
  /\ left' = [m \in Sim!Models |->
                IF Sim!Runs(calls[m]) THEN TimeAdvance(m)'
                ELSE Minus(left[m], d)]
  /\ since' = [m \in Timed |->
                 IF Sim!Called(calls[m]) \/ TimeAdvance(m)' = Infinity THEN 0
                 ELSE since[m] + d]

\* One pass of the loop of runUntil.
Step ==
  \E d \in {Sim!Soonest(left)} :
  /\ d # Infinity
  /\ \E child \in IF \E p \in Pids : Forks(p) THEN Children
                  ELSE {CHOOSE c \in Children : TRUE} :
       \E out \in {Outputs(child)} :
       \E calls \in {Sim!Calls(out)} :
       \E draw \in [Draws(calls) -> ExecTimes] :
         /\ Transitions(d, calls, [p \in Pids |->
                           IF p \in DOMAIN draw THEN draw[p] ELSE Infinity])
         /\ Times(d, calls)

\* Nothing is due any more: the loop has ended.
Finished ==
  /\ Sim!Soonest(left) = Infinity
  /\ UNCHANGED vars

Next == Step \/ Finished

\* The runner's loop goes on for as long as anything is due.
Spec == Init /\ [][Next]_vars /\ WF_vars(Step)

----------------------------------------------------------------------------
(* Properties.                                                             *)

State(p) == kernel.table[p].state
Alive(p) == State(p) \in {Ker!READY, Ker!RUNNING, Ker!WAITING}

InQueue(out_put, port, p) ==
  \E i \in DOMAIN out_put : out_put[i].port = port /\ out_put[i].value = p

\* The messages m receives in the step that comes next; what the kernel and
\* the memory receive does not depend on what a program draws, save the size
\* and priority of a fork.
NextInbox(m) ==
  IF Sim!Soonest(left) = Infinity THEN <<>>
  ELSE Sim!Inbox(m, Outputs(CHOOSE c \in Children : TRUE))

\* Every message the kernel handles finds its process in the state that the
\* kernel's handlers count on (Expected of module Kernel).
KernelInputsExpected ==
  \A bag \in {NextInbox(KernelM)} :
    \A i \in DOMAIN bag :
      Ker!Expected(Ker!KernelExternal(kernel, SubSeq(bag, 1, i - 1)),
                   bag[i])

\* The memory is never asked for a process that owns a block already: the
\* kernel is a client of the kind OwnersSpec of MemoryModel.
OneBlockPerProcess ==
  \A bag \in {NextInbox(MemoryM)} :
    \A i \in DOMAIN bag :
      bag[i].port = "requestMemory" =>
        Mem!MemoryExternal(memory, SubSeq(bag, 1, i - 1))
          .memoryTable[bag[i].value] = Mem!NoBlock

\* There is one processor: of all the programs at most one has a timer
\* running, and it is that of the process the kernel holds to be RUNNING.
Computing == {p \in Pids : program[p].next_internal # Infinity}

OnlyRunningComputes ==
  /\ \A p, q \in Computing : p = q
  /\ \A p \in Computing : State(p) = Ker!RUNNING /\ kernel.processing

\* A process the kernel holds to be RUNNING is never forgotten: its start is
\* on the way, or it computes, or its system call is on the way.
RunningMakesProgress ==
  \A p \in Pids : State(p) = Ker!RUNNING =>
    \/ kernel.armed /\ InQueue(kernel.out_put, "ctrlApp", p)
    \/ program[p].next_internal # Infinity
    \/ sci.armed /\ \E port \in {"ReadFunction", "WriteFunction",
                                "processComplete"} :
                      InQueue(sci.out_put, port, p)
    \/ write[p].next_internal = 0 \/ read[p].next_internal = 0

\* A process WAITS exactly as long as one of its two I/O functions is at work.
WaitingMeansIO ==
  \A p \in Pids :
    (State(p) = Ker!WAITING) <=> (write[p].active # read[p].active)

\* The process table and the memory agree: a live process owns a block, and a
\* block without a live process is one just granted, or one whose release the
\* kernel has yet to send.
BlocksFollowProcesses ==
  \A p \in Pids :
    /\ Alive(p) => memory.memoryTable[p] # Mem!NoBlock
    /\ memory.memoryTable[p] # Mem!NoBlock =>
         \/ Alive(p)
         \/ InQueue(memory.out_put, "responseMemory", p)
         \/ InQueue(kernel.out_put, "releaseMemory", p)

\* A PID can be given out again as soon as its process has terminated: the
\* program with that PID is at rest by then, and an I/O program has all its
\* calls before it again.
ProgramsStartOver ==
  \A p \in Pids : State(p) \in {Ker!TERMINATED, Ker!UNDEFINED} =>
    /\ program[p].next_internal = Infinity
    /\ program[p].IO_count = 0

\* A computation takes exactly the time that was drawn for it: as long as a
\* program is not started anew, its end comes nearer by the time that passes.
TimersKept ==
  [][\A p \in Pids :
       (/\ left[ProgramM(p)] \notin {Infinity, Sim!Soonest(left)}
        /\ left'[ProgramM(p)] # Infinity
        /\ ~ InQueue(kernel.out_put, "ctrlApp", p))
       => left'[ProgramM(p)] = left[ProgramM(p)] - Sim!Soonest(left)]_vars

\* Every instant ends: time passes again and again until nothing is due.
InstantsEnd == []<>(Sim!Soonest(left) > 0)

\* Every process that gets ready runs, whatever its priority.
ReadyRuns == \A p \in Pids : State(p) = Ker!READY ~> State(p) = Ker!RUNNING

\* Every process that came to life terminates.
Completion == \A p \in Pids : Alive(p) ~> State(p) = Ker!TERMINATED

\* No cell of the memory is taken without a record (NoLeak of MemoryModel).
MemoryNoLeak == Mem!NoLeak

Queued(port, p) == InQueue(kernel.out_put, port, p)

\* Every request for memory that a handler queues for an arriving or forked
\* process leaves the kernel, so that no process waits for memory forever.
RequestsSent ==
  \A p \in Pids : Queued("requestMemory", p) ~> ~ Queued("requestMemory", p)

\* Every release of memory that processComplete queues reaches the memory.
ReleasesSent ==
  \A p \in Pids : Queued("releaseMemory", p) ~> ~ Queued("releaseMemory", p)

\* The type invariant: the state of every part, and the times.
TypeOK ==
  /\ Ker!TypeOK
  /\ Mem!TypeOK
  /\ sci.armed \in BOOLEAN
  /\ \A p \in Pids :
       /\ program[p].type \in {0, PROGRAM_IO, PROGRAM_FORK}
       /\ program[p].IO_count \in 0 .. IoCalls
       /\ program[p].fork_count \in 0 .. ForkCalls + 1
       /\ write[p].functionNumber \in {1, p}
       /\ read[p].functionNumber \in {1, p}
  /\ left \in [Sim!Models -> Nat]
  /\ since \in [Timed -> Nat]
============================================================================
