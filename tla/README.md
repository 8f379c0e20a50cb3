# SimulationOS: specification and verification

TLA+ models of the operating-system simulation in `src/`, the TLC instances
that check them, and TLAPS proofs of what must hold for every instance.
`PROJECT.json` maps every definition to the lines it stands for.

## 1. The system

The program (`src/top_model/main.cpp`) is a PDEVS simulation of a small
operating system. Atomic models exchange bags of messages along fixed couplings,
driven by a coordinator in simulated time:

| part | source | state it keeps | operations |
|---|---|---|---|
| input stream | `vendor/input_event_stream.hpp` | the stream, one line read ahead, the next output | play the lines of one instant |
| kernel | `atomics/kernel.hpp` | process table, `processing`, scheduler, `out_put`, `next_internal` | `appIn`, `responseMemory`, `doneIO`, `startIO`, `processComplete`, `processFork` |
| schedulers | `include/FCFS.cpp`, `include/PriorityQueue.cpp` | a queue of PCB copies | `schedule`, `getNext` |
| memory | `atomics/memoryModel.hpp` | array of cells, table of blocks, answers | `requestMemory`, `releaseMemory` |
| program (one per PID) | `atomics/program.hpp` | type, counts of calls, timer | compute, then make a system call |
| read and write functions (per PID) | `atomics/rw_function.hpp` | `active`, timer | report `startIO`, later `doneIO` |
| system interface | `atomics/system_interface.hpp` | `out_put` | pass calls on |
| coordinator, runner | `include/boost/simulation/pdevs/` | `_last`, `_next`, `_inbox` of every model, with a future event list also that and the imminent models | one step for all models that are due |
| coupled models | `include/boost/simulation/pdevs/coupled.hpp` | sub-models and couplings | flattening, once, before the simulation |
| basic models | `include/boost/simulation/pdevs/basic_models/` | jobs, count, period or file, and the time to the next event | the transitions of generator, processor, infinite_counter, input_stream |

A process is born by a line of the input file or a fork: the kernel asks the
memory for a block, makes the process READY when it is granted, and starts the
first READY one when the processor is free. A program computes for a random
time, makes a system call through the interface, and either waits for one of its
I/O functions or exits.

What is hard: several models act at one instant, in an order nobody wrote down;
a model that receives a bag at the very moment its own output is due takes the
confluence path, which here keeps the output and sends it again; outputs that are
queued but not scheduled stay until something else schedules them; the kernel's
handlers trust that each message finds its process in the right state; random
times decide which messages coincide; a coordinator calls a simulator needlessly,
and a call without input still moves its clock. The complete list, with lines, is under
`hazards` in `PROJECT.json`.

What makes each part correct: the *kernel* starts one process at a time, never
idles while one is READY, and its flag, table and queue agree; the *schedulers*
return the oldest (most urgent) process and lose none; the *memory* never shares
or loses a cell and refuses only when it must; the *input stream* plays the file;
the *whole* keeps table and memory in agreement, times every computation
exactly, lets every instant end and every process terminate; the *simulator* does
what PDEVS says a coupled model does, whatever its structure.

## 2. Modules

| module | models |
|---|---|
| `Handling` | the loop over a bag of messages, and the one that joins bags |
| `Scheduler` | the insertion of both schedulers; `ReadyQueue` drives one alone, `ReadyPool` is the policy it must implement |
| `MemoryModel` | the allocator, as operators on a record, and alone with two kinds of clients; `MemoryAllocator` is what it promises |
| `Handling_proofs`, `MemoryModel_proofs`, `Scheduler_proofs`, `ReadyQueue_proofs`, `Kernel_proofs`, `InputEventStream_proofs` | the theorems and lemmas about the modules they are named after; `Kernel_proofs` is also about `KernelPriority` |
| `OSSim_proofs` | what one pass of the coordinator does in `OSSim`, and the theorems about `OSSim` |
| `Simulation_proofs` | the theorems about `Simulation`, with the lemmas about `CoupledModel`, `BasicModels` and `Hierarchy` |
| `Kernel` | the six handlers as operators on the kernel's record, and the kernel alone with every expected message; `ProcessLifeCycle` is what it promises; `KernelPriority` adds a history of the priorities as they were requested |
| `Program`, `RWFunction`, `SystemInterface` | the transitions of those models |
| `SimTime` | subtraction with infinity (`vendor/britime.hpp`) |
| `Coordinator` | due models, inboxes, visits, and the choice between internal and external |
| `InputEventStream` | reading ahead and playing the input file |
| `OSSim` | everything composed as `main.cpp` couples it |
| `CoupledModel` | descriptions of coupled models, and `flattened_coupled` |
| `BasicModels` | the library's four atomic models |
| `Hierarchy` | a tree of coordinators and simulators over such a description, in both variants, as operators on one record |
| `Simulation` | the runner with such a tree; `Pdevs` is what a simulation of coupled models promises |
| `MC*` | instances for TLC |

The handlers are operators from record to record (`KernelReceive(k, msg)`), so
that the stand-alone specifications and the composition run the same code. A
handler with all its assignments is one action: `OnProcessComplete` marks the
process, queues the release and starts the next one. Ports with a number
appended ("ctrlApp3") are a port and a value; fields that no receiver reads
are left out. `next_internal` of kernel, memory and interface is 0 or infinity,
a flag `armed`. The constructors of kernel and memory declare a local
`next_internal` that hides the member, which therefore starts at 0: both start
`armed`.

A step of `OSSim` is one `advanceSimulation` of the top model. All outputs are
collected before any transition runs and a transition touches only its own
model, so the order of the coordinator's loops is visible only in the order of
messages in a bag and in repeated visits, and both are modelled. Times are
relative to the present (`left` is `_next - now`, `since` is `now - _last`), so
the state space is finite although time is not bounded.

`Hierarchy` is the same code in general: a tree of any depth, with absolute times as
in the code and therefore a bound on time. Where the code recurses over the tree
(`init`, `collectOutputs`, `advanceSimulation`) there is a recursive function of the
node (`FirstTimes`, `Outputs`, `Calls`). `Calls` gives for each node a function from
trees to trees, since a coordinator calls its sub-models one after the other, each on
what the one before made of the tree; `Trees`, its domain, says what fields the
coordinators have and of what type.
`Pdevs` knows neither coordinators nor visits: at the soonest time at which an
atomic model is due, everything due outputs, and each model that is due or
receives something makes one transition. `Simulation` maps to it the states of
the atomic models and the times at which they are due, and the couplings of the
original description, also when the tree simulates the flattened one. That
is an implementation only as long as each simulator is called once in a pass and
for a reason (see section 5), which the record keeps in `needless`.

`Handling` defines its loops with `MapThenFoldSet`, as `FoldLeft` of the community
modules is defined, and does not extend the module that has `FoldLeft`: the names
that module brings along make every proof step several times slower.

Operators whose name ends in `_Word` after the name of another one are mutants:
the plausible mistake in that code which a property must notice.

## 3. Runs

| run | module, cfg | shows |
|---|---|---|
| memory_any_client | MCMemoryModel, MemoryAnyClient | table within marked cells, blocks disjoint, answers scheduled, even when clients ask twice |
| memory_owners | MCMemoryModel, MemoryOwners | no cell lost; the array implements `MemoryAllocator`; a request is refused only when no hole is long enough |
| ready_queue | MCReadyQueue, ReadyQueue | both queues lose nothing and implement `ReadyPool` |
| kernel | MCKernelPriority, Kernel | flag, table, queue and output agree after every order of expected messages; lower priority values first; the kernel implements `ProcessLifeCycle` |
| input_files | MCInputEventStream, InputFiles | a file is played in order, one output an instant, completely if it has no fault; one with a fault fails the program |
| ossim | MCOSSim, OSSim | three I/O processes, or a forking one alone or beside an I/O process, both schedulers: what the kernel expects of its messages holds, one program computes at a time, no process is forgotten, no PID or block is given out twice, table and memory agree, times are exact, instants end, ready processes run, requests are sent, processes terminate |
| coupled_models | MCSimulation, CoupledModels | coupled models, nested and flattened, with either coordinator, simulate what `Pdevs` says unless a simulator is called needlessly, which never happens in a flattened model that is polled; jobs are kept, times agree and instants end also otherwise |
| kernel_large_priority | MCKernelPriority, KernelLargePriority | *violation*: 128 becomes -128 and overtakes |
| ossim_idle_kernel | MCOSSim, OSSimIdleKernel | *violation*: an arrival in an idle kernel is never served |
| ossim_last_release | MCOSSim, OSSimLastRelease | *violation*: the last release is never sent |
| ossim_late_arrival | MCOSSim, OSSimLateArrival | *violation*: a request sent twice loses cells |
| nested_processing | MCSimulation, NestedProcessing | *violation*: a job in a nested processor takes longer than its processing time |

### Bounds, and why they are enough

* PIDs 1..3 (20 in the code): one running, one ready and one waiting, or two
  competing for one thing while a third acts. The handlers treat PIDs alike,
  except that `get_free_pcb` takes the lowest.
* Memory of 3 or 4 cells with blocks up to one cell more than fits: holes at both
  ends and in the middle, fragmentation, refusal, the block of the whole size.
* `MaxReplies`, `MaxOutput` 2 and `MaxReady` 4 bound output that piles up between
  two transitions; the composition has no such bound, its outputs are bounded
  by the behaviour itself.
* An I/O program makes 2 calls (10 in the code), so one read and one write before
  it exits; a forking one 2 forks (15). Both limits are
  reached, and PIDs of terminated I/O processes are given out again to forks.
* Times of computation 1..3, I/O time 3: shorter, equal and longer, so that every
  coincidence of two events at one instant occurs. The runs that show a violation
  of `OSSim` need less and take I/O time 2.
* Input files of `OSSim`: all processes at time 0, as in the files that come with
  the program, and for two of the violations later arrivals.
* Files of the input stream: all of up to five lines with three times and two
  messages, blank lines anywhere. A fault takes four lines at most.
* `Simulation`: five coupled models (one machine, two in a row or side by side
  inside a sub-model, two sub-models in a row, a sub-model in a sub-model), periods
  and processing times 1..4, until time 10: idle and busy machines are given jobs,
  two at once too, all combinations of events coincide, and the lists hold stale
  entries. Both variants and the flattened form are run on each.

### Fairness

`OSSim` assumes `WF_vars(Step)`: the loop of `runUntil` runs its body as long as
anything is due. `InputEventStream` assumes the same of its one action. Nothing
else is fair: the random numbers are arbitrary, not fair. `Simulation` is deterministic
once its model is chosen, and that its instants end is stated as a bound on the
passes of the loop at one time, which needs no fairness. `runUntil` is called
with 100000, which liveness ignores: it says what happens if the time suffices.

### Deadlock

Deadlock is checked everywhere but in the two runs of the kernel alone: an idle
kernel whose request is not scheduled really has nothing to do there. The
composition and the input stream stop by an explicit step that changes nothing.

## 4. Proofs

`MemoryModel_proofs` proves for every set of PIDs, every memory size and all
block sizes:

* `MemorySafe`: type, recorded cells marked, blocks disjoint, for any client. The
  three are inductive together: a grant needs that recorded cells are marked to
  know that a hole is nobody's, a release needs that blocks are disjoint to know
  that it unmarks nothing of another's.
* `MemoryAnswers`: no answer waits unscheduled.
* `MemoryNoLeak`: with clients that own one block at a time, marked cells are
  exactly the recorded ones. That the kernel is such a client when all processes
  arrive together is `OSSimInputs`, below.
* `MemoryImplementsAllocator`: the first-fit array implements the abstract
  allocator, with the owned cells as the refinement mapping.
* `MemoryRefusals`: with such clients a request is refused only when no run of
  free cells is long enough. `MemoryAllocator` alone cannot say so: an answer
  does not carry the size, so it would accept the refusal of a small request as
  that of a large one.

They assume `MemoryAssumption` (block sizes are positive, sizes and PIDs are
naturals), which TLC evaluates on every run.

`Scheduler_proofs` proves for PCBs of any kind that `Enqueue` inserts at one place
and keeps the order of the others (`EnqueueInserts`).

`ReadyQueue_proofs` proves for PCBs with any integers as priorities and queues of
any length that the queue implements `ReadyPool` (`QueueImplementsPolicy`) and loses
no PCB (`QueueLosesNothing`). Queue and order of arrival may hold equal PCBs several
times, so the invariant `Arranged` carries a permutation between the places of the
two, with which the queue is ordered by priority and, among equals, by arrival. It
leads from the head of the queue to the place in the order of arrival at which the
policy chooses, and pairs the places of each PCB, so that there are as many of them
on either side. `PCBsAssumption` says that priorities are integers.

`Kernel_proofs` proves for every set of PIDs, all integers as priorities and both
schedulers, in `KernelSafe`, every invariant that the run *kernel* checks. The
invariants are inductive only together (`Consistent`): the flag that is cleared
when a process leaves is right because one process ran at most; the process that
starts was READY, and so not the one that left, because the queue holds exactly
the READY processes; a new process may overwrite its table entry because it is
not in the queue, so that no copy there becomes stale. A handler such as
`OnStartIO` first changes the state of its process and then starts the next, and
in between the state is only `Settled`: `StartNextConsistent` is the lemma that
leads back. `KernelImplementsLifeCycle` proves from the same invariant that the
kernel implements `ProcessLifeCycle`, with the states of the table as the refinement
mapping (terminated and undefined are both "absent"): a handler moves its process
once and gives the free processor away in the same step. Both theorems assume
`KernelAssumption` and, as the specification does,
that each message finds its process in the state `Expected`; that the composed
system sends only such messages is `OSSimInputs`, below.

`KernelLowerFirst`, in the same module, is about `KernelPriority`: if the priorities
of the requests fit a signed char, `LowerValueFirst` holds for every set of them and
every table. By `Consistent` the copies in the queue are those of the table; in
addition the queue stays sorted, and the table has the priorities of the requests.
The condition cannot be dropped, as the run *kernel_large_priority* shows.

`InputEventStream_proofs` proves `OutputsAscend` for files of any length, with blank
lines and lines out of order anywhere: `OneOutputPerInstant` is inductive together
with the fact that the line read ahead, if there is one, is of a later instant than
the output that waits, which holds because `SameInstant` takes as many lines as it
can and an earlier line ends the program. `PlaysTheFileAlways` proves for the same
files that what was sent is always a beginning of the file's events, each at its
time. The invariant (`Keeps`) is that the events sent, those of the output that
waits, the line read ahead and the rest of the stream make up the file, as long as
a line is read ahead; without one the program holds the stream to be at its end,
which a blank line can make it believe too early, and what was sent and waits is only
a beginning. `FilesAssumption` says that a line is blank or has a time and a message.

`OSSim_proofs` is about the composition, for every set of PIDs, memory, times of
computation, limits of calls and forked children, and both schedulers. Its first part
says what a pass of the coordinator does: what the inbox of each model holds, which
models are visited how often and make which transition, and what becomes of the
coordinator's times. From that it proves

* `OSSimInputs`: every message finds its process in the state that the kernel's handler
  counts on, and the memory is never asked for a process that owns a block. So what
  `KernelSafe` and `MemoryNoLeak` assume about their clients is true of the program;
* `OSSimProcessor`: one program computes at a time, that of the RUNNING process, who is
  never forgotten, and WAITING means that one operation is at work;
* `OSSimProcesses`: table and memory agree on who lives, and a PID that is given out
  again has a program that starts over;
* `OSSimMemory`: no cell is lost and none is shared (`MP!Whole`, kept on top of the
  invariant below);
* `OSSimTimers`: a computation takes the time drawn for it, an action property;
* `OSSimTypes`: the type invariant.

The inductive invariant `IInv` has ten parts. `InvKernel`, `InvMemory`, `InvSci` and
`InvPrograms` are those of the models, `InvTimes` says that the coordinator's times are
those of the timers. The others relate the models. `InvTokens`: a RUNNING process is at
one place, its start on the way, computing, its call on the way, or its operation
about to begin, and no other process is at any; while the kernel has something to say,
a time of computation was drawn in the same instant, so that the message that comes
past does not shorten it. `InvKinds`: a program is of the type the kernel has for
it. `InvCounts`: the calls counted fit the life of the process. `InvBlocks`: requests,
releases and answers are about processes that are not alive, an answer is OK just
when there is a block, and no request is followed by another one, or a
release, of the same process. `InvPhases` says who may speak in the same instant as
whom, for instance that nothing reaches the kernel while a request waits to be sent,
which is what keeps the confluence from sending it twice.

A step is a pass of one of six kinds, by who sends to the kernel: the generator,
an operation or a program whose time has come, the interface, the memory, an operation
that begins, or nobody. For each kind there is a lemma on who is due, what the bag of
the kernel is and what the handlers make of it (`WakeBagEffect`, `CallBagEffect` and
`ArrivalBagEffect` of `Kernel_proofs`, `ClientBagEffect` of `MemoryModel_proofs`, by
induction over the bag), and each part of the invariant follows from these.

All of this is for input files whose processes arrive together, none of them twice
(`Workloads \subseteq OneInstant`): the input files that come with the program,
`input.txt`, `input2.txt` and `input3.txt`, are of that kind, at any time and with any
number of processes, types, priorities and sizes. With later arrivals the theorems
are false, as the run *ossim_late_arrival* shows. The other assumptions are those on
the constants (`OSSimAssumption`, `ProgramAssumption`, `FunctionAssumption`,
`TimeAssumption`), which TLC evaluates.

`Simulation_proofs` is about the library's simulator: for every coupled model, of any
depth and with any couplings, nested or flattened, with either coordinator, for every
state of its atomic models and every time the runner is given, it proves

* `CoordinatorsKnow` (`NextIsSoonest`): between two passes every coordinator knows the
  time of its soonest sub-model, and a future event list has handed out exactly the
  sub-models due then, although replaced entries are never removed from it;
* `NothingIsLeft` (`PassesComplete`): a pass leaves nothing in any inbox, no assert of
  `advanceSimulation` fails, and no model that must not receive anything is called
  with input;
* `FlatIsExact` (`FlatNeverNeedless`): the polling coordinator of a model of one level
  calls no simulator twice in a pass, and none without being due or having input,
  even where one model is coupled to another several times. In the run
  *coupled_models* a simulation without needless calls is the one of `Pdevs`, so
  this is what flattening is good for. It rests on atomic models whose outputs are
  never empty, as those of the library; the program's own models do send empty
  outputs, and what comes of that is in `OSSim`;
* `TypeHolds`: the type invariant.

The inductive invariant `IInv` says that the description is a tree, that nothing is
coupled to the input of the top, and that the simulation is `Idle`: `Sound` (types,
`_last` is not after the present and `_next` not before it, the states of the atomic
models are possible ones that promise no time beyond infinity), all inboxes empty,
and `Soonest` for every coordinator. `Soonest` strengthens `NextIsSoonest`, which is
not inductive with a future event list: it adds that every later sub-model has an
entry at its present time, since the next list of imminent models comes out of these.

`Idle` does not hold within a pass, where a call is made on a tree with full inboxes
and with coordinators above whose knowledge is out of date. `Advances` is the contract
of one call: the tree stays sound, the times of other models at the same depth or
higher stay as they are, no inbox fills and that of the called model is empty, and
every coordinator but the caller still knows its soonest sub-model. It is proved for
all nodes from the leaves upwards (`Upwards`, an induction over the height that takes
the least counterexample), and for a coordinator by two loops: `Posting` for the
messages, `Underway` for the calls, where an inbox that was filled belongs to a model
that is still to be visited. `Reschedule` then makes the coordinator know its soonest
again, and empties its inbox. That a flattened description is a tree with the same
atomic models is `FlattenedIs`; for a description of one level the list of those to
visit has no repetitions (`PolledCalls`), because no output of an atomic model is
empty, which is just what fails for a coupled sub-model.

The theorems assume `SimulationAssumption`, that the models simulated (`Worlds`) are
trees whose atomic models are in states that their constructors and transitions can
produce (`AtomicStates`), with finite durations that do not reach infinity before the
end, and that generators and streams receive nothing, as their own asserts demand.
TLC evaluates it on the runs' models.

`Handling_proofs` has the lemmas on the loop over a bag: it is a run through states, one
for each message, and what holds at the start and is kept by each message holds in
the end. The induction takes the least message that breaks it, since the induction
theorems of the library cannot be used.

Only model-checked: liveness, of the composition and of the input stream
(`FailsOnlyOnFaults`: that a file is played completely, or fails the program), which is
out of the prover's reach. Of the simulator, `JobsAreKept` and `InstantsEnd`, which are
about the particular models of the run and false for some others (a coupling that is
there twice doubles a job; two counters that ask each other never end an instant), and
`ExactUnlessNeedless`: that the transitions are those of `Pdevs` needs, beside the
invariant above, what the bags hold after any number of nested calls.

## 5. What the models say about the code

With all processes arriving at time 0 everything checked holds, except that the
last release is never sent. The violations are described under `findings`.
The fifth, `nested_processing`, is about the library and cannot happen in the
program, whose only coupled model is flat. Further deviations were met while
modelling and are not runs: a request for
the whole memory is granted although `memoryModel.hpp:126` calls it too large; a
process that does not fit is refused for good, where `readme.md` promises
swapping; a blank line that follows two lines of one instant in the input file,
with more lines after it, ends the program by an exception out of a noexcept
function, as do lines out of order (`Faulty` of `InputEventStream` lists them).

A coordinator calls a simulator needlessly in three ways, which `coupled_models`
counts in `needless` and after which the simulation is no longer the one PDEVS
defines:

* a coordinator that is advanced for an output of its own passes its input on
  although it is empty, and the receivers are visited (`coordinator.hpp:473`);
* a receiver whose first sender has an empty output, as a coupled model may, is
  entered for two visits (`:486`). If the first makes it due at once, as a question
  does a counter, the second runs its internal transition in the same pass and
  the answer is never collected;
* the future event list keeps the entry of a model that receives something. If
  the time stays the same the entry is not recognised as replaced (`:277`,
  `:288`), the model is listed twice as imminent, outputs twice and makes two
  transitions, so that a busy processor that receives a job loses one. A
  coordinator of this variant also advances its imminent models when it only has
  input (`:265`).

The run *nested_processing* shows what the first leads to. The other two are counted
and not caught: `ExactUnlessNeedless` says that nothing else goes wrong.

`flattened_coupled` removes one level: of a coupled model within a coupled model
the inner one stays, although `coupled.hpp:107` promises a single level. `runner`
uses `nullqueue` whatever its `FEL` parameter is.

Late arrivals are a different regime: a request can be lost, or sent twice. In the
run *ossim_late_arrival* a process arrives while another one lives, and its request
waits, queued but not scheduled, until the `doneIO` of an operation makes the kernel
schedule a start. In the pass in which both are sent the interface relays that same
`doneIO` to the kernel, whose confluence keeps them and sends them again. The second
allocation replaces the record of the first, whose cells are lost, and the answers
can keep an instant from ending. The passing runs of `OSSim` therefore stay with
simultaneous arrivals.

## 6. Not modelled

* `atomicCDBoost.hpp` and its demonstration: a skeleton with placeholders.
* `programForks.hpp`: an earlier forking program, instantiated nowhere.
* `queues.c`: called nowhere, and it calls a function that nothing declares.
* `2main.cpp`: an earlier top model that no longer fits the kernel's constructor.
* The rational arithmetic of times, parsing and printing, and the log of `runner`,
  which calls `out()` once more than the coordinator does, so that the logged size
  of a fork is not the one delivered.
* The order in which `std::priority_queue` returns entries of equal time is left
  open by the library; `Hierarchy` takes the order of their entry.

## 7. Plan

1. Done: memory, schedulers, kernel, composition, input stream, coupled models
   with both coordinators; the abstract allocator, policy, life cycle and PDEVS
   simulation; the proofs above, with those about the messages of the composition
   and about trees of coordinators.
2. The composition with arrivals in several batches: which of the properties
   survive, and a kernel with a confluence that clears its output, to show that
   the properties come back.
3. Proofs: the first half of `FailsOnlyOnFaults` as an invariant (only a file with a
   fault fails); that a flat model under a polling coordinator implements `Pdevs`, on
   top of `FlatIsExact`: which bag reaches each model, as `OSSim_proofs` has it for
   the program's own models.
