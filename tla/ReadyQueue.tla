---------------------------- MODULE ReadyQueue ----------------------------
(***************************************************************************)
(* A scheduler on its own: any PCBs are scheduled and taken in any order.  *)
(* The order of arrival is kept as a history and the queue is shown to     *)
(* implement the policy that ReadyPool states on that order.               *)
(***************************************************************************)
EXTENDS Scheduler, SequencesExt

CONSTANTS
  PCBs,      \* the PCBs that are scheduled: records with a priority field
  NoPCB,     \* what getNext leaves to the caller when it fails
  MaxReady   \* bound on the length of the queue

ASSUME PCBsAssumption == \A pcb \in PCBs : pcb.priority \in Int

VARIABLES
  option,    \* which of the two schedulers it is
  queue,     \* the PCBs in the order in which getNext will return them
  nextPCB,   \* the result of the last getNext
  arrived    \* history: the PCBs in the queue, in their order of arrival

vars == <<option, queue, nextPCB, arrived>>

Init ==
  /\ option \in SchedulerOptions
  /\ queue = <<>>
  /\ nextPCB = NoPCB
  /\ arrived = <<>>

schedule(pcb) ==
  /\ Len(queue) < MaxReady
  /\ queue' = Enqueue(option, queue, pcb)
  /\ arrived' = Append(arrived, pcb)
  /\ UNCHANGED <<option, nextPCB>>

getNext ==
  \/ /\ queue # <<>>
     /\ nextPCB' = Head(queue)
     /\ queue' = Tail(queue)
     /\ arrived' = RemoveFirst(arrived, Head(queue))
     /\ UNCHANGED option
  \/ /\ queue = <<>>
     /\ nextPCB' = NoPCB
     /\ UNCHANGED <<option, queue, arrived>>

Next == (\E pcb \in PCBs : schedule(pcb)) \/ getNext

Spec == Init /\ [][Next]_vars

----------------------------------------------------------------------------

\* The queue holds exactly the PCBs that arrived and were not yet returned,
\* each as often as it arrived: neither insertion nor removal loses one.
NothingLost ==
  \A pcb \in PCBs :
    Cardinality({i \in DOMAIN queue : queue[i] = pcb}) =
      Cardinality({i \in DOMAIN arrived : arrived[i] = pcb})

\* The queue implements the policy stated on the order of arrival alone: FCFS
\* returns the oldest PCB, PriorityQueue the oldest of those with the lowest
\* priority value, and getNext fails only when nothing is waiting.
Policy == INSTANCE ReadyPool WITH
            byPriority <- option = SCHEDULER_PRIORITY

PolicySpec == Policy!Spec
============================================================================
