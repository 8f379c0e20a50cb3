---------------------------- MODULE Scheduler ----------------------------
(***************************************************************************)
(* The two ready queues behind the Scheduler interface                     *)
(* (include/Scheduler.hpp): FCFS (include/FCFS.cpp) and PriorityQueue      *)
(* (include/PriorityQueue.cpp).  Both are a sequence of PCBs; the linked   *)
(* list of PriorityQueue hangs off a sentinel node with PID 0, which is    *)
(* what getNext finds, and reports as failure, when the list is empty.     *)
(***************************************************************************)
EXTENDS Sequences, FiniteSetsExt

SCHEDULER_FCFS     == 1
SCHEDULER_PRIORITY == 2

\* The options on the command line of top_model/main.cpp.
SchedulerOptions == {SCHEDULER_FCFS, SCHEDULER_PRIORITY}

\* Mutant: a new PCB overtakes the waiting ones of its own priority.
PlaceOf_NotStable(q, pcb) ==
  Min({i \in 1 .. Len(q) + 1 :
         i = Len(q) + 1 \/ pcb.priority <= q[i].priority})

\* The place at which PriorityQueue inserts: before the first PCB whose
\* priority value is strictly greater, or at the end.
PlaceOf(q, pcb) ==
  Min({i \in 1 .. Len(q) + 1 :
         i = Len(q) + 1 \/ pcb.priority < q[i].priority})

\* Mutant: an insertion before another PCB unlinks that one.
Enqueue_DropsNext(option, q, pcb) ==
  IF option = SCHEDULER_FCFS
  THEN Append(SubSeq(q, 1, Len(q) - 1), pcb)
  ELSE Append(SubSeq(q, 1, PlaceOf(q, pcb) - 1), pcb)

\* schedule() of the scheduler that the option stands for.
Enqueue(option, q, pcb) ==
  IF option = SCHEDULER_FCFS
  THEN Append(q, pcb)
  ELSE LET place == PlaceOf(q, pcb)
       IN SubSeq(q, 1, place - 1) \o <<pcb>> \o SubSeq(q, place, Len(q))
============================================================================
