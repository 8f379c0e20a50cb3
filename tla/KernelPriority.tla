-------------------------- MODULE KernelPriority --------------------------
(***************************************************************************)
(* Kernel with a history of the priority each process was requested with,  *)
(* as it stood in the message, before the kernel stored it.                *)
(***************************************************************************)
EXTENDS Kernel

VARIABLE requested

\* The process whose table entry a step gives a new priority, if any.
Renamed(p, msg) ==
  \/ msg.port = "appIn" /\ p = msg.value
  \/ msg.port = "processFork" /\ FreePids(kernel) # {}
                              /\ p = Min(FreePids(kernel))

HInit == Init /\ requested = [p \in Pids |-> 0]

NewRequest(msg) ==
  requested' = [p \in Pids |-> IF Renamed(p, msg) THEN msg.value3
                               ELSE requested[p]]

HNext ==
  \/ \E msg \in NewProcess("appIn") : AppIn(msg) /\ NewRequest(msg)
  \/ \E msg \in NewProcess("processFork") :
        ProcessFork(msg) /\ NewRequest(msg)
  \/ /\ ResponseMemory \/ DoneIO \/ StartIO \/ ProcessComplete \/ Internal
     /\ UNCHANGED requested

HSpec == HInit /\ [][HNext]_<<vars, requested>>

Started(p) ==
  kernel.table[p].state # RUNNING /\ kernel'.table[p].state = RUNNING

\* Under the priority scheduler, the process the kernel starts was requested
\* with a priority value no greater than that of any process left waiting.
LowerValueFirst ==
  [][kernel.scheduler = SCHEDULER_PRIORITY =>
      \A p \in Pids : Started(p) =>
       \A i \in DOMAIN kernel'.queue :
         requested[p] <= requested[kernel'.queue[i].PID]]_<<vars, requested>>
============================================================================
