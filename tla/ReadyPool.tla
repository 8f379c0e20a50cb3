---------------------------- MODULE ReadyPool ----------------------------
(***************************************************************************)
(* What a scheduler promises the kernel, stated on the order in which the  *)
(* ready processes arrived and without any queue: the next process is the  *)
(* oldest one, or the oldest among those of the most urgent priority.      *)
(***************************************************************************)
EXTENDS Integers, Sequences

CONSTANTS PCBs, NoPCB

VARIABLES byPriority, arrived, nextPCB

vars == <<byPriority, arrived, nextPCB>>

Init == byPriority \in BOOLEAN /\ arrived = <<>> /\ nextPCB = NoPCB

\* The place in the order of arrival of the process that must come next.
IsNext(i) ==
  IF byPriority
  THEN /\ \A j \in 1 .. i - 1 : arrived[i].priority < arrived[j].priority
       /\ \A j \in i + 1 .. Len(arrived) :
             arrived[i].priority <= arrived[j].priority
  ELSE i = 1

Arrive ==
  /\ \E pcb \in PCBs : arrived' = Append(arrived, pcb)
  /\ UNCHANGED nextPCB

Choose ==
  \E i \in 1 .. Len(arrived) :
    /\ IsNext(i)
    /\ nextPCB' = arrived[i]
    /\ arrived' = SubSeq(arrived, 1, i - 1)
                    \o SubSeq(arrived, i + 1, Len(arrived))

NothingReady ==
  /\ arrived = <<>>
  /\ nextPCB' = NoPCB
  /\ UNCHANGED arrived

Next == (Arrive \/ Choose \/ NothingReady) /\ UNCHANGED byPriority

Spec == Init /\ [][Next]_vars
============================================================================
