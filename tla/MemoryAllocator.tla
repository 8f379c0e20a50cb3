------------------------- MODULE MemoryAllocator -------------------------
(***************************************************************************)
(* What the memory model promises its clients: a process owns a contiguous *)
(* run of cells or nothing; a request is granted with cells nobody owns    *)
(* and is refused only when no free run of that length exists; an answer   *)
(* waits until it is sent with all the others.                             *)
(***************************************************************************)
EXTENDS Integers, Sequences

CONSTANTS Pids, MemorySize, BlockSizes

VARIABLES owned, replies

vars == <<owned, replies>>

Cells == 0 .. MemorySize - 1
Run(j, size) == j .. j + size - 1
Free == Cells \ UNION {owned[pid] : pid \in Pids}
FreeRuns(size) == {j \in Cells : Run(j, size) \subseteq Free}

Answer(pid, answer) ==
  [port |-> "responseMemory", value |-> pid, value2 |-> answer]

Init ==
  /\ owned = [pid \in Pids |-> {}]
  /\ replies = <<>>

Grant(pid, size) ==
  /\ \E j \in FreeRuns(size) : owned' = [owned EXCEPT ![pid] = Run(j, size)]
  /\ replies' = Append(replies, Answer(pid, 1))

Refuse(pid, size) ==
  /\ FreeRuns(size) = {}
  /\ replies' = Append(replies, Answer(pid, 2))
  /\ UNCHANGED owned

Release(pid) ==
  /\ owned' = [owned EXCEPT ![pid] = {}]
  /\ UNCHANGED replies

Send ==
  /\ replies' = <<>>
  /\ UNCHANGED owned

Next ==
  \/ \E pid \in Pids, size \in BlockSizes :
        owned[pid] = {} /\ (Grant(pid, size) \/ Refuse(pid, size))
  \/ \E pid \in Pids : Release(pid)
  \/ Send

Spec == Init /\ [][Next]_vars
============================================================================
