--------------------------- MODULE MemoryModel ---------------------------
(***************************************************************************)
(* The MemoryModel atomic model (atomics/memoryModel.hpp): an array of     *)
(* cells, a table that records the block of every process, and the answers *)
(* not yet sent.  The handlers are operators on the record that holds the  *)
(* model's state, so that the composition OSSim runs the very same code;   *)
(* the specification below drives them one message at a time with clients  *)
(* of two kinds.                                                           *)
(*                                                                         *)
(* next_internal takes two values only, 0 and infinity; armed says which.  *)
(***************************************************************************)
EXTENDS Handling

CONSTANTS
  Pids,           \* the processes with an entry in memoryTable (1..20)
  MemorySize,     \* total_memory (10000 in top_model/main.cpp)
  BlockSizes,     \* the block sizes that requests carry
  MaxReplies      \* bound: answers that may wait in out_put

\* PIDs index the table; a request asks for at least one cell
\* (top_model/input_tempate.txt: memory_size > 0).
ASSUME MemoryAssumption ==
  /\ Pids \subseteq Nat
  /\ MemorySize \in Nat
  /\ BlockSizes \subseteq Nat \ {0}
  /\ MaxReplies \in Nat

MEMORY_OK     == 1
MEMORY_NOT_OK == 2

Cells   == 0 .. MemorySize - 1
NoBlock == [start |-> -1, size |-> -1]

Block(j, size) == j .. j + size - 1

\* The shadowed next_internal of the constructor leaves the member at its
\* default 0: the model is due as soon as the simulation starts.
InitialMemory ==
  [ memory      |-> [c \in Cells |-> 0],
    memoryTable |-> [p \in Pids |-> NoBlock],
    out_put     |-> <<>>,
    armed       |-> TRUE ]

Response(pid, answer) ==
  [port |-> "responseMemory", value |-> pid, value2 |-> answer]

----------------------------------------------------------------------------
(* The handlers.                                                           *)

\* Mutant: the last start that still fits is forgotten.
Holes_StopsEarly(m, size) ==
  {j \in 0 .. MemorySize - size - 1 :
      \A c \in Block(j, size) : m.memory[c] = 0}

\* Mutant: only the first cell of the hole is looked at.
Holes_FirstCellOnly(m, size) ==
  {j \in 0 .. MemorySize - size : m.memory[j] = 0}

\* The starts at which the search loop finds memoryFreeFlag still true.  The
\* test "request too large" before the loop has no effect of its own: the
\* loop resets the flag whenever it runs at all.
Holes(m, size) ==
  {j \in 0 .. MemorySize - size :
      \A c \in Block(j, size) : m.memory[c] = 0}

\* Mutant: the last cell of the block is not marked.
Grant_MarksShort(m, pid, j, size) ==
  [m EXCEPT !.memoryTable[pid] = [start |-> j, size |-> size],
            !.memory = [c \in Cells |->
                          IF c \in Block(j, size - 1) THEN 1 ELSE @[c]]]

\* The block goes to the lowest hole: it is recorded and its cells marked.
Grant(m, pid, j, size) ==
  [m EXCEPT !.memoryTable[pid] = [start |-> j, size |-> size],
            !.memory = [c \in Cells |->
                          IF c \in Block(j, size) THEN 1 ELSE @[c]]]

\* Mutant: a refusal is queued without scheduling the output.
Reply_RefusalUnscheduled(m, pid, answer) ==
  [m EXCEPT !.out_put = Append(@, Response(pid, answer)),
            !.armed   = @ \/ answer = MEMORY_OK]

Reply(m, pid, answer) ==
  [m EXCEPT !.out_put = Append(@, Response(pid, answer)),
            !.armed   = TRUE]

OnRequest(m, pid, size) ==
  IF Holes(m, size) = {}
  THEN Reply(m, pid, MEMORY_NOT_OK)
  ELSE Reply(Grant(m, pid, Min(Holes(m, size)), size), pid, MEMORY_OK)

\* Mutant: the record is reset but its last cell stays marked.
OnRelease_ClearsShort(m, pid) ==
  LET rec == m.memoryTable[pid] IN
  IF rec.start = -1 THEN m
  ELSE [m EXCEPT !.memory = [c \in Cells |->
                     IF c \in Block(rec.start, rec.size - 1) THEN 0 ELSE @[c]],
                 !.memoryTable[pid] = NoBlock]

\* Mutant: the cells are freed but the table still records the block.
OnRelease_KeepsRecord(m, pid) ==
  LET rec == m.memoryTable[pid] IN
  IF rec.start = -1 THEN m
  ELSE [m EXCEPT !.memory = [c \in Cells |->
                     IF c \in Block(rec.start, rec.size) THEN 0 ELSE @[c]]]

\* Mutant: the record keeps its size.
OnRelease_ForgetsSize(m, pid) ==
  LET rec == m.memoryTable[pid] IN
  IF rec.start = -1 THEN m
  ELSE [m EXCEPT !.memory = [c \in Cells |->
                     IF c \in Block(rec.start, rec.size) THEN 0 ELSE @[c]],
                 !.memoryTable[pid].start = -1]

\* Releasing a process without a block changes nothing; a release is never
\* answered and does not touch next_internal.
OnRelease(m, pid) ==
  LET rec == m.memoryTable[pid] IN
  IF rec.start = -1 THEN m
  ELSE [m EXCEPT !.memory = [c \in Cells |->
                     IF c \in Block(rec.start, rec.size) THEN 0 ELSE @[c]],
                 !.memoryTable[pid] = NoBlock]

\* One message of the bag; a port the model does not know is ignored.
MemoryReceive(m, msg) ==
  CASE msg.port = "requestMemory" -> OnRequest(m, msg.value, msg.value2)
    [] msg.port = "releaseMemory" -> OnRelease(m, msg.value)
    [] OTHER -> m

\* external, and confluence, which only calls external.
MemoryExternal(m, bag) == HandleAll(MemoryReceive, m, bag)

MemoryInternal(m) == [m EXCEPT !.out_put = <<>>, !.armed = FALSE]

----------------------------------------------------------------------------
(* The model on its own, driven by its clients.                            *)

VARIABLE mem

Init == mem = InitialMemory

Request(pid, size) ==
  /\ Len(mem.out_put) < MaxReplies
  /\ mem' = OnRequest(mem, pid, size)

Release(pid) ==
  /\ mem.memoryTable[pid] # NoBlock
  /\ mem' = OnRelease(mem, pid)

\* The coordinator sends out_put and then runs the internal transition.
Internal ==
  /\ mem.armed
  /\ mem' = MemoryInternal(mem)

\* Clients that may ask again for a process that has a block already, as the
\* kernel does when it sends a request twice.
Next ==
  \/ \E pid \in Pids, size \in BlockSizes : Request(pid, size)
  \/ \E pid \in Pids : Release(pid)
  \/ Internal

Spec == Init /\ [][Next]_mem

\* Clients that ask only for a process without a block.
OwnersNext ==
  \/ \E pid \in Pids, size \in BlockSizes :
        mem.memoryTable[pid] = NoBlock /\ Request(pid, size)
  \/ \E pid \in Pids : Release(pid)
  \/ Internal

OwnersSpec == Init /\ [][OwnersNext]_mem

----------------------------------------------------------------------------
(* Properties.                                                             *)

Owned(pid) ==
  IF mem.memoryTable[pid] = NoBlock THEN {}
  ELSE Block(mem.memoryTable[pid].start, mem.memoryTable[pid].size)

Marked == {c \in Cells : mem.memory[c] # 0}

\* The type invariant of the memory model's state.
TypeOK ==
  mem \in [ memory      : [Cells -> {0, 1}],
            memoryTable : [Pids -> [start : Cells, size : Nat \ {0}]
                                     \cup {NoBlock}],
            out_put     : Seq([port   : {"responseMemory"},
                               value  : Pids,
                               value2 : {MEMORY_OK, MEMORY_NOT_OK}]),
            armed       : BOOLEAN ]

\* Every recorded block lies inside the memory and every cell of it is marked
\* as taken, so that the first-fit search can never hand out a part of it;
\* this holds even for clients that request twice.
RecordedCellsMarked == \A pid \in Pids : Owned(pid) \subseteq Marked

\* No two processes ever share a cell, whatever the clients do.
BlocksDisjoint ==
  \A p, q \in Pids : p # q => Owned(p) \cap Owned(q) = {}

\* An answer in out_put is always scheduled to be sent: next_internal is 0.
AnswersScheduled == mem.out_put # <<>> => mem.armed

\* With clients that own one block at a time no cell is lost: whatever is
\* marked as taken belongs to a block that the table records.
NoLeak == Marked = UNION {Owned(pid) : pid \in Pids}

\* The detailed allocator implements the abstract one, which has no array and
\* no first-fit search, only the set of cells each process owns.
Allocator == INSTANCE MemoryAllocator
               WITH owned   <- [pid \in Pids |-> Owned(pid)],
                    replies <- mem.out_put

AllocatorSpec == Allocator!Spec

\* A request is refused only when no run of free cells is long enough for it:
\* the search misses no hole.  AllocatorSpec alone would let the refusal of
\* one size pass for that of another, for an answer does not carry the size.
RefusedOnlyWhenFull ==
  [][\A pid \in Pids, size \in BlockSizes :
       Request(pid, size) /\ mem'.out_put[Len(mem'.out_put)].value2 = MEMORY_NOT_OK
         => Allocator!FreeRuns(size) = {}]_mem
============================================================================
