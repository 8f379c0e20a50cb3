------------------------ MODULE MemoryModel_proofs ------------------------
(***************************************************************************)
(* Theorems about MemoryModel for every memory size, every set of          *)
(* processes and every set of block sizes.                                 *)
(***************************************************************************)
EXTENDS MemoryModel, SequenceTheorems, TLAPS

\* The proofs about the loop over a bag, for the one of the memory.
Loop == INSTANCE Handling_proofs WITH Handle <- MemoryReceive

\* Min picks from a set of naturals a member of it.
LEMMA MinIsMember ==
  ASSUME NEW S, S \subseteq Nat, S # {}
  PROVE  Min(S) \in S
BY Loop!LeastExists, Zenon DEF Min

\* The inductive invariant of clients of any kind.  Disjointness alone is not
\* inductive: a new block is disjoint from the recorded ones only because
\* every recorded cell is marked, and a release leaves the others marked only
\* because blocks are disjoint.
MemoryInv == TypeOK /\ RecordedCellsMarked /\ BlocksDisjoint

----------------------------------------------------------------------------
(* What the handlers do to the parts of the state.                         *)

\* A hole lies in the memory and none of its cells is marked.
LEMMA HoleIsFree ==
  ASSUME TypeOK, NEW size \in BlockSizes, NEW j \in Holes(mem, size)
  PROVE  /\ j \in Cells
         /\ Block(j, size) \subseteq Cells
         /\ Block(j, size) \cap Marked = {}
BY MemoryAssumption DEF TypeOK, Holes, Block, Cells, Marked

\* The search ends at a hole whenever there is one.
LEMMA FirstHole ==
  ASSUME NEW size \in BlockSizes, Holes(mem, size) # {}
  PROVE  Min(Holes(mem, size)) \in Holes(mem, size)
<1>1. Holes(mem, size) \subseteq Nat
  BY MemoryAssumption DEF Holes
<1> QED BY <1>1, MinIsMember

\* After a grant the process owns the hole, the others what they owned before,
\* and the marked cells have grown by exactly the hole.
LEMMA GrantEffect ==
  ASSUME TypeOK, NEW pid \in Pids, NEW size \in BlockSizes,
         NEW j \in Holes(mem, size),
         mem' = Reply(Grant(mem, pid, j, size), pid, MEMORY_OK)
  PROVE  /\ TypeOK'
         /\ \A p \in Pids : Owned(p)' = IF p = pid THEN Block(j, size)
                                       ELSE Owned(p)
         /\ Marked' = Marked \cup Block(j, size)
<1>1. /\ j \in Cells /\ Block(j, size) \subseteq Cells
      /\ size \in Nat \ {0} /\ j # -1
  BY HoleIsFree, MemoryAssumption DEF Cells
<1>2. /\ mem'.memory = [c \in Cells |-> IF c \in Block(j, size) THEN 1
                                      ELSE mem.memory[c]]
      /\ mem'.memoryTable = [mem.memoryTable EXCEPT
                               ![pid] = [start |-> j, size |-> size]]
      /\ mem'.out_put = Append(mem.out_put, Response(pid, MEMORY_OK))
      /\ mem'.armed = TRUE
      /\ mem' = [memory |-> mem'.memory, memoryTable |-> mem'.memoryTable,
                 out_put |-> mem'.out_put, armed |-> mem'.armed]
  BY DEF TypeOK, Reply, Grant
<1>3. TypeOK'
  <2>1. mem'.memory \in [Cells -> {0, 1}]
    BY <1>2 DEF TypeOK
  <2>2. mem'.memoryTable \in [Pids -> [start : Cells, size : Nat \ {0}]
                                        \cup {NoBlock}]
    BY <1>1, <1>2 DEF TypeOK
  <2>3. mem'.out_put \in Seq([port : {"responseMemory"}, value : Pids,
                              value2 : {MEMORY_OK, MEMORY_NOT_OK}])
    BY <1>2 DEF TypeOK, Response
  <2> QED BY <1>2, <2>1, <2>2, <2>3 DEF TypeOK
<1>4. ASSUME NEW p \in Pids
      PROVE  Owned(p)' = IF p = pid THEN Block(j, size) ELSE Owned(p)
  <2>1. CASE p = pid
    BY <1>1, <1>2, <2>1 DEF Owned, NoBlock, TypeOK
  <2>2. CASE p # pid
    BY <1>2, <2>2 DEF Owned, TypeOK
  <2> QED BY <2>1, <2>2
<1>5. Marked' = Marked \cup Block(j, size)
  BY <1>1, <1>2 DEF Marked, TypeOK
<1> QED BY <1>3, <1>4, <1>5

\* Refusing touches neither cells nor table.
LEMMA RefuseEffect ==
  ASSUME TypeOK, NEW pid \in Pids, mem' = Reply(mem, pid, MEMORY_NOT_OK)
  PROVE  /\ TypeOK'
         /\ \A p \in Pids : Owned(p)' = Owned(p)
         /\ Marked' = Marked
<1>1. /\ mem'.memory = mem.memory /\ mem'.memoryTable = mem.memoryTable
      /\ mem'.out_put = Append(mem.out_put, Response(pid, MEMORY_NOT_OK))
      /\ mem'.armed = TRUE
      /\ mem' = [memory |-> mem'.memory, memoryTable |-> mem'.memoryTable,
                 out_put |-> mem'.out_put, armed |-> mem'.armed]
  BY DEF TypeOK, Reply
<1>2. mem'.out_put \in Seq([port : {"responseMemory"}, value : Pids,
                            value2 : {MEMORY_OK, MEMORY_NOT_OK}])
  BY <1>1 DEF TypeOK, Response
<1>3. TypeOK'
  BY <1>1, <1>2 DEF TypeOK
<1> QED BY <1>1, <1>3 DEF Owned, Marked

\* Sending the answers touches neither cells nor table.
LEMMA InternalEffect ==
  ASSUME TypeOK, Internal
  PROVE  /\ TypeOK'
         /\ \A p \in Pids : Owned(p)' = Owned(p)
         /\ Marked' = Marked
<1>1. /\ mem'.memory = mem.memory /\ mem'.memoryTable = mem.memoryTable
      /\ mem'.out_put = <<>>
      /\ mem'.armed = FALSE
      /\ mem' = [memory |-> mem'.memory, memoryTable |-> mem'.memoryTable,
                 out_put |-> mem'.out_put, armed |-> mem'.armed]
  BY DEF TypeOK, Internal, MemoryInternal
<1>2. mem'.out_put \in Seq([port : {"responseMemory"}, value : Pids,
                            value2 : {MEMORY_OK, MEMORY_NOT_OK}])
  BY <1>1
<1>3. TypeOK'
  BY <1>1, <1>2 DEF TypeOK
<1> QED BY <1>1, <1>3 DEF Owned, Marked

\* A release takes the block from its owner, unmarks exactly its cells, and
\* leaves the other processes what they own.
LEMMA ReleaseEffect ==
  ASSUME TypeOK, NEW pid \in Pids, Release(pid)
  PROVE  /\ TypeOK'
         /\ \A p \in Pids : Owned(p)' = IF p = pid THEN {} ELSE Owned(p)
         /\ Marked' = Marked \ Owned(pid)
         /\ mem'.out_put = mem.out_put /\ mem'.armed = mem.armed
<1> DEFINE rec == mem.memoryTable[pid]
<1>1. rec # NoBlock /\ rec.start \in Cells /\ rec.start # -1
  BY DEF TypeOK, Release, Cells
<1>2. Owned(pid) = Block(rec.start, rec.size)
  BY <1>1 DEF Owned
<1>3. /\ mem'.memory = [c \in Cells |->
                          IF c \in Block(rec.start, rec.size) THEN 0
                          ELSE mem.memory[c]]
      /\ mem'.memoryTable = [mem.memoryTable EXCEPT ![pid] = NoBlock]
      /\ mem'.out_put = mem.out_put
      /\ mem'.armed = mem.armed
      /\ mem' = [memory |-> mem'.memory, memoryTable |-> mem'.memoryTable,
                 out_put |-> mem'.out_put, armed |-> mem'.armed]
  BY <1>1 DEF TypeOK, Release, OnRelease
<1>4. TypeOK'
  <2>1. mem'.memory \in [Cells -> {0, 1}]
    BY <1>3 DEF TypeOK
  <2>2. mem'.memoryTable \in [Pids -> [start : Cells, size : Nat \ {0}]
                                        \cup {NoBlock}]
    BY <1>3 DEF TypeOK
  <2> QED BY <1>3, <2>1, <2>2 DEF TypeOK
<1>5. ASSUME NEW p \in Pids
      PROVE  Owned(p)' = IF p = pid THEN {} ELSE Owned(p)
  BY <1>3 DEF Owned, TypeOK
<1>6. Marked' = Marked \ Owned(pid)
  BY <1>2, <1>3 DEF Marked, TypeOK
<1> QED BY <1>3, <1>4, <1>5, <1>6

----------------------------------------------------------------------------
(* Clients of any kind.                                                    *)

\* The inductive invariant holds initially: nothing is owned or marked.
LEMMA InitInv == Init => MemoryInv
<1> SUFFICES ASSUME Init PROVE MemoryInv
  OBVIOUS
<1>1. TypeOK
  BY DEF Init, InitialMemory, TypeOK
<1>2. \A p \in Pids : Owned(p) = {}
  BY DEF Init, InitialMemory, Owned
<1> QED BY <1>1, <1>2 DEF MemoryInv, RecordedCellsMarked, BlocksDisjoint

\* The inductive invariant is preserved by every step of every client.
LEMMA NextInv == MemoryInv /\ [Next]_mem => MemoryInv'
<1> SUFFICES ASSUME MemoryInv, [Next]_mem PROVE MemoryInv'
  OBVIOUS
<1>1. TypeOK /\ RecordedCellsMarked /\ BlocksDisjoint
  BY DEF MemoryInv
<1>2. ASSUME NEW pid \in Pids, NEW size \in BlockSizes, Request(pid, size)
      PROVE  MemoryInv'
  <2>1. CASE Holes(mem, size) = {}
    <3>1. mem' = Reply(mem, pid, MEMORY_NOT_OK)
      BY <1>2, <2>1 DEF Request, OnRequest
    <3> QED BY <1>1, <3>1, RefuseEffect
            DEF MemoryInv, RecordedCellsMarked, BlocksDisjoint
  <2>2. CASE Holes(mem, size) # {}
    <3> DEFINE j == Min(Holes(mem, size))
    <3> HIDE DEF j
    <3>1. j \in Holes(mem, size)
      BY <2>2, FirstHole DEF j
    <3>2. mem' = Reply(Grant(mem, pid, j, size), pid, MEMORY_OK)
      BY <1>2, <2>2 DEF Request, OnRequest, j
    <3>3. Block(j, size) \cap Marked = {}
      BY <1>1, <3>1, HoleIsFree
    <3>4. /\ TypeOK'
          /\ \A p \in Pids : Owned(p)' = IF p = pid THEN Block(j, size)
                                        ELSE Owned(p)
          /\ Marked' = Marked \cup Block(j, size)
      BY <1>1, <3>1, <3>2, GrantEffect
    <3> QED BY <1>1, <3>3, <3>4
            DEF MemoryInv, RecordedCellsMarked, BlocksDisjoint
  <2> QED BY <2>1, <2>2
<1>3. ASSUME NEW pid \in Pids, Release(pid)
      PROVE  MemoryInv'
  <2>1. /\ TypeOK'
        /\ \A p \in Pids : Owned(p)' = IF p = pid THEN {} ELSE Owned(p)
        /\ Marked' = Marked \ Owned(pid)
    BY <1>1, <1>3, ReleaseEffect
  <2> QED BY <1>1, <2>1 DEF MemoryInv, RecordedCellsMarked, BlocksDisjoint
<1>4. CASE Internal
  BY <1>1, <1>4, InternalEffect
     DEF MemoryInv, RecordedCellsMarked, BlocksDisjoint
<1>5. CASE UNCHANGED mem
  BY <1>1, <1>5 DEF MemoryInv, TypeOK, RecordedCellsMarked, BlocksDisjoint,
                    Owned, Marked
<1> QED BY <1>2, <1>3, <1>4, <1>5 DEF Next

\* MemoryModel keeps its type, marks every cell of every recorded block and
\* never lets two processes share a cell, for every memory and every client.
THEOREM MemorySafe ==
  Spec => [](TypeOK /\ RecordedCellsMarked /\ BlocksDisjoint)
BY InitInv, NextInv, PTL DEF Spec, MemoryInv

\* No answer is ever left in out_put without being scheduled.
THEOREM MemoryAnswers == Spec => []AnswersScheduled
<1>1. Init => AnswersScheduled
  BY DEF Init, InitialMemory, AnswersScheduled
<1>2. TypeOK /\ AnswersScheduled /\ [Next]_mem => AnswersScheduled'
  <2> SUFFICES ASSUME TypeOK, AnswersScheduled, [Next]_mem
               PROVE  AnswersScheduled'
    OBVIOUS
  <2>1. ASSUME NEW pid \in Pids, NEW size \in BlockSizes, Request(pid, size)
        PROVE  AnswersScheduled'
    BY <2>1 DEF TypeOK, Request, OnRequest, Grant, Reply, AnswersScheduled
  <2>2. ASSUME NEW pid \in Pids, Release(pid)
        PROVE  AnswersScheduled'
    BY <2>2, ReleaseEffect DEF AnswersScheduled
  <2>3. CASE Internal
    BY <2>3 DEF TypeOK, Internal, MemoryInternal, AnswersScheduled
  <2> QED BY <2>1, <2>2, <2>3 DEF Next, AnswersScheduled
<1> QED BY <1>1, <1>2, MemorySafe, PTL DEF Spec

----------------------------------------------------------------------------
(* Clients that own at most one block at a time.                           *)

OwnersInv == MemoryInv /\ NoLeak

\* The owners are clients like the others.
LEMMA OwnersStepIsStep == [OwnersNext]_mem => [Next]_mem
BY DEF OwnersNext, Next

\* While no cell is lost, the search that finds no hole has missed none.
LEMMA NoRunLeft ==
  ASSUME NoLeak, NEW size \in BlockSizes, Holes(mem, size) = {}
  PROVE  Allocator!FreeRuns(size) = {}
<1> SUFFICES ASSUME NEW j \in Allocator!FreeRuns(size) PROVE FALSE
  OBVIOUS
<1>1. j \in Cells /\ Block(j, size) \subseteq Cells \ Marked
  BY DEF NoLeak, Allocator!Free, Allocator!FreeRuns, Allocator!Cells,
         Allocator!Run, Cells, Block
<1>2. size \in Nat \ {0} /\ MemorySize \in Nat /\ j \in Nat
  BY <1>1, MemoryAssumption DEF Cells
<1>3. j + size - 1 \in Block(j, size)
  BY <1>2 DEF Block
<1>4. j \in 0 .. MemorySize - size
  BY <1>1, <1>2, <1>3 DEF Cells
<1> QED BY <1>1, <1>4 DEF Holes, Marked

\* What an owners' step does to ownership, in the terms of the abstract
\* allocator.
LEMMA OwnersStep ==
  ASSUME OwnersInv, [OwnersNext]_mem
  PROVE  NoLeak' /\ [Allocator!Next]_(Allocator!vars)
<1>1. TypeOK /\ RecordedCellsMarked /\ BlocksDisjoint /\ NoLeak
  BY DEF OwnersInv, MemoryInv
<1> DEFINE owned == [p \in Pids |-> Owned(p)]
<1>2. Allocator!Free = Cells \ Marked
  BY <1>1 DEF NoLeak, Allocator!Free, Allocator!Cells, Cells
<1>3. ASSUME NEW pid \in Pids, NEW size \in BlockSizes,
             mem.memoryTable[pid] = NoBlock, Request(pid, size)
      PROVE  NoLeak' /\ [Allocator!Next]_(Allocator!vars)
  <2>0. Owned(pid) = {} /\ owned[pid] = {}
    BY <1>3 DEF Owned
  <2>1. CASE Holes(mem, size) = {}
    <3>1. mem' = Reply(mem, pid, MEMORY_NOT_OK)
      BY <1>3, <2>1 DEF Request, OnRequest
    <3>2. \A p \in Pids : Owned(p)' = Owned(p)
      BY <1>1, <3>1, RefuseEffect
    <3>3. Marked' = Marked
      BY <1>1, <3>1, RefuseEffect
    <3>4. Allocator!FreeRuns(size) = {}
      BY <1>1, <2>1, NoRunLeft
    <3>5. mem'.out_put = Append(mem.out_put, Allocator!Answer(pid, 2))
      BY <1>1, <3>1 DEF Reply, TypeOK, Response, MEMORY_NOT_OK,
                        Allocator!Answer
    <3>6. Allocator!Refuse(pid, size)
      BY <3>2, <3>4, <3>5 DEF Allocator!Refuse
    <3>7. Allocator!Next
      BY <2>0, <3>6 DEF Allocator!Next
    <3> QED BY <1>1, <3>2, <3>3, <3>7 DEF NoLeak
  <2>2. CASE Holes(mem, size) # {}
    <3> DEFINE j == Min(Holes(mem, size))
    <3> HIDE DEF j
    <3>1. j \in Holes(mem, size)
      BY <2>2, FirstHole DEF j
    <3>2. mem' = Reply(Grant(mem, pid, j, size), pid, MEMORY_OK)
      BY <1>3, <2>2 DEF Request, OnRequest, j
    <3>3. /\ j \in Cells /\ Block(j, size) \subseteq Cells
          /\ Block(j, size) \cap Marked = {}
      BY <1>1, <3>1, HoleIsFree
    <3>4. /\ \A p \in Pids : Owned(p)' = IF p = pid THEN Block(j, size)
                                        ELSE Owned(p)
          /\ Marked' = Marked \cup Block(j, size)
      BY <1>1, <3>1, <3>2, GrantEffect
    <3>5. NoLeak'
      BY <1>1, <2>0, <3>4 DEF NoLeak
    <3>6. j \in Allocator!FreeRuns(size)
      BY <1>2, <3>3 DEF Allocator!FreeRuns, Allocator!Cells, Allocator!Run,
                        Cells, Block
    <3>7. owned' = [owned EXCEPT ![pid] = Allocator!Run(j, size)]
      BY <3>4 DEF Block, Allocator!Run
    <3>8. mem'.out_put = Append(mem.out_put, Allocator!Answer(pid, 1))
      BY <1>1, <3>2 DEF Reply, Grant, TypeOK, Response, MEMORY_OK,
                        Allocator!Answer
    <3>9. Allocator!Grant(pid, size)
      BY <3>6, <3>7, <3>8 DEF Allocator!Grant
    <3>10. Allocator!Next
      BY <2>0, <3>9 DEF Allocator!Next
    <3> QED BY <3>5, <3>10
  <2> QED BY <2>1, <2>2
<1>4. ASSUME NEW pid \in Pids, Release(pid)
      PROVE  NoLeak' /\ [Allocator!Next]_(Allocator!vars)
  <2>1. /\ \A p \in Pids : Owned(p)' = IF p = pid THEN {} ELSE Owned(p)
        /\ Marked' = Marked \ Owned(pid)
        /\ mem'.out_put = mem.out_put
    BY <1>1, <1>4, ReleaseEffect
  <2>2. NoLeak'
    BY <1>1, <2>1 DEF NoLeak, BlocksDisjoint
  <2>3. owned' = [owned EXCEPT ![pid] = {}]
    BY <2>1
  <2>4. Allocator!Release(pid)
    BY <2>1, <2>3 DEF Allocator!Release
  <2> QED BY <2>2, <2>4 DEF Allocator!Next
<1>5. CASE Internal
  <2>1. \A p \in Pids : Owned(p)' = Owned(p)
    BY <1>1, <1>5, InternalEffect
  <2>2. Marked' = Marked
    BY <1>1, <1>5, InternalEffect
  <2>3. mem'.out_put = <<>>
    BY <1>1, <1>5 DEF Internal, MemoryInternal, TypeOK
  <2>4. Allocator!Send
    BY <2>1, <2>3 DEF Allocator!Send
  <2> QED BY <1>1, <2>1, <2>2, <2>4 DEF NoLeak, Allocator!Next
<1>6. CASE UNCHANGED mem
  BY <1>1, <1>6 DEF NoLeak, Marked, Owned, Allocator!vars
<1> QED BY <1>3, <1>4, <1>5, <1>6 DEF OwnersNext

\* With clients that own one block at a time, the cells marked as taken are
\* always exactly those of the recorded blocks: no cell is ever lost.
THEOREM MemoryNoLeak == OwnersSpec => []NoLeak
<1>1. Init => NoLeak
  BY DEF Init, InitialMemory, NoLeak, Marked, Owned
<1>2. OwnersInv /\ [OwnersNext]_mem => OwnersInv'
  BY NextInv, OwnersStepIsStep, OwnersStep DEF OwnersInv
<1>3. OwnersInv => NoLeak
  BY DEF OwnersInv
<1>4. Init => OwnersInv
  BY <1>1, InitInv DEF OwnersInv
<1> QED BY <1>2, <1>3, <1>4, PTL DEF OwnersSpec

\* With such clients a request is refused only when no run of free cells is
\* long enough for it.
THEOREM MemoryRefusals == OwnersSpec => RefusedOnlyWhenFull
<1>1. Init => NoLeak
  BY DEF Init, InitialMemory, NoLeak, Marked, Owned
<1>2. OwnersInv /\ [OwnersNext]_mem => OwnersInv'
  BY NextInv, OwnersStepIsStep, OwnersStep DEF OwnersInv
<1>3. Init => OwnersInv
  BY <1>1, InitInv DEF OwnersInv
<1>4. ASSUME OwnersInv, NEW pid \in Pids, NEW size \in BlockSizes,
             Request(pid, size),
             mem'.out_put[Len(mem'.out_put)].value2 = MEMORY_NOT_OK
      PROVE  Allocator!FreeRuns(size) = {}
  <2>1. TypeOK /\ NoLeak
    BY <1>4 DEF OwnersInv, MemoryInv
  <2>2. CASE Holes(mem, size) = {}
    BY <2>1, <2>2, NoRunLeft
  <2>3. CASE Holes(mem, size) # {}
    <3>1. mem'.out_put = Append(mem.out_put, Response(pid, MEMORY_OK))
      BY <1>4, <2>1, <2>3 DEF Request, OnRequest, Reply, Grant, TypeOK
    <3>2. mem'.out_put[Len(mem'.out_put)] = Response(pid, MEMORY_OK)
      BY <2>1, <3>1 DEF TypeOK
    <3> QED BY <1>4, <3>2 DEF Response, MEMORY_OK, MEMORY_NOT_OK
  <2> QED BY <2>2, <2>3
<1>5. OwnersInv /\ [OwnersNext]_mem
        => [\A pid \in Pids, size \in BlockSizes :
              Request(pid, size) /\ mem'.out_put[Len(mem'.out_put)].value2 = MEMORY_NOT_OK
                => Allocator!FreeRuns(size) = {}]_mem
  BY <1>4
<1> QED BY <1>2, <1>3, <1>5, PTL DEF OwnersSpec, RefusedOnlyWhenFull

\* The array with its first-fit search implements the abstract allocator: a
\* grant takes a run of cells nobody owns, and a release frees it whole.
THEOREM MemoryImplementsAllocator == OwnersSpec => AllocatorSpec
<1>1. Init => OwnersInv /\ Allocator!Init
  <2> SUFFICES ASSUME Init PROVE OwnersInv /\ Allocator!Init
    OBVIOUS
  <2>1. \A p \in Pids : Owned(p) = {}
    BY DEF Init, InitialMemory, Owned
  <2>2. Marked = {}
    BY DEF Init, InitialMemory, Marked
  <2>3. mem.out_put = <<>>
    BY DEF Init, InitialMemory
  <2> QED BY <2>1, <2>2, <2>3, InitInv
          DEF OwnersInv, NoLeak, Allocator!Init
<1>2. OwnersInv /\ [OwnersNext]_mem
        => OwnersInv' /\ [Allocator!Next]_(Allocator!vars)
  BY NextInv, OwnersStepIsStep, OwnersStep DEF OwnersInv
<1> QED BY <1>1, <1>2, PTL DEF OwnersSpec, AllocatorSpec, Allocator!Spec

----------------------------------------------------------------------------
(* Whole bags: the kernel sends its releases and requests together.        *)

RespSet == [port : {"responseMemory"}, value : Pids,
            value2 : {MEMORY_OK, MEMORY_NOT_OK}]

MemSet ==
  [ memory      : [Cells -> {0, 1}],
    memoryTable : [Pids -> [start : Cells, size : Nat \ {0}] \cup {NoBlock}],
    out_put     : Seq(RespSet),
    armed       : BOOLEAN ]

LEMMA MemTyped == TypeOK <=> mem \in MemSet
BY DEF TypeOK, MemSet, RespSet

\* A request is answered, and the process has a block afterwards just when
\* the answer is OK.
LEMMA OnRequestEffect ==
  ASSUME NEW m \in MemSet, NEW pid \in Pids, NEW size \in BlockSizes,
         m.memoryTable[pid] = NoBlock
  PROVE  LET n == OnRequest(m, pid, size) IN
         /\ n \in MemSet /\ n.armed = TRUE
         /\ \A p \in Pids : p # pid => n.memoryTable[p] = m.memoryTable[p]
         /\ \E answer \in {MEMORY_OK, MEMORY_NOT_OK} :
              /\ n.out_put = Append(m.out_put, Response(pid, answer))
              /\ (answer = MEMORY_OK) <=> (n.memoryTable[pid] # NoBlock)
<1> DEFINE n == OnRequest(m, pid, size)
<1>1. CASE Holes(m, size) = {}
  <2>1. n = Reply(m, pid, MEMORY_NOT_OK)
    BY <1>1 DEF OnRequest
  <2>2. /\ n.memory = m.memory /\ n.memoryTable = m.memoryTable
        /\ n.out_put = Append(m.out_put, Response(pid, MEMORY_NOT_OK))
        /\ n.armed = TRUE
        /\ n = [memory |-> n.memory, memoryTable |-> n.memoryTable,
                out_put |-> n.out_put, armed |-> n.armed]
    BY <2>1 DEF MemSet, Reply
  <2> HIDE DEF n
  <2>3. Response(pid, MEMORY_NOT_OK) \in RespSet
    BY DEF Response, RespSet
  <2>4. m.out_put \in Seq(RespSet)
    BY DEF MemSet
  <2>5. n.out_put \in Seq(RespSet)
    BY <2>2, <2>3, <2>4
  <2>6. n \in MemSet
    BY <2>2, <2>5 DEF MemSet
  <2> QED BY <2>2, <2>6 DEF MEMORY_OK, MEMORY_NOT_OK, n
<1>2. CASE Holes(m, size) # {}
  <2> DEFINE j == Min(Holes(m, size))
  <2>1. j \in Holes(m, size)
    <3>1. Holes(m, size) \subseteq Nat
      BY MemoryAssumption DEF Holes
    <3> QED BY <1>2, <3>1, MinIsMember
  <2>2. n = Reply(Grant(m, pid, j, size), pid, MEMORY_OK)
    BY <1>2 DEF OnRequest
  <2> HIDE DEF j
  <2>3. /\ j \in Cells /\ Block(j, size) \subseteq Cells
        /\ size \in Nat \ {0} /\ j # -1
    BY <2>1, MemoryAssumption DEF Holes, Cells, Block
  <2>4. /\ n.memory = [c \in Cells |-> IF c \in Block(j, size) THEN 1
                                       ELSE m.memory[c]]
        /\ n.memoryTable = [m.memoryTable EXCEPT
                               ![pid] = [start |-> j, size |-> size]]
        /\ n.out_put = Append(m.out_put, Response(pid, MEMORY_OK))
        /\ n.armed = TRUE
        /\ n = [memory |-> n.memory, memoryTable |-> n.memoryTable,
                out_put |-> n.out_put, armed |-> n.armed]
    BY <2>2 DEF MemSet, Reply, Grant
  <2> HIDE DEF n
  <2>5. n.memory \in [Cells -> {0, 1}]
    BY <2>4 DEF MemSet
  <2>6. n.memoryTable \in [Pids -> [start : Cells, size : Nat \ {0}]
                                        \cup {NoBlock}]
    BY <2>3, <2>4 DEF MemSet
  <2>7. Response(pid, MEMORY_OK) \in RespSet /\ m.out_put \in Seq(RespSet)
    BY DEF Response, RespSet, MemSet
  <2>8. n.out_put \in Seq(RespSet)
    BY <2>4, <2>7
  <2>9. n \in MemSet
    BY <2>4, <2>5, <2>6, <2>8 DEF MemSet
  <2>10. n.memoryTable[pid] # NoBlock
    BY <2>3, <2>4 DEF MemSet, NoBlock
  <2>11. \A p \in Pids : p # pid => n.memoryTable[p] = m.memoryTable[p]
    BY <2>4 DEF MemSet
  <2> QED BY <2>4, <2>9, <2>10, <2>11 DEF n
<1> QED BY <1>1, <1>2

\* After a release the process has no block, and nothing else changed.
LEMMA OnReleaseEffect ==
  ASSUME NEW m \in MemSet, NEW pid \in Pids
  PROVE  LET n == OnRelease(m, pid) IN
         /\ n \in MemSet /\ n.armed = m.armed /\ n.out_put = m.out_put
         /\ \A p \in Pids : n.memoryTable[p] = IF p = pid THEN NoBlock
                                               ELSE m.memoryTable[p]
<1> DEFINE n == OnRelease(m, pid)
           rec == m.memoryTable[pid]
<1>0. rec \in [start : Cells, size : Nat \ {0}] \cup {NoBlock}
  BY DEF MemSet
<1>1. CASE rec.start = -1
  <2>1. rec = NoBlock
    BY <1>0, <1>1 DEF Cells
  <2> QED BY <1>1, <2>1 DEF OnRelease
<1>2. CASE rec.start # -1
  <2>1. /\ n.memory = [c \in Cells |->
                     IF c \in Block(rec.start, rec.size) THEN 0
                     ELSE m.memory[c]]
        /\ n.memoryTable = [m.memoryTable EXCEPT ![pid] = NoBlock]
        /\ n.out_put = m.out_put /\ n.armed = m.armed
        /\ n = [memory |-> n.memory, memoryTable |-> n.memoryTable,
                out_put |-> n.out_put, armed |-> n.armed]
    BY <1>2 DEF OnRelease, MemSet
  <2> HIDE DEF n, rec
  <2>2. n.memory \in [Cells -> {0, 1}]
    BY <2>1 DEF MemSet
  <2>3. n.memoryTable \in [Pids -> [start : Cells, size : Nat \ {0}]
                                        \cup {NoBlock}]
    BY <2>1 DEF MemSet
  <2>4. n \in MemSet
    BY <2>1, <2>2, <2>3 DEF MemSet
  <2>5. \A p \in Pids : n.memoryTable[p] = IF p = pid THEN NoBlock
                                           ELSE m.memoryTable[p]
    BY <2>1 DEF MemSet
  <2> QED BY <2>1, <2>4, <2>5 DEF n
<1> QED BY <1>1, <1>2

\* The cells a process owns, of a memory that is not the variable's.
OwnedIn(m, p) ==
  IF m.memoryTable[p] = NoBlock THEN {}
  ELSE Block(m.memoryTable[p].start, m.memoryTable[p].size)

\* No cell is lost and none is shared.
Whole(m) ==
  /\ \A p \in Pids : OwnedIn(m, p) \subseteq Cells
  /\ \A c \in Cells : m.memory[c] # 0 <=> \E p \in Pids : c \in OwnedIn(m, p)
  /\ \A p, q \in Pids : p # q => OwnedIn(m, p) \cap OwnedIn(m, q) = {}

LEMMA OnRequestKeeps ==
  ASSUME NEW m \in MemSet, NEW pid \in Pids, NEW size \in BlockSizes,
         m.memoryTable[pid] = NoBlock, Whole(m)
  PROVE  Whole(OnRequest(m, pid, size))
<1> DEFINE n == OnRequest(m, pid, size)
<1>1. CASE Holes(m, size) = {}
  <2>1. n = Reply(m, pid, MEMORY_NOT_OK)
    BY <1>1 DEF OnRequest
  <2>2. n.memory = m.memory /\ n.memoryTable = m.memoryTable
    BY <2>1 DEF MemSet, Reply
  <2> HIDE DEF n
  <2>3. Whole(n)
    BY <2>2 DEF Whole, OwnedIn
  <2> QED BY <2>3 DEF n
<1>2. CASE Holes(m, size) # {}
  <2> DEFINE j == Min(Holes(m, size))
             B == Block(j, size)
  <2>1. j \in Holes(m, size)
    <3>1. Holes(m, size) \subseteq Nat
      BY MemoryAssumption DEF Holes
    <3> QED BY <1>2, <3>1, MinIsMember
  <2>2. n = Reply(Grant(m, pid, j, size), pid, MEMORY_OK)
    BY <1>2 DEF OnRequest
  <2> HIDE DEF j
  <2>3. /\ j \in Cells /\ B \subseteq Cells
        /\ size \in Nat \ {0} /\ j # -1
        /\ \A c \in B : m.memory[c] = 0
    BY <2>1, MemoryAssumption DEF Holes, Cells, Block
  <2>4. /\ n.memory = [c \in Cells |-> IF c \in B THEN 1 ELSE m.memory[c]]
        /\ n.memoryTable = [m.memoryTable EXCEPT
                               ![pid] = [start |-> j, size |-> size]]
    BY <2>2 DEF MemSet, Reply, Grant
  <2> HIDE DEF n
  <2>5. \A p \in Pids : OwnedIn(n, p) = IF p = pid THEN B ELSE OwnedIn(m, p)
    BY <2>3, <2>4 DEF OwnedIn, MemSet, NoBlock
  <2>6. OwnedIn(m, pid) = {}
    BY DEF OwnedIn
  <2> HIDE DEF B
  <2>7. \A c \in Cells : n.memory[c] = IF c \in B THEN 1 ELSE m.memory[c]
    BY <2>4
  <2>8. \A p \in Pids : OwnedIn(n, p) \subseteq Cells
    BY <2>3, <2>5 DEF Whole
  <2>9. \A c \in Cells : n.memory[c] # 0
                           <=> \E p \in Pids : c \in OwnedIn(n, p)
    BY <2>5, <2>6, <2>7 DEF Whole
  <2>10. \A p \in Pids : \A c \in OwnedIn(m, p) : c \notin B
    BY <2>3 DEF Whole
  <2>11. \A p, q \in Pids : p # q => OwnedIn(n, p) \cap OwnedIn(n, q) = {}
    BY <2>5, <2>10 DEF Whole
  <2>12. Whole(n)
    BY <2>8, <2>9, <2>11 DEF Whole
  <2> QED BY <2>12 DEF n
<1> QED BY <1>1, <1>2

LEMMA OnReleaseKeeps ==
  ASSUME NEW m \in MemSet, NEW pid \in Pids, Whole(m)
  PROVE  Whole(OnRelease(m, pid))
<1> DEFINE n == OnRelease(m, pid)
           rec == m.memoryTable[pid]
           B == OwnedIn(m, pid)
<1>0. rec \in [start : Cells, size : Nat \ {0}] \cup {NoBlock}
  BY DEF MemSet
<1>1. CASE rec.start = -1
  BY <1>1 DEF OnRelease
<1>2. CASE rec.start # -1
  <2>1. B = Block(rec.start, rec.size)
    BY <1>0, <1>2 DEF OwnedIn, NoBlock
  <2>2. /\ n.memory = [c \in Cells |->
                     IF c \in Block(rec.start, rec.size) THEN 0
                     ELSE m.memory[c]]
        /\ n.memoryTable = [m.memoryTable EXCEPT ![pid] = NoBlock]
    BY <1>2 DEF OnRelease, MemSet
  <2> HIDE DEF n, rec
  <2>3. \A c \in Cells : n.memory[c] = IF c \in B THEN 0 ELSE m.memory[c]
    BY <2>1, <2>2
  <2>4. \A p \in Pids : OwnedIn(n, p) = IF p = pid THEN {} ELSE OwnedIn(m, p)
    BY <2>2 DEF OwnedIn, MemSet
  <2> HIDE DEF B
  <2>5. \A p \in Pids : p # pid => \A c \in OwnedIn(m, p) : c \notin B
    BY DEF Whole, B
  <2>6. \A c \in Cells : n.memory[c] # 0
                           <=> \E p \in Pids : c \in OwnedIn(n, p)
    <3> SUFFICES ASSUME NEW c \in Cells
                 PROVE  n.memory[c] # 0
                          <=> \E p \in Pids : c \in OwnedIn(n, p)
      OBVIOUS
    <3>1. m.memory[c] # 0 <=> \E p \in Pids : c \in OwnedIn(m, p)
      BY DEF Whole
    <3>2. CASE c \in B
      BY <2>3, <2>4, <2>5, <3>2
    <3>3. CASE c \notin B
      BY <2>3, <2>4, <3>1, <3>3 DEF B
    <3> QED BY <3>2, <3>3
  <2>7. Whole(n)
    BY <2>4, <2>6 DEF Whole
  <2> QED BY <2>7 DEF n
<1> QED BY <1>1, <1>2

LEMMA MemoryIsLoop ==
  \A m, bag : MemoryExternal(m, bag) = Loop!Result(m, bag)
BY Zenon DEF MemoryExternal, HandleAll, MapThenFoldSet, Max,
       Loop!Result, Loop!HandleAll, Loop!MapThenFoldSet,
       Loop!Max

\* f gives the state before the first message of the bag, between any two, and
\* after the last one.
MemoryRun(f, m, bag) ==
  /\ DOMAIN f = 0 .. Len(bag)
  /\ f[0] = m
  /\ \A i \in 1 .. Len(bag) : f[i] = MemoryReceive(f[i - 1], bag[i])
  /\ MemoryExternal(m, bag) = f[Len(bag)]
  /\ \A i \in 0 .. Len(bag) : MemoryExternal(m, SubSeq(bag, 1, i)) = f[i]

LEMMA MemoryRuns ==
  ASSUME NEW m, NEW T, NEW bag \in Seq(T)
  PROVE  \E f : MemoryRun(f, m, bag)
<1>1. PICK f : /\ Loop!IsRun(f, Len(bag), m, bag)
               /\ Loop!Result(m, bag) = f[Len(bag)]
               /\ \A i \in 0 .. Len(bag) :
                    Loop!Result(m, SubSeq(bag, 1, i)) = f[i]
  BY Loop!LoopPrefixes
<1>2. MemoryRun(f, m, bag)
  BY <1>1, MemoryIsLoop, Zenon DEF MemoryRun, Loop!IsRun
<1> QED BY <1>2

\* No release or request of a process comes after a request of it.
Ordered(bag) ==
  \A i, j \in DOMAIN bag :
    i < j /\ bag[i].port = "requestMemory" /\ bag[j].value = bag[i].value
      => bag[j].port \notin {"requestMemory", "releaseMemory"}

\* The first l messages of the bag ask for memory for p, or release it.
Asked(bag, l, p) ==
  \E i \in 1 .. l : bag[i].port = "requestMemory" /\ bag[i].value = p
Released(bag, l, p) ==
  \E i \in 1 .. l : bag[i].port = "releaseMemory" /\ bag[i].value = p

\* A bag that asks only for processes without a block, or whose block the bag
\* itself releases.
ClientBag(m, bag) ==
  /\ Ordered(bag)
  /\ \A i \in DOMAIN bag :
       bag[i].port \in {"requestMemory", "releaseMemory"} =>
         bag[i].value \in Pids
  /\ \A i \in DOMAIN bag : bag[i].port = "requestMemory" =>
       /\ bag[i].value2 \in BlockSizes
       /\ \/ m.memoryTable[bag[i].value] = NoBlock
          \/ Released(bag, Len(bag), bag[i].value)

\* What its first l messages make of m, if no answer was to be sent before.
Served(m, n, bag, l) ==
  /\ n \in MemSet
  /\ \A p \in Pids : ~ Asked(bag, l, p) =>
       n.memoryTable[p] = IF Released(bag, l, p) THEN NoBlock
                          ELSE m.memoryTable[p]
  /\ \A j \in DOMAIN n.out_put :
       /\ Asked(bag, l, n.out_put[j].value)
       /\ (n.out_put[j].value2 = MEMORY_OK)
            <=> (n.memoryTable[n.out_put[j].value] # NoBlock)
  /\ \A i, j \in DOMAIN n.out_put :
       n.out_put[i].value = n.out_put[j].value => i = j
  /\ \A p : Asked(bag, l, p) => \E j \in DOMAIN n.out_put :
                                         n.out_put[j].value = p
  /\ n.armed <=> (m.armed \/ \E p : Asked(bag, l, p))

LEMMA ServedStep ==
  ASSUME NEW m, NEW T, NEW bag \in Seq(T), ClientBag(m, bag),
         NEW l \in Nat, l + 1 \in DOMAIN bag, NEW s, Served(m, s, bag, l)
  PROVE  /\ bag[l + 1].port = "requestMemory" =>
              s.memoryTable[bag[l + 1].value] = NoBlock
         /\ Served(m, MemoryReceive(s, bag[l + 1]), bag, l + 1)
<1> DEFINE msg == bag[l + 1]
           pid == msg.value
           n   == MemoryReceive(s, msg)
<1>0. /\ \A i \in 1 .. l : i \in DOMAIN bag /\ i < l + 1
      /\ 1 .. l + 1 = 1 .. l \cup {l + 1}
      /\ DOMAIN bag = 1 .. Len(bag) /\ l + 1 \in 1 .. Len(bag)
      /\ \A i \in DOMAIN bag : i \in 1 .. l \/ i = l + 1 \/ l + 1 < i
  BY LenProperties
<1>1. \A p : /\ Asked(bag, l + 1, p) <=>
                  Asked(bag, l, p) \/ (msg.port = "requestMemory" /\ p = pid)
             /\ Released(bag, l + 1, p) <=>
                  Released(bag, l, p)
                    \/ (msg.port = "releaseMemory" /\ p = pid)
  BY <1>0, Zenon DEF Asked, Released
<1>2. msg.port \in {"requestMemory", "releaseMemory"} =>
        pid \in Pids /\ ~ Asked(bag, l, pid)
  <2> SUFFICES ASSUME msg.port \in {"requestMemory", "releaseMemory"}
               PROVE  pid \in Pids /\ ~ Asked(bag, l, pid)
    OBVIOUS
  <2>1. pid \in Pids
    BY DEF ClientBag
  <2>2. ASSUME NEW i \in 1 .. l, bag[i].port = "requestMemory",
               bag[i].value = pid
        PROVE  FALSE
    BY <1>0, <2>2 DEF ClientBag, Ordered
  <2> QED BY <2>1, <2>2 DEF Asked
<1>3. msg.port = "requestMemory" => s.memoryTable[pid] = NoBlock
  <2> SUFFICES ASSUME msg.port = "requestMemory"
               PROVE  s.memoryTable[pid] = NoBlock
    OBVIOUS
  <2>1. CASE Released(bag, l, pid)
    BY <1>2, <2>1 DEF Served
  <2>2. CASE ~ Released(bag, l, pid)
    <3>1. s.memoryTable[pid] = m.memoryTable[pid]
      BY <1>2, <2>2 DEF Served
    <3>2. ASSUME NEW i \in DOMAIN bag, bag[i].port = "releaseMemory",
                 bag[i].value = pid
          PROVE  FALSE
      <4>1. i = l + 1 \/ l + 1 < i
        BY <1>0, <2>2, <3>2 DEF Released
      <4> QED BY <3>2, <4>1 DEF ClientBag, Ordered
    <3>3. ~ Released(bag, Len(bag), pid)
      BY <1>0, <3>2 DEF Released
    <3> QED BY <3>1, <3>3 DEF ClientBag
  <2> QED BY <2>1, <2>2
<1>4. s \in MemSet /\ s.out_put \in Seq(RespSet)
  BY DEF Served, MemSet
<1>5. \A p \in Pids : ~ Asked(bag, l, p) =>
        s.memoryTable[p] = IF Released(bag, l, p) THEN NoBlock
                           ELSE m.memoryTable[p]
  BY DEF Served
<1>6. \A j \in DOMAIN s.out_put :
        /\ Asked(bag, l, s.out_put[j].value)
        /\ (s.out_put[j].value2 = MEMORY_OK)
             <=> (s.memoryTable[s.out_put[j].value] # NoBlock)
  BY DEF Served
<1>7. \A i, j \in DOMAIN s.out_put :
         s.out_put[i].value = s.out_put[j].value => i = j
  BY DEF Served
<1>8. \A p : Asked(bag, l, p) => \E j \in DOMAIN s.out_put :
                                         s.out_put[j].value = p
  BY Zenon DEF Served
<1>9. s.armed <=> (m.armed \/ \E p : Asked(bag, l, p))
  BY Zenon DEF Served
<1>10. CASE msg.port = "requestMemory"
  <2>1. n = OnRequest(s, pid, msg.value2)
    BY <1>10 DEF MemoryReceive
  <2>2. msg.value2 \in BlockSizes
    BY <1>10 DEF ClientBag
  <2> DEFINE size == msg.value2
  <2> HIDE DEF n, msg, pid, size
  <2>set. /\ OnRequest(s, pid, size) \in MemSet
          /\ OnRequest(s, pid, size).armed = TRUE
          /\ \A p \in Pids : p # pid =>
               OnRequest(s, pid, size).memoryTable[p] = s.memoryTable[p]
          /\ \E answer \in {MEMORY_OK, MEMORY_NOT_OK} :
               /\ OnRequest(s, pid, size).out_put
                    = Append(s.out_put, Response(pid, answer))
               /\ (answer = MEMORY_OK)
                    <=> (OnRequest(s, pid, size).memoryTable[pid] # NoBlock)
    <3>1. /\ s \in MemSet /\ pid \in Pids /\ size \in BlockSizes
          /\ s.memoryTable[pid] = NoBlock
      BY <1>2, <1>3, <1>4, <1>10, <2>2 DEF size
    <3> QED BY <3>1, OnRequestEffect
  <2>step. n = OnRequest(s, pid, size)
    BY <2>1 DEF size
  <2>pick. PICK answer \in {MEMORY_OK, MEMORY_NOT_OK} :
             /\ OnRequest(s, pid, size).out_put
                  = Append(s.out_put, Response(pid, answer))
             /\ (answer = MEMORY_OK)
                  <=> (OnRequest(s, pid, size).memoryTable[pid] # NoBlock)
    BY <2>set, Zenon
  <2>3. /\ n \in MemSet /\ n.armed = TRUE
        /\ \A p \in Pids : p # pid => n.memoryTable[p] = s.memoryTable[p]
        /\ n.out_put = Append(s.out_put, Response(pid, answer))
        /\ (answer = MEMORY_OK) <=> (n.memoryTable[pid] # NoBlock)
    BY <2>set, <2>step, <2>pick
  <2> DEFINE r == Response(pid, answer)
             L == Len(s.out_put)
  <2>4. r.value = pid /\ r.value2 = answer
    BY DEF Response
  <2> HIDE DEF r
  <2>6. /\ DOMAIN s.out_put = 1 .. L /\ L \in Nat
        /\ DOMAIN n.out_put = 1 .. L \cup {L + 1}
        /\ n.out_put[L + 1] = r
        /\ \A j \in 1 .. L : n.out_put[j] = s.out_put[j] /\ j # L + 1
    BY <1>4, <2>3, AppendProperties, SMTT(30) DEF r
  <2> HIDE DEF L
  <2>7. \A j \in 1 .. L : s.out_put[j].value \in Pids \ {pid}
    <3> SUFFICES ASSUME NEW j \in 1 .. L
                 PROVE  s.out_put[j].value \in Pids \ {pid}
      OBVIOUS
    <3>1. s.out_put[j] \in RespSet
      BY <1>4, <2>6
    <3>2. s.out_put[j].value \in Pids
      BY <3>1 DEF RespSet
    <3>3. Asked(bag, l, s.out_put[j].value)
      BY <2>6 DEF Served
    <3> QED BY <1>2, <1>10, <3>2, <3>3
  <2>8. \A p \in Pids : ~ Asked(bag, l + 1, p) =>
          n.memoryTable[p] = IF Released(bag, l + 1, p) THEN NoBlock
                             ELSE m.memoryTable[p]
    BY <1>1, <1>10, <1>5, <2>3
  <2>9. \A j \in DOMAIN n.out_put :
          /\ Asked(bag, l + 1, n.out_put[j].value)
          /\ (n.out_put[j].value2 = MEMORY_OK)
               <=> (n.memoryTable[n.out_put[j].value] # NoBlock)
    <3>1. ASSUME NEW j \in 1 .. L
          PROVE  /\ Asked(bag, l + 1, n.out_put[j].value)
                 /\ (n.out_put[j].value2 = MEMORY_OK)
                      <=> (n.memoryTable[n.out_put[j].value] # NoBlock)
      <4>1. n.out_put[j] = s.out_put[j] /\ j \in DOMAIN s.out_put
        BY <2>6
      <4>2. n.memoryTable[s.out_put[j].value]
              = s.memoryTable[s.out_put[j].value]
        BY <2>3, <2>7
      <4> QED BY <1>1, <1>6, <4>1, <4>2
    <3>2. /\ Asked(bag, l + 1, n.out_put[L + 1].value)
          /\ (n.out_put[L + 1].value2 = MEMORY_OK)
               <=> (n.memoryTable[n.out_put[L + 1].value] # NoBlock)
      BY <1>1, <1>10, <2>3, <2>4, <2>6
    <3> QED BY <2>6, <3>1, <3>2
  <2>10. \A i, j \in DOMAIN n.out_put :
          n.out_put[i].value = n.out_put[j].value => i = j
    <3>1. \A i, j \in 1 .. L : n.out_put[i].value = n.out_put[j].value => i = j
      BY <1>7, <2>6
    <3>2. \A i \in 1 .. L : n.out_put[i].value # pid
      BY <2>6, <2>7
    <3> QED BY <2>4, <2>6, <3>1, <3>2, Zenon
  <2>11. \A p : Asked(bag, l + 1, p) => \E j \in DOMAIN n.out_put :
                                               n.out_put[j].value = p
    <3> SUFFICES ASSUME NEW p, Asked(bag, l + 1, p)
                 PROVE  \E j \in DOMAIN n.out_put : n.out_put[j].value = p
      OBVIOUS
    <3>1. CASE p = pid
      BY <2>4, <2>6, <3>1
    <3>2. CASE p # pid
      <4>1. PICK j \in 1 .. L : s.out_put[j].value = p
        BY <1>1, <1>8, <2>6, <3>2
      <4> QED BY <2>6, <4>1
    <3> QED BY <3>1, <3>2
  <2>12. n.armed <=> (m.armed \/ \E p : Asked(bag, l + 1, p))
    BY <1>1, <1>10, <2>3
  <2> QED BY <1>3, <2>3, <2>8, <2>9, <2>10, <2>11, <2>12, Zenon
          DEF Served, n, msg, pid
<1>11. CASE msg.port = "releaseMemory"
  <2>1. n = OnRelease(s, pid)
    BY <1>11 DEF MemoryReceive
  <2>2. /\ n \in MemSet /\ n.armed = s.armed /\ n.out_put = s.out_put
        /\ \A p \in Pids : n.memoryTable[p] = IF p = pid THEN NoBlock
                                              ELSE s.memoryTable[p]
    BY <1>2, <1>4, <1>11, <2>1, OnReleaseEffect
  <2> HIDE DEF n, msg, pid
  <2>3. \A p : Asked(bag, l + 1, p) <=> Asked(bag, l, p)
    BY <1>1, <1>11
  <2>4. \A p \in Pids : ~ Asked(bag, l + 1, p) =>
          n.memoryTable[p] = IF Released(bag, l + 1, p) THEN NoBlock
                             ELSE m.memoryTable[p]
    BY <1>1, <1>11, <1>5, <2>2, <2>3
  <2>6. \A j \in DOMAIN n.out_put :
          /\ Asked(bag, l + 1, n.out_put[j].value)
          /\ (n.out_put[j].value2 = MEMORY_OK)
               <=> (n.memoryTable[n.out_put[j].value] # NoBlock)
    <3> SUFFICES ASSUME NEW j \in DOMAIN s.out_put
                 PROVE  /\ Asked(bag, l, s.out_put[j].value)
                        /\ (s.out_put[j].value2 = MEMORY_OK)
                             <=> (n.memoryTable[s.out_put[j].value] # NoBlock)
      BY <2>2, <2>3
    <3>1. s.out_put[j] \in RespSet
      BY <1>4
    <3>2. s.out_put[j].value \in Pids /\ Asked(bag, l, s.out_put[j].value)
      BY <1>6, <3>1 DEF RespSet
    <3>3. s.out_put[j].value # pid
      BY <1>2, <1>11, <3>2
    <3> QED BY <1>6, <2>2, <3>2, <3>3
  <2>7. /\ \A i, j \in DOMAIN n.out_put :
             n.out_put[i].value = n.out_put[j].value => i = j
        /\ \A p : Asked(bag, l + 1, p) => \E j \in DOMAIN n.out_put :
                                               n.out_put[j].value = p
        /\ n.armed <=> (m.armed \/ \E p : Asked(bag, l + 1, p))
    BY <1>7, <1>8, <1>9, <2>2, <2>3
  <2> QED BY <1>3, <2>2, <2>4, <2>6, <2>7, Zenon DEF Served, n, msg, pid
<1>12. CASE msg.port \notin {"requestMemory", "releaseMemory"}
  <2>1. n = s
    BY <1>12 DEF MemoryReceive
  <2>2. \A p : /\ Asked(bag, l + 1, p) <=> Asked(bag, l, p)
               /\ Released(bag, l + 1, p) <=> Released(bag, l, p)
    BY <1>1, <1>12
  <2> HIDE DEF n, msg, pid
  <2>3. Served(m, n, bag, l + 1)
    <3>1. \A p \in Pids : ~ Asked(bag, l + 1, p) =>
            n.memoryTable[p] = IF Released(bag, l + 1, p) THEN NoBlock
                               ELSE m.memoryTable[p]
      BY <1>5, <2>1, <2>2
    <3>2. \A j \in DOMAIN n.out_put :
            /\ Asked(bag, l + 1, n.out_put[j].value)
            /\ (n.out_put[j].value2 = MEMORY_OK)
                 <=> (n.memoryTable[n.out_put[j].value] # NoBlock)
      BY <1>6, <2>1, <2>2
    <3>3. /\ \A p : Asked(bag, l + 1, p) => \E j \in DOMAIN n.out_put :
                                               n.out_put[j].value = p
          /\ n.armed <=> (m.armed \/ \E p : Asked(bag, l + 1, p))
      BY <1>8, <1>9, <2>1, <2>2
    <3> QED BY <1>4, <1>7, <2>1, <3>1, <3>2, <3>3, Zenon DEF Served
  <2> QED BY <1>3, <2>3 DEF n, msg, pid
<1> QED BY <1>10, <1>11, <1>12

\* No process is ever asked for that owns a block, and in the end each request
\* has its answer and each other release has freed its block, while no cell
\* was lost or shared.
LEMMA ClientBagEffect ==
  ASSUME NEW m \in MemSet, m.out_put = <<>>,
         NEW T, NEW bag \in Seq(T), ClientBag(m, bag)
  PROVE  /\ \A i \in DOMAIN bag : bag[i].port = "requestMemory" =>
              MemoryExternal(m, SubSeq(bag, 1, i - 1))
                .memoryTable[bag[i].value] = NoBlock
         /\ Served(m, MemoryExternal(m, bag), bag, Len(bag))
         /\ Whole(m) => Whole(MemoryExternal(m, bag))
<1>1. PICK f : MemoryRun(f, m, bag)
  BY MemoryRuns
<1> DEFINE S == {i \in Nat :
                    Served(m, f[i], bag, i) /\ (Whole(m) => Whole(f[i]))}
<1>2. Len(bag) \in Nat /\ DOMAIN bag = 1 .. Len(bag)
  OBVIOUS
<1>3. 0 \in S
  <2>1. Served(m, m, bag, 0)
    BY DEF Served, Asked, Released
  <2>2. f[0] = m
    BY <1>1 DEF MemoryRun
  <2> QED BY <2>1, <2>2
<1>4. ASSUME NEW i \in 0 .. Len(bag) - 1, i \in S
      PROVE  /\ i + 1 \in S
             /\ bag[i + 1].port = "requestMemory" =>
                  f[i].memoryTable[bag[i + 1].value] = NoBlock
  <2>1. i + 1 \in DOMAIN bag /\ i \in Nat /\ i + 1 \in Nat
    BY <1>2, <1>4
  <2>2. /\ bag[i + 1].port = "requestMemory" =>
             f[i].memoryTable[bag[i + 1].value] = NoBlock
        /\ Served(m, MemoryReceive(f[i], bag[i + 1]), bag, i + 1)
    BY <1>4, <2>1, ServedStep
  <2>3. f[i + 1] = MemoryReceive(f[i], bag[i + 1])
    <3>1. i + 1 \in 1 .. Len(bag) /\ i + 1 - 1 = i
      BY <1>2, <2>1
    <3> QED BY <1>1, <3>1 DEF MemoryRun
  <2>4. Whole(f[i]) => Whole(f[i + 1])
    <3> DEFINE s   == f[i]
               msg == bag[i + 1]
    <3>1. s \in MemSet
      BY <1>4 DEF Served
    <3>2. /\ msg.port \in {"requestMemory", "releaseMemory"} =>
               msg.value \in Pids
          /\ msg.port = "requestMemory" => msg.value2 \in BlockSizes
      BY <2>1 DEF ClientBag
    <3> HIDE DEF s
    <3>3. CASE msg.port = "requestMemory"
      BY <2>2, <2>3, <3>1, <3>2, <3>3, OnRequestKeeps DEF MemoryReceive, s
    <3>4. CASE msg.port = "releaseMemory"
      BY <2>3, <3>1, <3>2, <3>4, OnReleaseKeeps DEF MemoryReceive, s
    <3>5. CASE msg.port \notin {"requestMemory", "releaseMemory"}
      BY <2>3, <3>5 DEF MemoryReceive
    <3> QED BY <3>3, <3>4, <3>5
  <2> QED BY <1>4, <2>1, <2>2, <2>3, <2>4
<1>5. 0 .. Len(bag) \subseteq S
  <2> HIDE DEF S
  <2> QED BY <1>2, <1>3, <1>4, Loop!UpTo
<1>6. ASSUME NEW i \in DOMAIN bag, bag[i].port = "requestMemory"
      PROVE  MemoryExternal(m, SubSeq(bag, 1, i - 1))
                .memoryTable[bag[i].value] = NoBlock
  <2>1. i - 1 \in 0 .. Len(bag) - 1 /\ i - 1 \in 0 .. Len(bag)
        /\ i - 1 + 1 = i
    BY <1>2
  <2>2. f[i - 1].memoryTable[bag[i].value] = NoBlock
    BY <1>4, <1>5, <1>6, <2>1
  <2> QED BY <1>1, <2>1, <2>2 DEF MemoryRun
<1>7. /\ Served(m, f[Len(bag)], bag, Len(bag))
      /\ Whole(m) => Whole(f[Len(bag)])
  BY <1>2, <1>5
<1> QED BY <1>1, <1>6, <1>7 DEF MemoryRun
============================================================================
