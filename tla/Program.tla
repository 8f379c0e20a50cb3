----------------------------- MODULE Program -----------------------------
(***************************************************************************)
(* The Program atomic model (atomics/program.hpp): a process's code.  When *)
(* the kernel starts it, it computes for a random time and then makes its  *)
(* next system call; an I/O program then stops until it is started again,  *)
(* a forking program goes on by itself.  The random numbers are            *)
(* parameters: the composition chooses them.                               *)
(***************************************************************************)
EXTENDS SimTime, Sequences, FiniteSetsExt

CONSTANTS
  IoCalls,     \* system calls before an I/O program exits (10 in the code)
  ForkCalls    \* forks before a forking program exits (15 in the code)

ASSUME ProgramAssumption ==
  IoCalls \in Nat /\ ForkCalls \in Nat

PROGRAM_IO   == 1
PROGRAM_FORK == 2

InitialProgram ==
  [executing |-> FALSE, type |-> 0, IO_count |-> 0, fork_count |-> 0,
   next_internal |-> Infinity]

\* Mutant: the count of I/O calls is not reset after the exit.
ProgramInternal_NoReset(s, draw) ==
  CASE s.type = PROGRAM_IO ->
         [s EXCEPT !.executing = FALSE, !.next_internal = Infinity,
                   !.IO_count = @ + 1]
    [] s.type = PROGRAM_FORK ->
         [s EXCEPT !.fork_count = @ + 1, !.next_internal = draw]
    [] OTHER -> s

\* internal: an I/O program stops and starts over after its exit; a forking
\* program goes on until it has made one call more than its forks.
ProgramInternal(s, draw) ==
  CASE s.type = PROGRAM_IO ->
         [s EXCEPT !.executing = FALSE,
                   !.next_internal = Infinity,
                   !.IO_count = IF @ + 1 > IoCalls THEN 0 ELSE @ + 1]
    [] s.type = PROGRAM_FORK ->
         [s EXCEPT !.fork_count = @ + 1,
                   !.next_internal = IF s.fork_count + 1 > ForkCalls
                                     THEN Infinity ELSE draw]
    [] OTHER -> s

\* Mutant: the test for the exit is missing.
IoCall_NeverExits(s) ==
  IF s.IO_count % 2 = 0 THEN "readSCI" ELSE "writeSCI"

IoCall(s) ==
  IF s.IO_count >= IoCalls THEN "exitSCI"
  ELSE IF s.IO_count % 2 = 0 THEN "readSCI" ELSE "writeSCI"

\* out: the system call.  A fork carries the type of the child, which is an
\* I/O program, and a random priority and block size.
ProgramOut(s, pid, child) ==
  CASE s.type = PROGRAM_IO -> <<[port |-> IoCall(s), value |-> pid]>>
    [] s.type = PROGRAM_FORK ->
         IF s.fork_count < ForkCalls
         THEN <<[port |-> "forkSCI", value |-> pid, value2 |-> PROGRAM_IO,
                 value3 |-> child.priority, value4 |-> child.size]>>
         ELSE <<[port |-> "exitSCI", value |-> pid]>>
    [] OTHER -> <<[port |-> "", value |-> pid]>>

\* Where the start messages are in a bag: every program hears every ctrlApp.
Starts(bag, pid) ==
  {i \in DOMAIN bag : bag[i].port = "ctrlApp" /\ bag[i].value = pid}

\* external, and confluence, which only calls external: being started draws
\* a new time, even if the program is running already.
ProgramExternal(s, pid, bag, t, draw) ==
  LET starts == Starts(bag, pid)
      typed  == {i \in starts : bag[i].value2 # 0}
  IN IF starts = {}
     THEN [s EXCEPT !.next_internal = Minus(@, t)]
     ELSE [s EXCEPT !.executing = TRUE,
                    !.next_internal = draw,
                    !.type = IF typed = {} THEN @
                                ELSE bag[Max(typed)].value2]
============================================================================
