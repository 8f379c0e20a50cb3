---------------------------- MODULE BasicModels ----------------------------
(***************************************************************************)
(* The library's atomic models                                             *)
(* (include/boost/simulation/pdevs/basic_models): generator, processor,    *)
(* infinite_counter and input_stream, each a record with its kind.         *)
(* Messages are numbers; a counter takes 0 for the question how many       *)
(* others there were.                                                      *)
(***************************************************************************)
EXTENDS SimTime, Sequences, FiniteSets

GENERATOR == "generator"
PROCESSOR == "processor"
COUNTER   == "infinite_counter"
STREAM    == "input_stream"

Generator(period, outvalue) ==
  [kind |-> GENERATOR, next |-> period, outvalue |-> outvalue]

Processor(processing) ==
  [kind |-> PROCESSOR, next |-> Infinity, jobs |-> <<>>,
   processing |-> processing]

Counter == [kind |-> COUNTER, next |-> Infinity, counter |-> 0]

----------------------------------------------------------------------------
(* input_stream over the lines of a file, pairs of a time and a message,   *)
(* none of them blank and the times ascending (module InputEventStream has *)
(* the others).  next is relative here, as advance() returns it.           *)

\* How many lines at the front belong to one instant.
OneInstant(lines) ==
  Cardinality({n \in DOMAIN lines : lines[n][1] = lines[1][1]})

\* fetchUntilTimeAdvances, last being _last; at is the time of the next output.
Fetch(last, lines) ==
  LET n == OneInstant(lines)
  IN IF lines = <<>>
     THEN [kind |-> STREAM, next |-> Infinity, at |-> last,
           output |-> <<>>, lines |-> <<>>]
     ELSE [kind |-> STREAM, next |-> lines[1][1] - last, at |-> lines[1][1],
           output |-> [i \in 1 .. n |-> lines[i][2]],
           lines |-> SubSeq(lines, n + 1, Len(lines))]

InputStream(lines) == Fetch(0, lines)

----------------------------------------------------------------------------
(* A processor works on its first job; a counter answers at once when it   *)
(* is asked.                                                               *)

ProcessorInternal(s) ==
  [s EXCEPT !.jobs = Tail(@),
            !.next = IF Len(s.jobs) = 1 THEN Infinity ELSE s.processing]

\* Mutant: a busy processor takes only the first job of a bag.
ProcessorExternal_OneJobWhenBusy(s, mb, t) ==
  IF s.jobs = <<>> THEN [s EXCEPT !.next = s.processing, !.jobs = mb]
  ELSE [s EXCEPT !.next = Minus(@, t), !.jobs = Append(@, Head(mb))]

\* A job that arrives t after the last call leaves what was left of the time
\* for the one being processed.
ProcessorExternal(s, mb, t) ==
  [s EXCEPT !.next = IF s.jobs = <<>> THEN s.processing ELSE Minus(@, t),
            !.jobs = @ \o mb]

\* Mutant: the counter stays due.
CounterInternal_StaysDue(s) == [s EXCEPT !.counter = 0]

CounterInternal(s) == [s EXCEPT !.next = Infinity, !.counter = 0]

Questions(mb) == Cardinality({i \in DOMAIN mb : mb[i] = 0})

CounterExternal(s, mb) ==
  [s EXCEPT !.next = IF Questions(mb) > 0 THEN 0 ELSE @,
            !.counter = @ + Len(mb) - Questions(mb)]

----------------------------------------------------------------------------
(* The functions of an atomic model.  Neither a generator nor a stream may *)
(* receive anything (its external asserts false).                          *)

advance(s) == s.next

out(s) ==
  CASE s.kind = GENERATOR -> <<s.outvalue>>
    [] s.kind = PROCESSOR -> <<Head(s.jobs)>>
    [] s.kind = COUNTER   -> <<s.counter>>
    [] s.kind = STREAM    -> s.output

internal(s) ==
  CASE s.kind = GENERATOR -> s
    [] s.kind = PROCESSOR -> ProcessorInternal(s)
    [] s.kind = COUNTER   -> CounterInternal(s)
    [] s.kind = STREAM    -> Fetch(s.at, s.lines)

external(s, mb, t) ==
  CASE s.kind = PROCESSOR -> ProcessorExternal(s, mb, t)
    [] s.kind = COUNTER   -> CounterExternal(s, mb)

\* Internal first and external immediately afterwards, in both of them.
confluence(s, mb) == external(internal(s), mb, 0)

MayReceive(s) == s.kind \in {PROCESSOR, COUNTER}

\* The states they can be in whose durations are finite and at most longest.
AtomicStates(longest) ==
  LET finite    == 0 .. longest \ {Infinity}
      durations == finite \cup {Infinity}
  IN [kind : {GENERATOR}, next : durations, outvalue : Nat]
     \cup {s \in [kind : {PROCESSOR}, next : durations, jobs : Seq(Nat),
                  processing : finite] :
             s.next = Infinity <=> s.jobs = <<>>}
     \cup [kind : {COUNTER}, next : {0, Infinity}, counter : Nat]
     \cup {s \in [kind : {STREAM}, next : durations, at : finite,
                  output : Seq(Nat), lines : Seq(finite \X Nat)] :
             /\ s.next = Infinity <=> s.output = <<>>
             /\ \A i \in DOMAIN s.lines :
                  /\ s.at =< s.lines[i][1]
                  /\ \A j \in 1 .. i : s.lines[j][1] =< s.lines[i][1]}
============================================================================
