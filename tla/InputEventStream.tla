------------------------- MODULE InputEventStream -------------------------
(***************************************************************************)
(* The generator (vendor/input_event_stream.hpp with the parser of         *)
(* top_model/main.cpp): it plays the lines of the input file as events,    *)
(* all lines of one instant in one output.  It reads ahead until a line of *)
(* a later instant turns up and keeps that line for the next output.       *)
(*                                                                         *)
(* A line is <<>> if it is blank, or <<time, message>>.  An exception      *)
(* leaves a noexcept function and so ends the program: failed.             *)
(***************************************************************************)
EXTENDS SimTime, Handling

CONSTANTS
  Messages, \* what a line says besides its time
  Files     \* the input files: sequences of lines

VARIABLES
  file,     \* the file played
  source,   \* the generator's state
  played    \* history: the outputs, each with its time

vars == <<file, source, played>>

Blank == <<>>
Line  == {Blank} \cup ((0 .. Infinity - 1) \X Messages)

ASSUME FilesAssumption == \A f \in Files : f \in Seq(Line)

\* The stream from its first line on that is not blank.
AfterBlanks(lines) ==
  LET events == {i \in DOMAIN lines : lines[i] # Blank}
  IN IF events = {} THEN <<>> ELSE SubSeq(lines, Min(events), Len(lines))

\* Mutant: at most one line is added to the one read ahead.
SameInstant_FirstLineOnly(lines, now) ==
  IF lines # <<>> /\ lines[1] # Blank /\ lines[1][1] = now THEN 1 ELSE 0

\* How many lines at the front of the stream are events of the instant now.
SameInstant(lines, now) ==
  Max({n \in 0 .. Len(lines) :
         \A i \in 1 .. n : lines[i] # Blank /\ lines[i][1] = now})

\* Mutant: the line read ahead is forgotten when the output is set up.
fetchUntilTimeAdvances_DropsPrefetched(s) ==
  LET now   == s.prefetched_time
      lines == AfterBlanks(s.stream)
      n     == SameInstant(lines, now)
      batch == [s EXCEPT !.next = now,
                         !.output = [i \in 1 .. n |-> lines[i][2]],
                         !.stream = SubSeq(lines, n + 2, Len(lines))]
  IN IF n = Len(lines) \/ lines[n + 1] = Blank
     THEN [batch EXCEPT !.prefetched_time = Infinity]
     ELSE IF lines[n + 1][1] < now THEN [s EXCEPT !.failed = TRUE]
     ELSE [batch EXCEPT !.prefetched_time    = lines[n + 1][1],
                        !.prefetched_message = lines[n + 1][2]]

\* Mutant: the last line read is lost when the file ends.
fetchUntilTimeAdvances_StopsEarly(s) ==
  LET now   == s.prefetched_time
      lines == AfterBlanks(s.stream)
      n     == SameInstant(lines, now)
      batch == [s EXCEPT !.next = now,
                         !.output = <<s.prefetched_message>>
                                      \o [i \in 1 .. n |-> lines[i][2]],
                         !.stream = SubSeq(lines, n + 2, Len(lines))]
  IN IF n + 1 >= Len(lines) \/ lines[n + 1] = Blank
     THEN [batch EXCEPT !.prefetched_time = Infinity]
     ELSE IF lines[n + 1][1] < now THEN [s EXCEPT !.failed = TRUE]
     ELSE [batch EXCEPT !.prefetched_time    = lines[n + 1][1],
                        !.prefetched_message = lines[n + 1][2]]

\* The output is the line read ahead with all that follow at its instant.  A
\* blank line after those counts as the end of the file.
fetchUntilTimeAdvances(s) ==
  LET now   == s.prefetched_time
      lines == AfterBlanks(s.stream)
      n     == SameInstant(lines, now)
      batch == [s EXCEPT !.next = now,
                         !.output = <<s.prefetched_message>>
                                      \o [i \in 1 .. n |-> lines[i][2]],
                         !.stream = SubSeq(lines, n + 2, Len(lines))]
  IN IF n = Len(lines) \/ lines[n + 1] = Blank
     THEN [batch EXCEPT !.prefetched_time = Infinity]
     ELSE IF lines[n + 1][1] < now THEN [s EXCEPT !.failed = TRUE]
     ELSE [batch EXCEPT !.prefetched_time    = lines[n + 1][1],
                        !.prefetched_message = lines[n + 1][2]]

\* The constructor.  The parser fails on a blank first line.
Opened(lines) ==
  LET s == [stream |-> lines, last |-> 0, next |-> Infinity,
            output |-> <<>>, prefetched_time |-> Infinity,
            prefetched_message |-> <<>>, failed |-> FALSE]
  IN IF lines = <<>> THEN s
     ELSE IF Head(lines) = Blank THEN [s EXCEPT !.failed = TRUE]
     ELSE fetchUntilTimeAdvances(
            [s EXCEPT !.stream             = Tail(lines),
                      !.prefetched_time    = Head(lines)[1],
                      !.prefetched_message = Head(lines)[2]])

\* advance: the time until the next output.
TimeAdvance(s) == IF s.next = Infinity THEN Infinity ELSE s.next - s.last

Init ==
  /\ file \in Files
  /\ source = Opened(file)
  /\ played = <<>>

\* out and internal, once the time has come.
Play ==
  /\ ~ source.failed
  /\ TimeAdvance(source) # Infinity
  /\ played' = Append(played, [time |-> source.last + TimeAdvance(source),
                               events |-> source.output])
  /\ source' = fetchUntilTimeAdvances([source EXCEPT !.last = source.next])
  /\ UNCHANGED file

\* Nothing is left to play, or the program was terminated.
Stopped ==
  /\ source.failed \/ TimeAdvance(source) = Infinity
  /\ UNCHANGED vars

Next == Play \/ Stopped

\* The generator is due at a finite time and the simulation gets there.
Spec == Init /\ [][Next]_vars /\ WF_vars(Play)

----------------------------------------------------------------------------
(* Properties.                                                             *)

\* The events that lines stand for, in their order.
Events(lines) ==
  Flatten([i \in DOMAIN lines |->
             IF lines[i] = Blank THEN <<>> ELSE <<lines[i]>>])

\* The events that messages are at one time.
At(time, messages) == [j \in DOMAIN messages |-> <<time, messages[j]>>]

\* The events played, each with the time at which it was.
PlayedEvents ==
  Flatten([i \in DOMAIN played |-> At(played[i].time, played[i].events)])

\* Reading ahead neither loses, doubles nor reorders an event: what was played
\* is the beginning of the file, every event at its own time.
PlaysTheFile ==
  \E n \in 0 .. Len(Events(file)) : PlayedEvents = SubSeq(Events(file), 1, n)

\* The kernel gets all processes that arrive at one instant in one bag: no two
\* outputs have the same time.
OneOutputPerInstant ==
  \A i, j \in DOMAIN played : i < j => played[i].time < played[j].time

\* The files that end the program: a blank first line, a line out of order,
\* or a blank line after several lines of one instant, which the program
\* takes for the end of the file, with a line after it.
Faulty(f) ==
  \/ f # <<>> /\ f[1] = Blank
  \/ \E i, j \in DOMAIN f :
       i < j /\ f[i] # Blank /\ f[j] # Blank /\ f[i][1] > f[j][1]
  \/ \E h, i, k \in DOMAIN f :
       /\ h < i /\ i + 1 < k
       /\ \A line \in {f[h], f[i], f[k]} : line # Blank
       /\ f[h][1] = f[i][1] /\ f[i + 1] = Blank

\* A file with a fault in the end fails the program, which does not come to
\* its end as if the file had none; of a file without one every line is
\* played and the program does not fail.
FailsOnlyOnFaults ==
  <>(IF Faulty(file) THEN source.failed
     ELSE /\ PlayedEvents = Events(file)
          /\ TimeAdvance(source) = Infinity /\ ~ source.failed)
============================================================================
