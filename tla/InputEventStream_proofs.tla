---------------------- MODULE InputEventStream_proofs ----------------------
(***************************************************************************)
(* For input files of any length: the outputs of the generator come one    *)
(* after the other.  The invariant says that the line read ahead is of a   *)
(* later instant than the output that waits.                               *)
(***************************************************************************)
EXTENDS InputEventStream, SequenceTheorems, WellFoundedInduction, TLAPS

\* Flatten is the loop that joins one sequence to what it has.
Joined(s, t) == s \o t

CH == INSTANCE Handling_proofs WITH Handle <- Joined

\* Min picks a member of the set,
LEMMA MinIsMember ==
  ASSUME NEW S, S \subseteq Nat, S # {}
  PROVE  Min(S) \in S
BY CH!LeastExists, Zenon DEF Min

\* and none is less.
LEMMA MinIsLeast ==
  ASSUME NEW S, S \subseteq Nat, NEW y \in S
  PROVE  Min(S) =< y
BY CH!LeastExists, Zenon DEF Min

\* Max picks the greatest number of a set of naturals up to n.
LEMMA MaxIsGreatest ==
  ASSUME NEW n \in Nat, NEW S \in SUBSET (0 .. n), S # {}
  PROVE  Max(S) \in S /\ \A y \in S : y =< Max(S)
<1> DEFINE T == {n - x : x \in S}
<1>1. T \subseteq Nat /\ T # {}
  <2>1. \A x \in S : n - x \in Nat
    OBVIOUS
  <2> QED BY <2>1
<1>2. PICK t \in T : \A y \in T : t =< y
  BY <1>1, CH!LeastExists
<1>3. PICK x \in S : t = n - x
  BY <1>2
<1>4. \A y \in S : x >= y
  <2> SUFFICES ASSUME NEW y \in S PROVE x >= y
    OBVIOUS
  <2>1. n - y \in T /\ x \in 0 .. n /\ y \in 0 .. n
    OBVIOUS
  <2>2. n - x =< n - y
    BY <1>2, <1>3, <2>1
  <2> QED BY <2>1, <2>2
<1>5. Max(S) \in S /\ \A y \in S : Max(S) >= y
  BY <1>4, Zenon DEF Max
<1>6. \A y \in S : y =< Max(S)
  BY <1>5
<1> QED BY <1>5, <1>6

----------------------------------------------------------------------------
(* Events of several lines.                                                *)

LEMMA FlattenIsLoop == \A ss : Flatten(ss) = CH!Result(<<>>, ss)
BY Zenon DEF Flatten, HandleAll, MapThenFoldSet, Max, CH!Result,
       CH!HandleAll, CH!MapThenFoldSet, CH!Max, Joined

\* One sequence more is joined at the end.
LEMMA FlattenAppend ==
  ASSUME NEW T, NEW ss \in Seq(T), NEW t \in T
  PROVE  Flatten(Append(ss, t)) = Flatten(ss) \o t
<1> DEFINE more == Append(ss, t)
           n    == Len(ss)
<1>1. /\ more \in Seq(T) /\ n \in Nat /\ Len(more) = n + 1
      /\ more[n + 1] = t /\ SubSeq(more, 1, n) = ss
  OBVIOUS
<1> HIDE DEF more, n
<1>2. PICK f : /\ CH!IsRun(f, Len(more), <<>>, more)
               /\ CH!Result(<<>>, more) = f[Len(more)]
               /\ \A i \in 0 .. Len(more) :
                    CH!Result(<<>>, SubSeq(more, 1, i)) = f[i]
  BY <1>1, CH!LoopPrefixes
<1>3. f[n + 1] = f[n] \o t
  <2>1. PICK j \in 1 .. Len(more) : j = n + 1 /\ j - 1 = n
    BY <1>1
  <2>2. \A i \in 1 .. Len(more) : f[i] = f[i - 1] \o more[i]
    BY <1>2, Zenon DEF CH!IsRun, Joined
  <2>3. f[j] = f[j - 1] \o more[j]
    BY <2>2, Zenon
  <2> QED BY <1>1, <2>1, <2>3, Zenon
<1>4. n \in 0 .. Len(more)
  BY <1>1
<1>5. Flatten(ss) = f[n]
  BY <1>1, <1>2, <1>4, FlattenIsLoop, Zenon
<1> QED BY <1>1, <1>2, <1>3, <1>5, FlattenIsLoop, Zenon DEF more, n

\* No sequence, no element.
LEMMA FlattenNone == Flatten(<<>>) = <<>>
<1>1. DOMAIN <<>> = 1 .. 0
  OBVIOUS
<1>2. PICK f : CH!IsRun(f, 0, <<>>, <<>>) /\ CH!Result(<<>>, <<>>) = f[0]
  BY <1>1, CH!LoopStates, Zenon
<1> QED BY <1>2, FlattenIsLoop, Zenon DEF CH!IsRun

Event == (0 .. Infinity - 1) \X Messages

\* The first n + 1 lines are the first n and the next one.
LEMMA FrontStep ==
  ASSUME NEW T, NEW s \in Seq(T), NEW n \in 0 .. Len(s) - 1
  PROVE  /\ SubSeq(s, 1, n + 1) = Append(SubSeq(s, 1, n), s[n + 1])
         /\ SubSeq(s, 1, n) \in Seq(T) /\ s[n + 1] \in T
OBVIOUS

\* A sequence is its front part and the rest.
LEMMA SplitAt ==
  ASSUME NEW T, NEW s \in Seq(T), NEW n \in 0 .. Len(s)
  PROVE  LET a == SubSeq(s, 1, n)
             b == SubSeq(s, n + 1, Len(s))
         IN /\ a \in Seq(T) /\ Len(a) = n /\ \A i \in 1 .. n : a[i] = s[i]
            /\ b \in Seq(T)
            /\ s = a \o b
<1> DEFINE a == SubSeq(s, 1, n)
           b == SubSeq(s, n + 1, Len(s))
<1>1. a \in Seq(T) /\ Len(a) = n /\ \A i \in 1 .. n : a[i] = s[i]
  OBVIOUS
<1>2. b \in Seq(T)
  OBVIOUS
<1>3. s = a \o b
  <2>1. /\ 1 \in 1 .. Len(s) + 1 /\ n \in 1 - 1 .. Len(s)
        /\ Len(s) \in n .. Len(s)
    OBVIOUS
  <2>2. a \o b = SubSeq(s, 1, Len(s))
    BY <2>1, ConcatAdjacentSubSeq
  <2>3. SubSeq(s, 1, Len(s)) = s
    OBVIOUS
  <2> QED BY <2>2, <2>3, ZenonT(60)
<1> QED BY <1>1, <1>2, <1>3

LEMMA ConcatAppend ==
  ASSUME NEW T, NEW s \in Seq(T), NEW t \in Seq(T), NEW x \in T
  PROVE  s \o Append(t, x) = Append(s \o t, x)
OBVIOUS

LEMMA AppendIs ==
  ASSUME NEW T, NEW s \in Seq(T), NEW x \in T
  PROVE  Append(s, x) = [i \in 1 .. Len(s) + 1 |->
                           IF i = Len(s) + 1 THEN x ELSE s[i]]
<1> DEFINE f == [i \in 1 .. Len(s) + 1 |->
                   IF i = Len(s) + 1 THEN x ELSE s[i]]
           a == Append(s, x)
<1>1. /\ a \in Seq(T) /\ Len(a) = Len(s) + 1 /\ Len(s) \in Nat
      /\ \A i \in 1 .. Len(s) + 1 : a[i] = f[i]
  OBVIOUS
<1>2. a = [i \in 1 .. Len(s) + 1 |-> a[i]]
  <2> HIDE DEF a
  <2> QED BY <1>1
<1> HIDE DEF a
<1>3. [i \in 1 .. Len(s) + 1 |-> a[i]] = [i \in 1 .. Len(s) + 1 |-> f[i]]
  BY <1>1, Zenon
<1>4. [i \in 1 .. Len(s) + 1 |-> f[i]] = f
  OBVIOUS
<1> QED BY <1>2, <1>3, <1>4, Zenon DEF a

\* The event of one line.
EventOf(line) == IF line = Blank THEN <<>> ELSE <<line>>

LEMMA LineIsEvent ==
  ASSUME NEW line \in Line
  PROVE  /\ EventOf(line) \in Seq(Event)
         /\ line # Blank => line \in Event
BY DEF EventOf, Line, Event

LEMMA EventsAssociate ==
  \A a, b, c \in Seq(Event) : (a \o b) \o c = a \o (b \o c)
BY ConcatAssociative

LEMMA EventsNone == Events(<<>>) = <<>>
<1> DEFINE g == [i \in DOMAIN <<>> |-> EventOf(<<>>[i])]
<1>1. g = <<>>
  OBVIOUS
<1>2. Events(<<>>) = Flatten(g)
  BY Zenon DEF Events, EventOf
<1> QED BY <1>1, <1>2, FlattenNone, Zenon

\* One line more adds its event at the end.
LEMMA EventsAppend ==
  ASSUME NEW lines \in Seq(Line), NEW line \in Line
  PROVE  Events(Append(lines, line)) = Events(lines) \o EventOf(line)
<1> DEFINE ss   == [i \in DOMAIN lines |-> EventOf(lines[i])]
           more == Append(lines, line)
           tt   == [i \in DOMAIN more |-> EventOf(more[i])]
           T    == Seq(Event)
           e    == EventOf(line)
<1>1. Events(lines) = Flatten(ss) /\ Events(more) = Flatten(tt)
  BY Zenon DEF Events, EventOf
<1>2. /\ Len(lines) \in Nat /\ DOMAIN lines = 1 .. Len(lines)
      /\ DOMAIN more = 1 .. Len(lines) + 1
      /\ \A i \in 1 .. Len(lines) : more[i] = lines[i]
      /\ more[Len(lines) + 1] = line
      /\ \A i \in 1 .. Len(lines) : lines[i] \in Line
  OBVIOUS
<1>3. ss \in Seq(T) /\ e \in T
  <2>1. \A i \in 1 .. Len(lines) : EventOf(lines[i]) \in T
    BY <1>2, LineIsEvent, Zenon
  <2>2. ss \in [1 .. Len(lines) -> T]
    BY <1>2, <2>1, Zenon
  <2>3. ss \in Seq(T)
    <3> HIDE DEF ss, T
    <3> QED BY <1>2, <2>2
  <2> QED BY <2>3, LineIsEvent, Zenon
<1>4. tt = Append(ss, e)
  <2>1. Len(ss) = Len(lines)
    BY <1>2
  <2>2. tt = [i \in 1 .. Len(lines) + 1 |->
                IF i = Len(lines) + 1 THEN e ELSE ss[i]]
    <3>1. \A i \in 1 .. Len(lines) + 1 :
            i # Len(lines) + 1 => i \in 1 .. Len(lines)
      BY <1>2
    <3>2. \A i \in 1 .. Len(lines) : ss[i] = EventOf(lines[i])
      BY <1>2, Zenon
    <3>3. \A i \in 1 .. Len(lines) + 1 :
            EventOf(more[i])
              = IF i = Len(lines) + 1 THEN e ELSE ss[i]
      BY <1>2, <3>1, <3>2, Zenon
    <3> HIDE DEF ss, more, e
    <3> QED BY <1>2, <3>3, Zenon
  <2> HIDE DEF tt, e, ss
  <2> QED BY <1>2, <1>3, <2>1, <2>2
<1>5. Flatten(Append(ss, e)) = Flatten(ss) \o e
  <2> HIDE DEF ss, e
  <2> QED BY <1>3, FlattenAppend, Zenon
<1> QED BY <1>1, <1>4, <1>5, Zenon

\* By induction over the number of lines: they give events,
LEMMA EventsAreEvents ==
  ASSUME NEW lines \in Seq(Line)
  PROVE  Events(lines) \in Seq(Event)
<1> DEFINE S == {n \in Nat : Events(SubSeq(lines, 1, n)) \in Seq(Event)}
<1>1. 0 \in S
  <2>1. SubSeq(lines, 1, 0) = <<>>
    OBVIOUS
  <2>2. <<>> \in Seq(Event)
    OBVIOUS
  <2> QED BY <2>1, <2>2, EventsNone
<1>2. ASSUME NEW n \in 0 .. Len(lines) - 1, n \in S PROVE n + 1 \in S
  <2>1. /\ SubSeq(lines, 1, n + 1)
             = Append(SubSeq(lines, 1, n), lines[n + 1])
        /\ SubSeq(lines, 1, n) \in Seq(Line) /\ lines[n + 1] \in Line
    BY FrontStep
  <2>2. Events(SubSeq(lines, 1, n + 1))
          = Events(SubSeq(lines, 1, n)) \o EventOf(lines[n + 1])
    BY <2>1, EventsAppend, Zenon
  <2>3. Events(SubSeq(lines, 1, n)) \in Seq(Event)
    BY <1>2
  <2>4. Events(SubSeq(lines, 1, n + 1)) \in Seq(Event)
    BY <2>1, <2>2, <2>3, LineIsEvent, ConcatProperties, Zenon
  <2> QED BY <2>4
<1>3. Len(lines) \in S
  <2>1. Len(lines) \in Nat
    OBVIOUS
  <2> HIDE DEF S
  <2>2. 0 .. Len(lines) \subseteq S
    BY <1>1, <1>2, <2>1, CH!UpTo
  <2> QED BY <2>1, <2>2
<1>4. SubSeq(lines, 1, Len(lines)) = lines
  OBVIOUS
<1> QED BY <1>3, <1>4

\* and of two lists of lines those of one after those of the other.
LEMMA EventsConcat ==
  ASSUME NEW a \in Seq(Line), NEW b \in Seq(Line)
  PROVE  Events(a \o b) = Events(a) \o Events(b)
<1> DEFINE F(n) == SubSeq(b, 1, n)
           S == {n \in Nat : Events(a \o F(n)) = Events(a) \o Events(F(n))}
<1>0. Events(a) \in Seq(Event)
  BY EventsAreEvents
<1>1. 0 \in S
  <2>1. F(0) = <<>> /\ a \o F(0) = a
    OBVIOUS
  <2>2. Events(a) \o <<>> = Events(a)
    BY <1>0, ConcatEmptySeq, Zenon
  <2> QED BY <2>1, <2>2, EventsNone
<1>2. ASSUME NEW n \in 0 .. Len(b) - 1, n \in S PROVE n + 1 \in S
  <2>1. /\ F(n + 1) = Append(F(n), b[n + 1])
        /\ F(n) \in Seq(Line) /\ b[n + 1] \in Line
    BY FrontStep
  <2> HIDE DEF F
  <2>2. a \o F(n + 1) = Append(a \o F(n), b[n + 1])
    <3> DEFINE x == F(n)
               y == b[n + 1]
    <3>1. x \in Seq(Line) /\ y \in Line
      BY <2>1
    <3> HIDE DEF x, y
    <3>2. a \o Append(x, y) = Append(a \o x, y)
      BY <3>1, ConcatAppend
    <3> QED BY <2>1, <3>2, Zenon DEF x, y
  <2>3. a \o F(n) \in Seq(Line)
    BY <2>1
  <2>4. Events(a \o F(n + 1))
          = (Events(a) \o Events(F(n))) \o EventOf(b[n + 1])
    BY <1>2, <2>1, <2>2, <2>3, EventsAppend, Zenon
  <2>5. Events(F(n + 1)) = Events(F(n)) \o EventOf(b[n + 1])
    BY <2>1, EventsAppend, Zenon
  <2>6. Events(F(n)) \in Seq(Event) /\ EventOf(b[n + 1]) \in Seq(Event)
    BY <2>1, EventsAreEvents, LineIsEvent, Zenon
  <2>7. (Events(a) \o Events(F(n))) \o EventOf(b[n + 1])
          = Events(a) \o (Events(F(n)) \o EventOf(b[n + 1]))
    <3> DEFINE x == Events(a)
               y == Events(F(n))
               z == EventOf(b[n + 1])
    <3>1. x \in Seq(Event) /\ y \in Seq(Event) /\ z \in Seq(Event)
      BY <1>0, <2>6
    <3> HIDE DEF x, y, z
    <3>2. (x \o y) \o z = x \o (y \o z)
      BY <3>1, EventsAssociate, Zenon
    <3> QED BY <3>2 DEF x, y, z
  <2>8. n + 1 \in Nat
    OBVIOUS
  <2> QED BY <2>4, <2>5, <2>7, <2>8, Zenon
<1>3. Len(b) \in S
  <2>1. Len(b) \in Nat
    OBVIOUS
  <2> HIDE DEF S
  <2>2. 0 .. Len(b) \subseteq S
    BY <1>1, <1>2, <2>1, CH!UpTo
  <2> QED BY <2>1, <2>2
<1>4. F(Len(b)) = b
  OBVIOUS
<1> QED BY <1>3, <1>4

\* Blank lines are no events,
LEMMA EventsOfBlanks ==
  ASSUME NEW lines \in Seq(Line), \A i \in 1 .. Len(lines) : lines[i] = Blank
  PROVE  Events(lines) = <<>>
<1> DEFINE F(n) == SubSeq(lines, 1, n)
           S == {n \in Nat : Events(F(n)) = <<>>}
<1>1. 0 \in S
  <2>1. F(0) = <<>>
    OBVIOUS
  <2> QED BY <2>1, EventsNone
<1>2. ASSUME NEW n \in 0 .. Len(lines) - 1, n \in S PROVE n + 1 \in S
  <2>1. /\ F(n + 1) = Append(F(n), lines[n + 1])
        /\ F(n) \in Seq(Line) /\ lines[n + 1] \in Line
    BY FrontStep
  <2> HIDE DEF F
  <2>2. lines[n + 1] = Blank
    OBVIOUS
  <2>3. Events(F(n + 1)) = Events(F(n)) \o EventOf(lines[n + 1])
    BY <2>1, EventsAppend, Zenon
  <2>4. Events(F(n + 1)) = <<>> \o <<>>
    BY <1>2, <2>2, <2>3 DEF EventOf
  <2>5. <<>> \o <<>> = <<>>
    OBVIOUS
  <2> QED BY <2>4, <2>5
<1>3. Len(lines) \in S
  <2>1. Len(lines) \in Nat
    OBVIOUS
  <2> HIDE DEF S
  <2>2. 0 .. Len(lines) \subseteq S
    BY <1>1, <1>2, <2>1, CH!UpTo
  <2> QED BY <2>1, <2>2
<1>4. F(Len(lines)) = lines
  OBVIOUS
<1> QED BY <1>3, <1>4

\* and lines that are not blank are events.
LEMMA EventsOfEvents ==
  ASSUME NEW lines \in Seq(Line), \A i \in 1 .. Len(lines) : lines[i] # Blank
  PROVE  Events(lines) = lines
<1> DEFINE F(n) == SubSeq(lines, 1, n)
           S == {n \in Nat : Events(F(n)) = F(n)}
<1>1. 0 \in S
  <2>1. F(0) = <<>>
    OBVIOUS
  <2> QED BY <2>1, EventsNone
<1>2. ASSUME NEW n \in 0 .. Len(lines) - 1, n \in S PROVE n + 1 \in S
  <2>1. /\ F(n + 1) = Append(F(n), lines[n + 1])
        /\ F(n) \in Seq(Line) /\ lines[n + 1] \in Line
    BY FrontStep
  <2> HIDE DEF F
  <2>2. lines[n + 1] # Blank
    OBVIOUS
  <2>3. Events(F(n + 1)) = Events(F(n)) \o EventOf(lines[n + 1])
    BY <2>1, EventsAppend, Zenon
  <2>4. Events(F(n + 1)) = F(n) \o <<lines[n + 1]>>
    BY <1>2, <2>2, <2>3, Zenon DEF EventOf
  <2>5. F(n) \o <<lines[n + 1]>> = Append(F(n), lines[n + 1])
    BY <2>1, AppendIsConcat, Zenon
  <2>6. n + 1 \in Nat
    OBVIOUS
  <2> QED BY <2>1, <2>4, <2>5, <2>6, Zenon
<1>3. Len(lines) \in S
  <2>1. Len(lines) \in Nat
    OBVIOUS
  <2> HIDE DEF S
  <2>2. 0 .. Len(lines) \subseteq S
    BY <1>1, <1>2, <2>1, CH!UpTo
  <2> QED BY <2>1, <2>2
<1>4. F(Len(lines)) = lines
  OBVIOUS
<1> QED BY <1>3, <1>4

----------------------------------------------------------------------------
(* The generator.                                                          *)

Fields == {"stream", "last", "next", "output", "prefetched_time",
           "prefetched_message", "failed"}

\* A state of the generator with times that are numbers and a stream of lines.
Typed(s) ==
  /\ s = [x \in Fields |-> s[x]]
  /\ s.stream \in Seq(Line)
  /\ s.last \in Int /\ s.next \in Int /\ s.prefetched_time \in Int
  /\ s.failed \in BOOLEAN

\* The line read ahead, if there is one, comes after the next output.
ReadAhead(s) ==
  s.failed \/ s.prefetched_time = Infinity \/ s.next < s.prefetched_time

\* A line that is not blank has a time.
LEMMA LineTimed ==
  ASSUME NEW line \in Line, line # Blank
  PROVE  line[1] \in 0 .. Infinity - 1
BY DEF Line

\* What is left of the stream is a stream of lines with the same events.
LEMMA AfterBlanksIsStream ==
  ASSUME NEW lines \in Seq(Line)
  PROVE  /\ AfterBlanks(lines) \in Seq(Line)
         /\ Events(AfterBlanks(lines)) = Events(lines)
<1> DEFINE events == {i \in DOMAIN lines : lines[i] # Blank}
           first  == Min(events)
<1>1. CASE events = {}
  <2>1. AfterBlanks(lines) = <<>> /\ <<>> \in Seq(Line)
    BY <1>1 DEF AfterBlanks
  <2>2. \A i \in 1 .. Len(lines) : lines[i] = Blank
    BY <1>1
  <2> QED BY <2>1, <2>2, EventsNone, EventsOfBlanks
<1>2. CASE events # {}
  <2>1. events \subseteq Nat
    OBVIOUS
  <2>2. first \in events
    BY <1>2, <2>1, MinIsMember
  <2>3. first \in 1 .. Len(lines)
    BY <2>2
  <2>4. AfterBlanks(lines) = SubSeq(lines, first, Len(lines))
    BY <1>2 DEF AfterBlanks
  <2> HIDE DEF first
  <2> DEFINE blanks == SubSeq(lines, 1, first - 1)
             rest   == SubSeq(lines, first, Len(lines))
  <2>5. /\ blanks \in Seq(Line) /\ rest \in Seq(Line)
        /\ Len(blanks) = first - 1
        /\ \A i \in 1 .. first - 1 : blanks[i] = lines[i]
    BY <2>3
  <2>6. lines = blanks \o rest
    BY <2>3
  <2>7. \A i \in 1 .. first - 1 : lines[i] = Blank
    <3> SUFFICES ASSUME NEW i \in 1 .. first - 1, i \in events
                 PROVE  FALSE
      BY <2>3
    <3>1. first =< i
      BY <2>1, MinIsLeast DEF first
    <3> QED BY <2>3, <3>1
  <2> HIDE DEF blanks, rest
  <2>8. Events(blanks) = <<>>
    BY <2>5, <2>7, EventsOfBlanks
  <2>9. Events(lines) = <<>> \o Events(rest)
    BY <2>5, <2>6, <2>8, EventsConcat, Zenon
  <2>10. Events(rest) \in Seq(Event)
    BY <2>5, EventsAreEvents, Zenon
  <2>11. Events(lines) = Events(rest)
    BY <2>9, <2>10, ConcatEmptySeq, Zenon
  <2> QED BY <2>4, <2>5, <2>11, Zenon DEF rest
<1> QED BY <1>1, <1>2

\* The lines of the instant, and behind them one that is blank or of another
\* instant.
LEMMA SameInstantEnds ==
  ASSUME NEW lines \in Seq(Line), NEW now \in Int
  PROVE  LET n == SameInstant(lines, now)
         IN /\ n \in 0 .. Len(lines)
            /\ \A i \in 1 .. n : lines[i] # Blank /\ lines[i][1] = now
            /\ n # Len(lines) =>
                 /\ n + 1 \in 1 .. Len(lines)
                 /\ lines[n + 1] = Blank \/ lines[n + 1][1] # now
<1> DEFINE fits == {k \in 0 .. Len(lines) :
                      \A i \in 1 .. k : lines[i] # Blank /\ lines[i][1] = now}
           n    == SameInstant(lines, now)
<1>1. fits \in SUBSET (0 .. Len(lines)) /\ 0 \in fits /\ Len(lines) \in Nat
  OBVIOUS
<1>2. n \in fits /\ \A k \in fits : k =< n
  <2> HIDE DEF fits
  <2>1. Max(fits) \in fits /\ \A k \in fits : k =< Max(fits)
    BY <1>1, MaxIsGreatest
  <2> QED BY <2>1 DEF SameInstant, fits
<1>3. /\ n \in 0 .. Len(lines)
      /\ \A i \in 1 .. n : lines[i] # Blank /\ lines[i][1] = now
  BY <1>2
<1> HIDE DEF n
<1>4. ASSUME n # Len(lines)
      PROVE  /\ n + 1 \in 1 .. Len(lines)
             /\ lines[n + 1] = Blank \/ lines[n + 1][1] # now
  <2>1. n + 1 \in 1 .. Len(lines) /\ n + 1 \in 0 .. Len(lines)
    BY <1>1, <1>3, <1>4
  <2>2. n + 1 \notin fits
    BY <1>2, <1>3
  <2>3. PICK i \in 1 .. n + 1 : ~ (lines[i] # Blank /\ lines[i][1] = now)
    BY <2>1, <2>2
  <2>4. i = n + 1
    BY <1>3, <2>3
  <2> QED BY <2>1, <2>3, <2>4
<1> QED BY <1>3, <1>4 DEF n

\* Fetching moves the line read ahead to the output and reads up to a line of
\* a later instant, or fails.
LEMMA FetchReadsAhead ==
  ASSUME NEW s, Typed(s), ~ s.failed
  PROVE  LET r == fetchUntilTimeAdvances(s)
         IN /\ Typed(r) /\ ReadAhead(r)
            /\ r.failed \/ r.next = s.prefetched_time
<1> DEFINE now   == s.prefetched_time
           lines == AfterBlanks(s.stream)
           n     == SameInstant(lines, now)
           batch == [s EXCEPT !.next = now,
                              !.output = <<s.prefetched_message>>
                                           \o [i \in 1 .. n |-> lines[i][2]],
                              !.stream = SubSeq(lines, n + 2, Len(lines))]
           r     == fetchUntilTimeAdvances(s)
<1>1. now \in Int /\ lines \in Seq(Line) /\ Len(lines) \in Nat
  BY AfterBlanksIsStream DEF Typed
<1> HIDE DEF now, lines
<1>2. /\ n \in 0 .. Len(lines)
      /\ n # Len(lines) =>
           /\ n + 1 \in 1 .. Len(lines)
           /\ lines[n + 1] = Blank \/ lines[n + 1][1] # now
  BY <1>1, SameInstantEnds
<1> HIDE DEF n
<1>3. /\ Typed(batch) /\ batch.next = now /\ batch.failed = FALSE
  <2>1. SubSeq(lines, n + 2, Len(lines)) \in Seq(Line)
    BY <1>1, <1>2
  <2> QED BY <1>1, <2>1 DEF Typed, Fields
<1>4. r = IF n = Len(lines) \/ lines[n + 1] = Blank
          THEN [batch EXCEPT !.prefetched_time = Infinity]
          ELSE IF lines[n + 1][1] < now THEN [s EXCEPT !.failed = TRUE]
          ELSE [batch EXCEPT !.prefetched_time    = lines[n + 1][1],
                             !.prefetched_message = lines[n + 1][2]]
  BY DEF fetchUntilTimeAdvances, now, lines, n
<1> HIDE DEF batch, r
<1>5. CASE n = Len(lines) \/ lines[n + 1] = Blank
  <2>1. r = [batch EXCEPT !.prefetched_time = Infinity]
    BY <1>4, <1>5
  <2>2. Infinity \in Int
    BY TimeAssumption
  <2>3. Typed(r) /\ r.next = now /\ r.prefetched_time = Infinity
    BY <1>3, <2>1, <2>2 DEF Typed, Fields
  <2> QED BY <2>3 DEF ReadAhead, now, r
<1>6. CASE ~ (n = Len(lines) \/ lines[n + 1] = Blank)
  <2>1. lines[n + 1] \in Line
    BY <1>1, <1>2, <1>6
  <2>2. lines[n + 1][1] \in 0 .. Infinity - 1 /\ lines[n + 1][1] # now
    BY <1>2, <1>6, <2>1, LineTimed
  <2>3. lines[n + 1][1] \in Int
    BY <2>2, TimeAssumption
  <2>4. CASE lines[n + 1][1] < now
    <3>1. r = [s EXCEPT !.failed = TRUE]
      BY <1>4, <1>6, <2>4
    <3>2. Typed(r) /\ r.failed
      BY <3>1 DEF Typed, Fields
    <3> QED BY <3>2 DEF ReadAhead, r
  <2>5. CASE ~ (lines[n + 1][1] < now)
    <3>1. r = [batch EXCEPT !.prefetched_time    = lines[n + 1][1],
                            !.prefetched_message = lines[n + 1][2]]
      BY <1>4, <1>6, <2>5
    <3>2. Typed(r) /\ r.next = now /\ r.prefetched_time = lines[n + 1][1]
      BY <1>3, <2>3, <3>1 DEF Typed, Fields
    <3>3. now < r.prefetched_time
      BY <1>1, <2>2, <2>3, <2>5, <3>2
    <3> QED BY <3>2, <3>3 DEF ReadAhead, now, r
  <2> QED BY <2>4, <2>5
<1> QED BY <1>5, <1>6

\* The next output and the line read ahead, as events.
Waiting(s) == At(s.next, s.output)
Ahead(s)   == <<<<s.prefetched_time, s.prefetched_message>>>>

\* The line read ahead is an event, if there is one.
HasAhead(s) ==
  /\ s.prefetched_time \in 0 .. Infinity - 1
  /\ s.prefetched_message \in Messages

\* Fetching takes nothing from the events to come: those of the new output
\* come first, then the line read ahead, then what is left of the stream.
\* If no line could be read ahead the output is still the beginning of them.
LEMMA FetchKeepsEvents ==
  ASSUME NEW s, Typed(s), ~ s.failed, HasAhead(s)
  PROVE  LET r    == fetchUntilTimeAdvances(s)
             todo == Ahead(s) \o Events(s.stream)
         IN ~ r.failed =>
              /\ Waiting(r) \in Seq(Event)
              /\ \E x \in Seq(Event) : todo = Waiting(r) \o x
              /\ r.prefetched_time # Infinity =>
                   /\ HasAhead(r)
                   /\ todo = Waiting(r) \o (Ahead(r) \o Events(r.stream))
<1> DEFINE now   == s.prefetched_time
           msg   == s.prefetched_message
           lines == AfterBlanks(s.stream)
           n     == SameInstant(lines, now)
           out   == <<msg>> \o [i \in 1 .. n |-> lines[i][2]]
           batch == [s EXCEPT !.next = now, !.output = out,
                              !.stream = SubSeq(lines, n + 2, Len(lines))]
           r     == fetchUntilTimeAdvances(s)
           todo  == Ahead(s) \o Events(s.stream)
           front == SubSeq(lines, 1, n)
           back  == SubSeq(lines, n + 1, Len(lines))
           rest  == SubSeq(lines, n + 2, Len(lines))
<1>0. now \in 0 .. Infinity - 1 /\ now \in Int /\ msg \in Messages
  BY TimeAssumption DEF HasAhead, Typed
<1>1. /\ lines \in Seq(Line) /\ Len(lines) \in Nat
      /\ Events(lines) = Events(s.stream)
  BY AfterBlanksIsStream DEF Typed
<1>2. Ahead(s) = <<<<now, msg>>>>
  BY DEF Ahead
<1>r. r = IF n = Len(lines) \/ lines[n + 1] = Blank
          THEN [batch EXCEPT !.prefetched_time = Infinity]
          ELSE IF lines[n + 1][1] < now THEN [s EXCEPT !.failed = TRUE]
          ELSE [batch EXCEPT !.prefetched_time    = lines[n + 1][1],
                             !.prefetched_message = lines[n + 1][2]]
  BY DEF fetchUntilTimeAdvances
<1> HIDE DEF now, msg, lines
<1>3. /\ n \in 0 .. Len(lines)
      /\ \A i \in 1 .. n : lines[i] # Blank /\ lines[i][1] = now
  BY <1>0, <1>1, SameInstantEnds
<1> HIDE DEF n
<1>4. \A i \in 1 .. n : /\ lines[i] \in Line /\ lines[i] # Blank
                        /\ lines[i][2] \in Messages
                        /\ lines[i] = <<now, lines[i][2]>>
  <2> SUFFICES ASSUME NEW i \in 1 .. n
               PROVE  /\ lines[i] \in Line /\ lines[i] # Blank
                      /\ lines[i][2] \in Messages
                      /\ lines[i] = <<now, lines[i][2]>>
    OBVIOUS
  <2>1. lines[i] \in Line /\ lines[i] # Blank /\ lines[i][1] = now
    BY <1>1, <1>3
  <2> QED BY <2>1 DEF Line
<1>5. /\ front \in Seq(Line) /\ Len(front) = n
      /\ \A i \in 1 .. n : front[i] = lines[i]
      /\ back \in Seq(Line) /\ rest \in Seq(Line)
      /\ lines = front \o back
  <2>1. rest \in Seq(Line)
    BY <1>1, <1>3
  <2> QED BY <1>1, <1>3, <2>1, SplitAt
<1>6. /\ DOMAIN out = 1 .. n + 1 /\ out[1] = msg
      /\ \A i \in 1 .. n : out[i + 1] = lines[i][2]
  <2> DEFINE g == [i \in 1 .. n |-> lines[i][2]]
  <2>1. /\ g \in Seq(Messages) /\ Len(g) = n
        /\ \A i \in 1 .. n : g[i] = lines[i][2]
    <3>1. g \in [1 .. n -> Messages] /\ n \in Nat
      BY <1>3, <1>4
    <3> QED BY <3>1
  <2>2. \A i \in 1 .. n + 1 : i = 1 \/ i - 1 \in 1 .. n
    BY <1>3
  <2> HIDE DEF g
  <2>3. out = <<msg>> \o g
    BY DEF g
  <2> HIDE DEF out
  <2> QED BY <1>0, <2>1, <2>3
<1> DEFINE w == At(now, out)
<1>7. w \in Seq(Event) /\ w = <<<<now, msg>>>> \o front
  <2>1. DOMAIN w = 1 .. n + 1 /\ \A i \in 1 .. n + 1 : w[i] = <<now, out[i]>>
    BY <1>6 DEF At
  <2> HIDE DEF w, out
  <2>2. w[1] = <<now, msg>> /\ \A i \in 1 .. n : w[i + 1] = front[i]
    <3>1. 1 \in 1 .. n + 1 /\ \A i \in 1 .. n : i + 1 \in 1 .. n + 1
      BY <1>3
    <3>2. w[1] = <<now, msg>>
      BY <1>6, <2>1, <3>1 DEF out
    <3>3. ASSUME NEW i \in 1 .. n PROVE w[i + 1] = front[i]
      <4>1. w[i + 1] = <<now, out[i + 1]>>
        BY <2>1, <3>1
      <4>2. out[i + 1] = lines[i][2]
        BY <1>6 DEF out
      <4>3. lines[i] = <<now, lines[i][2]>> /\ front[i] = lines[i]
        BY <1>4, <1>5
      <4> QED BY <4>1, <4>2, <4>3
    <3> QED BY <3>2, <3>3
  <2> DEFINE v == <<<<now, msg>>>> \o front
             E == Line \cup Event
  <2>3. <<now, msg>> \in Event /\ \A i \in 1 .. n : front[i] \in Event
    <3>1. <<now, msg>> \in Event
      BY <1>0 DEF Event
    <3>2. \A i \in 1 .. n : front[i] \in Event
      BY <1>4, <1>5, LineIsEvent, Zenon
    <3> QED BY <3>1, <3>2
  <2> HIDE DEF front
  <2>4. front \in Seq(Event)
    <3>1. DOMAIN front = 1 .. n /\ n \in Nat /\ front \in Seq(Line)
      BY <1>3, <1>5
    <3>2. front \in [1 .. n -> Event]
      BY <2>3, <3>1
    <3> QED BY <3>1, <3>2
  <2>5. v \in Seq(Event) /\ Len(v) = n + 1 /\ v[1] = <<now, msg>>
        /\ \A i \in 1 .. n : v[i + 1] = front[i]
    BY <1>3, <1>5, <2>3, <2>4
  <2>6. \A i \in 1 .. n + 1 : i = 1 \/ \E j \in 1 .. n : i = j + 1
    <3> SUFFICES ASSUME NEW i \in 1 .. n + 1, i # 1
                 PROVE  \E j \in 1 .. n : i = j + 1
      OBVIOUS
    <3>1. i - 1 \in 1 .. n /\ i = (i - 1) + 1
      BY <1>3
    <3> QED BY <3>1
  <2> HIDE DEF v
  <2>7. \A i \in 1 .. n + 1 : w[i] = v[i]
    BY <2>2, <2>5, <2>6, Zenon
  <2>8. w = v
    <3>1. w = [i \in 1 .. n + 1 |-> w[i]]
      BY <2>1 DEF w, At
    <3>2. v = [i \in 1 .. n + 1 |-> v[i]]
      BY <2>5
    <3> QED BY <2>7, <3>1, <3>2
  <2> QED BY <2>5, <2>8 DEF v
<1>8. todo = w \o Events(back)
  <2>1. Events(front) = front /\ front \in Seq(Event)
    <3>1. \A i \in 1 .. Len(front) : front[i] # Blank
      BY <1>4, <1>5
    <3> HIDE DEF front
    <3> QED BY <1>5, <3>1, EventsOfEvents, EventsAreEvents
  <2> HIDE DEF w, front, back
  <2>2. Events(s.stream) = front \o Events(back)
    <3>1. Events(lines) = Events(front) \o Events(back)
      BY <1>5, EventsConcat, Zenon DEF front, back
    <3> QED BY <1>1, <2>1, <3>1
  <2>3. <<<<now, msg>>>> \in Seq(Event) /\ Events(back) \in Seq(Event)
    <3>1. <<now, msg>> \in Event
      BY <1>0 DEF Event
    <3> QED BY <1>5, <3>1, EventsAreEvents
  <2> DEFINE x == <<<<now, msg>>>>
             y == Events(back)
  <2>4. todo = x \o (front \o y)
    BY <1>2, <2>2
  <2> HIDE DEF x, y, todo
  <2>5. x \in Seq(Event) /\ y \in Seq(Event)
    BY <2>3 DEF x, y
  <2>6. x \o (front \o y) = (x \o front) \o y
    BY <2>1, <2>5, EventsAssociate, Zenon
  <2> QED BY <1>7, <2>4, <2>6, Zenon DEF x, y
<1> HIDE DEF todo, w, front, back, batch, r, out
<1>9. /\ Typed(s) /\ s = [x \in Fields |-> s[x]]
      /\ batch = [s EXCEPT !.next = now, !.output = out, !.stream = rest]
  BY DEF Typed, batch
<1> HIDE DEF rest
<1>10. Events(back) \in Seq(Event)
  BY <1>5, EventsAreEvents
<1>11. CASE n = Len(lines) \/ lines[n + 1] = Blank
  <2>1. r = [batch EXCEPT !.prefetched_time = Infinity]
    BY <1>r, <1>11, Zenon
  <2>2. r.next = now /\ r.output = out /\ r.prefetched_time = Infinity
    BY <1>9, <2>1 DEF Fields
  <2>3. Waiting(r) = w
    BY <2>2, Zenon DEF Waiting, w
  <2> QED BY <1>7, <1>8, <1>10, <2>2, <2>3 DEF r, todo
<1>12. CASE ~ (n = Len(lines) \/ lines[n + 1] = Blank)
  <2>1. CASE lines[n + 1][1] < now
    <3>1. r = [s EXCEPT !.failed = TRUE]
      BY <1>r, <1>12, <2>1, Zenon
    <3>2. r.failed
      BY <1>9, <3>1 DEF Fields
    <3> QED BY <3>2 DEF r
  <2>2. CASE ~ (lines[n + 1][1] < now)
    <3>1. r = [batch EXCEPT !.prefetched_time    = lines[n + 1][1],
                            !.prefetched_message = lines[n + 1][2]]
      BY <1>r, <1>12, <2>2, Zenon
    <3>2. /\ r.next = now /\ r.output = out /\ r.stream = rest
          /\ r.prefetched_time = lines[n + 1][1]
          /\ r.prefetched_message = lines[n + 1][2]
      BY <1>9, <3>1 DEF Fields
    <3>3. Waiting(r) = w
      BY <3>2, Zenon DEF Waiting, w
    <3> DEFINE line == lines[n + 1]
    <3>4. /\ line \in Line /\ line # Blank /\ back = <<line>> \o rest
          /\ n + 1 \in 1 .. Len(lines)
      BY <1>1, <1>3, <1>12 DEF back, rest
    <3>5. line = <<line[1], line[2]>> /\ line \in Event
          /\ line[1] \in 0 .. Infinity - 1 /\ line[2] \in Messages
      BY <3>4 DEF Line, Event
    <3>6. Ahead(r) = <<line>> /\ HasAhead(r)
      BY <3>2, <3>5 DEF Ahead, HasAhead
    <3> HIDE DEF line
    <3> DEFINE one == <<line>>
    <3>7. one \in Seq(Line) /\ \A i \in 1 .. Len(one) : one[i] # Blank
      BY <3>4
    <3>8. back = one \o rest /\ Ahead(r) = one
      BY <3>4, <3>6
    <3> HIDE DEF one
    <3>9. Events(one) = one
      BY <3>7, EventsOfEvents
    <3>10. Events(back) = Events(one) \o Events(rest)
      BY <1>5, <3>7, <3>8, EventsConcat, ZenonT(60) DEF rest
    <3>11. Events(back) = Ahead(r) \o Events(r.stream)
      BY <3>2, <3>8, <3>9, <3>10
    <3> QED BY <1>7, <1>8, <1>10, <3>3, <3>6, <3>11 DEF r, todo
  <2> QED BY <2>1, <2>2
<1> QED BY <1>11, <1>12

\* The constructor leaves the generator the same way.
LEMMA OpenedReadsAhead ==
  ASSUME NEW f \in Seq(Line)
  PROVE  Typed(Opened(f)) /\ ReadAhead(Opened(f))
<1> DEFINE s == [stream |-> f, last |-> 0, next |-> Infinity,
                 output |-> <<>>, prefetched_time |-> Infinity,
                 prefetched_message |-> <<>>, failed |-> FALSE]
           t == [s EXCEPT !.stream             = Tail(f),
                          !.prefetched_time    = Head(f)[1],
                          !.prefetched_message = Head(f)[2]]
<1>1. DOMAIN s = Fields /\ s = [x \in DOMAIN s |-> s[x]]
  BY DEF Fields
<1>2. /\ s.stream = f /\ s.last = 0 /\ s.next = Infinity
      /\ s.prefetched_time = Infinity /\ s.failed = FALSE
  OBVIOUS
<1>3. Infinity \in Int
  BY TimeAssumption
<1>4. Opened(f) = IF f = <<>> THEN s
                  ELSE IF Head(f) = Blank THEN [s EXCEPT !.failed = TRUE]
                  ELSE fetchUntilTimeAdvances(t)
  BY DEF Opened
<1> HIDE DEF s
<1>5. Typed(s) /\ ReadAhead(s)
  <2>1. s = [x \in Fields |-> s[x]]
    BY <1>1, Zenon
  <2>2. s.stream \in Seq(Line)
    BY <1>2, Zenon
  <2>3. s.last \in Int /\ s.next \in Int /\ s.prefetched_time \in Int
    BY <1>2, <1>3
  <2>4. s.failed \in BOOLEAN
    BY <1>2, Zenon
  <2> QED BY <1>2, <2>1, <2>2, <2>3, <2>4 DEF Typed, ReadAhead
<1>6. CASE f = <<>>
  BY <1>4, <1>5, <1>6
<1>7. CASE f # <<>> /\ Head(f) = Blank
  <2>1. Opened(f) = [s EXCEPT !.failed = TRUE]
    BY <1>4, <1>7
  <2> QED BY <1>5, <2>1 DEF Typed, Fields, ReadAhead
<1>8. CASE f # <<>> /\ Head(f) # Blank
  <2>1. Opened(f) = fetchUntilTimeAdvances(t)
    BY <1>4, <1>8
  <2>2. Head(f) \in Line /\ Tail(f) \in Seq(Line)
    BY <1>8
  <2>3. Head(f)[1] \in Int
    BY <1>8, <2>2, LineTimed, TimeAssumption
  <2>4. Typed(t) /\ ~ t.failed
    BY <1>2, <1>5, <2>2, <2>3 DEF Typed, Fields
  <2> HIDE DEF t
  <2> QED BY <2>1, <2>4, FetchReadsAhead
<1> QED BY <1>6, <1>7, <1>8

----------------------------------------------------------------------------

\* What was played is in the past of what waits to be played.
Inv ==
  /\ Typed(source) /\ ReadAhead(source)
  /\ DOMAIN played = 1 .. Len(played) /\ Len(played) \in Nat
  /\ \A i \in DOMAIN played : played[i].time \in Int
  /\ OneOutputPerInstant
  /\ ~ source.failed /\ source.next # Infinity =>
       \A i \in DOMAIN played : played[i].time < source.next

\* It is inductive.
LEMMA InvHolds == Spec => []Inv
<1>1. Init => Inv
  <2> SUFFICES ASSUME Init PROVE Inv
    OBVIOUS
  <2>1. file \in Seq(Line)
    BY FilesAssumption DEF Init
  <2>2. played = <<>> /\ source = Opened(file)
    BY DEF Init
  <2> QED BY <2>1, <2>2, OpenedReadsAhead DEF Inv, OneOutputPerInstant
<1>2. Inv /\ [Next]_vars => Inv'
  <2> SUFFICES ASSUME Inv, [Next]_vars PROVE Inv'
    OBVIOUS
  <2>1. CASE Play
    <3> DEFINE s   == [source EXCEPT !.last = source.next]
               now == source.next
    <3>1. /\ ~ source.failed /\ now # Infinity
          /\ source.last + TimeAdvance(source) = now
      BY <2>1 DEF Play, TimeAdvance, Inv, Typed
    <3>2. /\ Typed(s) /\ ~ s.failed
          /\ s.prefetched_time = source.prefetched_time
      BY <3>1 DEF Inv, Typed, Fields
    <3>3. source' = fetchUntilTimeAdvances(s)
      BY <2>1 DEF Play
    <3> HIDE DEF s
    <3>4. /\ Typed(source') /\ ReadAhead(source')
          /\ source'.failed \/ source'.next = source.prefetched_time
      BY <3>2, <3>3, FetchReadsAhead
    <3>5. now \in Int /\ source.prefetched_time \in Int
      BY DEF Inv, Typed
    <3>6. source.prefetched_time = Infinity \/ now < source.prefetched_time
      BY <3>1 DEF Inv, ReadAhead
    <3>7. played' = Append(played, [time   |-> now,
                                    events |-> source.output])
      BY <2>1, <3>1 DEF Play
    <3> HIDE DEF now
    <3>8. /\ DOMAIN played' = 1 .. Len(played) + 1
          /\ Len(played') = Len(played) + 1
          /\ played'[Len(played) + 1].time = now
          /\ \A i \in 1 .. Len(played) : played'[i] = played[i]
      BY <3>7 DEF Inv
    <3>9. \A i \in 1 .. Len(played) :
            played[i].time \in Int /\ played[i].time < now
      BY <3>1 DEF Inv, now
    <3>10. Len(played) \in Nat
      BY DEF Inv
    <3>11. \A i \in DOMAIN played' :
             played'[i].time \in Int /\ played'[i].time <= now
      <4> SUFFICES ASSUME NEW i \in 1 .. Len(played) + 1
                   PROVE  /\ played'[i].time \in Int
                          /\ played'[i].time <= now
        BY <3>8
      <4>1. CASE i = Len(played) + 1
        BY <3>5, <3>8, <4>1
      <4>2. CASE i # Len(played) + 1
        BY <3>5, <3>8, <3>9, <3>10, <4>2
      <4> QED BY <4>1, <4>2
    <3>12. OneOutputPerInstant'
      <4> SUFFICES ASSUME NEW i \in 1 .. Len(played) + 1,
                          NEW j \in 1 .. Len(played) + 1, i < j
                   PROVE  played'[i].time < played'[j].time
        BY <3>8 DEF OneOutputPerInstant
      <4>1. i \in 1 .. Len(played)
        BY <3>10
      <4>2. CASE j = Len(played) + 1
        BY <3>8, <3>9, <4>1, <4>2
      <4>3. CASE j # Len(played) + 1
        BY <3>8, <3>10, <4>1, <4>3 DEF Inv, OneOutputPerInstant
      <4> QED BY <4>2, <4>3
    <3>13. ~ source'.failed /\ source'.next # Infinity =>
             \A i \in DOMAIN played' : played'[i].time < source'.next
      BY <3>4, <3>5, <3>6, <3>11
    <3> QED BY <3>4, <3>8, <3>10, <3>11, <3>12, <3>13 DEF Inv
  <2>2. CASE UNCHANGED vars
    BY <2>2 DEF vars, Inv, OneOutputPerInstant
  <2> QED BY <2>1, <2>2 DEF Next, Stopped
<1> QED BY <1>1, <1>2, PTL DEF Spec

\* Two outputs never have the same time, and their times ascend: the kernel
\* gets all the processes that arrive at one instant in one bag, however long
\* the file is and wherever it is faulty.
THEOREM OutputsAscend == Spec => []OneOutputPerInstant
<1>1. Inv => OneOutputPerInstant
  BY DEF Inv
<1> QED BY <1>1, InvHolds, PTL

----------------------------------------------------------------------------
(* The file is played.                                                     *)

\* What was played, what waits, the line read ahead and what is left of the
\* stream are together the file.  Without a line read ahead the program has
\* taken a blank line for the end of the file, or reached it, and what was
\* played and waits is the beginning.
Keeps ==
  LET all    == Events(file)
      waits  == Waiting(source)
      others == Ahead(source) \o Events(source.stream)
  IN /\ PlayedEvents \in Seq(Event) /\ all \in Seq(Event)
     /\ \E x \in Seq(Event) : all = PlayedEvents \o x
     /\ ~ source.failed /\ source.next # Infinity =>
          /\ waits \in Seq(Event)
          /\ \E x \in Seq(Event) : all = (PlayedEvents \o waits) \o x
          /\ source.prefetched_time # Infinity =>
               /\ HasAhead(source)
               /\ all = (PlayedEvents \o waits) \o others

\* What Play adds to the events played is the output that waits.
LEMMA PlayAdds ==
  ASSUME Inv, Inv', Play, Keeps
  PROVE  PlayedEvents' = PlayedEvents \o Waiting(source)
<1> DEFINE g  == [i \in DOMAIN played |-> At(played[i].time, played[i].events)]
           w  == Waiting(source)
           n  == Len(played)
           last == [time   |-> source.last + TimeAdvance(source),
                    events |-> source.output]
<1>1. /\ ~ source.failed /\ source.next # Infinity
      /\ source.last + TimeAdvance(source) = source.next
  BY DEF Play, TimeAdvance, Inv, Typed
<1>2. /\ played' = Append(played, last)
      /\ last.time = source.next /\ last.events = source.output
  BY <1>1 DEF Play
<1> HIDE DEF last, n
<1>3. n \in Nat /\ DOMAIN played = 1 .. n
  BY DEF Inv, n
<1>4. /\ DOMAIN played' = 1 .. n + 1
      /\ \A i \in 1 .. n : played'[i] = played[i]
      /\ played'[n + 1] = last
  BY <1>2, <1>3 DEF n
<1> DEFINE h == [i \in 1 .. n + 1 |->
                   At(played'[i].time, played'[i].events)]
           T == {g[i] : i \in 1 .. n} \cup {w}
<1>5. /\ PlayedEvents = Flatten(g)
      /\ PlayedEvents' = Flatten(h)
  BY <1>4 DEF PlayedEvents
<1>6. g \in Seq(T) /\ Len(g) = n /\ w \in T
  <2>1. g \in [1 .. n -> T]
    BY <1>3
  <2> HIDE DEF g, T
  <2>2. g \in Seq(T) /\ Len(g) = n
    BY <1>3, <2>1
  <2> QED BY <2>2 DEF T
<1>7. h = Append(g, w)
  <2>1. h[n + 1] = w
    BY <1>2, <1>3, <1>4 DEF Waiting
  <2>2. \A i \in 1 .. n : h[i] = g[i]
    BY <1>3, <1>4
  <2>3. h = [i \in 1 .. n + 1 |-> h[i]]
    OBVIOUS
  <2> HIDE DEF g, h, w, T
  <2>4. h = [i \in 1 .. n + 1 |-> IF i = n + 1 THEN w ELSE g[i]]
    <3>1. \A i \in 1 .. n + 1 : i # n + 1 => i \in 1 .. n
      BY <1>3
    <3>2. \A i \in 1 .. n + 1 : h[i] = IF i = n + 1 THEN w ELSE g[i]
      BY <2>1, <2>2, <3>1
    <3> QED BY <2>3, <3>2, Zenon
  <2>5. Append(g, w) = [i \in 1 .. n + 1 |-> IF i = n + 1 THEN w ELSE g[i]]
    BY <1>6, AppendIs
  <2> QED BY <2>4, <2>5, Zenon
<1>8. Flatten(Append(g, w)) = Flatten(g) \o w
  <2> HIDE DEF g, w, T
  <2> QED BY <1>6, FlattenAppend
<1> QED BY <1>5, <1>7, <1>8, Zenon

\* The invariant holds at first
LEMMA KeepsAtFirst == Init => Keeps
<1> SUFFICES ASSUME Init PROVE Keeps
  OBVIOUS
<1> DEFINE P == PlayedEvents
           H == Events(file)
<1>1. file \in Seq(Line)
  BY FilesAssumption DEF Init
<1>2. P = <<>>
  <2>1. [i \in DOMAIN <<>> |-> At(<<>>[i].time, <<>>[i].events)] = <<>>
    OBVIOUS
  <2>2. played = <<>>
    BY DEF Init
  <2> QED BY <2>1, <2>2, FlattenNone DEF PlayedEvents
<1>3. P \in Seq(Event) /\ H \in Seq(Event)
  BY <1>1, <1>2, EventsAreEvents
<1>4. \A x \in Seq(Event) : P \o x = x
  <2> HIDE DEF P
  <2> QED BY <1>2, ConcatEmptySeq
<1>5. \E x \in Seq(Event) : H = P \o x
  BY <1>3, <1>4, Zenon
<1> DEFINE s == [stream |-> file, last |-> 0, next |-> Infinity,
                 output |-> <<>>, prefetched_time |-> Infinity,
                 prefetched_message |-> <<>>, failed |-> FALSE]
           t == [s EXCEPT !.stream             = Tail(file),
                          !.prefetched_time    = Head(file)[1],
                          !.prefetched_message = Head(file)[2]]
<1>6. source = IF file = <<>> THEN s
               ELSE IF Head(file) = Blank THEN [s EXCEPT !.failed = TRUE]
               ELSE fetchUntilTimeAdvances(t)
  BY DEF Opened, Init
<1>7. CASE file = <<>>
  <2>1. source.next = Infinity
    BY <1>6, <1>7
  <2> QED BY <1>3, <1>5, <2>1 DEF Keeps
<1>8. CASE file # <<>> /\ Head(file) = Blank
  <2>1. source.failed
    BY <1>6, <1>8
  <2> QED BY <1>3, <1>5, <2>1 DEF Keeps
<1>9. CASE file # <<>> /\ Head(file) # Blank
  <2> DEFINE first == Head(file)
  <2>1. source = fetchUntilTimeAdvances(t)
    BY <1>6, <1>9
  <2>2. first \in Line /\ Tail(file) \in Seq(Line) /\ first # Blank
    BY <1>1, <1>9
  <2>3. first = <<first[1], first[2]>>
        /\ first[1] \in 0 .. Infinity - 1 /\ first[2] \in Messages
    BY <2>2 DEF Line
  <2>4. /\ t.stream = Tail(file) /\ t.prefetched_time = first[1]
        /\ t.prefetched_message = first[2] /\ t.failed = FALSE
        /\ t.last = 0 /\ t.next = Infinity
        /\ DOMAIN t = Fields /\ t = [x \in DOMAIN t |-> t[x]]
    BY DEF Fields
  <2> HIDE DEF t, first
  <2>5. Typed(t) /\ ~ t.failed /\ HasAhead(t)
    <3>1. t = [x \in Fields |-> t[x]]
      BY <2>4, Zenon
    <3>2. first[1] \in Int /\ Infinity \in Int
      BY <2>3, TimeAssumption
    <3>3. t.stream \in Seq(Line) /\ t.failed \in BOOLEAN /\ ~ t.failed
      BY <2>2, <2>4
    <3>4. t.last \in Int /\ t.next \in Int /\ t.prefetched_time \in Int
      BY <2>4, <3>2
    <3>5. HasAhead(t)
      BY <2>3, <2>4, Zenon DEF HasAhead
    <3> QED BY <3>1, <3>3, <3>4, <3>5, Zenon DEF Typed
  <2>6. H = Ahead(t) \o Events(t.stream)
    <3> DEFINE one == <<first>>
    <3>1. /\ one \in Seq(Line) /\ \A i \in 1 .. Len(one) : one[i] # Blank
          /\ file = one \o Tail(file)
      BY <1>1, <1>9, <2>2 DEF first
    <3>2. Ahead(t) = one
      BY <2>3, <2>4 DEF Ahead
    <3> HIDE DEF one
    <3>3. Events(one) = one
      BY <3>1, EventsOfEvents
    <3>4. Events(file) = Events(one) \o Events(Tail(file))
      BY <2>2, <3>1, EventsConcat
    <3> QED BY <2>4, <3>2, <3>3, <3>4
  <2>7. /\ ~ source.failed =>
              /\ Waiting(source) \in Seq(Event)
              /\ \E x \in Seq(Event) : H = Waiting(source) \o x
              /\ source.prefetched_time # Infinity =>
                   /\ HasAhead(source)
                   /\ H = Waiting(source)
                            \o (Ahead(source) \o Events(source.stream))
    BY <2>1, <2>5, <2>6, FetchKeepsEvents
  <2>8. Waiting(source) \in Seq(Event) => P \o Waiting(source) = Waiting(source)
    BY <1>4
  <2> HIDE DEF P, H
  <2> QED BY <1>3, <1>5, <2>7, <2>8 DEF Keeps, P, H
<1> QED BY <1>7, <1>8, <1>9

\* and after every step.
LEMMA KeepsStep == Inv /\ Inv' /\ Keeps /\ [Next]_vars => Keeps'
<1> SUFFICES ASSUME Inv, Inv', Keeps, [Next]_vars PROVE Keeps'
  OBVIOUS
<1>1. CASE Play
  <2> DEFINE s == [source EXCEPT !.last = source.next]
             P == PlayedEvents
             H == Events(file)
             w == Waiting(source)
             o == Ahead(source) \o Events(source.stream)
             r == source'
             Q == P \o w
  <2>1. /\ ~ source.failed /\ source.next # Infinity
        /\ source.last + TimeAdvance(source) = source.next
    BY <1>1 DEF Play, TimeAdvance, Inv, Typed
  <2>2. /\ P \in Seq(Event) /\ H \in Seq(Event) /\ w \in Seq(Event)
        /\ \E x \in Seq(Event) : H = Q \o x
        /\ source.prefetched_time # Infinity =>
              HasAhead(source) /\ H = Q \o o
    BY <2>1 DEF Keeps
  <2>3. PlayedEvents' = Q /\ Events(file)' = H
    <3>1. file' = file
      BY <1>1 DEF Play
    <3>2. Events(file)' = Events(file')
      BY DEF Events
    <3> QED BY <1>1, <3>1, <3>2, PlayAdds
  <2>4. /\ Typed(s) /\ ~ s.failed /\ s.stream = source.stream
        /\ s.prefetched_time = source.prefetched_time
        /\ s.prefetched_message = source.prefetched_message
    BY <2>1 DEF Inv, Typed, Fields
  <2>5. r = fetchUntilTimeAdvances(s)
    BY <1>1 DEF Play
  <2> HIDE DEF s
  <2>6. r.failed \/ r.next = source.prefetched_time
    BY <2>4, <2>5, FetchReadsAhead
  <2>7. Q \in Seq(Event)
    <3> HIDE DEF P, w
    <3> QED BY <2>2, ConcatProperties
  <2>8. CASE r.failed \/ r.next = Infinity
    BY <2>2, <2>3, <2>7, <2>8 DEF Keeps
  <2>9. CASE ~ r.failed /\ r.next # Infinity
    <3> DEFINE v == Waiting(r)
               u == Ahead(r) \o Events(r.stream)
    <3>1. HasAhead(s) /\ H = Q \o o /\ o = Ahead(s) \o Events(s.stream)
      BY <2>2, <2>4, <2>6, <2>9 DEF HasAhead, Ahead
    <3>2. /\ v \in Seq(Event)
          /\ \E x \in Seq(Event) : o = v \o x
          /\ r.prefetched_time # Infinity => HasAhead(r) /\ o = v \o u
      BY <2>4, <2>5, <2>9, <3>1, FetchKeepsEvents
    <3>v. v \in Seq(Event)
      BY <3>2
    <3> HIDE DEF P, H, w, o, Q
    <3>3. PICK x \in Seq(Event) : o = v \o x
      BY <3>2
    <3>4. H = (Q \o v) \o x
      <4> HIDE DEF v
      <4>1. Q \o (v \o x) = (Q \o v) \o x
        BY <2>7, <3>v, EventsAssociate, Zenon
      <4> QED BY <3>1, <3>3, <4>1
    <3>5. ASSUME r.prefetched_time # Infinity
          PROVE  HasAhead(r) /\ H = (Q \o v) \o u
      <4>1. u \in Seq(Event)
        <5>1. Typed(r)
          BY DEF Inv
        <5>2. Events(r.stream) \in Seq(Event)
          BY <5>1, EventsAreEvents DEF Typed
        <5>3. Ahead(r) \in Seq(Event)
          BY <3>2, <3>5 DEF HasAhead, Ahead, Event
        <5> QED BY <5>2, <5>3, ConcatProperties
      <4> HIDE DEF v, u
      <4>2. Q \o (v \o u) = (Q \o v) \o u
        BY <2>7, <3>v, <4>1, EventsAssociate, Zenon
      <4> QED BY <3>1, <3>2, <3>5, <4>2
    <3>6. \E y \in Seq(Event) : H = Q \o y
      BY <2>2 DEF Q
    <3> QED BY <2>2, <2>3, <2>7, <3>2, <3>4, <3>5, <3>6
            DEF Keeps, H, Waiting, Ahead, HasAhead
  <2> QED BY <2>8, <2>9
<1>2. CASE UNCHANGED vars
  BY <1>2 DEF vars, Keeps, PlayedEvents, Events, Waiting, Ahead, HasAhead
<1> QED BY <1>1, <1>2 DEF Next, Stopped

\* However long the file is, the events reach the kernel in its order, each
\* once and at its own time: reading ahead loses none at the change of the
\* instant, and a fault ends the program before a wrong one is played.
THEOREM PlaysTheFileAlways == Spec => []PlaysTheFile
<1>1. Inv /\ Keeps => PlaysTheFile
  <2> SUFFICES ASSUME Keeps PROVE PlaysTheFile
    OBVIOUS
  <2> DEFINE P == PlayedEvents
             H == Events(file)
  <2>1. PICK x \in Seq(Event) : H = P \o x
    BY DEF Keeps
  <2>2. P \in Seq(Event) /\ H \in Seq(Event)
    BY DEF Keeps
  <2> HIDE DEF P, H
  <2>3. SubSeq(P \o x, 1, Len(P)) = P /\ Len(P) \in 0 .. Len(P \o x)
    BY <2>2
  <2> QED BY <2>1, <2>3 DEF PlaysTheFile, P, H
<1> QED BY <1>1, InvHolds, KeepsAtFirst, KeepsStep, PTL DEF Spec
============================================================================
