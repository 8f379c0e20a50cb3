------------------------- MODULE Handling_proofs -------------------------
(***************************************************************************)
(* The loop over a bag of messages, for any handler: what is known of the  *)
(* states between two messages is known of the whole loop by induction.    *)
(***************************************************************************)
EXTENDS Handling, WellFoundedInduction, TLAPS

CONSTANT Handle(_, _)

\* A set of naturals that is not empty has a least member.
LEMMA LeastExists ==
  ASSUME NEW S, S \subseteq Nat, S # {}
  PROVE  \E x \in S : \A y \in S : x =< y
<1>1. IsWellFoundedOn(OpToRel(<, Nat), Nat)
  BY NatLessThanWellFounded, Zenon
<1>2. PICK x \in S : \A y \in S : ~ (<<y, x>> \in OpToRel(<, Nat))
  BY <1>1, WFMin, Zenon
<1>3. \A y \in S : x =< y
  <2>1. SUFFICES ASSUME NEW y \in S, ~ (x =< y) PROVE FALSE
    OBVIOUS
  <2>2. <<y, x>> \in Nat \X Nat /\ y < x
    BY <2>1
  <2>3. <<y, x>> \in OpToRel(<, Nat)
    BY <2>2 DEF OpToRel
  <2> QED BY <1>2, <2>3
<1> QED BY <1>3

\* Max is the number that is greatest.
LEMMA MaxIs ==
  ASSUME NEW S, S \subseteq Nat, NEW x \in S, \A y \in S : y =< x
  PROVE  Max(S) = x
<1>1. \A y \in S : x >= y
  OBVIOUS
<1>2. Max(S) \in S /\ \A y \in S : Max(S) >= y
  BY <1>1, Zenon DEF Max
<1>3. Max(S) \in Nat /\ x \in Nat /\ Max(S) >= x /\ Max(S) =< x
  BY <1>2
<1> QED BY <1>3

\* Induction on the natural numbers up to a bound, for a set of them.
LEMMA UpTo ==
  ASSUME NEW n \in Nat, NEW S, 0 \in S,
         \A i \in 0 .. n - 1 : i \in S => i + 1 \in S
  PROVE  0 .. n \subseteq S
<1> DEFINE T == {i \in 0 .. n : i \notin S}
<1>1. SUFFICES ASSUME T # {} PROVE FALSE
  OBVIOUS
<1>2. PICK i \in T : \A j \in T : i =< j
  <2>1. T \subseteq Nat
    OBVIOUS
  <2> HIDE DEF T
  <2> QED BY <1>1, <2>1, LeastExists
<1>3. i \in 1 .. n
  BY <1>2
<1>4. i - 1 \in 0 .. n - 1 /\ i - 1 \notin T
  BY <1>2, <1>3
<1>5. i - 1 \in S
  BY <1>4
<1> QED BY <1>2, <1>3, <1>4, <1>5

\* The state after the loop.
Result(state, bag) == HandleAll(Handle, state, bag)

OneMore(s, msg) == CHOOSE next \in {Handle(v, msg) : v \in {s}} : TRUE

\* A step of the loop handles one message.
LEMMA OneMoreHandles == \A s, msg : OneMore(s, msg) = Handle(s, msg)
BY Zenon DEF OneMore

\* The function that the loop is defined by.
IsLoop(iter, n, state, bag) ==
  iter = [s \in SUBSET (1 .. n) |->
            IF s = {} THEN state
            ELSE OneMore(iter[s \ {Max(s)}], bag[Max(s)])]

\* The loop is a recursion that has a solution.
LEMMA LoopExists ==
  ASSUME NEW n \in Nat, NEW state, NEW bag
  PROVE  \E iter : IsLoop(iter, n, state, bag)
<1> DEFINE S == {i \in Nat : \E iter : IsLoop(iter, i, state, bag)}
<1>1. 0 \in S
  <2> DEFINE iter == [s \in SUBSET (1 .. 0) |-> state]
  <2>1. \A s \in SUBSET (1 .. 0) : s = {}
    OBVIOUS
  <2>2. iter = [s \in SUBSET (1 .. 0) |->
                  IF s = {} THEN state
                  ELSE OneMore(iter[s \ {Max(s)}], bag[Max(s)])]
    BY <2>1, Zenon
  <2> QED BY <2>2 DEF IsLoop
<1>2. \A i \in 0 .. n - 1 : i \in S => i + 1 \in S
  <2> SUFFICES ASSUME NEW i \in 0 .. n - 1, i \in S PROVE i + 1 \in S
    OBVIOUS
  <2>1. PICK g : IsLoop(g, i, state, bag)
    OBVIOUS
  <2> DEFINE G(s) == IF i + 1 \in s
                     THEN OneMore(g[s \ {i + 1}], bag[i + 1]) ELSE g[s]
             h == [s \in SUBSET (1 .. i + 1) |-> G(s)]
             B(s) == IF s = {} THEN state
                     ELSE OneMore(h[s \ {Max(s)}], bag[Max(s)])
  <2>2. ASSUME NEW s \in SUBSET (1 .. i + 1) PROVE h[s] = B(s)
    <3>1. CASE i + 1 \in s
      <4>1. s \subseteq Nat /\ s # {} /\ \A y \in s : y =< i + 1
        BY <3>1
      <4>3. Max(s) = i + 1
        BY <3>1, <4>1, MaxIs
      <4>4. s \ {i + 1} \in SUBSET (1 .. i) /\ i + 1 \notin s \ {i + 1}
        OBVIOUS
      <4>5. h[s \ {i + 1}] = g[s \ {i + 1}]
        BY <4>4
      <4> QED BY <3>1, <4>1, <4>3, <4>5, Zenon
    <3>2. CASE i + 1 \notin s
      <4>1. s \in SUBSET (1 .. i) /\ s \in SUBSET (0 .. i)
        BY <3>2
      <4>2. g[s] = IF s = {} THEN state
                   ELSE OneMore(g[s \ {Max(s)}], bag[Max(s)])
        BY <2>1, <4>1, Zenon DEF IsLoop
      <4>3. h[s] = g[s]
        BY <3>2
      <4>4. ASSUME s # {} PROVE h[s \ {Max(s)}] = g[s \ {Max(s)}]
        <5>1. s \ {Max(s)} \in SUBSET (1 .. i + 1)
              /\ i + 1 \notin s \ {Max(s)}
          BY <3>2
        <5> QED BY <5>1
      <4> QED BY <4>2, <4>3, <4>4, Zenon
    <3> QED BY <3>1, <3>2
  <2>3. h = [s \in SUBSET (1 .. i + 1) |-> B(s)]
    BY <2>2, Zenon
  <2>4. IsLoop(h, i + 1, state, bag)
    BY <2>3, Zenon DEF IsLoop
  <2> QED BY <2>4
<1>3. n \in S
  <2> HIDE DEF S
  <2>1. 0 .. n \subseteq S
    BY <1>1, <1>2, UpTo
  <2> QED BY <2>1
<1> QED BY <1>3

\* The states before the first message, between two messages, and after the
\* last of n.
IsRun(f, n, state, bag) ==
  /\ DOMAIN f = 0 .. n
  /\ f[0] = state
  /\ \A i \in 1 .. n : f[i] = Handle(f[i - 1], bag[i])

\* The loop of handling runs through such states.
LEMMA LoopStates ==
  ASSUME NEW state, NEW bag, NEW n \in Nat, DOMAIN bag = 1 .. n
  PROVE  \E f : IsRun(f, n, state, bag) /\ Result(state, bag) = f[n]
<1> DEFINE Loop == CHOOSE iter : IsLoop(iter, n, state, bag)
<1>1. IsLoop(Loop, n, state, bag)
  BY LoopExists, Zenon
<1>2. Result(state, bag) = Loop[1 .. n]
  BY DEF Result, HandleAll, MapThenFoldSet, IsLoop, OneMore
<1> DEFINE f == [i \in 0 .. n |-> Loop[1 .. i]]
<1>3. f[0] = state
  <2>1. 1 .. 0 = {} /\ {} \in SUBSET (1 .. n)
    OBVIOUS
  <2>2. Loop[{}] = state
    BY <1>1, <2>1, Zenon DEF IsLoop
  <2> QED BY <2>1, <2>2
<1>4. ASSUME NEW i \in 1 .. n PROVE f[i] = Handle(f[i - 1], bag[i])
  <2> DEFINE s == 1 .. i
  <2>1. s \in SUBSET (1 .. n) /\ s # {} /\ s \subseteq Nat /\ i \in s
    <3> HIDE DEF f, Loop
    <3>1. i \in s /\ i \in Nat /\ i =< n
      BY <1>4
    <3>2. s \subseteq 1 .. n /\ s \subseteq Nat
      BY <3>1
    <3> QED BY <3>1, <3>2
  <2>2. \A y \in s : y =< i
    OBVIOUS
  <2>3. Max(s) = i /\ s \ {i} = 1 .. i - 1
    <3>1. s \ {i} = 1 .. i - 1
      OBVIOUS
    <3> HIDE DEF s
    <3> QED BY <2>1, <2>2, <3>1, MaxIs
  <2>4. Loop[s] = OneMore(Loop[s \ {Max(s)}], bag[Max(s)])
    BY <1>1, <2>1, Zenon DEF IsLoop
  <2>5. Loop[s] = Handle(Loop[1 .. i - 1], bag[i])
    BY <2>3, <2>4, OneMoreHandles, Zenon
  <2>6. f[i] = Loop[s] /\ f[i - 1] = Loop[1 .. i - 1]
    OBVIOUS
  <2> QED BY <2>5, <2>6, Zenon
<1>5. f[n] = Loop[1 .. n]
  OBVIOUS
<1> HIDE DEF Loop
<1>6. IsRun(f, n, state, bag)
  <2>1. DOMAIN f = 0 .. n
    OBVIOUS
  <2> HIDE DEF f
  <2> QED BY <1>3, <1>4, <2>1, Zenon DEF IsRun
<1> HIDE DEF f
<1> QED BY <1>2, <1>5, <1>6, Zenon

\* The same for every front part of the bag: the states of the loop over the
\* whole bag are the results of the loops over its front parts.
LEMMA LoopPrefixes ==
  ASSUME NEW state, NEW T, NEW bag \in Seq(T)
  PROVE  \E f : /\ IsRun(f, Len(bag), state, bag)
                /\ Result(state, bag) = f[Len(bag)]
                /\ \A i \in 0 .. Len(bag) :
                     Result(state, SubSeq(bag, 1, i)) = f[i]
<1>1. Len(bag) \in Nat /\ DOMAIN bag = 1 .. Len(bag)
  OBVIOUS
<1>2. PICK f : /\ IsRun(f, Len(bag), state, bag)
               /\ Result(state, bag) = f[Len(bag)]
  BY <1>1, LoopStates, Zenon
<1>3. ASSUME NEW i \in 0 .. Len(bag)
      PROVE  Result(state, SubSeq(bag, 1, i)) = f[i]
  <2> DEFINE b == SubSeq(bag, 1, i)
  <2>1. i \in Nat /\ DOMAIN b = 1 .. i /\ \A j \in 1 .. i : b[j] = bag[j]
    OBVIOUS
  <2> HIDE DEF b
  <2>2. PICK g : /\ IsRun(g, i, state, b)
                 /\ Result(state, b) = g[i]
    BY <2>1, LoopStates, Zenon
  <2> DEFINE S == {j \in Nat : g[j] = f[j]}
  <2>3. 0 \in S
    BY <1>2, <2>2 DEF IsRun
  <2>4. \A j \in 0 .. i - 1 : j \in S => j + 1 \in S
    <3> SUFFICES ASSUME NEW j \in 0 .. i - 1, g[j] = f[j]
                 PROVE  g[j + 1] = f[j + 1]
      OBVIOUS
    <3>1. j + 1 \in 1 .. i /\ j + 1 \in 1 .. Len(bag) /\ j + 1 - 1 = j
      BY <1>1
    <3>2. g[j + 1] = Handle(g[j], b[j + 1])
      <4>1. g[j + 1] = Handle(g[j + 1 - 1], b[j + 1])
        BY <2>2, <3>1 DEF IsRun
      <4> QED BY <3>1, <4>1
    <3>3. f[j + 1] = Handle(f[j], bag[j + 1])
      <4>1. f[j + 1] = Handle(f[j + 1 - 1], bag[j + 1])
        BY <1>2, <3>1 DEF IsRun
      <4> QED BY <3>1, <4>1
    <3>4. b[j + 1] = bag[j + 1]
      BY <2>1, <3>1, Zenon
    <3> QED BY <3>2, <3>3, <3>4
  <2>5. i \in S
    <3> HIDE DEF S
    <3>1. 0 .. i \subseteq S
      BY <2>1, <2>3, <2>4, UpTo
    <3> QED BY <2>1, <3>1
  <2>6. g[i] = f[i]
    BY <2>5
  <2>7. Result(state, b) = f[i]
    BY <2>2, <2>6, Zenon
  <2> QED BY <2>7 DEF b
<1> QED BY <1>2, <1>3, Zenon

\* The states of the loop, as a recursion over the number of messages.
IsRecursion(f, n, state, bag) ==
  f = [i \in 0 .. n |-> IF i = 0 THEN state ELSE Handle(f[i - 1], bag[i])]

\* There is such a recursion, for every bag.
LEMMA LoopRecursion ==
  ASSUME NEW state, NEW bag, NEW n \in Nat, DOMAIN bag = 1 .. n
  PROVE  \E f : IsRecursion(f, n, state, bag)
<1>1. PICK g : IsRun(g, n, state, bag)
  BY LoopStates, Zenon
<1> DEFINE f == [i \in 0 .. n |-> g[i]]
           B(i) == IF i = 0 THEN state ELSE Handle(f[i - 1], bag[i])
<1>2. \A i \in 0 .. n : i # 0 => i \in 1 .. n /\ i - 1 \in 0 .. n
  OBVIOUS
<1>3. \A i \in 0 .. n : f[i] = g[i]
  OBVIOUS
<1>4. \A i \in 0 .. n : f[i] = B(i)
  <2> HIDE DEF f
  <2> QED BY <1>1, <1>2, <1>3, Zenon DEF IsRun
<1>5. f = [i \in 0 .. n |-> B(i)]
  BY <1>4, Zenon
<1> HIDE DEF f
<1> QED BY <1>5, Zenon DEF IsRecursion

\* A recursion that leads to what is deeper has a solution: Handle(g, m) is
\* here what follows for a node from what g says of the deeper ones.
LEMMA RecursionExists ==
  ASSUME NEW context, NEW N, NEW height \in Nat,
         NEW depth \in [N -> 0 .. height],
         \A n \in N : \A g, h :
           (\A m \in N : depth[m] > depth[n] => g[m] = h[m])
             => Handle(g, <<context, n>>) = Handle(h, <<context, n>>)
  PROVE  \E f : f = [n \in N |-> Handle(f, <<context, n>>)]
<1> DEFINE B(g, n) == Handle(g, <<context, n>>)
           Level(k) == {n \in N : depth[n] > height - k}
           S == {k \in Nat : \E f : f = [n \in Level(k) |-> B(f, n)]}
<1>1. \A n \in N : depth[n] \in Nat /\ depth[n] =< height
  OBVIOUS
<1>2. 0 \in S
  <2> DEFINE f == [n \in Level(0) |-> B(<<>>, n)]
  <2>1. \A n : n \notin Level(0)
    BY <1>1
  <2>2. f = [n \in Level(0) |-> B(f, n)]
    <3> HIDE DEF Level
    <3> QED BY <2>1, Zenon
  <2> QED BY <2>2
<1>3. \A k \in 0 .. height : k \in S => k + 1 \in S
  <2> SUFFICES ASSUME NEW k \in 0 .. height, k \in S PROVE k + 1 \in S
    OBVIOUS
  <2>1. PICK g : g = [n \in Level(k) |-> B(g, n)]
    OBVIOUS
  <2> DEFINE h == [n \in Level(k + 1) |-> B(g, n)]
  <2>2. ASSUME NEW n \in Level(k + 1) PROVE B(g, n) = B(h, n)
    <3>1. ASSUME NEW m \in N, depth[m] > depth[n] PROVE g[m] = h[m]
      <4>1. m \in Level(k) /\ m \in Level(k + 1)
        BY <1>1, <2>2, <3>1
      <4>2. g[m] = B(g, m)
        <5> HIDE DEF Level, B
        <5> QED BY <2>1, <4>1
      <4>3. h[m] = B(g, m)
        <5> HIDE DEF Level, B
        <5> QED BY <4>1
      <4> QED BY <4>2, <4>3, Zenon
    <3>2. n \in N
      OBVIOUS
    <3> HIDE DEF h, Level
    <3> QED BY <3>1, <3>2, Zenon
  <2>3. h = [n \in Level(k + 1) |-> B(h, n)]
    <3> DEFINE L == Level(k + 1)
    <3> HIDE DEF B
    <3>1. \A n \in L : B(g, n) = B(h, n)
      BY <2>2, Zenon
    <3> DEFINE H == h
    <3>2. H = [n \in L |-> B(g, n)]
      OBVIOUS
    <3> HIDE DEF L, H
    <3>3. [n \in L |-> B(g, n)] = [n \in L |-> B(H, n)]
      <4>1. \A n \in L : B(g, n) = B(H, n)
        BY <3>1 DEF H
      <4> QED BY <4>1, Zenon
    <3>4. H = [n \in L |-> B(H, n)]
      BY <3>2, <3>3, Zenon
    <3> QED BY <3>4, Zenon DEF H, L
  <2>4. \E f : f = [n \in Level(k + 1) |-> B(f, n)]
    BY <2>3, Zenon
  <2>5. k + 1 \in Nat
    OBVIOUS
  <2> QED BY <2>4, <2>5, Zenon
<1>4. height + 1 \in S
  <2> HIDE DEF S
  <2>1. 0 .. height + 1 \subseteq S
    BY <1>2, <1>3, UpTo
  <2> QED BY <2>1
<1>5. Level(height + 1) = N
  BY <1>1
<1> QED BY <1>4, <1>5
============================================================================
