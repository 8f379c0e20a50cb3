------------------------ MODULE Simulation_proofs ------------------------
(***************************************************************************)
(* Theorems about Simulation, for every tree of coupled models, nested or  *)
(* flattened, and both coordinators: between two passes every coordinator  *)
(* knows its soonest sub-model, nothing is left in an inbox and no assert  *)
(* has failed; and polling a model of one level calls no simulator without *)
(* a reason.  What a call of a node makes of the tree is stated once       *)
(* (Advances) and proved from the bottom of the tree upwards.              *)
(***************************************************************************)
EXTENDS Simulation, FiniteSetTheorems, SequenceTheorems, TLAPS

\* The handlers of the loops over sequences, as the lemmas on them want them.
Joined(s, bag) == s \o bag
Posted(acc, mail) == Deliver(acc, mail[1][1], mail[1][2], mail[2])
Advanced(s, visit) ==
  Emplace(visit[2][visit[1]][s], visit[3], visit[1])

\* What the recursions over the tree say of one node.
First(g, x) ==
  LET desc == x[1][1]
      n    == x[2]
  IN IF Atomic(desc, n) THEN advance(x[1][2][n])
     ELSE Earliest({g[m] : m \in Range(desc[n].models)})

Outputting(g, x) ==
  LET s == x[1][1]
      n == x[2]
  IN IF s.next[n] # x[1][2] THEN <<>>
     ELSE IF Atomic(s.desc, n) THEN out(s.model[n])
     ELSE LET due == Inminents(s, n)
          IN Flatten([i \in DOMAIN due |->
                        IF ConnectedToOut(s, n, due[i])
                        THEN g[due[i]] ELSE <<>>])

Calling(g, x) ==
  LET t == x[1][2]
      n == x[2]
  IN [s \in Trees(x[1][1]) |->
        IF Atomic(x[1][1], n) THEN Simulate(s, n, t)
        ELSE Coordinate(s, n, t, g)]

CH == INSTANCE Handling_proofs WITH Handle <- Joined
PH == INSTANCE Handling_proofs WITH Handle <- Posted
AH == INSTANCE Handling_proofs WITH Handle <- Advanced

FH == INSTANCE Handling_proofs WITH Handle <- First
OH == INSTANCE Handling_proofs WITH Handle <- Outputting
LH == INSTANCE Handling_proofs WITH Handle <- Calling

----------------------------------------------------------------------------
(* Sequences.                                                              *)

\* The elements of a sequence are its range.
LEMMA RangeIs ==
  ASSUME NEW q
  PROVE  /\ \A i \in DOMAIN q : q[i] \in Range(q)
         /\ \A x \in Range(q) : \E i \in DOMAIN q : q[i] = x
BY DEF Range

\* Nothing is in an empty sequence, and one thing in a sequence of one.
LEMMA RangeShort ==
  Range(<<>>) = {} /\ \A x : Range(<<x>>) = {x}
BY DEF Range

\* Flatten joins one sequence after the other.
LEMMA FlattenIsLoop == \A ss : Flatten(ss) = CH!Result(<<>>, ss)
BY Zenon DEF Flatten, HandleAll, MapThenFoldSet, Max, CH!Result,
       CH!HandleAll, CH!MapThenFoldSet, CH!Max, Joined

\* What is collected after each of the sequences.
IsCollection(f, n, T, ss) ==
  /\ \A i \in 0 .. n : f[i] \in Seq(T)
  /\ f[0] = <<>>
  /\ \A i \in 1 .. n : f[i] = f[i - 1] \o ss[i]

\* Flatten gives what is collected after the last of the sequences.
LEMMA FlattenStates ==
  ASSUME NEW n \in Nat, NEW T, NEW ss \in [1 .. n -> Seq(T)]
  PROVE  \E f : IsCollection(f, n, T, ss) /\ Flatten(ss) = f[n]
<1>1. DOMAIN ss = 1 .. n /\ \A i \in 1 .. n : ss[i] \in Seq(T)
  OBVIOUS
<1>2. PICK f : CH!IsRun(f, n, <<>>, ss) /\ CH!Result(<<>>, ss) = f[n]
  BY <1>1, CH!LoopStates, Zenon
<1>3. f[0] = <<>> /\ \A i \in 1 .. n : f[i] = f[i - 1] \o ss[i]
  BY <1>2, Zenon DEF CH!IsRun, Joined
<1> DEFINE S == {i \in Nat : f[i] \in Seq(T)}
<1>4. 0 \in S
  <2>1. f[0] \in Seq(T)
    BY <1>3, EmptySeq, Zenon
  <2> QED BY <2>1
<1>5. ASSUME NEW i \in 0 .. n - 1, i \in S PROVE i + 1 \in S
  <2>1. PICK j \in 1 .. n : j = i + 1 /\ j - 1 = i
    OBVIOUS
  <2>2. f[j] = f[j - 1] \o ss[j]
    BY <1>3, Zenon
  <2>3. f[j] = f[i] \o ss[j] /\ f[i] \in Seq(T) /\ ss[j] \in Seq(T)
    BY <1>1, <1>5, <2>1, <2>2
  <2>4. f[j] \in Seq(T)
    BY <2>3, ConcatProperties, Zenon
  <2> QED BY <2>1, <2>4
<1>6. 0 .. n \subseteq S
  <2> HIDE DEF S
  <2> QED BY <1>4, <1>5, CH!UpTo
<1>7. \A i \in 0 .. n : f[i] \in Seq(T)
  BY <1>6
<1>8. IsCollection(f, n, T, ss)
  BY <1>3, <1>7, Zenon DEF IsCollection
<1> QED BY <1>2, <1>8, FlattenIsLoop, Zenon

\* What is in it is what is in one of them.
LEMMA FlattenRange ==
  ASSUME NEW n \in Nat, NEW T, NEW ss \in [1 .. n -> Seq(T)]
  PROVE  /\ Flatten(ss) \in Seq(T)
         /\ Range(Flatten(ss)) = UNION {Range(ss[i]) : i \in 1 .. n}
<1>1. PICK f : IsCollection(f, n, T, ss) /\ Flatten(ss) = f[n]
  BY FlattenStates, Zenon
<1> DEFINE All(i) == UNION {Range(ss[k]) : k \in 1 .. i}
           S == {i \in Nat : Range(f[i]) = All(i)}
<1>2. 0 \in S
  <2>1. Range(f[0]) = {}
    BY <1>1, RangeShort, Zenon DEF IsCollection
  <2>2. All(0) = {}
    OBVIOUS
  <2> QED BY <2>1, <2>2
<1>3. ASSUME NEW i \in 0 .. n - 1, i \in S PROVE i + 1 \in S
  <2>1. PICK j \in 1 .. n : j = i + 1 /\ j - 1 = i
    OBVIOUS
  <2>2. f[j] = f[j - 1] \o ss[j]
    BY <1>1, Zenon DEF IsCollection
  <2>9. i \in 0 .. n
    OBVIOUS
  <2>3. f[j] = f[i] \o ss[j] /\ f[i] \in Seq(T) /\ ss[j] \in Seq(T)
    BY <1>1, <2>1, <2>2, <2>9 DEF IsCollection
  <2>4. Range(f[j]) = Range(f[i]) \cup Range(ss[j])
    <3> DEFINE a == f[i]
               b == ss[j]
    <3>1. a \in Seq(T) /\ b \in Seq(T) /\ f[j] = a \o b
      BY <2>3
    <3> HIDE DEF a, b
    <3>2. Range(a \o b) = Range(a) \cup Range(b)
      BY <3>1, RangeConcatenation
    <3> QED BY <3>1, <3>2 DEF a, b
  <2>5. All(j) = All(i) \cup Range(ss[j])
    <3>1. \A k : k \in 1 .. j <=> k \in 1 .. i \/ k = j
      BY <2>1
    <3> QED BY <3>1, Zenon
  <2>6. Range(f[i]) = All(i)
    BY <1>3
  <2>7. Range(f[j]) = All(j)
    BY <2>4, <2>5, <2>6, Zenon
  <2> HIDE DEF All
  <2> QED BY <2>1, <2>7
<1>4. n \in S
  <2> HIDE DEF S
  <2>1. 0 .. n \subseteq S
    BY <1>2, <1>3, CH!UpTo
  <2> QED BY <2>1
<1>5. f[n] \in Seq(T)
  BY <1>1 DEF IsCollection
<1> QED BY <1>1, <1>4, <1>5

\* Those of a sequence are in it, and in its order.
LEMMA ThoseAre ==
  ASSUME NEW T, NEW seq \in Seq(T), NEW S
  PROVE  /\ Those(seq, S) \in Seq(T)
         /\ Range(Those(seq, S)) = Range(seq) \cap S
<1> DEFINE n == Len(seq)
           ss == [i \in DOMAIN seq |->
                    IF seq[i] \in S THEN <<seq[i]>> ELSE <<>>]
<1>1. n \in Nat /\ DOMAIN seq = 1 .. n /\ \A i \in 1 .. n : seq[i] \in T
  OBVIOUS
<1>2. ss \in [1 .. n -> Seq(T)]
  <2>1. \A x \in T : <<x>> \in Seq(T)
    OBVIOUS
  <2>2. <<>> \in Seq(T)
    OBVIOUS
  <2>3. \A i \in 1 .. n :
          (IF seq[i] \in S THEN <<seq[i]>> ELSE <<>>) \in Seq(T)
    BY <1>1, <2>1, <2>2, Zenon
  <2> QED BY <1>1, <2>3, Zenon
<1>3. \A i \in 1 .. n : Range(ss[i]) = {seq[i]} \cap S
  <2> SUFFICES ASSUME NEW i \in 1 .. n PROVE Range(ss[i]) = {seq[i]} \cap S
    OBVIOUS
  <2>1. ss[i] = IF seq[i] \in S THEN <<seq[i]>> ELSE <<>>
    BY <1>1, Zenon
  <2>2. Range(<<seq[i]>>) = {seq[i]} /\ Range(<<>>) = {}
    BY RangeShort, Zenon
  <2> HIDE DEF ss
  <2>3. CASE seq[i] \in S
    BY <2>1, <2>2, <2>3, Zenon
  <2>4. CASE seq[i] \notin S
    BY <2>1, <2>2, <2>4, Zenon
  <2> QED BY <2>3, <2>4
<1>4. Those(seq, S) = Flatten(ss)
  BY DEF Those
<1> HIDE DEF ss
<1>5. /\ Flatten(ss) \in Seq(T)
      /\ Range(Flatten(ss)) = UNION {Range(ss[i]) : i \in 1 .. n}
  <2> HIDE DEF n
  <2> QED BY <1>1, <1>2, FlattenRange, Zenon
<1>6. Range(seq) = {seq[i] : i \in 1 .. n}
  BY <1>1 DEF Range
<1>7. UNION {Range(ss[i]) : i \in 1 .. n} = Range(seq) \cap S
  <2> HIDE DEF n
  <2> QED BY <1>3, <1>6
<1> QED BY <1>4, <1>5, <1>7, Zenon

----------------------------------------------------------------------------
(* The tree.                                                               *)

Children(desc, c) == Range(desc[c].models)

\* A description whose models are those of a tree.
IsDesc(desc, depth, height) ==
  /\ IsTree(desc, depth, height)
  /\ \A c \in DOMAIN desc : IsCoupled(desc[c])

\* Its nodes, their depths, and their parents.
LEMMA TreeIs ==
  ASSUME NEW desc, NEW depth, NEW height, IsDesc(desc, depth, height)
  PROVE  /\ TOP \in DOMAIN desc /\ height \in Nat
         /\ depth \in [Nodes(desc) -> 0 .. height]
         /\ DOMAIN desc \subseteq Nodes(desc)
         /\ \A c \in DOMAIN desc : \A m \in Children(desc, c) :
              /\ m \in Nodes(desc) /\ depth[m] = depth[c] + 1
              /\ \A b \in DOMAIN desc : m \in Children(desc, b) => b = c
         /\ \A n \in Nodes(desc) \ {TOP} :
              \E c \in DOMAIN desc : n \in Children(desc, c)
         /\ \A c \in DOMAIN desc : TOP \notin Children(desc, c)
         /\ \A n \in Nodes(desc) : n \in DOMAIN desc \/ n \in Atoms(desc)
<1>1. DOMAIN desc \subseteq Nodes(desc)
  BY DEF Nodes
<1>2. \A c \in DOMAIN desc : \A m \in Children(desc, c) : m \in Nodes(desc)
  BY DEF Nodes, Children
<1>3. /\ TOP \in DOMAIN desc /\ height \in Nat
      /\ depth \in [Nodes(desc) -> 0 .. height]
      /\ \A n \in Nodes(desc) : depth[n] = 0 <=> n = TOP
      /\ \A n \in Nodes(desc) \ {TOP} :
           \E c \in DOMAIN desc : n \in Children(desc, c)
      /\ \A c \in DOMAIN desc : \A m \in Children(desc, c) :
           /\ depth[m] = depth[c] + 1
           /\ \A b \in DOMAIN desc : m \in Children(desc, b) => b = c
  BY Zenon DEF IsDesc, IsTree, Children
<1>4. \A c \in DOMAIN desc : TOP \notin Children(desc, c)
  <2> SUFFICES ASSUME NEW c \in DOMAIN desc, TOP \in Children(desc, c)
               PROVE  FALSE
    OBVIOUS
  <2>1. depth[TOP] = depth[c] + 1 /\ depth[TOP] = 0 /\ depth[c] \in Nat
    BY <1>1, <1>3
  <2> QED BY <2>1
<1>5. \A n \in Nodes(desc) : n \in DOMAIN desc \/ n \in Atoms(desc)
  BY DEF Atoms, Atomic
<1> QED BY <1>1, <1>2, <1>3, <1>4, <1>5

\* When each model is due first.
LEMMA FirstTimesIs ==
  ASSUME NEW desc, NEW depth, NEW height, NEW model,
         IsDesc(desc, depth, height)
  PROVE  LET first == FirstTimes(desc, model)
         IN first = [n \in Nodes(desc) |->
                       IF Atomic(desc, n) THEN advance(model[n])
                       ELSE Earliest({first[m] : m \in Children(desc, n)})]
<1> DEFINE x == <<desc, model>>
           N == Nodes(desc)
<1>1. \A n \in N : \A g, h :
        (\A m \in N : depth[m] > depth[n] => g[m] = h[m])
          => First(g, <<x, n>>) = First(h, <<x, n>>)
  <2> SUFFICES ASSUME NEW n \in N, NEW g, NEW h,
                      \A m \in N : depth[m] > depth[n] => g[m] = h[m]
               PROVE  First(g, <<x, n>>) = First(h, <<x, n>>)
    OBVIOUS
  <2>1. CASE Atomic(desc, n)
    BY <2>1 DEF First
  <2>2. CASE ~ Atomic(desc, n)
    <3>1. n \in DOMAIN desc
      BY <2>2 DEF Atomic
    <3>2. \A m \in Children(desc, n) : g[m] = h[m]
      <4>1. depth[n] \in Nat
        BY TreeIs
      <4> QED BY <3>1, <4>1, TreeIs
    <3>3. {g[m] : m \in Children(desc, n)} = {h[m] : m \in Children(desc, n)}
      BY <3>2
    <3> QED BY <2>2, <3>3 DEF First, Children
  <2> QED BY <2>1, <2>2
<1>2. depth \in [N -> 0 .. height] /\ height \in Nat
  BY TreeIs
<1>3. \E f : f = [n \in N |-> First(f, <<x, n>>)]
  <2> HIDE DEF N, x
  <2> QED BY <1>1, <1>2, FH!RecursionExists, ZenonT(60)
<1>4. \E f : f = [n \in N |->
                 IF Atomic(desc, n) THEN advance(model[n])
                 ELSE Earliest({f[m] : m \in Range(desc[n].models)})]
  BY <1>3 DEF First
<1> QED BY <1>4, Zenon DEF FirstTimes, Children

\* What the parts of a tree are.
LEMMA TreesAre ==
  ASSUME NEW desc, NEW s \in Trees(desc)
  PROVE  /\ s.desc = desc /\ s.queue \in {NULLQUEUE, FEL}
         /\ s.model \in [Atoms(desc) -> AtomicStates(Infinity)]
         /\ s.last \in [Nodes(desc) -> Nat] /\ s.next \in [Nodes(desc) -> Nat]
         /\ s.inbox \in [Nodes(desc) -> Seq(Nat)]
         /\ s.fel \in [DOMAIN desc -> Seq(Nat \X Nodes(desc))]
         /\ s.inminents \in [DOMAIN desc -> Seq(Nodes(desc))]
         /\ s.called \in SUBSET Nodes(desc)
         /\ s.needless \in BOOLEAN /\ s.asserted \in BOOLEAN
         /\ \A c \in DOMAIN desc :
              Range(s.inminents[c]) \subseteq Children(desc, c)
BY DEF Trees, Children

\* The models that are due are sub-models.
LEMMA InminentsAre ==
  ASSUME NEW desc, NEW depth, NEW height, IsDesc(desc, depth, height),
         NEW s \in Trees(desc), NEW c \in DOMAIN desc
  PROVE  /\ Inminents(s, c) \in Seq(Children(desc, c))
         /\ s.queue # FEL =>
              Range(Inminents(s, c)) =
                {m \in Children(desc, c) : s.next[m] = s.next[c]}
<1>1. s.desc = desc
  BY TreesAre
<1>2. desc[c].models \in Seq(Children(desc, c))
  BY DEF IsDesc, IsCoupled, Children
<1>3. CASE s.queue = FEL
  <2>1. /\ s.inminents[c] \in Seq(Nodes(desc))
        /\ Range(s.inminents[c]) \subseteq Children(desc, c)
    <3>1. s.inminents \in [DOMAIN desc -> Seq(Nodes(desc))]
      BY TreesAre
    <3>2. Range(s.inminents[c]) \subseteq Children(desc, c)
      BY TreesAre
    <3> QED BY <3>1, <3>2
  <2> DEFINE q == s.inminents[c]
             C == Children(desc, c)
  <2>2. q \in Seq(C)
    <3>1. q \in Seq(Nodes(desc)) /\ Range(q) \subseteq C
      BY <2>1
    <3> HIDE DEF q, C
    <3>2. q \in Seq(Range(q))
      BY <3>1, SeqOfRange
    <3> QED BY <3>1, <3>2, SeqMonotonic
  <2> QED BY <1>3, <2>2 DEF Inminents
<1>4. CASE s.queue # FEL
  <2> DEFINE C == Children(desc, c)
             S == {m \in C : s.next[m] = s.next[c]}
             ms == desc[c].models
  <2>1. Inminents(s, c) = Those(ms, S)
    BY <1>1, <1>4, Zenon DEF Inminents, Children
  <2>2. ms \in Seq(C) /\ Range(ms) = C
    BY <1>2 DEF Children
  <2>3. S \subseteq C
    OBVIOUS
  <2> HIDE DEF C, S, ms
  <2>4. Those(ms, S) \in Seq(C) /\ Range(Those(ms, S)) = C \cap S
    BY <2>2, ThoseAre
  <2>5. Range(Inminents(s, c)) = S
    BY <2>1, <2>3, <2>4
  <2> QED BY <2>1, <2>4, <2>5 DEF C, S
<1> QED BY <1>3, <1>4

\* What each model sends.
LEMMA OutputsAre ==
  ASSUME NEW desc, NEW depth, NEW height, IsDesc(desc, depth, height),
         NEW s \in Trees(desc), NEW t
  PROVE  LET outputs == Outputs(s, t)
             joined(n) ==
               Flatten([i \in DOMAIN Inminents(s, n) |->
                          IF ConnectedToOut(s, n, Inminents(s, n)[i])
                          THEN outputs[Inminents(s, n)[i]] ELSE <<>>])
         IN outputs = [n \in Nodes(desc) |->
                         IF s.next[n] # t THEN <<>>
                         ELSE IF Atomic(desc, n) THEN out(s.model[n])
                         ELSE joined(n)]
<1> DEFINE x == <<s, t>>
           N == Nodes(desc)
<1>0. s.desc = desc
  BY TreesAre
<1>1. \A n \in N : \A g, h :
        (\A m \in N : depth[m] > depth[n] => g[m] = h[m])
          => Outputting(g, <<x, n>>) = Outputting(h, <<x, n>>)
  <2> SUFFICES ASSUME NEW n \in N, NEW g, NEW h,
                      \A m \in N : depth[m] > depth[n] => g[m] = h[m]
               PROVE  Outputting(g, <<x, n>>) = Outputting(h, <<x, n>>)
    OBVIOUS
  <2>1. CASE Atomic(desc, n)
    BY <1>0, <2>1, Zenon DEF Outputting
  <2>2. CASE ~ Atomic(desc, n)
    <3>1. n \in DOMAIN desc
      BY <2>2 DEF Atomic
    <3>2. \A m \in Children(desc, n) : g[m] = h[m]
      <4>1. depth[n] \in Nat
        BY TreeIs
      <4> QED BY <3>1, <4>1, TreeIs
    <3> DEFINE due == Inminents(s, n)
               J(f, i) == IF ConnectedToOut(s, n, due[i])
                          THEN f[due[i]] ELSE <<>>
    <3>3. \A i \in DOMAIN due : due[i] \in Children(desc, n)
      <4>1. due \in Seq(Children(desc, n))
        BY <3>1, InminentsAre, Zenon
      <4> HIDE DEF due
      <4> QED BY <4>1
    <3>4. [i \in DOMAIN due |-> J(g, i)] = [i \in DOMAIN due |-> J(h, i)]
      <4>1. \A i \in DOMAIN due : J(g, i) = J(h, i)
        <5> HIDE DEF due
        <5> QED BY <3>2, <3>3
      <4> HIDE DEF due, J
      <4> QED BY <4>1, Zenon
    <3> QED BY <3>4, Zenon DEF Outputting
  <2> QED BY <2>1, <2>2
<1>2. depth \in [N -> 0 .. height] /\ height \in Nat
  BY TreeIs
<1>3. \E f : f = [n \in N |-> Outputting(f, <<x, n>>)]
  <2> HIDE DEF N, x
  <2> QED BY <1>1, <1>2, OH!RecursionExists, ZenonT(60)
<1> DEFINE Body(f, n) ==
        IF s.next[n] # t THEN <<>>
        ELSE IF Atomic(s.desc, n) THEN out(s.model[n])
        ELSE LET due == Inminents(s, n)
             IN Flatten([i \in DOMAIN due |->
                           IF ConnectedToOut(s, n, due[i])
                           THEN f[due[i]] ELSE <<>>])
<1>4. \E f : f = [n \in Nodes(s.desc) |-> Body(f, n)]
  <2>1. \A f, n : Outputting(f, <<x, n>>) = Body(f, n)
    BY DEF Outputting
  <2> HIDE DEF Body
  <2>2. PICK f : f = [n \in N |-> Outputting(f, <<x, n>>)]
    BY <1>3, Zenon
  <2>3. f = [n \in N |-> Body(f, n)]
    BY <2>1, <2>2, Zenon
  <2> QED BY <1>0, <2>3, Zenon
<1>5. LET f == Outputs(s, t)
      IN f = [n \in Nodes(s.desc) |->
        IF s.next[n] # t THEN <<>>
        ELSE IF Atomic(s.desc, n) THEN out(s.model[n])
        ELSE LET due == Inminents(s, n)
             IN Flatten([i \in DOMAIN due |->
                           IF ConnectedToOut(s, n, due[i])
                           THEN f[due[i]] ELSE <<>>])]
  BY <1>4, Zenon DEF Outputs
<1> QED BY <1>0, <1>5, Zenon

----------------------------------------------------------------------------
(* The loops of a call.                                                    *)

\* The states of posting, before each bag and after the last.
IsPosting(f, s, mail, t) ==
  /\ f[0] = [s |-> s, visit |-> <<>>]
  /\ \A i \in 1 .. Len(mail) :
       f[i] = Deliver(f[i - 1], mail[i][1], mail[i][2], t)

\* The loop of PostAll runs through such states.
LEMMA PostStates ==
  ASSUME NEW s, NEW t, NEW mail, Len(mail) \in Nat
  PROVE  \E f : /\ IsPosting(f, s, mail, t)
                /\ PostAll(s, mail, t) = f[Len(mail)]
<1> DEFINE n == Len(mail)
           items == [i \in 1 .. n |-> <<mail[i], t>>]
           start == [s |-> s, visit |-> <<>>]
           B(f, i) == IF i = 0 THEN start
                      ELSE Deliver(f[i - 1], mail[i][1], mail[i][2], t)
           Is(f) == f = [i \in 0 .. Len(mail) |-> B(f, i)]
<1>1. PICK f : PH!IsRecursion(f, n, start, items)
  <2>1. DOMAIN items = 1 .. n /\ n \in Nat
    OBVIOUS
  <2> HIDE DEF items, start, n
  <2> QED BY <2>1, PH!LoopRecursion, Zenon
<1>2. \A i \in 0 .. n : i # 0 => i \in 1 .. n
  OBVIOUS
<1>3. \A i \in 1 .. n : \A g :
        Posted(g, items[i]) = Deliver(g, mail[i][1], mail[i][2], t)
  BY DEF Posted
<1>4. Is(f)
  <2> DEFINE D(i) == IF i = 0 THEN start ELSE Posted(f[i - 1], items[i])
  <2>1. \A i \in 0 .. n : D(i) = B(f, i)
    <3> HIDE DEF n, items, start
    <3> QED BY <1>2, <1>3, Zenon
  <2>2. f = [i \in 0 .. n |-> D(i)]
    BY <1>1, Zenon DEF PH!IsRecursion
  <2> HIDE DEF D, B, items, start
  <2> QED BY <2>1, <2>2, Zenon
<1> DEFINE p == CHOOSE g : Is(g)
<1>5. Is(p)
  <2> HIDE DEF Is
  <2> QED BY <1>4, Zenon
<1>6. PostAll(s, mail, t) = p[Len(mail)]
  BY Zenon DEF PostAll
<1> HIDE DEF p
<1>7. IsPosting(p, s, mail, t)
  <2>1. 0 \in 0 .. n /\ \A i \in 1 .. n : i \in 0 .. n /\ i # 0
    OBVIOUS
  <2>2. \A i \in 0 .. n : p[i] = B(p, i)
    <3> HIDE DEF B
    <3> QED BY <1>5, Zenon
  <2> QED BY <2>1, <2>2, Zenon DEF IsPosting
<1> QED BY <1>6, <1>7

\* The states between the calls of sub-models.
IsCalling(f, s, calls, c, call) ==
  /\ f[0] = s
  /\ \A i \in 1 .. Len(calls) :
       f[i] = Emplace(call[calls[i]][f[i - 1]], c, calls[i])

\* The loop of CallAll runs through such states.
LEMMA CallStates ==
  ASSUME NEW s, NEW c, NEW call, NEW calls, Len(calls) \in Nat
  PROVE  \E f : /\ IsCalling(f, s, calls, c, call)
                /\ CallAll(s, calls, c, call) = f[Len(calls)]
<1> DEFINE n == Len(calls)
           items == [i \in 1 .. n |-> <<calls[i], call, c>>]
           B(f, i) == IF i = 0 THEN s
                      ELSE Emplace(call[calls[i]][f[i - 1]], c, calls[i])
           Is(f) == f = [i \in 0 .. Len(calls) |-> B(f, i)]
<1>1. PICK f : AH!IsRecursion(f, n, s, items)
  <2>1. DOMAIN items = 1 .. n /\ n \in Nat
    OBVIOUS
  <2> HIDE DEF items, n
  <2> QED BY <2>1, AH!LoopRecursion, Zenon
<1>2. \A i \in 0 .. n : i # 0 => i \in 1 .. n
  OBVIOUS
<1>3. \A i \in 1 .. n : \A g :
        Advanced(g, items[i]) = Emplace(call[calls[i]][g], c, calls[i])
  BY DEF Advanced
<1>4. Is(f)
  <2> DEFINE D(i) == IF i = 0 THEN s ELSE Advanced(f[i - 1], items[i])
  <2>1. \A i \in 0 .. n : D(i) = B(f, i)
    <3> HIDE DEF n, items
    <3> QED BY <1>2, <1>3, Zenon
  <2>2. f = [i \in 0 .. n |-> D(i)]
    BY <1>1, Zenon DEF AH!IsRecursion
  <2> HIDE DEF D, B, items
  <2> QED BY <2>1, <2>2, Zenon
<1> DEFINE p == CHOOSE g : Is(g)
<1>5. Is(p)
  <2> HIDE DEF Is
  <2> QED BY <1>4, Zenon
<1>6. CallAll(s, calls, c, call) = p[Len(calls)]
  BY Zenon DEF CallAll
<1> HIDE DEF p
<1>7. IsCalling(p, s, calls, c, call)
  <2>1. 0 \in 0 .. n /\ \A i \in 1 .. n : i \in 0 .. n /\ i # 0
    OBVIOUS
  <2>2. \A i \in 0 .. n : p[i] = B(p, i)
    <3> HIDE DEF B
    <3> QED BY <1>5, Zenon
  <2> QED BY <2>1, <2>2, Zenon DEF IsCalling
<1> QED BY <1>6, <1>7

\* A function on the first numbers is a sequence.
LEMMA MapIsSeq ==
  ASSUME NEW n \in Nat, NEW R, NEW f \in [1 .. n -> R]
  PROVE  f \in Seq(R) /\ Len(f) = n
OBVIOUS

\* A sequence is in its order what it is at each place.
LEMMA SeqAt ==
  ASSUME NEW T, NEW q \in Seq(T)
  PROVE  /\ Len(q) \in Nat /\ DOMAIN q = 1 .. Len(q)
         /\ \A i \in 1 .. Len(q) : q[i] \in T /\ q[i] \in Range(q)
         /\ \A x \in Range(q) : \E i \in 1 .. Len(q) : q[i] = x
<1>1. Len(q) \in Nat /\ DOMAIN q = 1 .. Len(q)
      /\ \A i \in 1 .. Len(q) : q[i] \in T
  OBVIOUS
<1> QED BY <1>1, RangeIs, Zenon

\* Couplings lead to receivers, which are sub-models.
LEMMA ReceiversAre ==
  ASSUME NEW d, IsCoupled(d)
  PROVE  /\ Receivers(d) \subseteq Range(d.models)
         /\ d.eic \in Seq(Receivers(d))
         /\ \A m : InternalConnections(d, m) \in Seq(Receivers(d))
<1> DEFINE ms == Range(d.models)
           R == Receivers(d)
           E == d.eic
           I == d.ic
<1>1. E \in Seq(ms) /\ I \in Seq(ms \X ms)
  BY DEF IsCoupled
<1>2. R = Range(E) \cup {x[2] : x \in Range(I)}
  BY DEF Receivers
<1>3. R \subseteq ms
  <2> HIDE DEF ms, R, E, I
  <2>1. Range(E) \subseteq ms /\ Range(I) \subseteq ms \X ms
    BY <1>1, RangeOfSeq
  <2> QED BY <1>2, <2>1
<1>4. E \in Seq(R)
  <2> HIDE DEF ms, R, E, I
  <2>1. E \in Seq(Range(E))
    BY <1>1, SeqOfRange
  <2> QED BY <1>2, <2>1, SeqMonotonic
<1>5. ASSUME NEW m PROVE InternalConnections(d, m) \in Seq(R)
  <2> DEFINE S == {x \in Range(I) : x[1] = m}
             q == Those(I, S)
             f == [i \in DOMAIN q |-> q[i][2]]
  <2>1. q \in Seq(ms \X ms) /\ Range(q) \subseteq Range(I)
    <3> HIDE DEF ms, R, E, I, S
    <3>1. Those(I, S) \in Seq(ms \X ms) /\ Range(Those(I, S)) = Range(I) \cap S
      BY <1>1, ThoseAre
    <3> QED BY <3>1
  <2>2. InternalConnections(d, m) = f
    BY DEF InternalConnections
  <2>3. Len(q) \in Nat /\ f \in [1 .. Len(q) -> R]
    <3> HIDE DEF ms, R, E, I, q
    <3>1. /\ Len(q) \in Nat /\ DOMAIN q = 1 .. Len(q)
          /\ \A i \in 1 .. Len(q) : q[i] \in Range(q)
      BY <2>1, SeqAt
    <3>2. \A i \in 1 .. Len(q) : q[i][2] \in R
      BY <1>2, <2>1, <3>1
    <3> QED BY <3>1, <3>2
  <2> HIDE DEF q, f, R
  <2> QED BY <2>2, <2>3, MapIsSeq
<1> QED BY <1>3, <1>4, <1>5

\* The messages to deliver, and their receivers.
LEMMA MailIs ==
  ASSUME NEW desc, NEW depth, NEW height, IsDesc(desc, depth, height),
         NEW s \in Trees(desc), NEW c \in DOMAIN desc, NEW t, NEW D,
         desc[c].eic # <<>> => s.inbox[c] \in D,
         \A m \in Range(Inminents(s, c)) :
           t = s.next[c] => Output(s, m, t) \in D
  PROVE  Mail(s, c, t) \in Seq(Receivers(desc[c]) \X D)
<1> DEFINE d == desc[c]
           R == Receivers(d)
           C == Children(desc, c)
           due == IF t = s.next[c] THEN Inminents(s, c) ELSE <<>>
           from(m) == LET to == InternalConnections(d, m)
                      IN [i \in DOMAIN to |-> <<to[i], Output(s, m, t)>>]
           front == [i \in DOMAIN d.eic |-> <<d.eic[i], s.inbox[c]>>]
           ss == [i \in DOMAIN due |-> from(due[i])]
<1>1. s.desc = desc
  BY TreesAre
<1>2. Mail(s, c, t) = front \o Flatten(ss)
  BY <1>1, Zenon DEF Mail
<1>3. IsCoupled(d)
  BY DEF IsDesc
<1>4. front \in Seq(R \X D)
  <2> DEFINE E == d.eic
  <2>1. E \in Seq(R)
    BY <1>3, ReceiversAre
  <2> HIDE DEF R
  <2>2. Len(E) \in Nat /\ DOMAIN E = 1 .. Len(E)
        /\ \A i \in 1 .. Len(E) : E[i] \in R
    <3> HIDE DEF E
    <3> QED BY <2>1, SeqAt
  <2>3. front \in [1 .. Len(E) -> R \X D]
    <3>1. \A i \in 1 .. Len(E) : s.inbox[c] \in D
      <4>1. E = <<>> => Len(E) = 0
        OBVIOUS
      <4> HIDE DEF E
      <4> QED BY <2>2, <4>1 DEF E
    <3> QED BY <2>2, <3>1
  <2> HIDE DEF front
  <2> QED BY <2>2, <2>3, MapIsSeq
<1>5. due \in Seq(C)
  BY InminentsAre, EmptySeq
<1>9. \A m \in Range(due) : Output(s, m, t) \in D
  BY RangeShort
<1>6. ASSUME NEW m \in Range(due) PROVE from(m) \in Seq(R \X D)
  <2> DEFINE to == InternalConnections(d, m)
             f == [i \in DOMAIN to |-> <<to[i], Output(s, m, t)>>]
  <2>1. to \in Seq(R)
    BY <1>3, ReceiversAre
  <2> HIDE DEF to, R
  <2>2. Len(to) \in Nat /\ DOMAIN to = 1 .. Len(to)
        /\ \A i \in 1 .. Len(to) : to[i] \in R
    BY <2>1, SeqAt
  <2>3. f \in [1 .. Len(to) -> R \X D]
    BY <1>9, <2>2
  <2>4. f \in Seq(R \X D)
    <3> HIDE DEF f
    <3> QED BY <2>2, <2>3, MapIsSeq
  <2> QED BY <2>4 DEF to
<1> HIDE DEF front, due, R, C, from
<1>7. Flatten(ss) \in Seq(R \X D)
  <2>1. Len(due) \in Nat /\ DOMAIN due = 1 .. Len(due)
        /\ \A i \in 1 .. Len(due) : due[i] \in Range(due)
    BY <1>5, SeqAt
  <2>2. ss \in [1 .. Len(due) -> Seq(R \X D)]
    BY <1>6, <2>1
  <2> HIDE DEF ss
  <2> QED BY <2>1, <2>2, FlattenRange
<1> HIDE DEF ss
<1>8. front \o Flatten(ss) \in Seq(R \X D)
  BY <1>4, <1>7, ConcatProperties
<1> QED BY <1>2, <1>8 DEF R

\* The parts of a coordinator's call.
Due(s, c, t) ==
  IF s.queue = FEL \/ t = s.next[c] THEN Inminents(s, c) ELSE <<>>

Begun(s, c, t) ==
  [s EXCEPT !.last[c] = t, !.asserted = @ /\ Asserts(s, c, t)]

Filled(s, c, t) == PostAll(Begun(s, c, t), Mail(s, c, t), t)

Visits(s, c, t) == Due(s, c, t) \o Filled(s, c, t).visit

\* Coordinate posts, calls the sub-models visited, and reschedules.
LEMMA CoordinateIs ==
  \A s, c, t, call :
    Coordinate(s, c, t, call) =
      Reschedule(CallAll(Filled(s, c, t).s, Visits(s, c, t), c, call), c)
BY DEF Coordinate, Due, Begun, Filled, Visits

\* The models to visit are among the receivers.
LEMMA PostVisits ==
  ASSUME NEW f, NEW s, NEW t, NEW R, NEW D, NEW mail \in Seq(R \X D),
         IsPosting(f, s, mail, t)
  PROVE  \A i \in 0 .. Len(mail) : f[i].visit \in Seq(R)
<1> DEFINE n == Len(mail)
           S == {i \in Nat : f[i].visit \in Seq(R)}
<1>1. n \in Nat /\ \A i \in 1 .. n : mail[i][1] \in R
  BY SeqAt
<1>2. 0 \in S
  <2>1. f[0].visit = <<>>
    BY DEF IsPosting
  <2> QED BY <2>1, EmptySeq
<1>3. ASSUME NEW i \in 0 .. n - 1, i \in S PROVE i + 1 \in S
  <2>1. PICK j \in 1 .. n : j = i + 1 /\ j - 1 = i
    BY <1>1
  <2> DEFINE a == f[i]
             m == mail[j]
  <2>2. f[j] = Deliver(a, m[1], m[2], t)
    <3>1. f[j] = Deliver(f[j - 1], m[1], m[2], t)
      BY DEF IsPosting
    <3> QED BY <2>1, <3>1
  <2>3. a.visit \in Seq(R) /\ m[1] \in R
    BY <1>1, <1>3
  <2> HIDE DEF a, m
  <2>4. f[j].visit \in {a.visit, Append(a.visit, m[1])}
    BY <2>2 DEF Deliver
  <2>5. f[j].visit \in Seq(R)
    <3> DEFINE v == a.visit
               r == m[1]
    <3>1. v \in Seq(R) /\ r \in R /\ f[j].visit \in {v, Append(v, r)}
      BY <2>3, <2>4
    <3> HIDE DEF v, r
    <3>2. Append(v, r) \in Seq(R)
      BY <3>1
    <3> QED BY <3>1, <3>2
  <2> QED BY <2>1, <2>5
<1>4. 0 .. n \subseteq S
  <2> HIDE DEF S, n
  <2> QED BY <1>1, <1>2, <1>3, CH!UpTo
<1> QED BY <1>4

\* What is due and what is visited are sub-models of the coordinator.
LEMMA VisitsAre ==
  ASSUME NEW desc, NEW depth, NEW height, IsDesc(desc, depth, height),
         NEW s \in Trees(desc), NEW c \in DOMAIN desc, NEW t
  PROVE  /\ Due(s, c, t) \in Seq(Children(desc, c))
         /\ Filled(s, c, t).visit \in Seq(Receivers(desc[c]))
         /\ Visits(s, c, t) \in Seq(Children(desc, c))
<1> DEFINE D == {s.inbox[c]} \cup {Output(s, m, t) : m \in Children(desc, c)}
           R == Receivers(desc[c])
           C == Children(desc, c)
           mail == Mail(s, c, t)
<1>1. mail \in Seq(R \X D)
  <2>1. Inminents(s, c) \in Seq(C)
    BY InminentsAre
  <2>2. Range(Inminents(s, c)) \subseteq C
    BY <2>1, RangeOfSeq
  <2> QED BY <2>2, MailIs
<1>2. R \subseteq C
  BY ReceiversAre DEF IsDesc, Children
<1>3. Due(s, c, t) \in Seq(C)
  BY InminentsAre, EmptySeq DEF Due
<1>4. Filled(s, c, t).visit \in Seq(R)
  <2> HIDE DEF D, R, mail
  <2>1. Len(mail) \in Nat
    BY <1>1, SeqAt
  <2>2. PICK f : IsPosting(f, Begun(s, c, t), mail, t)
                 /\ PostAll(Begun(s, c, t), mail, t) = f[Len(mail)]
    BY <2>1, PostStates, Zenon
  <2>3. Len(mail) \in 0 .. Len(mail)
    BY <2>1
  <2>4. f[Len(mail)].visit \in Seq(R)
    BY <1>1, <2>2, <2>3, PostVisits, Zenon
  <2> QED BY <2>2, <2>4 DEF Filled, mail
<1>5. Visits(s, c, t) \in Seq(C)
  <2> DEFINE a == Due(s, c, t)
             b == Filled(s, c, t).visit
  <2>1. a \in Seq(C) /\ b \in Seq(R)
    BY <1>3, <1>4
  <2> HIDE DEF a, b, C, R
  <2>2. b \in Seq(C)
    BY <1>2, <2>1, SeqMonotonic
  <2>3. a \o b \in Seq(C)
    BY <2>1, <2>2, ConcatProperties
  <2> QED BY <2>3 DEF a, b, Visits
<1> QED BY <1>3, <1>4, <1>5

\* What the calls make of the tree depends only on the sub-models.
LEMMA CallAllSame ==
  ASSUME NEW s, NEW c, NEW C, NEW calls \in Seq(C), NEW g, NEW h,
         \A m \in C : g[m] = h[m]
  PROVE  CallAll(s, calls, c, g) = CallAll(s, calls, c, h)
<1> DEFINE n == Len(calls)
<1>1. n \in Nat /\ \A i \in 1 .. n : calls[i] \in C
  OBVIOUS
<1>2. PICK p : IsCalling(p, s, calls, c, g) /\ CallAll(s, calls, c, g) = p[n]
  BY <1>1, CallStates
<1>3. PICK q : IsCalling(q, s, calls, c, h) /\ CallAll(s, calls, c, h) = q[n]
  BY <1>1, CallStates
<1> DEFINE S == {i \in Nat : p[i] = q[i]}
<1>4. 0 \in S
  BY <1>2, <1>3 DEF IsCalling
<1>5. ASSUME NEW i \in 0 .. n - 1, i \in S PROVE i + 1 \in S
  <2>1. PICK j \in 1 .. n : j = i + 1 /\ j - 1 = i
    BY <1>1
  <2>2. p[i] = q[i] /\ g[calls[j]] = h[calls[j]]
    BY <1>1, <1>5
  <2>3. /\ p[j] = Emplace(g[calls[j]][p[j - 1]], c, calls[j])
        /\ q[j] = Emplace(h[calls[j]][q[j - 1]], c, calls[j])
    BY <1>2, <1>3, Zenon DEF IsCalling
  <2>4. p[j] = q[j]
    BY <2>1, <2>2, <2>3
  <2> QED BY <2>1, <2>4
<1>6. 0 .. n \subseteq S
  <2> HIDE DEF S, n
  <2> QED BY <1>1, <1>4, <1>5, CH!UpTo
<1>7. p[n] = q[n]
  BY <1>1, <1>6
<1> QED BY <1>2, <1>3, <1>7, Zenon

\* What the call of each node makes of a tree.
LEMMA CallsAre ==
  ASSUME NEW desc, NEW depth, NEW height, IsDesc(desc, depth, height), NEW t
  PROVE  Calls(desc, t) =
           [n \in Nodes(desc) |->
              [s \in Trees(desc) |->
                 IF Atomic(desc, n) THEN Simulate(s, n, t)
                 ELSE Coordinate(s, n, t, Calls(desc, t))]]
<1> DEFINE x == <<desc, t>>
           N == Nodes(desc)
           Body(f, n) == [s \in Trees(desc) |->
                            IF Atomic(desc, n) THEN Simulate(s, n, t)
                            ELSE Coordinate(s, n, t, f)]
<1>0. \A f, n : Calling(f, <<x, n>>) = Body(f, n)
  BY DEF Calling
<1>1. \A n \in N : \A g, h :
        (\A m \in N : depth[m] > depth[n] => g[m] = h[m])
          => Calling(g, <<x, n>>) = Calling(h, <<x, n>>)
  <2> SUFFICES ASSUME NEW n \in N, NEW g, NEW h,
                      \A m \in N : depth[m] > depth[n] => g[m] = h[m]
               PROVE  Calling(g, <<x, n>>) = Calling(h, <<x, n>>)
    <3> HIDE DEF Body, N, x
    <3> QED OBVIOUS
  <2> DEFINE B(f, s) == IF Atomic(desc, n) THEN Simulate(s, n, t)
                        ELSE Coordinate(s, n, t, f)
  <2>1. ASSUME NEW s \in Trees(desc) PROVE B(g, s) = B(h, s)
    <3>1. CASE Atomic(desc, n)
      BY <3>1
    <3>2. CASE ~ Atomic(desc, n)
      <4>1. n \in DOMAIN desc
        BY <3>2 DEF Atomic
      <4>2. \A m \in Children(desc, n) : g[m] = h[m]
        <5>1. depth[n] \in Nat
          BY TreeIs
        <5> QED BY <4>1, <5>1, TreeIs
      <4>3. Visits(s, n, t) \in Seq(Children(desc, n))
        BY <4>1, VisitsAre
      <4>4. Coordinate(s, n, t, g) = Coordinate(s, n, t, h)
        <5> DEFINE q == Filled(s, n, t).s
                   calls == Visits(s, n, t)
                   C == Children(desc, n)
        <5>1. calls \in Seq(C) /\ \A m \in C : g[m] = h[m]
          BY <4>2, <4>3
        <5> HIDE DEF q, calls, C
        <5>2. CallAll(q, calls, n, g) = CallAll(q, calls, n, h)
          BY <5>1, CallAllSame
        <5> QED BY <5>2, CoordinateIs, Zenon DEF q, calls
      <4> QED BY <3>2, <4>4
    <3> QED BY <3>1, <3>2
  <2> HIDE DEF B
  <2>2. [s \in Trees(desc) |-> B(g, s)] = [s \in Trees(desc) |-> B(h, s)]
    BY <2>1, Zenon
  <2>3. Body(g, n) = Body(h, n)
    BY <2>2, Zenon DEF B
  <2> HIDE DEF Body
  <2> QED BY <1>0, <2>3
<1>2. depth \in [N -> 0 .. height] /\ height \in Nat
  BY TreeIs
<1>3. PICK f : f = [n \in N |-> Calling(f, <<x, n>>)]
  <2> HIDE DEF N, x
  <2> QED BY <1>1, <1>2, LH!RecursionExists, ZenonT(60)
<1>4. f = [n \in N |-> Body(f, n)]
  <2> HIDE DEF Body
  <2> QED BY <1>0, <1>3, Zenon
<1>5. \E g : g = [n \in Nodes(desc) |-> Body(g, n)]
  BY <1>4, Zenon
<1> QED BY <1>5, Zenon DEF Calls

----------------------------------------------------------------------------
(* The atomic models.                                                      *)

Longest == Infinity - End

\* The durations end before infinity can be reached.
LEMMA TimesAre ==
  /\ Infinity \in Nat \ {0} /\ End \in Nat \ {0} /\ End =< Infinity
  /\ Longest \in Nat /\ Longest < Infinity /\ Infinity = Longest + End
  /\ 0 .. Longest \ {Infinity} = 0 .. Longest
BY TimeAssumption, SimulationAssumption DEF Longest

Durations == 0 .. Longest \cup {Infinity}

\* The states of each kind.
IsGenerator(st) ==
  st \in [kind : {GENERATOR}, next : Durations, outvalue : Nat]

IsProcessor(st) ==
  /\ st \in [kind : {PROCESSOR}, next : Durations, jobs : Seq(Nat),
             processing : 0 .. Longest]
  /\ st.next = Infinity <=> st.jobs = <<>>

IsCounter(st) ==
  st \in [kind : {COUNTER}, next : {0, Infinity}, counter : Nat]

Ascending(lines) ==
  \A i \in DOMAIN lines : \A j \in 1 .. i : lines[j][1] =< lines[i][1]

IsStream(st) ==
  /\ st \in [kind : {STREAM}, next : Durations, at : 0 .. Longest,
             output : Seq(Nat), lines : Seq((0 .. Longest) \X Nat)]
  /\ st.next = Infinity <=> st.output = <<>>
  /\ \A i \in DOMAIN st.lines : st.at =< st.lines[i][1]
  /\ Ascending(st.lines)

States == AtomicStates(Longest)

\* An atomic model is in a state of one of the four kinds.
LEMMA StatesAre ==
  \A st : st \in States <=> \/ IsGenerator(st) \/ IsProcessor(st)
                            \/ IsCounter(st) \/ IsStream(st)
<1> DEFINE F == 0 .. Longest
           P(s) == s.next = Infinity <=> s.jobs = <<>>
           S(s) == /\ s.next = Infinity <=> s.output = <<>>
                   /\ \A i \in DOMAIN s.lines :
                        /\ s.at =< s.lines[i][1]
                        /\ \A j \in 1 .. i : s.lines[j][1] =< s.lines[i][1]
           G1 == [kind : {GENERATOR}, next : Durations, outvalue : Nat]
           P1 == [kind : {PROCESSOR}, next : Durations, jobs : Seq(Nat),
                  processing : F]
           C1 == [kind : {COUNTER}, next : {0, Infinity}, counter : Nat]
           S1 == [kind : {STREAM}, next : Durations, at : F,
                  output : Seq(Nat), lines : Seq(F \X Nat)]
<1>1. States = G1 \cup {s \in P1 : P(s)} \cup C1 \cup {s \in S1 : S(s)}
  BY TimesAre, Zenon DEF States, AtomicStates, Durations
<1>2. \A st : /\ IsGenerator(st) <=> st \in G1
              /\ IsProcessor(st) <=> st \in P1 /\ P(st)
              /\ IsCounter(st) <=> st \in C1
  BY Zenon DEF IsGenerator, IsProcessor, IsCounter
<1>3. \A st : IsStream(st) <=> st \in S1 /\ S(st)
  BY Zenon DEF IsStream, Ascending
<1> HIDE DEF G1, P1, C1, S1, P, S
<1> QED BY <1>1, <1>2, <1>3

\* The kinds are different things.
LEMMA KindsDiffer ==
  /\ GENERATOR # PROCESSOR /\ GENERATOR # COUNTER /\ GENERATOR # STREAM
  /\ PROCESSOR # COUNTER /\ PROCESSOR # STREAM /\ COUNTER # STREAM
BY DEF GENERATOR, PROCESSOR, COUNTER, STREAM

\* A part of a sequence of messages is not more than the sequence.
LEMMA CountIs ==
  ASSUME NEW n \in Nat, NEW S, S \subseteq 1 .. n
  PROVE  /\ Cardinality(S) \in 0 .. n
         /\ S # {} => Cardinality(S) # 0
<1>1. IsFiniteSet(1 .. n) /\ Cardinality(1 .. n) = n
  <2>1. IsFiniteSet(1 .. n)
        /\ Cardinality(1 .. n) = IF 1 > n THEN 0 ELSE n - 1 + 1
    BY FS_Interval
  <2> QED BY <2>1
<1>2. IsFiniteSet(S) /\ Cardinality(S) =< Cardinality(1 .. n)
  BY <1>1, FS_Subset
<1>3. Cardinality(S) \in Nat
  BY <1>2, FS_CardinalityType
<1>4. S # {} => Cardinality(S) # 0
  BY <1>2, FS_EmptySet
<1> QED BY <1>1, <1>2, <1>3, <1>4

\* What fetchUntilTimeAdvances leaves is a state of a stream.
LEMMA FetchIs ==
  ASSUME NEW at \in 0 .. Longest, NEW lines \in Seq((0 .. Longest) \X Nat),
         \A i \in DOMAIN lines : at =< lines[i][1], Ascending(lines)
  PROVE  IsStream(Fetch(at, lines))
<1> DEFINE F == 0 .. Longest
           L == Len(lines)
<1>1. L \in Nat /\ DOMAIN lines = 1 .. L
      /\ \A i \in 1 .. L : lines[i] \in F \X Nat
  OBVIOUS
<1>2. CASE lines = <<>>
  <2>1. Fetch(at, lines) =
          [kind |-> STREAM, next |-> Infinity, at |-> at,
           output |-> <<>>, lines |-> <<>>]
    BY <1>2 DEF Fetch
  <2>2. Ascending(<<>>)
    BY DEF Ascending
  <2>3. <<>> \in Seq(F \X Nat) /\ <<>> \in Seq(Nat) /\ DOMAIN <<>> = {}
    OBVIOUS
  <2> HIDE DEF F
  <2> QED BY <2>1, <2>2, <2>3 DEF IsStream, Durations, F
<1>3. CASE lines # <<>>
  <2> DEFINE same == {n \in DOMAIN lines : lines[n][1] = lines[1][1]}
             n == OneInstant(lines)
             outs == [i \in 1 .. n |-> lines[i][2]]
             rest == SubSeq(lines, n + 1, L)
             now == lines[1][1]
  <2>1. 1 \in same /\ same \subseteq 1 .. L
    BY <1>1, <1>3
  <2>2. n \in 1 .. L
    <3> HIDE DEF same, L
    <3>1. Cardinality(same) \in 0 .. L /\ Cardinality(same) # 0
      BY <1>1, <2>1, CountIs
    <3> QED BY <1>1, <3>1 DEF OneInstant, same
  <2>3. Fetch(at, lines) =
          [kind |-> STREAM, next |-> now - at, at |-> now,
           output |-> outs, lines |-> rest]
    BY <1>3 DEF Fetch
  <2> HIDE DEF n, same
  <2>4. now \in F /\ at =< now /\ now - at \in 0 .. Longest
        /\ now - at # Infinity
    BY <1>1, <2>2, TimesAre, SMTT(30)
  <2>5. outs \in Seq(Nat) /\ outs # <<>>
    <3>1. outs \in [1 .. n -> Nat] /\ n \in Nat /\ n # 0
      BY <1>1, <2>2
    <3> HIDE DEF outs
    <3>2. outs \in Seq(Nat) /\ Len(outs) = n
      BY <3>1, MapIsSeq
    <3> QED BY <3>1, <3>2
  <2>6. /\ rest \in Seq(F \X Nat)
        /\ DOMAIN rest = 1 .. L - n
        /\ \A i \in 1 .. L - n : rest[i] = lines[n + i]
    <3> HIDE DEF F, L
    <3>1. n + 1 \in Int /\ L \in Int /\ n \in Nat /\ n =< L
      BY <1>1, <2>2
    <3>2. \A i \in n + 1 .. L : lines[i] \in F \X Nat
      <4>1. \A i \in n + 1 .. L : i \in 1 .. L
        BY <3>1
      <4> QED BY <1>1, <4>1
    <3>3. /\ rest \in Seq(F \X Nat)
          /\ Len(rest) = IF n + 1 <= L THEN L - (n + 1) + 1 ELSE 0
          /\ \A i \in 1 .. L - (n + 1) + 1 : rest[i] = lines[n + 1 + i - 1]
      BY <3>1, <3>2, SubSeqProperties
    <3> HIDE DEF rest
    <3>4. DOMAIN rest = 1 .. Len(rest) /\ Len(rest) = L - n
      BY <3>1, <3>3
    <3>5. \A i \in 1 .. L - n :
            i \in 1 .. L - (n + 1) + 1 /\ n + 1 + i - 1 = n + i
      BY <3>1
    <3> QED BY <3>3, <3>4, <3>5
  <2> HIDE DEF rest
  <2> HIDE DEF L, F
  <2>20. n \in Nat /\ L \in Nat /\ 1 =< n /\ n =< L
    BY <1>1, <2>2
  <2>7. \A i \in 1 .. L - n : n + i \in 1 .. L
    BY <2>20
  <2>8. \A i \in 1 .. L : \A j \in 1 .. i : lines[j][1] =< lines[i][1]
    BY <1>1 DEF Ascending
  <2>9. \A i \in DOMAIN rest : now =< rest[i][1]
    <3> SUFFICES ASSUME NEW i \in 1 .. L - n PROVE now =< rest[i][1]
      BY <2>6
    <3>1. rest[i] = lines[n + i] /\ n + i \in 1 .. L
      BY <2>6, <2>7
    <3>2. 1 \in 1 .. n + i
      BY <2>20
    <3> QED BY <2>8, <3>1, <3>2
  <2>10. Ascending(rest)
    <3> SUFFICES ASSUME NEW i \in 1 .. L - n, NEW j \in 1 .. i
                 PROVE  rest[j][1] =< rest[i][1]
      BY <2>6, Zenon DEF Ascending
    <3>1. j \in 1 .. L - n /\ n + j \in 1 .. n + i
      BY <2>20
    <3>2. rest[i] = lines[n + i] /\ rest[j] = lines[n + j]
          /\ n + i \in 1 .. L
      BY <2>6, <2>7, <3>1
    <3> QED BY <2>8, <3>1, <3>2
  <2> HIDE DEF outs, now
  <2>11. Fetch(at, lines) \in
           [kind : {STREAM}, next : Durations, at : F,
            output : Seq(Nat), lines : Seq(F \X Nat)]
    BY <2>3, <2>4, <2>5, <2>6 DEF Durations
  <2> QED BY <2>3, <2>4, <2>5, <2>9, <2>10, <2>11 DEF IsStream, F
<1> QED BY <1>2, <1>3

\* A model that is due has something to say, and its internal transition
\* leaves it what it is.
LEMMA InternalIs ==
  ASSUME NEW st \in States, advance(st) # Infinity
  PROVE  /\ out(st) \in Seq(Nat) /\ out(st) # <<>>
         /\ internal(st) \in States /\ internal(st).kind = st.kind
<1>1. st.next # Infinity
  BY DEF advance
<1>2. CASE IsGenerator(st)
  <2>1. st.kind = GENERATOR /\ st.outvalue \in Nat
    BY <1>2 DEF IsGenerator
  <2>2. out(st) = <<st.outvalue>> /\ internal(st) = st
    BY <2>1, KindsDiffer DEF out, internal
  <2>3. <<st.outvalue>> \in Seq(Nat) /\ <<st.outvalue>> # <<>>
    BY <2>1
  <2> QED BY <2>2, <2>3
<1>3. CASE IsProcessor(st)
  <2> DEFINE q == st.jobs
             next == IF Len(q) = 1 THEN Infinity ELSE st.processing
             after == [st EXCEPT !.jobs = Tail(@), !.next = next]
  <2>1. st.kind = PROCESSOR /\ q \in Seq(Nat) /\ q # <<>>
        /\ st.processing \in 0 .. Longest
    BY <1>1, <1>3 DEF IsProcessor
  <2>2. out(st) = <<Head(q)>> /\ internal(st) = after
    BY <2>1, KindsDiffer DEF out, internal, ProcessorInternal
  <2>3. /\ Head(q) \in Nat /\ Tail(q) \in Seq(Nat)
        /\ Tail(q) = <<>> <=> Len(q) = 1
    <3> HIDE DEF q
    <3>1. /\ Head(q) \in Nat /\ Tail(q) \in Seq(Nat)
          /\ Len(Tail(q)) = Len(q) - 1 /\ Len(q) \in Nat
      BY <2>1, HeadTailProperties
    <3>2. Tail(q) = <<>> <=> Len(Tail(q)) = 0
      BY <3>1, EmptySeq
    <3> QED BY <3>1, <3>2, SMTT(30)
  <2>4. next \in Durations /\ (next = Infinity <=> Len(q) = 1)
    BY <2>1, TimesAre DEF Durations
  <2>5. <<Head(q)>> \in Seq(Nat) /\ <<Head(q)>> # <<>>
    BY <2>3
  <2> HIDE DEF next
  <2>6. IsProcessor(after) /\ after.kind = st.kind
    BY <1>3, <2>3, <2>4 DEF IsProcessor
  <2> HIDE DEF after
  <2> QED BY <2>2, <2>5, <2>6, StatesAre
<1>4. CASE IsCounter(st)
  <2> DEFINE after == [st EXCEPT !.next = Infinity, !.counter = 0]
  <2>1. st.kind = COUNTER /\ st.counter \in Nat
    BY <1>4 DEF IsCounter
  <2>2. out(st) = <<st.counter>> /\ internal(st) = after
    BY <2>1, KindsDiffer DEF out, internal, CounterInternal
  <2>3. <<st.counter>> \in Seq(Nat) /\ <<st.counter>> # <<>>
    BY <2>1
  <2>4. IsCounter(after) /\ after.kind = st.kind
    BY <1>4 DEF IsCounter
  <2> HIDE DEF after
  <2> QED BY <2>2, <2>3, <2>4, StatesAre
<1>5. CASE IsStream(st)
  <2>1. st.kind = STREAM /\ st.output \in Seq(Nat) /\ st.output # <<>>
    BY <1>1, <1>5 DEF IsStream
  <2>2. out(st) = st.output /\ internal(st) = Fetch(st.at, st.lines)
    BY <2>1, KindsDiffer DEF out, internal
  <2>3. IsStream(Fetch(st.at, st.lines))
    BY <1>5, FetchIs DEF IsStream
  <2>4. Fetch(st.at, st.lines).kind = STREAM
    BY <2>3 DEF IsStream
  <2> QED BY <2>1, <2>2, <2>3, <2>4, StatesAre
<1> QED BY <1>2, <1>3, <1>4, <1>5, StatesAre

\* What may receive stays what it is when it does.
LEMMA ExternalIs ==
  ASSUME NEW st \in States, MayReceive(st), NEW mb \in Seq(Nat), mb # <<>>,
         NEW e \in Nat, advance(st) # Infinity => e =< advance(st)
  PROVE  external(st, mb, e) \in States /\ external(st, mb, e).kind = st.kind
<1>1. st.next # Infinity => e =< st.next
  BY DEF advance
<1>2. CASE IsProcessor(st)
  <2> DEFINE q == st.jobs
             next == IF q = <<>> THEN st.processing ELSE Minus(st.next, e)
             after == [st EXCEPT !.next = next, !.jobs = @ \o mb]
  <2>1. st.kind = PROCESSOR /\ q \in Seq(Nat) /\ st.next \in Durations
        /\ st.processing \in 0 .. Longest
        /\ (st.next = Infinity <=> q = <<>>)
    BY <1>2 DEF IsProcessor
  <2>2. external(st, mb, e) = after
    BY <2>1, KindsDiffer DEF external, ProcessorExternal
  <2>3. q \o mb \in Seq(Nat) /\ q \o mb # <<>>
    <3> HIDE DEF q
    <3>1. q \in Seq(Nat)
      BY <2>1
    <3> QED BY <3>1, ConcatProperties, ConcatEqualIffEmpty
  <2>4. next \in Durations /\ next # Infinity
    <3> HIDE DEF q
    <3>1. CASE q = <<>>
      <4>1. next = st.processing
        BY <3>1
      <4> QED BY <2>1, <4>1, TimesAre DEF Durations
    <3>2. CASE q # <<>>
      <4>1. next = Minus(st.next, e)
        BY <3>2
      <4>2. st.next # Infinity /\ st.next \in 0 .. Longest /\ e =< st.next
        BY <1>1, <2>1, <3>2 DEF Durations
      <4>3. next = st.next - e
        BY <4>1, <4>2, Zenon DEF Minus
      <4> HIDE DEF next
      <4> QED BY <4>2, <4>3, TimesAre DEF Durations
    <3> QED BY <3>1, <3>2
  <2> HIDE DEF next
  <2>5. IsProcessor(after) /\ after.kind = st.kind
    BY <1>2, <2>3, <2>4 DEF IsProcessor
  <2> HIDE DEF after
  <2> QED BY <2>2, <2>5, StatesAre
<1>3. CASE IsCounter(st)
  <2> DEFINE n == Questions(mb)
             after == [st EXCEPT !.next = IF n > 0 THEN 0 ELSE @,
                                 !.counter = @ + Len(mb) - n]
             asked == {i \in DOMAIN mb : mb[i] = 0}
  <2>1. st.kind = COUNTER /\ st.counter \in Nat
    BY <1>3 DEF IsCounter
  <2>2. external(st, mb, e) = after
    BY <2>1, KindsDiffer DEF external, CounterExternal
  <2>3. Len(mb) \in Nat /\ n \in 0 .. Len(mb)
    <3>1. Len(mb) \in Nat /\ asked \subseteq 1 .. Len(mb)
      OBVIOUS
    <3> HIDE DEF asked
    <3>2. Cardinality(asked) \in 0 .. Len(mb)
      BY <3>1, CountIs
    <3> QED BY <3>1, <3>2 DEF Questions, asked
  <2> HIDE DEF n
  <2>4. st.counter + Len(mb) - n \in Nat
    BY <2>1, <2>3
  <2>5. IsCounter(after) /\ after.kind = st.kind
    BY <1>3, <2>4 DEF IsCounter
  <2> HIDE DEF after
  <2> QED BY <2>2, <2>5, StatesAre
<1>4. ~ IsGenerator(st) /\ ~ IsStream(st)
  BY KindsDiffer DEF MayReceive, IsGenerator, IsStream
<1> QED BY <1>2, <1>3, <1>4, StatesAre

\* What advance says is a time or never.
LEMMA AdvanceIs ==
  ASSUME NEW st \in States
  PROVE  /\ advance(st) \in Durations
         /\ advance(st) # Infinity => advance(st) \in 0 .. Longest
<1>1. advance(st) \in Durations
  BY StatesAre, TimesAre
  DEF advance, IsGenerator, IsProcessor, IsCounter, IsStream, Durations
<1> QED BY <1>1 DEF Durations

\* The states of the trees allow those and more.
LEMMA StatesMonotonic == States \subseteq AtomicStates(Infinity)
<1> DEFINE F == 0 .. Infinity \ {Infinity}
           D == F \cup {Infinity}
           P(s) == s.next = Infinity <=> s.jobs = <<>>
           S(s) == /\ s.next = Infinity <=> s.output = <<>>
                   /\ \A i \in DOMAIN s.lines :
                        /\ s.at =< s.lines[i][1]
                        /\ \A j \in 1 .. i : s.lines[j][1] =< s.lines[i][1]
           G2 == [kind : {GENERATOR}, next : D, outvalue : Nat]
           P2 == [kind : {PROCESSOR}, next : D, jobs : Seq(Nat),
                  processing : F]
           C2 == [kind : {COUNTER}, next : {0, Infinity}, counter : Nat]
           S2 == [kind : {STREAM}, next : D, at : F,
                  output : Seq(Nat), lines : Seq(F \X Nat)]
<1>1. AtomicStates(Infinity)
        = G2 \cup {s \in P2 : P(s)} \cup C2 \cup {s \in S2 : S(s)}
  BY Zenon DEF AtomicStates
<1>2. 0 .. Longest \subseteq F /\ Durations \subseteq D
  BY TimesAre DEF Durations
<1>3. Seq((0 .. Longest) \X Nat) \subseteq Seq(F \X Nat)
  <2> DEFINE A == (0 .. Longest) \X Nat
             B == F \X Nat
  <2>1. A \subseteq B
    BY <1>2
  <2> HIDE DEF A, B
  <2>2. Seq(A) \subseteq Seq(B)
    BY <2>1, SeqMonotonic
  <2> QED BY <2>2 DEF A, B
<1> SUFFICES ASSUME NEW st \in States PROVE st \in AtomicStates(Infinity)
  OBVIOUS
<1> HIDE DEF F, D
<1>4. CASE IsGenerator(st)
  BY <1>1, <1>2, <1>4 DEF IsGenerator
<1>5. CASE IsProcessor(st)
  BY <1>1, <1>2, <1>5 DEF IsProcessor
<1>6. CASE IsCounter(st)
  BY <1>1, <1>2, <1>6 DEF IsCounter
<1>7. CASE IsStream(st)
  <2>1. st \in S2
    BY <1>2, <1>3, <1>7 DEF IsStream
  <2>2. S(st)
    BY <1>7, Zenon DEF IsStream, Ascending
  <2> HIDE DEF S2, S
  <2> QED BY <1>1, <2>1, <2>2
<1> QED BY <1>4, <1>5, <1>6, <1>7, StatesAre

----------------------------------------------------------------------------
(* What holds of a tree while it is simulated at time t.                   *)

\* Induction from the deepest models up,
LEMMA Upwards ==
  ASSUME NEW desc, NEW depth, NEW height, IsDesc(desc, depth, height), NEW S,
         \A n \in Nodes(desc) :
           (\A m \in Nodes(desc) : depth[m] > depth[n] => m \in S) => n \in S
  PROVE  Nodes(desc) \subseteq S
<1> DEFINE N == Nodes(desc)
           K == {k \in Nat : \A n \in N : depth[n] > height - k => n \in S}
<1>1. height \in Nat /\ \A n \in N : depth[n] \in Nat /\ depth[n] =< height
  <2>1. height \in Nat /\ depth \in [N -> 0 .. height]
    BY TreeIs
  <2> HIDE DEF N
  <2> QED BY <2>1
<1> HIDE DEF N
<1>2. 0 \in K
  BY <1>1
<1>3. \A k \in 0 .. height : k \in K => k + 1 \in K
  <2> SUFFICES ASSUME NEW k \in 0 .. height, k \in K,
                      NEW n \in N, depth[n] > height - (k + 1)
               PROVE  n \in S
    OBVIOUS
  <2>1. \A m \in N : depth[m] > depth[n] => m \in S
    <3> SUFFICES ASSUME NEW m \in N, depth[m] > depth[n] PROVE m \in S
      OBVIOUS
    <3>1. depth[m] > height - k
      BY <1>1
    <3> QED BY <3>1
  <2> QED BY <2>1 DEF N
<1>4. height + 1 \in K
  <2> HIDE DEF K
  <2>1. 0 .. height + 1 \subseteq K
    BY <1>1, <1>2, <1>3, CH!UpTo
  <2> QED BY <1>1, <2>1
<1>5. \A n \in N : n \in S
  BY <1>1, <1>4
<1> QED BY <1>5 DEF N

\* and from the top down.
LEMMA Downwards ==
  ASSUME NEW desc, NEW depth, NEW height, IsDesc(desc, depth, height), NEW S,
         TOP \in S,
         \A c \in DOMAIN desc : c \in S => Children(desc, c) \subseteq S
  PROVE  Nodes(desc) \subseteq S
<1> DEFINE N == Nodes(desc)
           K == {k \in Nat : \A n \in N : depth[n] =< k => n \in S}
<1>1. height \in Nat /\ \A n \in N : depth[n] \in Nat /\ depth[n] =< height
  <2>1. height \in Nat /\ depth \in [N -> 0 .. height]
    BY TreeIs
  <2> HIDE DEF N
  <2> QED BY <2>1
<1>2. \A n \in N : n # TOP => \E c \in DOMAIN desc : n \in Children(desc, c)
                              /\ c \in N /\ depth[n] = depth[c] + 1
  <2>1. \A n \in N \ {TOP} : \E c \in DOMAIN desc : n \in Children(desc, c)
    BY TreeIs
  <2>2. \A c \in DOMAIN desc : \A n \in Children(desc, c) :
          depth[n] = depth[c] + 1 /\ c \in N
    BY TreeIs
  <2> HIDE DEF N
  <2> QED BY <2>1, <2>2
<1> HIDE DEF N
<1>3. 0 \in K
  <2> SUFFICES ASSUME NEW n \in N, depth[n] =< 0, n # TOP PROVE FALSE
    OBVIOUS
  <2>1. PICK c \in DOMAIN desc : c \in N /\ depth[n] = depth[c] + 1
    BY <1>2
  <2> QED BY <1>1, <2>1
<1>4. \A k \in 0 .. height - 1 : k \in K => k + 1 \in K
  <2> SUFFICES ASSUME NEW k \in 0 .. height - 1, k \in K,
                      NEW n \in N, depth[n] =< k + 1, n # TOP
               PROVE  n \in S
    OBVIOUS
  <2>1. PICK c \in DOMAIN desc : n \in Children(desc, c)
                                 /\ c \in N /\ depth[n] = depth[c] + 1
    BY <1>2
  <2>2. depth[c] =< k
    BY <1>1, <2>1
  <2> QED BY <2>1, <2>2
<1>5. height \in K
  <2> HIDE DEF K
  <2>1. 0 .. height \subseteq K
    BY <1>1, <1>3, <1>4, CH!UpTo
  <2> QED BY <1>1, <2>1
<1>6. \A n \in N : n \in S
  BY <1>1, <1>5
<1> QED BY <1>6 DEF N

\* The earliest of times.
LEMMA EarliestIs ==
  ASSUME NEW S, S \subseteq 0 .. Infinity
  PROVE  /\ Earliest(S) \in S \cup {Infinity}
         /\ Earliest(S) \in 0 .. Infinity
         /\ \A x \in S : Earliest(S) =< x
<1> DEFINE T == S \cup {Infinity}
<1>1. T \subseteq Nat /\ T # {} /\ T \subseteq 0 .. Infinity
  BY TimesAre
<1> HIDE DEF T
<1>2. \E x \in T : \A y \in T : x =< y
  BY <1>1, CH!LeastExists
<1>3. Min(T) \in T /\ \A y \in T : Min(T) =< y
  BY <1>2, Zenon DEF Min
<1> QED BY <1>1, <1>3 DEF Earliest, T

\* A simulator and its atomic model: the model is due by the time advance
\* counted from the last call, and what is in the inbox may be received.
AtomSound(s, m) ==
  /\ s.model[m] \in States
  /\ advance(s.model[m]) = Infinity => s.next[m] = Infinity
  /\ advance(s.model[m]) # Infinity
       => s.next[m] =< s.last[m] + advance(s.model[m])
  /\ s.inbox[m] # <<>> => MayReceive(s.model[m])

\* No simulator or coordinator is late, the atomic models are sound, nothing
\* is sent to those that must not receive, the events are of sub-models, and
\* no assert failed.
Sound(desc, s, t) ==
  /\ s \in Trees(desc)
  /\ s.asserted
  /\ \A n \in Nodes(desc) :
       s.last[n] =< t /\ t =< s.next[n] /\ s.next[n] =< Infinity
  /\ \A m \in Atoms(desc) : AtomSound(s, m)
  /\ \A c \in DOMAIN desc : \A m \in Receivers(desc[c]) :
       m \in Atoms(desc) => MayReceive(s.model[m])
  /\ \A c \in DOMAIN desc : \A ev \in Range(s.fel[c]) :
       ev[1] # Infinity /\ ev[2] \in Children(desc, c)

\* A coordinator knows its soonest sub-model, and with a future event list
\* those that are due then; the later ones are in the list.
Soonest(desc, s, c) ==
  LET C == Children(desc, c)
  IN /\ s.next[c] = Earliest({s.next[m] : m \in C})
     /\ \A ev \in Range(s.fel[c]) : ev[1] > s.next[c]
     /\ s.queue = FEL =>
          /\ Range(s.inminents[c]) =
               {m \in C : s.next[m] = s.next[c] /\ s.next[m] # Infinity}
          /\ \A m \in C :
               s.next[m] > s.next[c] /\ s.next[m] # Infinity
                 => <<s.next[m], m>> \in Range(s.fel[c])

\* The parts of it that are used most.
LEMMA SoundIs ==
  ASSUME NEW desc, NEW s, NEW t \in Nat, Sound(desc, s, t)
  PROVE  /\ s \in Trees(desc) /\ s.asserted = TRUE
         /\ \A n \in Nodes(desc) :
              /\ s.last[n] \in Nat /\ s.next[n] \in Nat
              /\ s.last[n] =< t /\ t =< s.next[n] /\ s.next[n] =< Infinity
         /\ \A m \in Atoms(desc) : AtomSound(s, m)
<1>1. s \in Trees(desc) /\ s.asserted
  BY DEF Sound
<1>2. s.asserted \in BOOLEAN
  BY <1>1, TreesAre
<1>3. s.last \in [Nodes(desc) -> Nat] /\ s.next \in [Nodes(desc) -> Nat]
  BY <1>1, TreesAre
<1> QED BY <1>1, <1>2, <1>3 DEF Sound

\* What is sent at t is messages.
LEMMA OutputTyped ==
  ASSUME NEW desc, NEW depth, NEW height, IsDesc(desc, depth, height),
         NEW t \in Nat, t < End, NEW s, Sound(desc, s, t)
  PROVE  \A n \in Nodes(desc) :
           /\ Output(s, n, t) \in Seq(Nat)
           /\ n \in Atoms(desc) /\ s.next[n] = t =>
                Output(s, n, t) = out(s.model[n]) /\ Output(s, n, t) # <<>>
           /\ s.next[n] # t => Output(s, n, t) = <<>>
<1> DEFINE N == Nodes(desc)
           o == Outputs(s, t)
           joined(n) ==
               Flatten([i \in DOMAIN Inminents(s, n) |->
                          IF ConnectedToOut(s, n, Inminents(s, n)[i])
                          THEN o[Inminents(s, n)[i]] ELSE <<>>])
           S == {n \in N : o[n] \in Seq(Nat)}
<1>1. s \in Trees(desc) /\ s.desc = desc
  BY SoundIs, TreesAre
<1>2. o = [n \in N |-> IF s.next[n] # t THEN <<>>
                       ELSE IF Atomic(desc, n) THEN out(s.model[n])
                       ELSE joined(n)]
  BY <1>1, OutputsAre
<1> HIDE DEF o, N
<1>3. \A n \in N : o[n] = IF s.next[n] # t THEN <<>>
                          ELSE IF Atomic(desc, n) THEN out(s.model[n])
                          ELSE joined(n)
  <2> HIDE DEF joined
  <2> QED BY <1>2
<1>4. ASSUME NEW n \in N, Atomic(desc, n), s.next[n] = t
      PROVE  out(s.model[n]) \in Seq(Nat) /\ out(s.model[n]) # <<>>
  <2>1. AtomSound(s, n)
    BY <1>4, SoundIs DEF Atoms, N
  <2>2. advance(s.model[n]) # Infinity /\ s.model[n] \in States
    BY <1>4, <2>1, TimesAre DEF AtomSound
  <2> QED BY <2>2, InternalIs
<1>5. ASSUME NEW n \in N, \A m \in N : depth[m] > depth[n] => m \in S
      PROVE  n \in S
  <2>1. CASE s.next[n] # t
    BY <1>3, <2>1, EmptySeq
  <2>2. CASE s.next[n] = t /\ Atomic(desc, n)
    BY <1>3, <1>4, <2>2
  <2>3. CASE s.next[n] = t /\ ~ Atomic(desc, n)
    <3> DEFINE due == Inminents(s, n)
               ss == [i \in DOMAIN due |->
                        IF ConnectedToOut(s, n, due[i])
                        THEN o[due[i]] ELSE <<>>]
    <3>1. n \in DOMAIN desc
      BY <2>3 DEF Atomic
    <3>2. \A m \in Children(desc, n) : o[m] \in Seq(Nat)
      <4>1. depth[n] \in Nat /\ \A m \in Children(desc, n) :
              m \in N /\ depth[m] = depth[n] + 1
        BY <3>1, TreeIs DEF N
      <4> QED BY <1>5, <4>1
    <3>3. due \in Seq(Children(desc, n))
      BY <1>1, <3>1, InminentsAre
    <3> HIDE DEF due
    <3>4. Len(due) \in Nat /\ DOMAIN due = 1 .. Len(due)
          /\ \A i \in 1 .. Len(due) : due[i] \in Children(desc, n)
      BY <3>3, SeqAt
    <3>5. ss \in [1 .. Len(due) -> Seq(Nat)]
      BY <3>2, <3>4, EmptySeq
    <3>6. Flatten(ss) \in Seq(Nat)
      <4> HIDE DEF ss
      <4> QED BY <3>4, <3>5, FlattenRange
    <3>7. joined(n) = Flatten(ss)
      BY DEF due
    <3> HIDE DEF joined, ss
    <3> QED BY <1>3, <2>3, <3>6, <3>7
  <2> QED BY <2>1, <2>2, <2>3
<1>6. N \subseteq S
  <2> HIDE DEF S
  <2> QED BY <1>5, Upwards DEF N
<1>7. \A n : Output(s, n, t) = o[n]
  BY DEF Output, o
<1> HIDE DEF joined
<1> QED BY <1>3, <1>4, <1>6, <1>7 DEF Atoms, N

----------------------------------------------------------------------------
(* The call of a simulator.                                                *)

After(s, m, t) ==
  Transition(s.model[m], s.inbox[m], t = s.next[m], t - s.last[m])

Runs(s, m, t) == t = s.next[m] \/ s.inbox[m] # <<>>

\* The parts of a tree.
HasParts(r) ==
  r = [desc |-> r.desc, queue |-> r.queue, model |-> r.model,
       last |-> r.last, next |-> r.next, inbox |-> r.inbox,
       fel |-> r.fel, inminents |-> r.inminents, called |-> r.called,
       needless |-> r.needless, asserted |-> r.asserted]

\* The parts of the tree after it.
IsSimulated(r, s, m, t) ==
  /\ HasParts(r)
  /\ r.desc = s.desc /\ r.queue = s.queue
  /\ r.fel = s.fel /\ r.inminents = s.inminents
  /\ r.model = [s.model EXCEPT ![m] = After(s, m, t)]
  /\ r.last = [s.last EXCEPT ![m] = t]
  /\ r.next = [s.next EXCEPT ![m] =
                 IF Runs(s, m, t) THEN Plus(t, advance(After(s, m, t)))
                 ELSE @]
  /\ r.inbox = [s.inbox EXCEPT ![m] = <<>>]
  /\ r.called = s.called \cup {m}
  /\ r.needless = (s.needless \/ ~ Runs(s, m, t) \/ m \in s.called)
  /\ r.asserted = (/\ s.asserted /\ Asserts(s, m, t)
                   /\ s.inbox[m] # <<>> => MayReceive(s.model[m]))

\* Simulate changes these parts of a tree, and no others.
LEMMA SimulateFields ==
  ASSUME NEW desc, NEW s \in Trees(desc), NEW m \in Atoms(desc), NEW t
  PROVE  IsSimulated(Simulate(s, m, t), s, m, t)
<1> DEFINE A == After(s, m, t)
           R == Runs(s, m, t)
           P == Plus(t, advance(A))
           X == /\ s.asserted /\ Asserts(s, m, t)
                /\ s.inbox[m] # <<>> => MayReceive(s.model[m])
           Y == s.needless \/ ~ R \/ m \in s.called
<1>1. Simulate(s, m, t) =
        [s EXCEPT !.model[m] = A, !.last[m] = t,
                  !.next[m] = IF R THEN P ELSE @,
                  !.inbox[m] = <<>>, !.called = @ \cup {m},
                  !.needless = Y, !.asserted = X]
  BY Zenon DEF Simulate, After, Runs
<1>2. s \in [desc : {desc}, queue : {NULLQUEUE, FEL},
          model : [Atoms(desc) -> AtomicStates(Infinity)],
          last : [Nodes(desc) -> Nat], next : [Nodes(desc) -> Nat],
          inbox : [Nodes(desc) -> Seq(Nat)],
          fel : [DOMAIN desc -> Seq(Nat \X Nodes(desc))],
          inminents : [DOMAIN desc -> Seq(Nodes(desc))],
          called : SUBSET Nodes(desc),
          needless : BOOLEAN, asserted : BOOLEAN]
  BY DEF Trees
<1> HIDE DEF A, R, P, X, Y
<1> QED BY <1>1, <1>2 DEF A, R, P, X, Y, HasParts, IsSimulated

\* A tree from its parts.
LEMMA TreeFrom ==
  ASSUME NEW desc, NEW r, HasParts(r),
         r.desc = desc, r.queue \in {NULLQUEUE, FEL},
         r.model \in [Atoms(desc) -> AtomicStates(Infinity)],
         r.last \in [Nodes(desc) -> Nat], r.next \in [Nodes(desc) -> Nat],
         r.inbox \in [Nodes(desc) -> Seq(Nat)],
         r.fel \in [DOMAIN desc -> Seq(Nat \X Nodes(desc))],
         r.inminents \in [DOMAIN desc -> Seq(Nodes(desc))],
         r.called \in SUBSET Nodes(desc),
         r.needless \in BOOLEAN, r.asserted \in BOOLEAN,
         \A c \in DOMAIN desc :
           Range(r.inminents[c]) \subseteq Children(desc, c)
  PROVE  r \in Trees(desc)
BY DEF Trees, Children, HasParts

\* What the call of a model may do to a tree: it leaves everything sound, the
\* other coordinators knowing their soonest sub-models, models that are not
\* below it when they were due, and the future event lists above it alone; no
\* inbox is filled by it that is not emptied again, and its own is empty.
Advances(desc, depth, s, r, n, t) ==
  /\ Sound(desc, r, t)
  /\ r.queue = s.queue
  /\ \A m \in Nodes(desc) :
       m # n /\ depth[m] =< depth[n] => r.next[m] = s.next[m]
  /\ \A c \in DOMAIN desc : depth[c] < depth[n] => r.fel[c] = s.fel[c]
  /\ \A c \in DOMAIN desc :
       n \notin Children(desc, c) /\ Soonest(desc, s, c) => Soonest(desc, r, c)
  /\ \A m \in Nodes(desc) : r.inbox[m] # <<>> => s.inbox[m] # <<>> /\ m # n

\* Soonest depends on what the coordinator and its sub-models say alone.
LEMMA SoonestSame ==
  ASSUME NEW desc, NEW s, NEW r, NEW c,
         r.queue = s.queue, r.next[c] = s.next[c], r.fel[c] = s.fel[c],
         r.inminents[c] = s.inminents[c],
         \A m \in Children(desc, c) : r.next[m] = s.next[m],
         Soonest(desc, s, c)
  PROVE  Soonest(desc, r, c)
<1> DEFINE C == Children(desc, c)
<1>1. {r.next[m] : m \in C} = {s.next[m] : m \in C}
  OBVIOUS
<1>2. {m \in C : r.next[m] = r.next[c] /\ r.next[m] # Infinity}
        = {m \in C : s.next[m] = s.next[c] /\ s.next[m] # Infinity}
  OBVIOUS
<1> HIDE DEF C
<1> QED BY <1>1, <1>2 DEF Soonest, C

\* The transition of a sound simulator.
LEMMA TransitionIs ==
  ASSUME NEW desc, NEW s, NEW t \in Nat, t < End, Sound(desc, s, t),
         NEW m \in Atoms(desc)
  PROVE  LET a == After(s, m, t)
         IN /\ a \in States /\ a.kind = s.model[m].kind
            /\ ~ Runs(s, m, t) => a = s.model[m]
<1> DEFINE st == s.model[m]
           mb == s.inbox[m]
           e == t - s.last[m]
           a == Transition(st, mb, t = s.next[m], e)
<1>1. s \in Trees(desc) /\ AtomSound(s, m) /\ m \in Nodes(desc)
  BY SoundIs DEF Atoms
<1>2. mb \in Seq(Nat)
  <2>1. s.inbox \in [Nodes(desc) -> Seq(Nat)]
    BY <1>1, TreesAre
  <2> QED BY <1>1, <2>1
<1>3. /\ s.last[m] \in Nat /\ s.next[m] \in Nat
      /\ s.last[m] =< t /\ t =< s.next[m] /\ s.next[m] =< Infinity
  BY <1>1, SoundIs
<1>4. st \in States
      /\ (advance(st) = Infinity => s.next[m] = Infinity)
      /\ (advance(st) # Infinity => s.next[m] =< s.last[m] + advance(st))
      /\ (mb # <<>> => MayReceive(st))
  BY <1>1 DEF AtomSound
<1>5. t = s.next[m] => advance(st) # Infinity
  BY <1>4, TimesAre
<1>6. e \in Nat /\ (advance(st) # Infinity => e =< advance(st))
  <2>1. advance(st) # Infinity => advance(st) \in Nat
    BY <1>4, AdvanceIs, TimesAre
  <2> QED BY <1>3, <1>4, <2>1
<1> HIDE DEF st, mb, e
<1>7. CASE mb = <<>> /\ t = s.next[m]
  <2>1. a = internal(st)
    BY <1>7 DEF Transition
  <2> QED BY <1>4, <1>5, <1>7, <2>1, InternalIs DEF After, Runs, st, mb, e
<1>8. CASE mb = <<>> /\ t # s.next[m]
  BY <1>4, <1>8 DEF After, Transition, st, mb, e
<1>9. CASE mb # <<>> /\ t = s.next[m]
  <2>1. a = external(internal(st), mb, 0)
    BY <1>9 DEF Transition, confluence
  <2>2. internal(st) \in States /\ internal(st).kind = st.kind
    BY <1>4, <1>5, <1>9, InternalIs
  <2>3. MayReceive(internal(st))
    BY <1>4, <1>9, <2>2 DEF MayReceive
  <2>4. advance(internal(st)) # Infinity => 0 =< advance(internal(st))
    BY <2>2, AdvanceIs, TimesAre
  <2>5. a \in States /\ a.kind = st.kind
    BY <1>2, <1>9, <2>1, <2>2, <2>3, <2>4, ExternalIs
  <2> QED BY <1>9, <2>5 DEF After, Runs, st, mb, e
<1>10. CASE mb # <<>> /\ t # s.next[m]
  <2>1. a = external(st, mb, e)
    BY <1>10 DEF Transition
  <2>2. a \in States /\ a.kind = st.kind
    BY <1>2, <1>4, <1>6, <1>10, <2>1, ExternalIs
  <2> QED BY <1>10, <2>2 DEF After, Runs, st, mb, e
<1> QED BY <1>7, <1>8, <1>9, <1>10

\* The call of a simulator does no more than it may.
LEMMA SimulateAdvances ==
  ASSUME NEW desc, NEW depth, NEW height, IsDesc(desc, depth, height),
         NEW t \in Nat, t < End, NEW s, Sound(desc, s, t),
         NEW n \in Atoms(desc)
  PROVE  Advances(desc, depth, s, Simulate(s, n, t), n, t)
<1> DEFINE r == Simulate(s, n, t)
           N == Nodes(desc)
           A == After(s, n, t)
<1>1. s \in Trees(desc) /\ s.desc = desc /\ n \in N /\ n \notin DOMAIN desc
      /\ n \in Atoms(desc)
  BY SoundIs, TreesAre DEF Atoms, Atomic
<1>2. /\ HasParts(r) /\ r.desc = s.desc /\ r.queue = s.queue
      /\ r.fel = s.fel /\ r.inminents = s.inminents
      /\ r.model = [s.model EXCEPT ![n] = A]
      /\ r.last = [s.last EXCEPT ![n] = t]
      /\ r.next = [s.next EXCEPT ![n] =
                     IF Runs(s, n, t) THEN Plus(t, advance(A)) ELSE @]
      /\ r.inbox = [s.inbox EXCEPT ![n] = <<>>]
      /\ r.called = s.called \cup {n}
      /\ r.needless = (s.needless \/ ~ Runs(s, n, t) \/ n \in s.called)
      /\ r.asserted = (/\ s.asserted /\ Asserts(s, n, t)
                       /\ s.inbox[n] # <<>> => MayReceive(s.model[n]))
  <2>1. IsSimulated(Simulate(s, n, t), s, n, t)
    BY <1>1, SimulateFields
  <2> QED BY <2>1, Zenon DEF IsSimulated
<1>3. /\ s.queue \in {NULLQUEUE, FEL}
      /\ s.model \in [Atoms(desc) -> AtomicStates(Infinity)]
      /\ s.last \in [N -> Nat] /\ s.next \in [N -> Nat]
      /\ s.inbox \in [N -> Seq(Nat)]
      /\ s.fel \in [DOMAIN desc -> Seq(Nat \X N)]
      /\ s.inminents \in [DOMAIN desc -> Seq(N)]
      /\ s.called \in SUBSET N
      /\ s.needless \in BOOLEAN /\ s.asserted \in BOOLEAN
      /\ \A c \in DOMAIN desc :
           Range(s.inminents[c]) \subseteq Children(desc, c)
  BY <1>1, TreesAre
<1>4. A \in States /\ A.kind = s.model[n].kind
      /\ (~ Runs(s, n, t) => A = s.model[n])
  BY TransitionIs
<1>5. /\ s.asserted = TRUE /\ AtomSound(s, n)
      /\ s.last[n] \in Nat /\ s.next[n] \in Nat
      /\ s.last[n] =< t /\ t =< s.next[n] /\ s.next[n] =< Infinity
  BY <1>1, SoundIs
<1>6. /\ r.next[n] \in Nat /\ t =< r.next[n] /\ r.next[n] =< Infinity
      /\ advance(A) = Infinity => r.next[n] = Infinity
      /\ advance(A) # Infinity => r.next[n] =< t + advance(A)
  <2>1. advance(A) # Infinity => advance(A) \in 0 .. Longest
    BY <1>4, AdvanceIs
  <2>2. r.next[n] = IF Runs(s, n, t) THEN Plus(t, advance(A)) ELSE s.next[n]
    BY <1>1, <1>2, <1>3
  <2>3. CASE Runs(s, n, t)
    BY <2>1, <2>2, <2>3, TimesAre DEF Plus
  <2>4. CASE ~ Runs(s, n, t)
    <3>1. A = s.model[n] /\ r.next[n] = s.next[n]
      BY <1>4, <2>2, <2>4
    <3> QED BY <1>5, <2>1, <3>1 DEF AtomSound
  <2> QED BY <2>3, <2>4
<1> HIDE DEF A, r, N
<1>7. /\ r.next \in [N -> Nat]
      /\ \A m \in N : m # n => r.next[m] = s.next[m]
  <2>1. r.next = [s.next EXCEPT ![n] = r.next[n]]
    BY <1>1, <1>2, <1>3
  <2> QED BY <1>3, <1>6, <2>1
<1>8. /\ r.inbox \in [N -> Seq(Nat)] /\ r.inbox[n] = <<>>
      /\ \A m \in N : m # n => r.inbox[m] = s.inbox[m]
  BY <1>1, <1>2, <1>3, EmptySeq
<1>9. /\ r.model \in [Atoms(desc) -> AtomicStates(Infinity)]
      /\ r.model[n] = A
      /\ \A m \in Atoms(desc) : m # n => r.model[m] = s.model[m]
  <2>1. A \in AtomicStates(Infinity)
    BY <1>4, StatesMonotonic
  <2> QED BY <1>1, <1>2, <1>3, <2>1
<1>10. /\ r.last \in [N -> Nat] /\ r.last[n] = t
       /\ \A m \in N : m # n => r.last[m] = s.last[m]
  BY <1>1, <1>2, <1>3
<1>11. r.asserted = TRUE
  BY <1>2, <1>5 DEF AtomSound, Asserts
<1>12. r \in Trees(desc)
  <2>1. r.called \in SUBSET N /\ r.needless \in BOOLEAN
    BY <1>1, <1>2, <1>3
  <2>2. \A c \in DOMAIN desc :
          Range(r.inminents[c]) \subseteq Children(desc, c)
    BY <1>2, <1>3
  <2> QED BY <1>1, <1>2, <1>3, <1>7, <1>8, <1>9, <1>10, <1>11, <2>1, <2>2,
             TreeFrom DEF N
<1>13. Sound(desc, r, t)
  <2>1. \A m \in N : r.last[m] =< t /\ t =< r.next[m] /\ r.next[m] =< Infinity
    <3>1. \A m \in N : s.last[m] =< t /\ t =< s.next[m]
                       /\ s.next[m] =< Infinity
      BY SoundIs DEF N
    <3> QED BY <1>6, <1>7, <1>10, <3>1
  <2>2. ASSUME NEW m \in Atoms(desc) PROVE AtomSound(r, m)
    <3>1. CASE m = n
      BY <1>4, <1>6, <1>8, <1>9, <1>10, <3>1 DEF AtomSound
    <3>2. CASE m # n
      <4>1. AtomSound(s, m) /\ m \in N
        BY SoundIs DEF Atoms, N
      <4> QED BY <1>7, <1>8, <1>9, <1>10, <3>2, <4>1 DEF AtomSound
    <3> QED BY <3>1, <3>2
  <2>3. \A c \in DOMAIN desc : \A m \in Receivers(desc[c]) :
          m \in Atoms(desc) => MayReceive(r.model[m])
    <3>1. \A c \in DOMAIN desc : \A m \in Receivers(desc[c]) :
            m \in Atoms(desc) => MayReceive(s.model[m])
      BY DEF Sound
    <3> QED BY <1>4, <1>9, <3>1 DEF MayReceive
  <2>4. \A c \in DOMAIN desc : \A ev \in Range(r.fel[c]) :
          ev[1] # Infinity /\ ev[2] \in Children(desc, c)
    BY <1>2 DEF Sound
  <2> QED BY <1>11, <1>12, <2>1, <2>2, <2>3, <2>4 DEF Sound, N
<1>14. ASSUME NEW c \in DOMAIN desc, n \notin Children(desc, c),
              Soonest(desc, s, c)
       PROVE  Soonest(desc, r, c)
  <2>1. c \in N /\ c # n /\ \A m \in Children(desc, c) : m \in N /\ m # n
    BY <1>1, <1>14, TreeIs DEF N
  <2>2. r.next[c] = s.next[c]
        /\ \A m \in Children(desc, c) : r.next[m] = s.next[m]
    BY <1>7, <2>1
  <2>3. r.queue = s.queue /\ r.fel[c] = s.fel[c]
        /\ r.inminents[c] = s.inminents[c]
    BY <1>2
  <2> QED BY <1>14, <2>2, <2>3, SoonestSame
<1> QED BY <1>2, <1>7, <1>8, <1>13, <1>14 DEF Advances, r, N

----------------------------------------------------------------------------
(* The call of a coordinator: the inboxes of its sub-models are filled.    *)

SameButInbox(r, s) ==
  /\ r.queue = s.queue /\ r.model = s.model
  /\ r.last = s.last /\ r.next = s.next
  /\ r.fel = s.fel /\ r.inminents = s.inminents /\ r.called = s.called
  /\ r.needless = s.needless /\ r.asserted = s.asserted

IsDelivered(g, desc, acc, m, bag, t) ==
  /\ g.s \in Trees(desc) /\ SameButInbox(g.s, acc.s)
  /\ g.s.inbox = [acc.s.inbox EXCEPT ![m] = @ \o bag]
  /\ g.visit = IF acc.s.next[m] # t /\ acc.s.inbox[m] = <<>>
               THEN Append(acc.visit, m) ELSE acc.visit

\* Deliver changes one inbox and the list of those to visit.
LEMMA DeliverIs ==
  ASSUME NEW desc, NEW acc, acc.s \in Trees(desc), NEW m \in Nodes(desc),
         NEW bag \in Seq(Nat), NEW t
  PROVE  IsDelivered(Deliver(acc, m, bag, t), desc, acc, m, bag, t)
<1> DEFINE s == acc.s
           box == [s.inbox EXCEPT ![m] = @ \o bag]
           r == [s EXCEPT !.inbox = box]
<1>1. Deliver(acc, m, bag, t).s = r
      /\ Deliver(acc, m, bag, t).visit =
           IF s.next[m] # t /\ s.inbox[m] = <<>>
           THEN Append(acc.visit, m) ELSE acc.visit
  BY DEF Deliver
<1>2. s \in [desc : {desc}, queue : {NULLQUEUE, FEL},
          model : [Atoms(desc) -> AtomicStates(Infinity)],
          last : [Nodes(desc) -> Nat], next : [Nodes(desc) -> Nat],
          inbox : [Nodes(desc) -> Seq(Nat)],
          fel : [DOMAIN desc -> Seq(Nat \X Nodes(desc))],
          inminents : [DOMAIN desc -> Seq(Nodes(desc))],
          called : SUBSET Nodes(desc),
          needless : BOOLEAN, asserted : BOOLEAN]
  BY DEF Trees
<1> HIDE DEF s, box
<1>3. HasParts(r) /\ SameButInbox(r, s) /\ r.desc = s.desc /\ r.inbox = box
  <2>1. HasParts(s)
    BY <1>2, SMT DEF HasParts
  <2>2. /\ r.queue = s.queue /\ r.model = s.model
        /\ r.last = s.last /\ r.next = s.next
        /\ r.fel = s.fel /\ r.inminents = s.inminents
        /\ r.called = s.called /\ r.needless = s.needless
        /\ r.asserted = s.asserted /\ r.desc = s.desc /\ r.inbox = box
    BY <1>2, SMT
  <2>3. HasParts(r)
    BY <2>1, SMT DEF HasParts
  <2> QED BY <2>2, <2>3 DEF SameButInbox
<1>4. s.inbox[m] \o bag \in Seq(Nat) /\ s.inbox \in [Nodes(desc) -> Seq(Nat)]
  <2>1. s.inbox \in [Nodes(desc) -> Seq(Nat)]
    BY <1>2
  <2> DEFINE old == s.inbox[m]
  <2>2. old \in Seq(Nat)
    BY <2>1
  <2> HIDE DEF old
  <2>3. old \o bag \in Seq(Nat)
    BY <2>2, ConcatProperties
  <2> QED BY <2>1, <2>3 DEF old
<1> HIDE DEF r
<1>5. r.inbox \in [Nodes(desc) -> Seq(Nat)]
  BY <1>3, <1>4 DEF box
<1>6. s \in Trees(desc)
  BY DEF s
<1>7. r \in Trees(desc)
  BY <1>3, <1>5, <1>6, TreesAre, TreeFrom, ZenonT(60) DEF SameButInbox
<1> QED BY <1>1, <1>3, <1>7, Zenon DEF IsDelivered, s, box

\* One more at the end of a sequence.
LEMMA AppendIs ==
  ASSUME NEW T, NEW v \in Seq(T), NEW m \in T
  PROVE  /\ Append(v, m) \in Seq(T)
         /\ Range(Append(v, m)) = Range(v) \cup {m}
<1> DEFINE w == <<m>>
<1>1. w \in Seq(T) /\ Append(v, m) = v \o w
  BY AppendIsConcat
<1>2. Range(w) = {m}
  BY RangeShort
<1> HIDE DEF w
<1>3. Range(v \o w) = Range(v) \cup Range(w) /\ v \o w \in Seq(T)
  BY <1>1, RangeConcatenation, ConcatProperties
<1> QED BY <1>1, <1>2, <1>3

\* After each bag, nothing but inboxes has changed, and a filled one is that
\* of a receiver that is due or will be visited; if no bag is empty, no model
\* is to be visited twice, or when it is due or has nothing in its inbox.
IsPosted(p, desc, b, R, D, t) ==
  /\ p.s \in Trees(desc) /\ SameButInbox(p.s, b)
  /\ p.visit \in Seq(R)
  /\ \A m \in Nodes(desc) : p.s.inbox[m] # <<>> =>
       \/ b.inbox[m] # <<>>
       \/ m \in R /\ (m \in Range(p.visit) \/ b.next[m] = t)
  /\ <<>> \notin D =>
       /\ IsInjective(p.visit)
       /\ \A m \in Range(p.visit) :
            b.next[m] # t /\ p.s.inbox[m] # <<>>
       /\ \A m \in Nodes(desc) :
            b.inbox[m] # <<>> => p.s.inbox[m] # <<>>

\* When all bags of a mail are posted, this holds.
LEMMA Posting ==
  ASSUME NEW desc, NEW b \in Trees(desc), NEW t, NEW R \in SUBSET Nodes(desc),
         NEW D \in SUBSET Seq(Nat), NEW mail \in Seq(R \X D),
         NEW f, IsPosting(f, b, mail, t)
  PROVE  IsPosted(f[Len(mail)], desc, b, R, D, t)
<1> DEFINE n == Len(mail)
           N == Nodes(desc)
           Holds(p) ==
             /\ p.s \in Trees(desc) /\ SameButInbox(p.s, b)
             /\ p.visit \in Seq(R)
             /\ \A m \in N : p.s.inbox[m] # <<>> =>
                  \/ b.inbox[m] # <<>>
                  \/ m \in R /\ (m \in Range(p.visit) \/ b.next[m] = t)
             /\ <<>> \notin D =>
                  /\ IsInjective(p.visit)
                  /\ \A m \in Range(p.visit) :
                       b.next[m] # t /\ p.s.inbox[m] # <<>>
                  /\ \A m \in N : b.inbox[m] # <<>> => p.s.inbox[m] # <<>>
           S == {i \in Nat : Holds(f[i])}
<1>1. n \in Nat /\ \A i \in 1 .. n : mail[i] \in R \X D
  BY SeqAt
<1>2. 0 \in S
  <2> DEFINE p == f[0]
  <2>1. p.s = b /\ p.visit = <<>>
    BY DEF IsPosting
  <2> HIDE DEF p
  <2>2. SameButInbox(b, b)
    BY DEF SameButInbox
  <2>3. IsInjective(<<>>) /\ Range(<<>>) = {} /\ <<>> \in Seq(R)
    BY RangeShort DEF IsInjective
  <2>4. Holds(p)
    BY <2>1, <2>2, <2>3
  <2> QED BY <2>4 DEF p
<1>3. ASSUME NEW i \in 0 .. n - 1, i \in S PROVE i + 1 \in S
  <2>1. PICK j \in 1 .. n : j = i + 1 /\ j - 1 = i
    BY <1>1
  <2> DEFINE a == f[i]
             m == mail[j][1]
             bag == mail[j][2]
             p == f[j]
  <2>2. p = Deliver(a, m, bag, t)
    <3>1. f[j] = Deliver(f[j - 1], mail[j][1], mail[j][2], t)
      BY DEF IsPosting
    <3> QED BY <2>1, <3>1
  <2>3. Holds(a)
    BY <1>3
  <2>4. m \in R /\ m \in N /\ bag \in D /\ bag \in Seq(Nat)
    BY <1>1
  <2> HIDE DEF a, m, bag, p
  <2>5. /\ p.s \in Trees(desc) /\ SameButInbox(p.s, a.s)
        /\ p.s.inbox = [a.s.inbox EXCEPT ![m] = @ \o bag]
        /\ p.visit = IF a.s.next[m] # t /\ a.s.inbox[m] = <<>>
                     THEN Append(a.visit, m) ELSE a.visit
    <3>1. IsDelivered(p, desc, a, m, bag, t)
      BY <2>2, <2>3, <2>4, DeliverIs
    <3> QED BY <3>1, Zenon DEF IsDelivered
  <2>6. SameButInbox(p.s, b) /\ a.s.next = b.next
    BY <2>3, <2>5 DEF SameButInbox
  <2>7. a.s.inbox \in [N -> Seq(Nat)]
    BY <2>3, TreesAre
  <2>8. /\ \A k \in N : k # m => p.s.inbox[k] = a.s.inbox[k]
        /\ p.s.inbox[m] = a.s.inbox[m] \o bag
    BY <2>4, <2>5, <2>7
  <2>9. /\ a.s.inbox[m] = <<>> => p.s.inbox[m] = bag
        /\ a.s.inbox[m] # <<>> => p.s.inbox[m] # <<>>
    <3> DEFINE old == a.s.inbox[m]
    <3>1. old \in Seq(Nat)
      BY <2>4, <2>7
    <3> HIDE DEF old
    <3>2. old = <<>> => old \o bag = bag
      BY <2>4, ConcatEmptySeq
    <3>3. old # <<>> => old \o bag # <<>>
      BY <2>4, <3>1, ConcatEqualIffEmpty
    <3> QED BY <2>8, <3>2, <3>3 DEF old
  <2> DEFINE v == a.visit
  <2>10. v \in Seq(R)
    BY <2>3
  <2> HIDE DEF v
  <2>11. /\ Append(v, m) \in Seq(R)
         /\ Range(Append(v, m)) = Range(v) \cup {m}
    BY <2>4, <2>10, AppendIs
  <2>12. ASSUME IsInjective(v), m \notin Range(v)
         PROVE  IsInjective(Append(v, m))
    <3>1. /\ Len(v) \in Nat /\ DOMAIN v = 1 .. Len(v)
          /\ \A k \in 1 .. Len(v) : v[k] # m
      BY <2>10, <2>12, SeqAt
    <3>2. /\ DOMAIN Append(v, m) = 1 .. Len(v) + 1
          /\ \A k \in 1 .. Len(v) : Append(v, m)[k] = v[k]
          /\ Append(v, m)[Len(v) + 1] = m
      BY <2>4, <2>10
    <3>3. \A k \in 1 .. Len(v) + 1 : k \in 1 .. Len(v) \/ k = Len(v) + 1
      BY <3>1
    <3>4. \A k, l \in 1 .. Len(v) : v[k] = v[l] => k = l
      BY <2>12, <3>1, Zenon DEF IsInjective
    <3>5. \A k, l \in 1 .. Len(v) + 1 :
            Append(v, m)[k] = Append(v, m)[l] => k = l
      BY <3>1, <3>2, <3>3, <3>4
    <3> QED BY <3>2, <3>5, Zenon DEF IsInjective
  <2>13. p.visit = IF b.next[m] # t /\ a.s.inbox[m] = <<>>
                   THEN Append(v, m) ELSE v
    BY <2>5, <2>6 DEF v
  <2>14. p.visit \in Seq(R) /\ Range(v) \subseteq Range(p.visit)
         /\ Range(p.visit) \subseteq Range(v) \cup {m}
    BY <2>10, <2>11, <2>13
  <2>15. \A k \in N : p.s.inbox[k] # <<>> =>
           b.inbox[k] # <<>>
             \/ (k \in R /\ (k \in Range(p.visit) \/ b.next[k] = t))
    <3> SUFFICES ASSUME NEW k \in N, p.s.inbox[k] # <<>>, b.inbox[k] = <<>>
                 PROVE  k \in R /\ (k \in Range(p.visit) \/ b.next[k] = t)
      OBVIOUS
    <3>1. a.s.inbox[k] # <<>> =>
            k \in R /\ (k \in Range(v) \/ b.next[k] = t)
      BY <2>3 DEF v
    <3>2. CASE a.s.inbox[k] # <<>>
      BY <2>14, <3>1, <3>2
    <3>3. CASE a.s.inbox[k] = <<>>
      <4>1. k = m
        BY <2>8, <3>3
      <4>2. b.next[m] # t => m \in Range(p.visit)
        BY <2>11, <2>13, <3>3, <4>1
      <4> QED BY <2>4, <4>1, <4>2
    <3> QED BY <3>2, <3>3
  <2>16. ASSUME <<>> \notin D
         PROVE  /\ IsInjective(p.visit)
                /\ \A k \in Range(p.visit) :
                     b.next[k] # t /\ p.s.inbox[k] # <<>>
                /\ \A k \in N : b.inbox[k] # <<>> => p.s.inbox[k] # <<>>
    <3>1. /\ IsInjective(v)
          /\ \A k \in Range(v) : b.next[k] # t /\ a.s.inbox[k] # <<>>
          /\ \A k \in N : b.inbox[k] # <<>> => a.s.inbox[k] # <<>>
      BY <2>3, <2>16 DEF v
    <3>2. bag # <<>>
      BY <2>4, <2>16
    <3>3. \A k \in N : a.s.inbox[k] # <<>> => p.s.inbox[k] # <<>>
      BY <2>8, <2>9
    <3>4. p.s.inbox[m] # <<>>
      BY <2>9, <3>2
    <3>5. Range(v) \subseteq N
      <4>1. Range(v) \subseteq R
        BY <2>10, RangeOfSeq
      <4> QED BY <4>1
    <3>6. IsInjective(p.visit)
      BY <2>12, <2>13, <3>1
    <3>7. \A k \in Range(p.visit) : b.next[k] # t /\ p.s.inbox[k] # <<>>
      <4> SUFFICES ASSUME NEW k \in Range(p.visit)
                   PROVE  b.next[k] # t /\ p.s.inbox[k] # <<>>
        OBVIOUS
      <4>1. CASE k \in Range(v)
        BY <3>1, <3>3, <3>5, <4>1
      <4>2. CASE k \notin Range(v)
        <5>1. k = m /\ p.visit # v
          BY <2>14, <4>2
        <5>2. b.next[m] # t
          BY <2>13, <5>1
        <5> QED BY <3>4, <5>1, <5>2
      <4> QED BY <4>1, <4>2
    <3> QED BY <3>1, <3>3, <3>6, <3>7
  <2>17. Holds(p)
    BY <2>5, <2>6, <2>14, <2>15, <2>16
  <2> HIDE DEF Holds
  <2> QED BY <2>1, <2>17 DEF p
<1>4. n \in S
  <2> HIDE DEF S, n
  <2>1. 0 .. n \subseteq S
    BY <1>1, <1>2, <1>3, CH!UpTo
  <2> QED BY <1>1, <2>1
<1>5. Holds(f[n])
  BY <1>4
<1> QED BY <1>5, Zenon DEF IsPosted

\* The start of the call.
IsBegun(r, desc, s, c, t) ==
  /\ r \in Trees(desc)
  /\ r.queue = s.queue /\ r.model = s.model /\ r.next = s.next
  /\ r.inbox = s.inbox /\ r.fel = s.fel /\ r.inminents = s.inminents
  /\ r.called = s.called /\ r.needless = s.needless
  /\ r.last = [s.last EXCEPT ![c] = t]
  /\ r.asserted = (s.asserted /\ Asserts(s, c, t))

\* A call starts with _last, and changes nothing else but asserted.
LEMMA BegunIs ==
  ASSUME NEW desc, NEW s \in Trees(desc), NEW c \in Nodes(desc), NEW t \in Nat
  PROVE  IsBegun(Begun(s, c, t), desc, s, c, t)
<1> DEFINE last == [s.last EXCEPT ![c] = t]
           asserted == s.asserted /\ Asserts(s, c, t)
           r == [s EXCEPT !.last = last, !.asserted = asserted]
<1>1. Begun(s, c, t) = r
  BY Zenon DEF Begun
<1>2. s \in [desc : {desc}, queue : {NULLQUEUE, FEL},
          model : [Atoms(desc) -> AtomicStates(Infinity)],
          last : [Nodes(desc) -> Nat], next : [Nodes(desc) -> Nat],
          inbox : [Nodes(desc) -> Seq(Nat)],
          fel : [DOMAIN desc -> Seq(Nat \X Nodes(desc))],
          inminents : [DOMAIN desc -> Seq(Nodes(desc))],
          called : SUBSET Nodes(desc),
          needless : BOOLEAN, asserted : BOOLEAN]
  BY DEF Trees
<1> HIDE DEF last, asserted
<1>3. /\ r.queue = s.queue /\ r.model = s.model /\ r.next = s.next
      /\ r.inbox = s.inbox /\ r.fel = s.fel /\ r.inminents = s.inminents
      /\ r.called = s.called /\ r.needless = s.needless
      /\ r.last = last /\ r.asserted = asserted /\ r.desc = s.desc
  BY <1>2, SMT
<1>4. HasParts(r)
  <2>1. HasParts(s)
    BY <1>2, SMT DEF HasParts
  <2> DEFINE q == [s EXCEPT !.last = last]
  <2>2. HasParts(q)
    BY <2>1, SMT DEF HasParts
  <2> HIDE DEF q
  <2>3. HasParts([q EXCEPT !.asserted = asserted])
    BY <2>2, SMT DEF HasParts
  <2> QED BY <2>3 DEF q
<1>5. last \in [Nodes(desc) -> Nat] /\ asserted \in BOOLEAN
  BY <1>2, TreesAre DEF last, asserted
<1> HIDE DEF r
<1>6. r \in Trees(desc)
  BY <1>3, <1>4, <1>5, TreesAre, TreeFrom, ZenonT(60)
<1> QED BY <1>1, <1>3, <1>6, Zenon DEF IsBegun, last, asserted

\* The inboxes of the sub-models are filled, and those that are not due are to
\* be visited; all else is as it was.
IsFilled(p, desc, s, c, t) ==
  /\ Sound(desc, p, t)
  /\ p.queue = s.queue /\ p.next = s.next /\ p.fel = s.fel
  /\ p.inminents = s.inminents /\ p.model = s.model
  /\ p.called = s.called /\ p.needless = s.needless
  /\ \A m \in Nodes(desc) :
       p.inbox[m] # <<>> => s.inbox[m] # <<>> \/ m \in Range(Visits(s, c, t))

\* Two lists together have the members of both.
LEMMA RangeOfBoth ==
  ASSUME NEW T, NEW a \in Seq(T), NEW b \in Seq(T)
  PROVE  Range(a \o b) = Range(a) \cup Range(b)
BY RangeConcatenation

\* What is due is visited.
LEMMA DueVisited ==
  ASSUME NEW desc, NEW depth, NEW height, IsDesc(desc, depth, height),
         NEW t \in Nat, t < End, NEW s, Sound(desc, s, t),
         NEW c \in DOMAIN desc, Soonest(desc, s, c),
         NEW m \in Children(desc, c), s.next[m] = t
  PROVE  s.next[c] = t /\ m \in Range(Due(s, c, t))
<1>1. s \in Trees(desc)
  BY SoundIs
<1>2. /\ m \in Nodes(desc) /\ c \in Nodes(desc)
      /\ \A k \in Children(desc, c) : k \in Nodes(desc)
  BY TreeIs
<1> DEFINE N == Nodes(desc)
<1>0. \A n \in N : s.next[n] \in Nat /\ t =< s.next[n] /\ s.next[n] =< Infinity
  BY SoundIs
<1>3. {s.next[k] : k \in Children(desc, c)} \subseteq 0 .. Infinity
  BY <1>0, <1>2, TimesAre
<1>4. s.next[c] =< s.next[m]
  BY <1>3, EarliestIs DEF Soonest
<1>5. s.next[c] = t
  BY <1>0, <1>2, <1>4
<1>6. m \in Range(Inminents(s, c))
  <2>1. CASE s.queue = FEL
    <3>1. s.next[m] # Infinity
      BY TimesAre
    <3> QED BY <1>5, <2>1, <3>1 DEF Soonest, Inminents
  <2>2. CASE s.queue # FEL
    BY <1>1, <1>5, <2>2, InminentsAre
  <2> QED BY <2>1, <2>2
<1> QED BY <1>5, <1>6 DEF Due

\* What is sent within a coordinator is messages, of those that are due.
LEMMA MailTyped ==
  ASSUME NEW desc, NEW depth, NEW height, IsDesc(desc, depth, height),
         NEW t \in Nat, t < End, NEW s, Sound(desc, s, t),
         NEW c \in DOMAIN desc
  PROVE  Mail(s, c, t) \in Seq(Receivers(desc[c]) \X Seq(Nat))
<1>1. s \in Trees(desc)
  BY SoundIs
<1>2. Inminents(s, c) \in Seq(Children(desc, c))
  BY <1>1, InminentsAre
<1>3. Range(Inminents(s, c)) \subseteq Nodes(desc)
  BY <1>2, RangeOfSeq, TreeIs
<1>4. \A m \in Range(Inminents(s, c)) : Output(s, m, t) \in Seq(Nat)
  BY <1>3, OutputTyped
<1>5. s.inbox[c] \in Seq(Nat)
  <2>1. c \in Nodes(desc)
    BY TreeIs
  <2>2. s.inbox \in [Nodes(desc) -> Seq(Nat)]
    BY <1>1, TreesAre
  <2> QED BY <2>1, <2>2
<1> QED BY <1>1, <1>4, <1>5, MailIs

\* Posting the mail of a call leads to such a tree.
LEMMA FilledIs ==
  ASSUME NEW desc, NEW depth, NEW height, IsDesc(desc, depth, height),
         NEW t \in Nat, t < End, NEW s, Sound(desc, s, t),
         NEW c \in DOMAIN desc, Soonest(desc, s, c)
  PROVE  IsFilled(Filled(s, c, t).s, desc, s, c, t)
<1> DEFINE b == Begun(s, c, t)
           mail == Mail(s, c, t)
           p == Filled(s, c, t).s
           visit == Filled(s, c, t).visit
           R == Receivers(desc[c])
           N == Nodes(desc)
<1>1. s \in Trees(desc) /\ c \in N
  BY SoundIs, TreeIs
<1>2. IsBegun(b, desc, s, c, t)
  BY <1>1, BegunIs
<1>3. mail \in Seq(R \X Seq(Nat))
  BY MailTyped
<1>4. R \subseteq Children(desc, c) /\ R \in SUBSET N
  BY ReceiversAre, TreeIs DEF IsDesc, Children
<1>5. /\ p \in Trees(desc) /\ SameButInbox(p, b)
      /\ visit \in Seq(R)
      /\ \A m \in N : p.inbox[m] # <<>> =>
           \/ b.inbox[m] # <<>>
           \/ m \in R /\ (m \in Range(visit) \/ b.next[m] = t)
  <2> HIDE DEF b, mail, R, N
  <2>1. Len(mail) \in Nat
    BY <1>3, SeqAt
  <2>2. PICK f : IsPosting(f, b, mail, t) /\ PostAll(b, mail, t) = f[Len(mail)]
    BY <2>1, PostStates, Zenon
  <2>3. p = f[Len(mail)].s /\ visit = f[Len(mail)].visit
    BY <2>2, Zenon DEF Filled, b, mail
  <2> HIDE DEF p, visit
  <2>4. b \in Trees(desc) /\ R \in SUBSET N /\ Seq(Nat) \in SUBSET Seq(Nat)
    BY <1>2, <1>4 DEF IsBegun
  <2>5. IsPosted(f[Len(mail)], desc, b, R, Seq(Nat), t)
    BY <1>3, <2>2, <2>4, Posting DEF N
  <2>6. f[Len(mail)].s = p /\ f[Len(mail)].visit = visit
    BY <2>3
  <2> QED BY <2>5, <2>6 DEF IsPosted, N
<1> HIDE DEF b, mail, p, visit
<1>6. /\ p.queue = s.queue /\ p.next = s.next /\ p.fel = s.fel
      /\ p.inminents = s.inminents /\ p.model = s.model
      /\ p.called = s.called /\ p.needless = s.needless
      /\ p.last = [s.last EXCEPT ![c] = t]
      /\ p.asserted = (s.asserted /\ Asserts(s, c, t))
  BY <1>2, <1>5 DEF IsBegun, SameButInbox
<1>7. \A m \in N : p.inbox[m] # <<>> =>
        s.inbox[m] # <<>> \/ (m \in R /\ m \in Range(Visits(s, c, t)))
  <2>1. Due(s, c, t) \in Seq(Children(desc, c))
    BY <1>1, VisitsAre
  <2>2. visit \in Seq(Children(desc, c))
    BY <1>4, <1>5, SeqMonotonic
  <2>3. Range(Visits(s, c, t)) = Range(Due(s, c, t)) \cup Range(visit)
    <3> HIDE DEF R
    <3> QED BY <2>1, <2>2, RangeOfBoth DEF Visits, visit
  <2>4. \A m \in R : s.next[m] = t => m \in Range(Due(s, c, t))
    BY <1>4, DueVisited
  <2>5. b.next = s.next /\ b.inbox = s.inbox
    BY <1>2 DEF IsBegun
  <2> QED BY <1>5, <2>3, <2>4, <2>5
<1>8. Sound(desc, p, t)
  <2>1. /\ s.asserted
        /\ \A n \in N :
             s.last[n] =< t /\ t =< s.next[n] /\ s.next[n] =< Infinity
        /\ \A m \in Atoms(desc) : AtomSound(s, m)
        /\ \A k \in DOMAIN desc : \A m \in Receivers(desc[k]) :
             m \in Atoms(desc) => MayReceive(s.model[m])
        /\ \A k \in DOMAIN desc : \A ev \in Range(s.fel[k]) :
             ev[1] # Infinity /\ ev[2] \in Children(desc, k)
    BY DEF Sound
  <2>2. s.last \in [N -> Nat]
    BY <1>1, TreesAre
  <2>3. \A n \in N : p.last[n] =< t
    BY <1>1, <1>6, <2>1, <2>2
  <2>4. p.asserted
    BY <1>1, <1>6, <2>1 DEF Asserts
  <2>5. ASSUME NEW m \in Atoms(desc) PROVE AtomSound(p, m)
    <3>1. m \in N /\ m # c
      BY DEF Atoms, Atomic
    <3>2. p.last[m] = s.last[m]
      BY <1>6, <2>2, <3>1
    <3>3. p.inbox[m] # <<>> => MayReceive(s.model[m])
      <4>1. s.inbox[m] # <<>> => MayReceive(s.model[m])
        BY <2>1 DEF AtomSound
      <4>2. m \in R => MayReceive(s.model[m])
        BY <2>1
      <4> QED BY <1>7, <3>1, <4>1, <4>2
    <3> QED BY <1>6, <2>1, <3>2, <3>3 DEF AtomSound
  <2>6. \A n \in N : t =< p.next[n] /\ p.next[n] =< Infinity
    BY <1>6, <2>1
  <2>7. /\ \A k \in DOMAIN desc : \A m \in Receivers(desc[k]) :
             m \in Atoms(desc) => MayReceive(p.model[m])
        /\ \A k \in DOMAIN desc : \A ev \in Range(p.fel[k]) :
             ev[1] # Infinity /\ ev[2] \in Children(desc, k)
    BY <1>6, <2>1
  <2> QED BY <1>5, <2>3, <2>4, <2>5, <2>6, <2>7 DEF Sound
<1> QED BY <1>6, <1>7, <1>8, Zenon DEF IsFilled, p

----------------------------------------------------------------------------
(* The call of a coordinator: the sub-models are called.                   *)

\* All but the future event list of c is as it was.
SameButFel(r, s, c) ==
  /\ r.queue = s.queue /\ r.model = s.model /\ r.inbox = s.inbox
  /\ r.last = s.last /\ r.next = s.next
  /\ r.inminents = s.inminents /\ r.called = s.called
  /\ r.needless = s.needless /\ r.asserted = s.asserted
  /\ \A b \in DOMAIN s.fel : b # c => r.fel[b] = s.fel[b]

IsEmplaced(r, desc, s, c, m) ==
  /\ r \in Trees(desc) /\ SameButFel(r, s, c)
  /\ Range(r.fel[c]) = IF s.queue = FEL /\ s.next[m] # Infinity
                       THEN Range(s.fel[c]) \cup {<<s.next[m], m>>}
                       ELSE Range(s.fel[c])

\* Emplace changes the future event list of c, and nothing else.
LEMMA EmplaceIs ==
  ASSUME NEW desc, NEW s \in Trees(desc), NEW c \in DOMAIN desc,
         NEW m \in Nodes(desc)
  PROVE  IsEmplaced(Emplace(s, c, m), desc, s, c, m)
<1> DEFINE ev == <<s.next[m], m>>
           old == s.fel[c]
           fel == [s.fel EXCEPT ![c] = Append(@, ev)]
           r == [s EXCEPT !.fel = fel]
           T == Nat \X Nodes(desc)
<1>1. CASE s.queue = FEL /\ s.next[m] # Infinity
  <2>1. Emplace(s, c, m) = r
    BY <1>1, Zenon DEF Emplace
  <2>2. s \in [desc : {desc}, queue : {NULLQUEUE, FEL},
            model : [Atoms(desc) -> AtomicStates(Infinity)],
            last : [Nodes(desc) -> Nat], next : [Nodes(desc) -> Nat],
            inbox : [Nodes(desc) -> Seq(Nat)],
            fel : [DOMAIN desc -> Seq(Nat \X Nodes(desc))],
            inminents : [DOMAIN desc -> Seq(Nodes(desc))],
            called : SUBSET Nodes(desc),
            needless : BOOLEAN, asserted : BOOLEAN]
    BY DEF Trees
  <2>3. s.fel \in [DOMAIN desc -> Seq(T)] /\ ev \in T /\ old \in Seq(T)
    BY <2>2
  <2> HIDE DEF ev, old, T
  <2>4. /\ Append(old, ev) \in Seq(T)
        /\ Range(Append(old, ev)) = Range(old) \cup {ev}
    BY <2>3, AppendIs
  <2> DEFINE new == Append(old, ev)
  <2>5. fel = [s.fel EXCEPT ![c] = new]
    BY DEF old
  <2> HIDE DEF new
  <2>6. /\ fel \in [DOMAIN desc -> Seq(T)] /\ DOMAIN s.fel = DOMAIN desc
        /\ \A b \in DOMAIN s.fel : b # c => fel[b] = s.fel[b]
        /\ fel[c] = new
    BY <2>3, <2>4, <2>5 DEF new
  <2> HIDE DEF fel
  <2>7. /\ r.queue = s.queue /\ r.model = s.model /\ r.inbox = s.inbox
        /\ r.last = s.last /\ r.next = s.next
        /\ r.inminents = s.inminents /\ r.called = s.called
        /\ r.needless = s.needless /\ r.asserted = s.asserted
        /\ r.desc = s.desc /\ r.fel = fel
    BY <2>2, SMT
  <2>8. HasParts(r)
    <3>1. HasParts(s)
      BY <2>2, SMT DEF HasParts
    <3> QED BY <3>1, SMT DEF HasParts
  <2> HIDE DEF r
  <2>9. r \in Trees(desc)
    BY <2>6, <2>7, <2>8, TreesAre, TreeFrom, ZenonT(60) DEF T
  <2>10. SameButFel(r, s, c)
    BY <2>6, <2>7, Zenon DEF SameButFel
  <2>11. Range(r.fel[c]) = Range(s.fel[c]) \cup {<<s.next[m], m>>}
    BY <2>4, <2>6, <2>7 DEF new, old, ev
  <2> QED BY <1>1, <2>1, <2>9, <2>10, <2>11 DEF IsEmplaced
<1>2. CASE ~ (s.queue = FEL /\ s.next[m] # Infinity)
  <2>1. Emplace(s, c, m) = s
    BY <1>2, Zenon DEF Emplace
  <2> QED BY <1>2, <2>1, Zenon DEF IsEmplaced, SameButFel
<1> QED BY <1>1, <1>2

\* It stays sound.
LEMMA EmplaceSound ==
  ASSUME NEW desc, NEW t, NEW s, Sound(desc, s, t), NEW c \in DOMAIN desc,
         NEW m \in Children(desc, c), NEW r, IsEmplaced(r, desc, s, c, m)
  PROVE  Sound(desc, r, t)
<1>1. SameButFel(r, s, c) /\ r \in Trees(desc) /\ s \in Trees(desc)
  BY DEF IsEmplaced, Sound
<1>2. DOMAIN s.fel = DOMAIN desc
  BY <1>1, TreesAre
<1>3. ASSUME NEW b \in DOMAIN desc, NEW ev \in Range(r.fel[b])
      PROVE  ev[1] # Infinity /\ ev[2] \in Children(desc, b)
  <2>1. CASE ev \in Range(s.fel[b])
    BY <2>1 DEF Sound
  <2>2. CASE ev \notin Range(s.fel[b])
    <3>1. b = c
      BY <1>1, <1>2, <1>3, <2>2 DEF SameButFel
    <3>2. s.next[m] # Infinity /\ ev = <<s.next[m], m>>
      BY <1>3, <2>2, <3>1 DEF IsEmplaced
    <3> QED BY <3>1, <3>2
  <2> QED BY <2>1, <2>2
<1>4. \A k \in Atoms(desc) : AtomSound(r, k)
  BY <1>1 DEF Sound, AtomSound, SameButFel
<1> QED BY <1>1, <1>3, <1>4 DEF Sound, SameButFel

\* When the call of a model may be made: everything is sound, and the
\* coordinators from it downwards know their soonest sub-models.
Ready(desc, depth, s, n, t) ==
  /\ Sound(desc, s, t)
  /\ \A c \in DOMAIN desc : depth[c] >= depth[n] => Soonest(desc, s, c)

\* The call of a model does no more than it may.
Keeps(desc, depth, n, t) ==
  \A s : Ready(desc, depth, s, n, t)
           => Advances(desc, depth, s, Calls(desc, t)[n][s], n, t)

\* Coordinator n has called the first i of calls, and the tree, which was p,
\* is s: the coordinator itself does not know its soonest sub-model, but
\* those that need not be called any more are in its future event list.
Underway(desc, depth, p, s, n, t, calls, i) ==
  /\ Sound(desc, s, t) /\ s.queue = p.queue
  /\ \A m \in Nodes(desc) : depth[m] =< depth[n] => s.next[m] = p.next[m]
  /\ \A c \in DOMAIN desc : depth[c] < depth[n] => s.fel[c] = p.fel[c]
  /\ \A c \in DOMAIN desc :
       c # n /\ Soonest(desc, p, c) => Soonest(desc, s, c)
  /\ \A m \in Nodes(desc) : s.inbox[m] # <<>> =>
       p.inbox[m] # <<>> /\ \A k \in 1 .. i : calls[k] # m
  /\ s.queue = FEL =>
       \A m \in Children(desc, n) :
         s.next[m] # Infinity /\ (\A k \in i + 1 .. Len(calls) : calls[k] # m)
           => <<s.next[m], m>> \in Range(s.fel[n])

\* A call of one more sub-model keeps what holds under way.
LEMMA CallStep ==
  ASSUME NEW desc, NEW depth, NEW height, IsDesc(desc, depth, height),
         NEW t \in Nat, NEW n \in DOMAIN desc, NEW p,
         \A c \in DOMAIN desc : depth[c] > depth[n] => Soonest(desc, p, c),
         \A m \in Children(desc, n) : Keeps(desc, depth, m, t),
         NEW calls \in Seq(Children(desc, n)),
         NEW i \in 1 .. Len(calls),
         NEW s, Underway(desc, depth, p, s, n, t, calls, i - 1)
  PROVE  Underway(desc, depth, p,
                  Emplace(Calls(desc, t)[calls[i]][s], n, calls[i]),
                  n, t, calls, i)
<1> DEFINE m == calls[i]
           r == Calls(desc, t)[m][s]
           e == Emplace(r, n, m)
           N == Nodes(desc)
<1>1. m \in Children(desc, n) /\ Len(calls) \in Nat
  BY SeqAt
<1>2. /\ m \in N /\ n \in N /\ depth \in [N -> 0 .. height] /\ height \in Nat
      /\ depth[m] = depth[n] + 1 /\ DOMAIN desc \subseteq N
      /\ depth[n] \in Nat
      /\ \A c \in DOMAIN desc : m \in Children(desc, c) => c = n
  BY <1>1, TreeIs
<1>3. \A k \in N : depth[k] \in Nat
  BY <1>2
<1>4. Ready(desc, depth, s, m, t)
  <2>1. \A c \in DOMAIN desc :
          depth[c] >= depth[m] => c # n /\ depth[c] > depth[n]
    BY <1>2, <1>3
  <2> QED BY <2>1 DEF Ready, Underway
<1>5. Advances(desc, depth, s, r, m, t)
  BY <1>1, <1>4 DEF Keeps
<1> HIDE DEF r
<1>6. r \in Trees(desc) /\ Sound(desc, r, t)
  BY <1>5 DEF Advances, Sound
<1>7. IsEmplaced(e, desc, r, n, m)
  BY <1>2, <1>6, EmplaceIs
<1> HIDE DEF e, m
<1>8. Sound(desc, e, t)
  BY <1>1, <1>6, <1>7, EmplaceSound
<1>9. SameButFel(e, r, n) /\ DOMAIN r.fel = DOMAIN desc
  BY <1>6, <1>7, TreesAre DEF IsEmplaced
<1>10. e.queue = p.queue /\ r.queue = s.queue /\ s.queue = p.queue
  BY <1>5, <1>9 DEF Underway, Advances, SameButFel
<1>11. ASSUME NEW k \in N, depth[k] =< depth[n] PROVE e.next[k] = p.next[k]
  <2>1. k # m /\ depth[k] =< depth[m]
    BY <1>2, <1>3, <1>11
  <2>2. r.next[k] = s.next[k]
    BY <1>5, <2>1 DEF Advances
  <2> QED BY <1>9, <1>11, <2>2 DEF Underway, SameButFel
<1>12. ASSUME NEW c \in DOMAIN desc, depth[c] < depth[n]
       PROVE  e.fel[c] = p.fel[c]
  <2>1. c # n /\ depth[c] < depth[m]
    BY <1>2, <1>3, <1>12
  <2>2. r.fel[c] = s.fel[c]
    BY <1>5, <2>1 DEF Advances
  <2> QED BY <1>9, <1>12, <2>1, <2>2 DEF Underway, SameButFel
<1>13. ASSUME NEW c \in DOMAIN desc, c # n, Soonest(desc, p, c)
       PROVE  Soonest(desc, e, c)
  <2>1. Soonest(desc, s, c)
    BY <1>13 DEF Underway
  <2>2. Soonest(desc, r, c)
    BY <1>2, <1>5, <1>13, <2>1 DEF Advances
  <2> QED BY <1>9, <1>13, <2>2, SoonestSame DEF SameButFel
<1>14. ASSUME NEW k \in N, e.inbox[k] # <<>>
       PROVE  p.inbox[k] # <<>> /\ \A j \in 1 .. i : calls[j] # k
  <2>1. r.inbox[k] # <<>>
    BY <1>9, <1>14 DEF SameButFel
  <2>2. s.inbox[k] # <<>> /\ k # m
    BY <1>5, <2>1 DEF Advances
  <2>3. p.inbox[k] # <<>> /\ \A j \in 1 .. i - 1 : calls[j] # k
    BY <2>2 DEF Underway
  <2>4. \A j \in 1 .. i : j \in 1 .. i - 1 \/ j = i
    BY <1>1
  <2> QED BY <2>2, <2>3, <2>4 DEF m
<1>15. ASSUME e.queue = FEL, NEW k \in Children(desc, n),
              e.next[k] # Infinity,
              \A j \in i + 1 .. Len(calls) : calls[j] # k
       PROVE  <<e.next[k], k>> \in Range(e.fel[n])
  <2>1. e.next = r.next /\ r.queue = FEL /\ s.queue = FEL
    BY <1>9, <1>10, <1>15 DEF SameButFel
  <2>2. CASE k = m
    BY <1>7, <1>15, <2>1, <2>2 DEF IsEmplaced
  <2>3. CASE k # m
    <3>1. k \in N /\ depth[k] =< depth[m]
      BY <1>2, TreeIs
    <3>2. r.next[k] = s.next[k]
      BY <1>5, <2>3, <3>1 DEF Advances
    <3>3. \A j \in (i - 1) + 1 .. Len(calls) : calls[j] # k
      <4>1. \A j \in (i - 1) + 1 .. Len(calls) :
              j = i \/ j \in i + 1 .. Len(calls)
        BY <1>1
      <4> QED BY <1>15, <2>3, <4>1 DEF m
    <3>4. <<s.next[k], k>> \in Range(s.fel[n])
      BY <1>15, <2>1, <3>2, <3>3 DEF Underway
    <3>5. r.fel[n] = s.fel[n]
      BY <1>2, <1>5 DEF Advances
    <3>6. Range(r.fel[n]) \subseteq Range(e.fel[n])
      BY <1>7 DEF IsEmplaced
    <3> QED BY <2>1, <3>2, <3>4, <3>5, <3>6
  <2> QED BY <2>2, <2>3
<1> QED BY <1>8, <1>10, <1>11, <1>12, <1>13, <1>14, <1>15
        DEF Underway, e, r, m

\* Before the first call,
LEMMA CallStart ==
  ASSUME NEW desc, NEW depth, NEW height, IsDesc(desc, depth, height),
         NEW t \in Nat, t < End, NEW n \in DOMAIN desc, NEW s,
         Sound(desc, s, t), Soonest(desc, s, n),
         NEW p, IsFilled(p, desc, s, n, t)
  PROVE  Underway(desc, depth, p, p, n, t, Visits(s, n, t), 0)
<1> DEFINE calls == Visits(s, n, t)
           C == Children(desc, n)
           N == Nodes(desc)
<1>1. Sound(desc, p, t) /\ p.queue = s.queue /\ p.next = s.next
      /\ p.fel = s.fel /\ p.inminents = s.inminents
  BY DEF IsFilled
<1>2. ASSUME p.queue = FEL, NEW m \in C, p.next[m] # Infinity,
             \A k \in 0 + 1 .. Len(calls) : calls[k] # m
      PROVE  <<p.next[m], m>> \in Range(p.fel[n])
  <2>1. /\ s \in Trees(desc)
        /\ \A k \in N : s.next[k] \in Nat /\ s.next[k] =< Infinity
    BY SoundIs
  <2>2. m \in N /\ n \in N /\ \A k \in C : k \in N
    BY TreeIs
  <2>3. /\ Due(s, n, t) \in Seq(C) /\ Filled(s, n, t).visit \in Seq(C)
        /\ calls \in Seq(C)
    <3>1. Receivers(desc[n]) \subseteq C
      BY ReceiversAre DEF IsDesc, Children
    <3>2. Filled(s, n, t).visit \in Seq(Receivers(desc[n]))
      BY <2>1, VisitsAre
    <3>3. Filled(s, n, t).visit \in Seq(C)
      <4> HIDE DEF C
      <4> QED BY <3>1, <3>2, SeqMonotonic
    <3> QED BY <2>1, <3>3, VisitsAre
  <2>4. Range(Due(s, n, t)) \subseteq Range(calls)
    BY <2>3, RangeOfBoth DEF Visits
  <2>5. m \notin Range(calls)
    <3> HIDE DEF calls, C
    <3>1. \A x \in Range(calls) : \E k \in 1 .. Len(calls) : calls[k] = x
      BY <2>3, SeqAt
    <3> QED BY <1>2, <3>1
  <2>6. m \notin Range(s.inminents[n])
    BY <1>1, <1>2, <2>4, <2>5 DEF Due, Inminents
  <2>7. s.next[m] # s.next[n]
    BY <1>1, <1>2, <2>6 DEF Soonest
  <2>8. s.next[n] =< s.next[m]
    <3>1. {s.next[k] : k \in C} \subseteq 0 .. Infinity
      BY <2>1, <2>2, TimesAre
    <3> QED BY <3>1, EarliestIs DEF Soonest
  <2>9. s.next[m] > s.next[n]
    BY <2>1, <2>2, <2>7, <2>8
  <2> QED BY <1>1, <1>2, <2>9 DEF Soonest
<1> QED BY <1>1, <1>2 DEF Underway

\* after each,
LEMMA CallingEach ==
  ASSUME NEW desc, NEW depth, NEW height, IsDesc(desc, depth, height),
         NEW t \in Nat, NEW n \in DOMAIN desc, NEW p,
         \A c \in DOMAIN desc : depth[c] > depth[n] => Soonest(desc, p, c),
         \A m \in Children(desc, n) : Keeps(desc, depth, m, t),
         NEW calls \in Seq(Children(desc, n)),
         Underway(desc, depth, p, p, n, t, calls, 0),
         NEW f, IsCalling(f, p, calls, n, Calls(desc, t))
  PROVE  \A i \in 0 .. Len(calls) :
           Underway(desc, depth, p, f[i], n, t, calls, i)
<1> DEFINE l == Len(calls)
           S == {i \in Nat : Underway(desc, depth, p, f[i], n, t, calls, i)}
<1>1. l \in Nat
  BY SeqAt
<1>2. 0 \in S
  BY DEF IsCalling
<1>3. ASSUME NEW i \in 0 .. l - 1, i \in S PROVE i + 1 \in S
  <2>1. PICK j \in 1 .. Len(calls) : j = i + 1 /\ j - 1 = i
    BY <1>1
  <2>2. Underway(desc, depth, p, f[j - 1], n, t, calls, j - 1)
    BY <1>3, <2>1
  <2>3. f[j] = Emplace(Calls(desc, t)[calls[j]][f[j - 1]], n, calls[j])
    BY DEF IsCalling
  <2>4. Underway(desc, depth, p, f[j], n, t, calls, j)
    BY <2>2, <2>3, CallStep
  <2> QED BY <2>1, <2>4
<1>4. 0 .. l \subseteq S
  <2> HIDE DEF S, l
  <2> QED BY <1>1, <1>2, <1>3, CH!UpTo
<1> QED BY <1>4

\* and after the last.
LEMMA CallingAll ==
  ASSUME NEW desc, NEW depth, NEW height, IsDesc(desc, depth, height),
         NEW t \in Nat, NEW n \in DOMAIN desc, NEW p,
         \A c \in DOMAIN desc : depth[c] > depth[n] => Soonest(desc, p, c),
         \A m \in Children(desc, n) : Keeps(desc, depth, m, t),
         NEW calls \in Seq(Children(desc, n)),
         Underway(desc, depth, p, p, n, t, calls, 0)
  PROVE  Underway(desc, depth, p, CallAll(p, calls, n, Calls(desc, t)),
                  n, t, calls, Len(calls))
<1> DEFINE g == Calls(desc, t)
<1>1. Len(calls) \in Nat
  BY SeqAt
<1>2. PICK f : IsCalling(f, p, calls, n, g)
               /\ CallAll(p, calls, n, g) = f[Len(calls)]
  <2> HIDE DEF g
  <2> QED BY <1>1, CallStates
<1>3. \A i \in 0 .. Len(calls) :
        Underway(desc, depth, p, f[i], n, t, calls, i)
  <2> HIDE DEF g
  <2>1. IsCalling(f, p, calls, n, Calls(desc, t))
    BY <1>2 DEF g
  <2> QED BY <2>1, CallingEach
<1>4. Underway(desc, depth, p, f[Len(calls)], n, t, calls, Len(calls))
  BY <1>1, <1>3
<1> QED BY <1>2, <1>4

----------------------------------------------------------------------------
(* The call of a coordinator: its own next time.                           *)

\* The models of events.
LEMMA ModelsAre ==
  ASSUME NEW T, NEW q \in Seq(Nat \X T)
  PROVE  /\ Models(q) \in Seq(T)
         /\ Range(Models(q)) = {ev[2] : ev \in Range(q)}
<1>1. /\ Len(q) \in Nat /\ DOMAIN q = 1 .. Len(q)
      /\ \A i \in 1 .. Len(q) : q[i] \in Nat \X T /\ q[i] \in Range(q)
      /\ \A x \in Range(q) : \E i \in 1 .. Len(q) : q[i] = x
  BY SeqAt
<1>2. Models(q) = [i \in 1 .. Len(q) |-> q[i][2]]
  BY <1>1, Zenon DEF Models
<1>3. \A i \in 1 .. Len(q) : q[i][2] \in T
  BY <1>1
<1> DEFINE m == [i \in 1 .. Len(q) |-> q[i][2]]
<1>4. m \in [1 .. Len(q) -> T]
  BY <1>3
<1>5. m \in Seq(T)
  <2> HIDE DEF m
  <2> QED BY <1>1, <1>4, MapIsSeq
<1>6. Range(m) = {ev[2] : ev \in Range(q)}
  <2>1. ASSUME NEW x \in Range(m) PROVE x \in {ev[2] : ev \in Range(q)}
    <3>1. PICK i \in 1 .. Len(q) : m[i] = x
      BY <2>1, RangeIs
    <3> QED BY <1>1, <3>1
  <2>2. ASSUME NEW ev \in Range(q) PROVE ev[2] \in Range(m)
    <3>1. PICK i \in 1 .. Len(q) : q[i] = ev
      BY <1>1
    <3>2. m[i] = ev[2] /\ i \in DOMAIN m
      BY <3>1
    <3> HIDE DEF m
    <3> QED BY <3>2, RangeIs
  <2> QED BY <2>1, <2>2
<1> QED BY <1>2, <1>5, <1>6

\* The events that are not replaced, and the time of the first.
Valid(s, c) == {ev \in Range(s.fel[c]) : ev[1] = s.next[ev[2]]}

NextTime(s, c) ==
  IF s.queue = FEL THEN Earliest({ev[1] : ev \in Valid(s, c)})
  ELSE Earliest({s.next[m] : m \in Children(s.desc, c)})

IsRescheduled(r, desc, s, c) ==
  /\ r \in Trees(desc)
  /\ r.queue = s.queue /\ r.model = s.model /\ r.last = s.last
  /\ r.called = s.called /\ r.needless = s.needless
  /\ r.asserted = s.asserted
  /\ \A m \in Nodes(desc) :
       /\ r.next[m] = IF m = c THEN NextTime(s, c) ELSE s.next[m]
       /\ r.inbox[m] = IF m = c THEN <<>> ELSE s.inbox[m]
  /\ \A b \in DOMAIN desc \ {c} :
       r.fel[b] = s.fel[b] /\ r.inminents[b] = s.inminents[b]
  /\ Range(r.fel[c]) = {ev \in Range(s.fel[c]) : ev[1] > NextTime(s, c)}
  /\ Range(r.inminents[c]) =
       {ev[2] : ev \in {ev \in Valid(s, c) : ev[1] = NextTime(s, c)}}

\* Reschedule changes these parts of a tree, and no others.
LEMMA RescheduleIs ==
  ASSUME NEW desc, NEW depth, NEW height, IsDesc(desc, depth, height),
         NEW t \in Nat, NEW s, Sound(desc, s, t), NEW c \in DOMAIN desc
  PROVE  IsRescheduled(Reschedule(s, c), desc, s, c)
<1> DEFINE events == s.fel[c]
           next == NextTime(s, c)
           now == {ev \in Valid(s, c) : ev[1] = next}
           later == {ev \in Range(events) : ev[1] > next}
           nexts == [s.next EXCEPT ![c] = next]
           inboxes == [s.inbox EXCEPT ![c] = <<>>]
           fels == [s.fel EXCEPT ![c] = Those(events, later)]
           dues == [s.inminents EXCEPT ![c] = Models(Those(events, now))]
           r == [s EXCEPT !.next = nexts, !.inbox = inboxes, !.fel = fels,
                          !.inminents = dues]
           N == Nodes(desc)
           T == Nat \X N
<1>1. s \in [desc : {desc}, queue : {NULLQUEUE, FEL},
          model : [Atoms(desc) -> AtomicStates(Infinity)],
          last : [N -> Nat], next : [N -> Nat],
          inbox : [N -> Seq(Nat)],
          fel : [DOMAIN desc -> Seq(Nat \X N)],
          inminents : [DOMAIN desc -> Seq(N)],
          called : SUBSET N,
          needless : BOOLEAN, asserted : BOOLEAN]
      /\ s.desc = desc /\ s \in Trees(desc)
  BY TreesAre DEF Trees, Sound
<1>2. Reschedule(s, c) = r
  BY <1>1, Zenon DEF Reschedule, NextTime, Valid, Children
<1>3. next \in Nat
  <2>1. \A k \in N : s.next[k] \in Nat /\ s.next[k] =< Infinity
    BY SoundIs
  <2>2. \A k \in Children(desc, c) : k \in N
    BY TreeIs
  <2>3. {s.next[m] : m \in Children(desc, c)} \subseteq 0 .. Infinity
    BY <2>1, <2>2, TimesAre
  <2>4. {ev[1] : ev \in Valid(s, c)} \subseteq 0 .. Infinity
    <3>1. \A ev \in Valid(s, c) : ev[1] = s.next[ev[2]] /\ ev[2] \in N
      BY <2>2 DEF Valid, Sound
    <3> QED BY <2>1, <3>1, TimesAre
  <2>5. /\ Earliest({s.next[m] : m \in Children(desc, c)}) \in 0 .. Infinity
        /\ Earliest({ev[1] : ev \in Valid(s, c)}) \in 0 .. Infinity
    BY <2>3, <2>4, EarliestIs, Zenon
  <2> QED BY <1>1, <2>5, TimesAre DEF NextTime
<1>4. events \in Seq(T) /\ c \in N
  BY <1>1, TreeIs
<1>5. /\ Those(events, later) \in Seq(T)
      /\ Range(Those(events, later)) = Range(events) \cap later
      /\ Those(events, now) \in Seq(T)
      /\ Range(Those(events, now)) = Range(events) \cap now
  <2> HIDE DEF events, T, now, later
  <2> QED BY <1>4, ThoseAre
<1>6. /\ Models(Those(events, now)) \in Seq(N)
      /\ Range(Models(Those(events, now))) =
           {ev[2] : ev \in Range(events) \cap now}
  <2> HIDE DEF events, now, N
  <2> QED BY <1>5, ModelsAre
<1>7. Range(events) \cap later = later /\ Range(events) \cap now = now
  BY DEF Valid
<1> DEFINE due == Models(Those(events, now))
           rest == Those(events, later)
<1> HIDE DEF next
<1>8. /\ rest \in Seq(T) /\ due \in Seq(N)
      /\ Range(rest) = later /\ Range(due) = {ev[2] : ev \in now}
  BY <1>5, <1>6, <1>7
<1> HIDE DEF due, rest, events, now, later
<1>9. \A b \in DOMAIN desc :
        /\ fels[b] = IF b = c THEN rest ELSE s.fel[b]
        /\ dues[b] = IF b = c THEN due ELSE s.inminents[b]
  BY <1>1 DEF rest, due
<1>10. \A m \in N : /\ nexts[m] = IF m = c THEN next ELSE s.next[m]
                    /\ inboxes[m] = IF m = c THEN <<>> ELSE s.inbox[m]
  BY <1>1
<1>11. /\ nexts \in [N -> Nat] /\ inboxes \in [N -> Seq(Nat)]
       /\ fels \in [DOMAIN desc -> Seq(T)]
       /\ dues \in [DOMAIN desc -> Seq(N)]
  <2>1. nexts \in [N -> Nat]
    BY <1>1, <1>3
  <2>2. inboxes \in [N -> Seq(Nat)]
    <3> DEFINE none == <<>>
               S == Seq(Nat)
    <3>1. none \in S /\ s.inbox \in [N -> S]
      BY <1>1
    <3> HIDE DEF none, S
    <3>2. [s.inbox EXCEPT ![c] = none] \in [N -> S]
      BY <3>1
    <3> QED BY <3>2 DEF none, S
  <2>3. /\ fels = [s.fel EXCEPT ![c] = rest]
        /\ dues = [s.inminents EXCEPT ![c] = due]
    BY DEF rest, due
  <2> HIDE DEF fels, dues, T
  <2>4. fels \in [DOMAIN desc -> Seq(T)]
    BY <1>1, <1>8, <2>3 DEF T
  <2>5. dues \in [DOMAIN desc -> Seq(N)]
    BY <1>1, <1>8, <2>3
  <2> QED BY <2>1, <2>2, <2>4, <2>5
<1> HIDE DEF nexts, inboxes, fels, dues
<1>12. /\ r.queue = s.queue /\ r.model = s.model /\ r.last = s.last
       /\ r.called = s.called /\ r.needless = s.needless
       /\ r.asserted = s.asserted /\ r.desc = s.desc /\ r.next = nexts
       /\ r.inbox = inboxes /\ r.fel = fels /\ r.inminents = dues
  BY <1>1, SMT
<1>13. HasParts(r)
  <2>1. HasParts(s)
    BY <1>1, SMT DEF HasParts
  <2> DEFINE q1 == [s EXCEPT !.next = nexts]
  <2>2. HasParts(q1)
    BY <2>1, SMT DEF HasParts
  <2> HIDE DEF q1
  <2> DEFINE q2 == [q1 EXCEPT !.inbox = inboxes]
  <2>3. HasParts(q2)
    BY <2>2, SMT DEF HasParts
  <2> HIDE DEF q2
  <2> DEFINE q3 == [q2 EXCEPT !.fel = fels]
  <2>4. HasParts(q3)
    BY <2>3, SMT DEF HasParts
  <2> HIDE DEF q3
  <2>5. HasParts([q3 EXCEPT !.inminents = dues])
    BY <2>4, SMT DEF HasParts
  <2> QED BY <2>5 DEF q1, q2, q3
<1> HIDE DEF r
<1>14. \A b \in DOMAIN desc : Range(dues[b]) \subseteq Children(desc, b)
  <2>1. Range(due) \subseteq Children(desc, c)
    BY <1>8 DEF now, Valid, Sound
  <2> QED BY <1>1, <1>9, <2>1, TreesAre, ZenonT(60)
<1>15. r \in Trees(desc)
  BY <1>1, <1>11, <1>12, <1>13, <1>14, TreesAre, TreeFrom DEF T, N
<1>16. /\ Range(r.fel[c]) = later
       /\ Range(r.inminents[c]) = {ev[2] : ev \in now}
       /\ \A b \in DOMAIN desc \ {c} :
            r.fel[b] = s.fel[b] /\ r.inminents[b] = s.inminents[b]
  BY <1>8, <1>9, <1>12
<1> QED BY <1>2, <1>10, <1>12, <1>15, <1>16, Zenon
        DEF IsRescheduled, next, later, now, events

\* If the models that are due some time are in the list, the coordinator
\* knows its soonest sub-model again.
LEMMA RescheduleSoonest ==
  ASSUME NEW desc, NEW depth, NEW height, IsDesc(desc, depth, height),
         NEW t \in Nat, t < End, NEW s, Sound(desc, s, t),
         NEW c \in DOMAIN desc,
         s.queue = FEL => \A m \in Children(desc, c) :
           s.next[m] # Infinity => <<s.next[m], m>> \in Range(s.fel[c]),
         NEW r, IsRescheduled(r, desc, s, c)
  PROVE  Sound(desc, r, t) /\ Soonest(desc, r, c)
<1> DEFINE C == Children(desc, c)
           N == Nodes(desc)
           S == {s.next[m] : m \in C}
           V == {ev[1] : ev \in Valid(s, c)}
           next == NextTime(s, c)
<1>1. /\ s \in Trees(desc) /\ s.desc = desc /\ s.asserted
      /\ \A n \in N : /\ s.next[n] \in Nat /\ t =< s.next[n]
                      /\ s.next[n] =< Infinity /\ s.last[n] =< t
  BY SoundIs, TreesAre
<1>2. /\ c \in N /\ \A m \in C : m \in N /\ m # c
      /\ \A b \in DOMAIN desc : b \in N
  <2>1. depth \in [N -> 0 .. height] /\ height \in Nat
    BY TreeIs
  <2>2. /\ c \in N /\ \A m \in C : m \in N /\ depth[m] = depth[c] + 1
        /\ \A b \in DOMAIN desc : b \in N
    BY TreeIs
  <2>3. depth[c] \in Nat
    BY <2>1, <2>2
  <2> QED BY <2>2, <2>3
<1>3. S \subseteq 0 .. Infinity
  BY <1>1, <1>2, TimesAre
<1>4. ASSUME s.queue = FEL
      PROVE  V \subseteq S /\ S \subseteq V \cup {Infinity}
  <2>1. ASSUME NEW ev \in Valid(s, c) PROVE ev[1] \in S
    <3>1. ev[1] = s.next[ev[2]] /\ ev[2] \in C
      BY DEF Valid, Sound
    <3> QED BY <3>1
  <2>2. ASSUME NEW m \in C, s.next[m] # Infinity PROVE s.next[m] \in V
    <3> DEFINE ev == <<s.next[m], m>>
    <3>1. ev \in Range(s.fel[c])
      BY <1>4, <2>2
    <3>2. ev[1] = s.next[m] /\ ev[2] = m
      OBVIOUS
    <3> HIDE DEF ev
    <3>3. ev \in Valid(s, c)
      BY <3>1, <3>2 DEF Valid
    <3> QED BY <3>2, <3>3
  <2> QED BY <2>1, <2>2
<1>5. next = Earliest(S)
  <2>1. CASE s.queue = FEL
    <3>1. next = Earliest(V)
      BY <2>1 DEF NextTime
    <3>2. V \subseteq S /\ S \subseteq V \cup {Infinity}
      BY <1>4, <2>1
    <3> HIDE DEF V, S, next
    <3>3. /\ Earliest(S) \in S \cup {Infinity}
          /\ Earliest(S) \in 0 .. Infinity
          /\ \A x \in S : Earliest(S) =< x
      BY <1>3, EarliestIs
    <3>4. /\ Earliest(V) \in V \cup {Infinity}
          /\ Earliest(V) \in 0 .. Infinity
          /\ \A x \in V : Earliest(V) =< x
      <4>1. V \subseteq 0 .. Infinity
        BY <1>3, <3>2
      <4> QED BY <4>1, EarliestIs
    <3> DEFINE a == Earliest(S)
               b == Earliest(V)
    <3>5. /\ a \in S \cup {Infinity} /\ a \in 0 .. Infinity
          /\ \A x \in S : a =< x
          /\ b \in V \cup {Infinity} /\ b \in 0 .. Infinity
          /\ \A x \in V : b =< x
      BY <3>3, <3>4
    <3> HIDE DEF a, b
    <3>6. a = b
      BY <3>2, <3>5, TimesAre
    <3> QED BY <3>1, <3>6 DEF a, b
  <2>2. CASE s.queue # FEL
    BY <1>1, <2>2 DEF NextTime
  <2> QED BY <2>1, <2>2
<1>6. t =< next /\ next \in Nat /\ next =< Infinity
  <2>1. next \in S \cup {Infinity} /\ next \in 0 .. Infinity
    BY <1>3, <1>5, EarliestIs
  <2>2. \A x \in S : t =< x
    BY <1>1, <1>2
  <2> QED BY <2>1, <2>2, TimesAre
<1> HIDE DEF next
<1>7. /\ r \in Trees(desc)
      /\ r.queue = s.queue /\ r.model = s.model /\ r.last = s.last
      /\ r.asserted = s.asserted
      /\ r.next[c] = next /\ r.inbox[c] = <<>>
      /\ \A m \in N : m # c => r.next[m] = s.next[m] /\ r.inbox[m] = s.inbox[m]
      /\ \A b \in DOMAIN desc : b # c => r.fel[b] = s.fel[b]
      /\ Range(r.fel[c]) = {ev \in Range(s.fel[c]) : ev[1] > next}
      /\ Range(r.inminents[c]) =
           {ev[2] : ev \in {ev \in Valid(s, c) : ev[1] = next}}
  BY <1>2 DEF IsRescheduled, next
<1>8. \A m \in C : r.next[m] = s.next[m]
  BY <1>2, <1>7
<1>9. Sound(desc, r, t)
  <2>1. ASSUME NEW n \in N
        PROVE  r.last[n] =< t /\ t =< r.next[n] /\ r.next[n] =< Infinity
    BY <1>1, <1>6, <1>7
  <2>2. ASSUME NEW m \in Atoms(desc) PROVE AtomSound(r, m)
    <3>1. m \in N /\ m # c
      BY DEF Atoms, Atomic
    <3>2. AtomSound(s, m)
      BY SoundIs
    <3> QED BY <1>7, <3>1, <3>2 DEF AtomSound
  <2>3. ASSUME NEW b \in DOMAIN desc
        PROVE  \A ev \in Range(r.fel[b]) :
                 ev[1] # Infinity /\ ev[2] \in Children(desc, b)
    <3>1. Range(r.fel[b]) \subseteq Range(s.fel[b])
      BY <1>7
    <3> QED BY <3>1 DEF Sound
  <2>4. \A b \in DOMAIN desc : \A m \in Receivers(desc[b]) :
          m \in Atoms(desc) => MayReceive(r.model[m])
    BY <1>7 DEF Sound
  <2> QED BY <1>1, <1>7, <2>1, <2>2, <2>3, <2>4 DEF Sound
<1>10. r.next[c] = Earliest({r.next[m] : m \in C})
  <2>1. {r.next[m] : m \in C} = S
    BY <1>8
  <2> QED BY <1>5, <1>7, <2>1
<1>11. ASSUME r.queue = FEL
       PROVE  Range(r.inminents[c]) =
                {m \in C : r.next[m] = r.next[c] /\ r.next[m] # Infinity}
  <2>1. ASSUME NEW m \in Range(r.inminents[c])
        PROVE  m \in C /\ r.next[m] = r.next[c] /\ r.next[m] # Infinity
    <3>1. PICK ev \in Valid(s, c) : ev[1] = next /\ ev[2] = m
      BY <1>7
    <3>2. ev[1] = s.next[m] /\ m \in C /\ ev[1] # Infinity
      BY <3>1 DEF Valid, Sound
    <3> QED BY <1>7, <1>8, <3>1, <3>2
  <2>2. ASSUME NEW m \in C, r.next[m] = r.next[c], r.next[m] # Infinity
        PROVE  m \in Range(r.inminents[c])
    <3> DEFINE ev == <<s.next[m], m>>
    <3>1. ev \in Range(s.fel[c]) /\ s.next[m] = next
      BY <1>7, <1>8, <1>11, <2>2
    <3>2. ev[1] = s.next[m] /\ ev[2] = m
      OBVIOUS
    <3> HIDE DEF ev
    <3>3. ev \in Valid(s, c)
      BY <3>1, <3>2 DEF Valid
    <3> QED BY <1>7, <3>1, <3>2, <3>3
  <2> QED BY <2>1, <2>2
<1>12. ASSUME r.queue = FEL, NEW m \in C, r.next[m] > r.next[c],
              r.next[m] # Infinity
       PROVE  <<r.next[m], m>> \in Range(r.fel[c])
  BY <1>7, <1>8, <1>12
<1>13. \A ev \in Range(r.fel[c]) : ev[1] > r.next[c]
  BY <1>7
<1> QED BY <1>9, <1>10, <1>11, <1>12, <1>13 DEF Soonest

\* The call of a coordinator does no more than it may, if those of its
\* sub-models do not.
LEMMA CoordinateAdvances ==
  ASSUME NEW desc, NEW depth, NEW height, IsDesc(desc, depth, height),
         NEW t \in Nat, t < End, NEW n \in DOMAIN desc,
         \A m \in Children(desc, n) : Keeps(desc, depth, m, t),
         NEW s, Ready(desc, depth, s, n, t)
  PROVE  Advances(desc, depth, s, Coordinate(s, n, t, Calls(desc, t)), n, t)
<1> DEFINE p == Filled(s, n, t).s
           calls == Visits(s, n, t)
           C == Children(desc, n)
           N == Nodes(desc)
           q == CallAll(p, calls, n, Calls(desc, t))
           r == Coordinate(s, n, t, Calls(desc, t))
<1>1. /\ n \in N /\ depth \in [N -> 0 .. height] /\ height \in Nat
      /\ DOMAIN desc \subseteq N
      /\ \A m \in C : m \in N /\ depth[m] = depth[n] + 1
  BY TreeIs
<1>2. \A m \in N : depth[m] \in Nat
  BY <1>1
<1>3. /\ Sound(desc, s, t) /\ s \in Trees(desc) /\ Soonest(desc, s, n)
      /\ \A c \in DOMAIN desc : depth[c] >= depth[n] => Soonest(desc, s, c)
  BY <1>1, <1>2 DEF Ready, Sound
<1>4. IsFilled(p, desc, s, n, t)
  BY <1>3, FilledIs
<1>5. calls \in Seq(C)
  BY <1>3, VisitsAre
<1>6. r = Reschedule(q, n)
  BY CoordinateIs
<1>7. Underway(desc, depth, p, p, n, t, calls, 0)
  BY <1>3, <1>4, CallStart
<1> HIDE DEF p, calls, C, r
<1>8. ASSUME NEW c \in DOMAIN desc, Soonest(desc, s, c)
      PROVE  Soonest(desc, p, c)
  BY <1>4, <1>8, SoonestSame DEF IsFilled
<1>9. Underway(desc, depth, p, q, n, t, calls, Len(calls))
  <2>1. \A c \in DOMAIN desc : depth[c] > depth[n] => Soonest(desc, p, c)
    BY <1>1, <1>2, <1>3, <1>8
  <2> QED BY <1>5, <1>7, <2>1, CallingAll DEF C
<1> HIDE DEF q
<1>10. IsRescheduled(r, desc, q, n)
  BY <1>6, <1>9, RescheduleIs DEF Underway
<1>11. q.queue = FEL => \A m \in C :
         q.next[m] # Infinity => <<q.next[m], m>> \in Range(q.fel[n])
  <2>1. \A k \in Len(calls) + 1 .. Len(calls) : FALSE
    BY <1>5
  <2> QED BY <1>9, <2>1 DEF Underway, C
<1>12. Sound(desc, r, t) /\ Soonest(desc, r, n)
  BY <1>9, <1>10, <1>11, RescheduleSoonest DEF Underway, C
<1>13. r.queue = s.queue
  BY <1>4, <1>9, <1>10 DEF IsFilled, Underway, IsRescheduled
<1>14. ASSUME NEW m \in N, m # n, depth[m] =< depth[n]
       PROVE  r.next[m] = s.next[m]
  BY <1>4, <1>9, <1>10, <1>14 DEF IsFilled, Underway, IsRescheduled
<1>15. ASSUME NEW c \in DOMAIN desc, depth[c] < depth[n]
       PROVE  r.fel[c] = s.fel[c]
  <2>1. c # n
    BY <1>1, <1>2, <1>15
  <2> QED BY <1>4, <1>9, <1>10, <1>15, <2>1
          DEF IsFilled, Underway, IsRescheduled
<1>16. ASSUME NEW c \in DOMAIN desc, n \notin Children(desc, c),
              Soonest(desc, s, c)
       PROVE  Soonest(desc, r, c)
  <2>1. CASE c = n
    BY <1>12, <2>1
  <2>2. CASE c # n
    <3>1. Soonest(desc, q, c)
      BY <1>8, <1>9, <1>16, <2>2 DEF Underway
    <3>2. c \in N /\ \A m \in Children(desc, c) : m \in N /\ m # n
      BY <1>16, TreeIs
    <3>3. /\ r.queue = q.queue /\ r.next[c] = q.next[c]
          /\ r.fel[c] = q.fel[c] /\ r.inminents[c] = q.inminents[c]
          /\ \A m \in Children(desc, c) : r.next[m] = q.next[m]
      BY <1>10, <2>2, <3>2 DEF IsRescheduled
    <3> QED BY <3>1, <3>3, SoonestSame
  <2> QED BY <2>1, <2>2
<1>17. ASSUME NEW m \in N, r.inbox[m] # <<>>
       PROVE  s.inbox[m] # <<>> /\ m # n
  <2>1. m # n /\ q.inbox[m] # <<>>
    BY <1>10, <1>17 DEF IsRescheduled
  <2>2. p.inbox[m] # <<>> /\ \A k \in 1 .. Len(calls) : calls[k] # m
    BY <1>9, <2>1 DEF Underway
  <2>3. m \notin Range(calls)
    <3>1. \A x \in Range(calls) : \E k \in 1 .. Len(calls) : calls[k] = x
      BY <1>5, SeqAt
    <3> QED BY <2>2, <3>1
  <2> QED BY <1>4, <2>1, <2>2, <2>3 DEF IsFilled, calls
<1> QED BY <1>12, <1>13, <1>14, <1>15, <1>16, <1>17 DEF Advances, r

\* So does the call of any model.
LEMMA AllKeep ==
  ASSUME NEW desc, NEW depth, NEW height, IsDesc(desc, depth, height),
         NEW t \in Nat, t < End
  PROVE  \A n \in Nodes(desc) : Keeps(desc, depth, n, t)
<1> DEFINE S == {n \in Nodes(desc) : Keeps(desc, depth, n, t)}
<1>1. ASSUME NEW n \in Nodes(desc),
             \A m \in Nodes(desc) : depth[m] > depth[n] => m \in S
      PROVE  n \in S
  <2> SUFFICES ASSUME NEW s, Ready(desc, depth, s, n, t)
               PROVE  Advances(desc, depth, s, Calls(desc, t)[n][s], n, t)
    BY Zenon DEF Keeps
  <2>1. s \in Trees(desc) /\ Sound(desc, s, t)
    BY DEF Ready, Sound
  <2>2. Calls(desc, t)[n][s] =
          IF Atomic(desc, n) THEN Simulate(s, n, t)
          ELSE Coordinate(s, n, t, Calls(desc, t))
    <3> DEFINE A(k, x) == IF Atomic(desc, k) THEN Simulate(x, k, t)
                          ELSE Coordinate(x, k, t, Calls(desc, t))
               g == Calls(desc, t)
    <3>1. g = [k \in Nodes(desc) |-> [x \in Trees(desc) |-> A(k, x)]]
      BY CallsAre
    <3> HIDE DEF A, g
    <3>2. g[n][s] = A(n, s)
      BY <2>1, <3>1
    <3> QED BY <3>2 DEF A, g
  <2>3. CASE n \in Atoms(desc)
    <3>1. Calls(desc, t)[n][s] = Simulate(s, n, t)
      BY <2>2, <2>3 DEF Atoms
    <3> QED BY <2>1, <2>3, <3>1, SimulateAdvances
  <2>4. CASE n \in DOMAIN desc
    <3>1. Calls(desc, t)[n][s] = Coordinate(s, n, t, Calls(desc, t))
      BY <2>2, <2>4 DEF Atomic
    <3>2. \A m \in Children(desc, n) :
            m \in Nodes(desc) /\ depth[m] = depth[n] + 1
      BY <2>4, TreeIs
    <3>3. depth[n] \in Nat
      <4>1. depth \in [Nodes(desc) -> 0 .. height] /\ height \in Nat
        BY TreeIs
      <4> QED BY <4>1
    <3>4. \A m \in Children(desc, n) : Keeps(desc, depth, m, t)
      BY <1>1, <3>2, <3>3
    <3> QED BY <2>4, <3>1, <3>4, CoordinateAdvances
  <2> QED BY <2>3, <2>4, TreeIs
<1>2. Nodes(desc) \subseteq S
  <2> HIDE DEF S
  <2> QED BY <1>1, Upwards
<1> QED BY <1>2

----------------------------------------------------------------------------
(* Between the calls of the top.                                           *)

\* No coordinator is wrong about its soonest sub-model, no inbox holds
\* anything, and all is sound until the top is due.
Idle(desc, s) ==
  /\ Sound(desc, s, s.next[TOP])
  /\ \A c \in DOMAIN desc : Soonest(desc, s, c)
  /\ \A n \in Nodes(desc) : s.inbox[n] = <<>> /\ s.last[n] =< End

\* Nothing is due before the top.
LEMMA NothingSooner ==
  ASSUME NEW desc, NEW depth, NEW height, IsDesc(desc, depth, height),
         NEW t \in Nat, NEW s, Sound(desc, s, t),
         \A c \in DOMAIN desc : Soonest(desc, s, c)
  PROVE  /\ \A n \in Nodes(desc) : s.next[TOP] =< s.next[n]
         /\ Sound(desc, s, s.next[TOP])
         /\ s.next[TOP] \in Nat
<1> DEFINE N == Nodes(desc)
           S == {n \in N : s.next[TOP] =< s.next[n]}
<1>1. /\ TOP \in N /\ TOP \in DOMAIN desc
      /\ \A c \in DOMAIN desc : c \in N /\ \A m \in Children(desc, c) : m \in N
  BY TreeIs
<1>2. \A n \in N : /\ s.last[n] \in Nat /\ s.next[n] \in Nat
                   /\ s.last[n] =< t /\ t =< s.next[n]
                   /\ s.next[n] =< Infinity
  BY SoundIs
<1>3. TOP \in S
  BY <1>1, <1>2
<1>4. ASSUME NEW c \in DOMAIN desc, c \in S PROVE Children(desc, c) \subseteq S
  <2>1. {s.next[m] : m \in Children(desc, c)} \subseteq 0 .. Infinity
    BY <1>1, <1>2, TimesAre
  <2>2. \A m \in Children(desc, c) : s.next[c] =< s.next[m]
    <3> DEFINE X == {s.next[m] : m \in Children(desc, c)}
    <3>1. s.next[c] = Earliest(X)
      BY DEF Soonest
    <3>2. \A x \in X : Earliest(X) =< x
      BY <2>1, EarliestIs
    <3> QED BY <3>1, <3>2
  <2> QED BY <1>1, <1>2, <1>4, <2>2
<1>5. N \subseteq S
  <2> HIDE DEF S
  <2> QED BY <1>3, <1>4, Downwards
<1>6. \A n \in N : s.last[n] =< s.next[TOP] /\ s.next[TOP] =< s.next[n]
  BY <1>1, <1>2, <1>5
<1> QED BY <1>1, <1>2, <1>5, <1>6 DEF Sound

\* What was called is forgotten before a pass.
LEMMA ForgetIs ==
  ASSUME NEW desc, NEW s \in Trees(desc)
  PROVE  LET r == [s EXCEPT !.called = {}]
         IN /\ r \in Trees(desc) /\ r.called = {}
            /\ r.queue = s.queue /\ r.model = s.model /\ r.inbox = s.inbox
            /\ r.last = s.last /\ r.next = s.next /\ r.fel = s.fel
            /\ r.inminents = s.inminents /\ r.needless = s.needless
            /\ r.asserted = s.asserted /\ r.desc = desc
BY DEF Trees

\* The call of the top leaves the tree so.
LEMMA PassIsIdle ==
  ASSUME NEW desc, NEW depth, NEW height, IsDesc(desc, depth, height),
         NEW s, Idle(desc, s), s.next[TOP] < End
  PROVE  LET r == AdvanceSimulation([s EXCEPT !.called = {}], TOP, s.next[TOP])
         IN Idle(desc, r) /\ r.queue = s.queue /\ r.desc = desc
<1> DEFINE t == s.next[TOP]
           q == [s EXCEPT !.called = {}]
           r == AdvanceSimulation(q, TOP, t)
           N == Nodes(desc)
<1>1. TOP \in N /\ s \in Trees(desc) /\ Sound(desc, s, t)
  BY TreeIs DEF Idle, Sound
<1>2. t \in Nat /\ t < End
  <2>1. s.next \in [N -> Nat]
    BY <1>1, TreesAre
  <2> QED BY <1>1, <2>1
<1>3. /\ q \in Trees(desc) /\ q.queue = s.queue /\ q.model = s.model
      /\ q.inbox = s.inbox /\ q.last = s.last /\ q.next = s.next
      /\ q.fel = s.fel /\ q.inminents = s.inminents
      /\ q.asserted = s.asserted /\ q.desc = desc
  BY <1>1, ForgetIs
<1> HIDE DEF q
<1>4. Sound(desc, q, t)
  <2>1. \A m \in Atoms(desc) : AtomSound(q, m)
    BY <1>1, <1>3 DEF Sound, AtomSound
  <2> QED BY <1>1, <1>3, <2>1 DEF Sound
<1>5. \A c \in DOMAIN desc : Soonest(desc, q, c)
  BY <1>3, SoonestSame DEF Idle
<1>6. Advances(desc, depth, q, r, TOP, t)
  <2>1. r = Calls(desc, t)[TOP][q]
    BY <1>3 DEF AdvanceSimulation
  <2>2. Keeps(desc, depth, TOP, t)
    BY <1>1, <1>2, AllKeep
  <2>3. Ready(desc, depth, q, TOP, t)
    BY <1>4, <1>5 DEF Ready
  <2> QED BY <2>1, <2>2, <2>3 DEF Keeps
<1> HIDE DEF r
<1>7. Sound(desc, r, t) /\ r.queue = s.queue
  BY <1>3, <1>6 DEF Advances
<1>8. \A c \in DOMAIN desc : Soonest(desc, r, c)
  BY <1>5, <1>6, TreeIs DEF Advances
<1>9. Sound(desc, r, r.next[TOP])
  BY <1>2, <1>7, <1>8, NothingSooner
<1>10. \A n \in N : r.inbox[n] = <<>> /\ r.last[n] =< End
  <2>1. \A n \in N : r.inbox[n] = <<>>
    BY <1>3, <1>6 DEF Advances, Idle
  <2>2. \A n \in N : r.last[n] \in Nat /\ r.last[n] =< t
    BY <1>2, <1>7, SoundIs
  <2> QED BY <1>2, <2>1, <2>2, TimesAre
<1>11. r.desc = desc
  BY <1>7, TreesAre DEF Sound
<1> QED BY <1>7, <1>8, <1>9, <1>10, <1>11 DEF Idle, r, q

----------------------------------------------------------------------------
(* init.                                                                   *)

\* The first times are times, or never.
LEMMA FirstTyped ==
  ASSUME NEW desc, NEW depth, NEW height, IsDesc(desc, depth, height),
         NEW model \in [Atoms(desc) -> States]
  PROVE  \A n \in Nodes(desc) : FirstTimes(desc, model)[n] \in 0 .. Infinity
<1> DEFINE N == Nodes(desc)
           first == FirstTimes(desc, model)
           S == {n \in N : first[n] \in 0 .. Infinity}
           A(n) == IF Atomic(desc, n) THEN advance(model[n])
                   ELSE Earliest({first[m] : m \in Children(desc, n)})
<1>1. first = [n \in N |-> A(n)]
  BY FirstTimesIs
<1> HIDE DEF first
<1>2. \A n \in N : first[n] = A(n)
  BY <1>1
<1>3. ASSUME NEW n \in N, \A m \in N : depth[m] > depth[n] => m \in S
      PROVE  n \in S
  <2>1. CASE n \in Atoms(desc)
    <3>1. model[n] \in States
      BY <2>1
    <3>2. advance(model[n]) \in 0 .. Infinity
      BY <3>1, AdvanceIs, TimesAre DEF Durations
    <3> QED BY <1>2, <2>1, <3>2 DEF Atoms
  <2>2. CASE n \in DOMAIN desc
    <3>1. \A m \in Children(desc, n) : m \in N /\ depth[m] = depth[n] + 1
      BY <2>2, TreeIs
    <3>2. depth[n] \in Nat
      <4>1. depth \in [N -> 0 .. height] /\ height \in Nat
        BY TreeIs
      <4> QED BY <4>1
    <3>3. \A m \in Children(desc, n) : m \in S
      BY <1>3, <3>1, <3>2
    <3>4. {first[m] : m \in Children(desc, n)} \subseteq 0 .. Infinity
      BY <3>3
    <3>5. first[n] = Earliest({first[m] : m \in Children(desc, n)})
      BY <1>2, <2>2 DEF Atomic
    <3>6. Earliest({first[m] : m \in Children(desc, n)}) \in 0 .. Infinity
      BY <3>4, EarliestIs, Zenon
    <3> QED BY <3>5, <3>6
  <2> QED BY <2>1, <2>2, TreeIs
<1>4. N \subseteq S
  <2> HIDE DEF S, N
  <2> QED BY <1>3, Upwards DEF N
<1> QED BY <1>4 DEF first

\* What is put on the list is what is due some time.
LEMMA ScheduledIs ==
  ASSUME NEW N, NEW next, NEW models \in Seq(N), \A n \in N : next[n] \in Nat
  PROVE  /\ Scheduled(next, models) \in Seq(Nat \X N)
         /\ Range(Scheduled(next, models)) =
              {<<next[m], m>> : m \in {m \in Range(models) :
                                         next[m] # Infinity}}
<1> DEFINE S == {m \in Range(models) : next[m] # Infinity}
           q == Those(models, S)
           T == Nat \X N
           f == [i \in 1 .. Len(q) |-> <<next[q[i]], q[i]>>]
<1>1. q \in Seq(N) /\ Range(q) = S
  <2>1. Range(models) \cap S = S
    OBVIOUS
  <2> HIDE DEF S
  <2> QED BY <2>1, ThoseAre
<1> HIDE DEF q
<1>2. /\ Len(q) \in Nat /\ DOMAIN q = 1 .. Len(q)
      /\ \A i \in 1 .. Len(q) : q[i] \in N /\ q[i] \in Range(q)
      /\ \A x \in Range(q) : \E i \in 1 .. Len(q) : q[i] = x
  BY <1>1, SeqAt
<1>3. Scheduled(next, models) = f
  BY <1>2, Zenon DEF Scheduled, q
<1>4. f \in [1 .. Len(q) -> T]
  BY <1>2
<1>5. f \in Seq(T)
  <2> HIDE DEF f, T
  <2> QED BY <1>2, <1>4, MapIsSeq
<1>6. Range(f) = {<<next[m], m>> : m \in S}
  <2>1. ASSUME NEW x \in Range(f) PROVE x \in {<<next[m], m>> : m \in S}
    <3>1. PICK i \in 1 .. Len(q) : f[i] = x
      BY <2>1, RangeIs
    <3>2. q[i] \in S
      BY <1>1, <1>2
    <3> QED BY <3>1, <3>2
  <2>2. ASSUME NEW m \in S PROVE <<next[m], m>> \in Range(f)
    <3>1. PICK i \in 1 .. Len(q) : q[i] = m
      BY <1>1, <1>2
    <3>2. f[i] = <<next[m], m>> /\ i \in DOMAIN f
      BY <3>1
    <3> HIDE DEF f
    <3> QED BY <3>2, RangeIs
  <2> QED BY <2>1, <2>2
<1> QED BY <1>3, <1>5, <1>6

\* The tree at the start knows what is due first.
LEMMA StartedIdle ==
  ASSUME NEW desc, NEW depth, NEW height, IsDesc(desc, depth, height),
         NEW model \in [Atoms(desc) -> States], NEW queue \in {NULLQUEUE, FEL},
         \A c \in DOMAIN desc : \A m \in Receivers(desc[c]) :
           m \in Atoms(desc) => MayReceive(model[m])
  PROVE  LET s == Started(desc, model, queue)
         IN Idle(desc, s) /\ s.queue = queue /\ s.desc = desc
<1> DEFINE N == Nodes(desc)
           T == Nat \X N
           C(c) == Children(desc, c)
           first == FirstTimes(desc, model)
           fel == [c \in DOMAIN desc |->
                     IF queue = FEL THEN Scheduled(first, desc[c].models)
                     ELSE <<>>]
           now == [c \in DOMAIN desc |->
                     {ev \in Range(fel[c]) : ev[1] = first[c]}]
           rest == [c \in DOMAIN desc |->
                      Those(fel[c], Range(fel[c]) \ now[c])]
           due == [c \in DOMAIN desc |-> Models(Those(fel[c], now[c]))]
           s == Started(desc, model, queue)
<1>1. s = [desc |-> desc, queue |-> queue, model |-> model,
           last |-> [n \in N |-> 0], next |-> first,
           inbox |-> [n \in N |-> <<>>], fel |-> rest, inminents |-> due,
           called |-> {}, needless |-> FALSE, asserted |-> TRUE]
  BY Zenon DEF Started
<1>2. first = [n \in N |-> IF Atomic(desc, n) THEN advance(model[n])
                           ELSE Earliest({first[m] : m \in C(n)})]
  BY FirstTimesIs
<1>3. \A n \in N : first[n] \in 0 .. Infinity
  BY FirstTyped
<1>4. /\ TOP \in N /\ DOMAIN desc \subseteq N
      /\ \A c \in DOMAIN desc : \A m \in C(c) : m \in N
      /\ Atoms(desc) \subseteq N
  BY TreeIs DEF Atoms
<1> HIDE DEF first
<1>5. /\ first \in [N -> Nat] /\ \A n \in N : first[n] =< Infinity
      /\ \A n \in N : first[n] = IF Atomic(desc, n) THEN advance(model[n])
                                 ELSE Earliest({first[m] : m \in C(n)})
  <2>1. \A n \in N : first[n] = IF Atomic(desc, n) THEN advance(model[n])
                                ELSE Earliest({first[m] : m \in C(n)})
    BY <1>2
  <2>2. DOMAIN first = N /\ first = [n \in N |-> first[n]]
    BY <1>2
  <2>3. \A n \in N : first[n] \in Nat /\ first[n] =< Infinity
    BY <1>3, TimesAre
  <2>4. first \in [N -> Nat]
    BY <2>2, <2>3
  <2> QED BY <2>1, <2>3, <2>4
<1>6. ASSUME NEW c \in DOMAIN desc
      PROVE  /\ fel[c] \in Seq(T)
             /\ Range(fel[c]) =
                  IF queue = FEL
                  THEN {<<first[m], m>> : m \in {m \in C(c) :
                                                   first[m] # Infinity}}
                  ELSE {}
  <2>1. CASE queue = FEL
    <3>1. desc[c].models \in Seq(N)
      <4>1. desc[c].models \in Seq(C(c)) /\ C(c) \subseteq N
        BY <1>4 DEF IsDesc, IsCoupled, Children
      <4> HIDE DEF C, N
      <4> QED BY <4>1, SeqMonotonic
    <3>2. fel[c] = Scheduled(first, desc[c].models)
      BY <2>1
    <3> HIDE DEF fel
    <3>3. \A n \in N : first[n] \in Nat
      BY <1>5
    <3> DEFINE ms == desc[c].models
    <3>4. ms \in Seq(N)
      BY <3>1
    <3> HIDE DEF N, ms
    <3>5. /\ Scheduled(first, ms) \in Seq(Nat \X N)
          /\ Range(Scheduled(first, ms)) =
               {<<first[m], m>> : m \in {m \in Range(ms) :
                                           first[m] # Infinity}}
      BY <3>3, <3>4, ScheduledIs
    <3> QED BY <2>1, <3>2, <3>5 DEF Children, ms
  <2>2. CASE queue # FEL
    <3>1. fel[c] = <<>>
      BY <2>2
    <3> HIDE DEF fel, T
    <3> QED BY <2>2, <3>1, RangeShort, EmptySeq
  <2> QED BY <2>1, <2>2
<1> HIDE DEF fel
<1>7. ASSUME NEW c \in DOMAIN desc
      PROVE  /\ rest[c] \in Seq(T) /\ due[c] \in Seq(N)
             /\ Range(rest[c]) = Range(fel[c]) \ now[c]
             /\ Range(due[c]) = {ev[2] : ev \in now[c]}
  <2> DEFINE q == fel[c]
             a == now[c]
             b == Range(fel[c]) \ now[c]
  <2>1. q \in Seq(T) /\ Range(q) \cap a = a /\ Range(q) \cap b = b
    BY <1>6
  <2>2. rest[c] = Those(q, b) /\ due[c] = Models(Those(q, a))
    OBVIOUS
  <2> HIDE DEF q, a, b, rest, due, T
  <2>3. /\ Those(q, b) \in Seq(T) /\ Range(Those(q, b)) = Range(q) \cap b
        /\ Those(q, a) \in Seq(T) /\ Range(Those(q, a)) = Range(q) \cap a
    BY <2>1, ThoseAre
  <2>4. /\ Models(Those(q, a)) \in Seq(N)
        /\ Range(Models(Those(q, a))) = {ev[2] : ev \in Range(Those(q, a))}
    <3> HIDE DEF N
    <3> QED BY <2>3, ModelsAre DEF T
  <2> QED BY <2>1, <2>2, <2>3, <2>4 DEF a, b
<1>8. ASSUME NEW c \in DOMAIN desc
      PROVE  /\ \A ev \in Range(rest[c]) :
                  /\ queue = FEL /\ ev[2] \in C(c) /\ ev[1] = first[ev[2]]
                  /\ ev[1] # Infinity /\ ev[1] # first[c]
             /\ queue = FEL => Range(due[c]) =
                  {m \in C(c) : first[m] = first[c] /\ first[m] # Infinity}
             /\ Range(due[c]) \subseteq C(c)
             /\ queue = FEL => \A m \in C(c) :
                  first[m] # first[c] /\ first[m] # Infinity
                    => <<first[m], m>> \in Range(rest[c])
  <2>1. now[c] = {ev \in Range(fel[c]) : ev[1] = first[c]}
    OBVIOUS
  <2> DEFINE e == Range(fel[c])
             a == now[c]
             b == Range(rest[c])
             d == Range(due[c])
  <2>2. /\ a = {ev \in e : ev[1] = first[c]} /\ b = e \ a
        /\ d = {ev[2] : ev \in a}
        /\ e = IF queue = FEL
               THEN {<<first[m], m>> : m \in {m \in C(c) :
                                                first[m] # Infinity}}
               ELSE {}
    BY <1>6, <1>7, <2>1
  <2> HIDE DEF e, a, b, d, C
  <2>3. ASSUME NEW ev \in e
        PROVE  /\ queue = FEL /\ ev[2] \in C(c) /\ ev[1] = first[ev[2]]
               /\ ev[1] # Infinity
    BY <2>2
  <2>4. ASSUME queue = FEL, NEW m \in C(c), first[m] # Infinity
        PROVE  \E ev \in e :
                 ev = <<first[m], m>> /\ ev[1] = first[m] /\ ev[2] = m
    <3> DEFINE ev == <<first[m], m>>
    <3>1. ev[1] = first[m] /\ ev[2] = m
      OBVIOUS
    <3>2. ev \in e
      BY <2>2, <2>4
    <3> QED BY <3>1, <3>2
  <2>5. \A ev \in b : /\ queue = FEL /\ ev[2] \in C(c) /\ ev[1] = first[ev[2]]
                      /\ ev[1] # Infinity /\ ev[1] # first[c]
    BY <2>2, <2>3
  <2>6. ASSUME NEW m \in d
        PROVE  m \in C(c) /\ first[m] = first[c] /\ first[m] # Infinity
    <3>1. PICK ev \in a : ev[2] = m
      BY <2>2
    <3> QED BY <2>2, <2>3, <3>1
  <2>7. ASSUME queue = FEL, NEW m \in C(c), first[m] = first[c],
               first[m] # Infinity
        PROVE  m \in d
    BY <2>2, <2>4, <2>7
  <2>8. ASSUME queue = FEL, NEW m \in C(c), first[m] # first[c],
               first[m] # Infinity
        PROVE  <<first[m], m>> \in b
    BY <2>2, <2>4, <2>8
  <2> QED BY <2>5, <2>6, <2>7, <2>8 DEF b, d
<1>9. /\ rest \in [DOMAIN desc -> Seq(T)] /\ due \in [DOMAIN desc -> Seq(N)]
  BY <1>7
<1> HIDE DEF rest, due
<1> DEFINE none == <<>>
<1>10. /\ s.desc = desc /\ s.queue = queue /\ s.model = model
       /\ s.last = [n \in N |-> 0] /\ s.next = first
       /\ s.inbox = [n \in N |-> none] /\ s.fel = rest
       /\ s.inminents = due /\ s.called = {} /\ s.needless = FALSE
       /\ s.asserted = TRUE
  BY <1>1
<1>11. HasParts(s)
  BY <1>1, <1>10, Zenon DEF HasParts, none
<1> HIDE DEF s
<1>12. /\ s.last \in [N -> Nat]
       /\ s.inbox \in [N -> Seq(Nat)] /\ \A n \in N : s.inbox[n] = <<>>
  <2> DEFINE S == Seq(Nat)
  <2>1. none \in S
    OBVIOUS
  <2> HIDE DEF none, S
  <2>2. s.last \in [N -> Nat] /\ s.inbox \in [N -> S]
        /\ \A n \in N : s.inbox[n] = none
    BY <1>10, <2>1
  <2> QED BY <2>2 DEF none, S
<1>13. s.model \in [Atoms(desc) -> AtomicStates(Infinity)]
  BY <1>10, StatesMonotonic
<1>14. s \in Trees(desc)
  <2>1. \A c \in DOMAIN desc : Range(s.inminents[c]) \subseteq Children(desc, c)
    BY <1>8, <1>10
  <2> QED BY <1>5, <1>9, <1>10, <1>11, <1>12, <1>13, <2>1, TreeFrom
<1>15. Sound(desc, s, 0)
  <2>1. \A n \in N : s.last[n] =< 0 /\ 0 =< s.next[n] /\ s.next[n] =< Infinity
    BY <1>5, <1>10
  <2>2. ASSUME NEW m \in Atoms(desc) PROVE AtomSound(s, m)
    <3>1. m \in N /\ Atomic(desc, m)
      BY DEF Atoms
    <3>2. s.next[m] = advance(s.model[m]) /\ s.model[m] \in States
      BY <1>5, <1>10, <3>1
    <3>3. s.last[m] = 0 /\ s.inbox[m] = <<>>
      BY <1>10, <3>1
    <3>4. advance(s.model[m]) # Infinity => advance(s.model[m]) \in 0 .. Longest
      BY <3>2, AdvanceIs
    <3> QED BY <3>2, <3>3, <3>4, TimesAre DEF AtomSound
  <2>3. \A c \in DOMAIN desc : \A ev \in Range(s.fel[c]) :
          ev[1] # Infinity /\ ev[2] \in Children(desc, c)
    BY <1>8, <1>10
  <2> QED BY <1>10, <1>14, <2>1, <2>2, <2>3 DEF Sound
<1>16. ASSUME NEW c \in DOMAIN desc PROVE Soonest(desc, s, c)
  <2>1. s.next[c] = Earliest({s.next[m] : m \in C(c)})
    BY <1>4, <1>5, <1>10, SMTT(30) DEF Atomic
  <2>2. \A m \in C(c) : s.next[c] =< s.next[m]
    <3>1. {s.next[m] : m \in C(c)} \subseteq 0 .. Infinity
      BY <1>3, <1>4, <1>10
    <3> DEFINE X == {s.next[m] : m \in C(c)}
    <3>2. \A x \in X : Earliest(X) =< x
      BY <3>1, EarliestIs
    <3> QED BY <2>1, <3>2
  <2>3. s.next[c] \in Nat /\ \A m \in C(c) : s.next[m] \in Nat
    BY <1>4, <1>5, <1>10
  <2>4. \A ev \in Range(s.fel[c]) : ev[1] > s.next[c]
    BY <1>8, <1>10, <2>2, <2>3
  <2>5. s.queue = FEL => Range(s.inminents[c]) =
          {m \in C(c) : s.next[m] = s.next[c] /\ s.next[m] # Infinity}
    BY <1>8, <1>10
  <2>6. s.queue = FEL => \A m \in C(c) :
          s.next[m] > s.next[c] /\ s.next[m] # Infinity
            => <<s.next[m], m>> \in Range(s.fel[c])
    BY <1>8, <1>10, <2>3
  <2> QED BY <2>1, <2>4, <2>5, <2>6 DEF Soonest
<1>17. Sound(desc, s, s.next[TOP])
  BY <1>15, <1>16, NothingSooner
<1>18. \A n \in N : s.last[n] =< End
  BY <1>10, TimesAre
<1> QED BY <1>10, <1>12, <1>16, <1>17, <1>18 DEF Idle, s

----------------------------------------------------------------------------
(* Flattening.                                                             *)

\* Joining sequences without repetition that have nothing in common repeats
\* nothing.
LEMMA JoinInjective ==
  ASSUME NEW T, NEW a \in Seq(T), NEW b \in Seq(T),
         IsInjective(a), IsInjective(b), Range(a) \cap Range(b) = {}
  PROVE  IsInjective(a \o b)
<1> DEFINE k == Len(a)
           l == Len(b)
           q == a \o b
<1>1. /\ k \in Nat /\ DOMAIN a = 1 .. k
      /\ \A i \in 1 .. k : a[i] \in Range(a)
      /\ l \in Nat /\ DOMAIN b = 1 .. l
      /\ \A i \in 1 .. l : b[i] \in Range(b)
  BY SeqAt
<1>2. /\ DOMAIN q = 1 .. k + l
      /\ \A i \in 1 .. k : q[i] = a[i]
      /\ \A i \in k + 1 .. k + l : q[i] = b[i - k]
  BY <1>1
<1> HIDE DEF k, l, q
<1>3. \A i, j \in 1 .. k : a[i] = a[j] => i = j
  BY <1>1, Zenon DEF IsInjective
<1>4. \A i, j \in 1 .. l : b[i] = b[j] => i = j
  BY <1>1, Zenon DEF IsInjective
<1>5. ASSUME NEW i \in 1 .. k + l, NEW j \in 1 .. k + l, q[i] = q[j]
      PROVE  i = j
  <2>1. CASE i \in 1 .. k /\ j \in 1 .. k
    BY <1>2, <1>3, <1>5, <2>1
  <2>2. CASE i \in k + 1 .. k + l /\ j \in k + 1 .. k + l
    <3>1. i - k \in 1 .. l /\ j - k \in 1 .. l
      BY <1>1, <2>2
    <3>2. i - k = j - k
      BY <1>2, <1>4, <1>5, <2>2, <3>1
    <3> QED BY <1>1, <3>2
  <2>3. ASSUME NEW x \in 1 .. k, NEW y \in k + 1 .. k + l PROVE q[x] # q[y]
    <3>1. y - k \in 1 .. l
      BY <1>1
    <3>2. q[x] \in Range(a) /\ q[y] \in Range(b)
      BY <1>1, <1>2, <3>1
    <3> QED BY <3>2
  <2> QED BY <1>1, <1>5, <2>1, <2>2, <2>3
<1> QED BY <1>2, <1>5, Zenon DEF IsInjective, q

\* Lists without repetition that share nothing stay so when joined.
LEMMA FlattenInjective ==
  ASSUME NEW n \in Nat, NEW T, NEW ss \in [1 .. n -> Seq(T)],
         \A i \in 1 .. n : IsInjective(ss[i]),
         \A i, j \in 1 .. n : i # j => Range(ss[i]) \cap Range(ss[j]) = {}
  PROVE  IsInjective(Flatten(ss))
<1>1. PICK f : IsCollection(f, n, T, ss) /\ Flatten(ss) = f[n]
  BY FlattenStates, Zenon
<1> DEFINE All(i) == UNION {Range(ss[k]) : k \in 1 .. i}
           S == {i \in Nat : IsInjective(f[i]) /\ Range(f[i]) = All(i)}
<1>2. 0 \in S
  <2>1. Range(f[0]) = {} /\ f[0] = <<>>
    BY <1>1, RangeShort, Zenon DEF IsCollection
  <2>2. All(0) = {}
    OBVIOUS
  <2>3. IsInjective(<<>>)
    BY DEF IsInjective
  <2> QED BY <2>1, <2>2, <2>3
<1>3. ASSUME NEW i \in 0 .. n - 1, i \in S PROVE i + 1 \in S
  <2>1. PICK j \in 1 .. n : j = i + 1 /\ j - 1 = i
    OBVIOUS
  <2>2. i \in 0 .. n
    OBVIOUS
  <2>3. f[j] = f[i] \o ss[j] /\ f[i] \in Seq(T) /\ ss[j] \in Seq(T)
    <3>1. f[j] = f[j - 1] \o ss[j]
      BY <1>1, Zenon DEF IsCollection
    <3> QED BY <1>1, <2>1, <2>2, <3>1 DEF IsCollection
  <2>4. Range(f[i]) = All(i) /\ IsInjective(f[i])
    BY <1>3
  <2>5. Range(f[i]) \cap Range(ss[j]) = {}
    <3>1. \A k \in 1 .. i : k \in 1 .. n /\ k # j
      BY <2>1
    <3>2. \A k \in 1 .. i : Range(ss[k]) \cap Range(ss[j]) = {}
      BY <3>1
    <3> QED BY <2>4, <3>2
  <2>6. Range(f[j]) = Range(f[i]) \cup Range(ss[j]) /\ IsInjective(f[j])
    <3> DEFINE a == f[i]
               b == ss[j]
    <3>1. /\ a \in Seq(T) /\ b \in Seq(T) /\ f[j] = a \o b
          /\ IsInjective(a) /\ IsInjective(b) /\ Range(a) \cap Range(b) = {}
      BY <2>3, <2>4, <2>5
    <3> HIDE DEF a, b
    <3>2. Range(a \o b) = Range(a) \cup Range(b) /\ IsInjective(a \o b)
      BY <3>1, RangeConcatenation, JoinInjective
    <3> QED BY <3>1, <3>2 DEF a, b
  <2>7. All(j) = All(i) \cup Range(ss[j])
    <3>1. \A k : k \in 1 .. j <=> k \in 1 .. i \/ k = j
      BY <2>1
    <3> QED BY <3>1, Zenon
  <2>8. Range(f[j]) = All(j)
    BY <2>4, <2>6, <2>7, Zenon
  <2> HIDE DEF All
  <2> QED BY <2>1, <2>6, <2>8
<1>4. n \in S
  <2> HIDE DEF S
  <2>1. 0 .. n \subseteq S
    BY <1>2, <1>3, CH!UpTo
  <2> QED BY <2>1
<1> QED BY <1>1, <1>4

\* Those of a sequence without repetition are without, too.
LEMMA ThoseInjective ==
  ASSUME NEW T, NEW seq \in Seq(T), NEW S, IsInjective(seq)
  PROVE  IsInjective(Those(seq, S))
<1> DEFINE n == Len(seq)
           ss == [i \in DOMAIN seq |->
                    IF seq[i] \in S THEN <<seq[i]>> ELSE <<>>]
<1>1. n \in Nat /\ DOMAIN seq = 1 .. n /\ \A i \in 1 .. n : seq[i] \in T
  OBVIOUS
<1>2. \A i \in 1 .. n : ss[i] = IF seq[i] \in S THEN <<seq[i]>> ELSE <<>>
  BY <1>1, Zenon
<1>3. ASSUME NEW i \in 1 .. n
      PROVE  /\ ss[i] \in Seq(T) /\ IsInjective(ss[i])
             /\ Range(ss[i]) \subseteq {seq[i]}
  <2>1. CASE seq[i] \in S
    <3> DEFINE x == seq[i]
    <3>1. ss[i] = <<x>> /\ x \in T
      BY <1>1, <1>2, <2>1, Zenon
    <3> HIDE DEF x, ss
    <3>2. <<x>> \in Seq(T) /\ IsInjective(<<x>>)
      BY <3>1 DEF IsInjective
    <3> QED BY <3>1, <3>2, RangeShort DEF x
  <2>2. CASE seq[i] \notin S
    <3>1. ss[i] = <<>>
      BY <1>2, <2>2, Zenon
    <3>2. <<>> \in Seq(T) /\ IsInjective(<<>>)
      BY DEF IsInjective
    <3> QED BY <3>1, <3>2, RangeShort, Zenon
  <2> QED BY <2>1, <2>2
<1>4. DOMAIN ss = 1 .. n /\ ss = [i \in 1 .. n |-> ss[i]]
  BY <1>1
<1>5. Those(seq, S) = Flatten(ss)
  BY DEF Those
<1> HIDE DEF ss
<1>6. ss \in [1 .. n -> Seq(T)]
  BY <1>3, <1>4
<1>7. \A i, j \in 1 .. n : i # j => Range(ss[i]) \cap Range(ss[j]) = {}
  <2>1. \A i, j \in 1 .. n : seq[i] = seq[j] => i = j
    BY <1>1, Zenon DEF IsInjective
  <2> QED BY <1>3, <2>1
<1> HIDE DEF n
<1>8. IsInjective(Flatten(ss))
  BY <1>1, <1>3, <1>6, <1>7, FlattenInjective
<1> QED BY <1>5, <1>8

\* What is in the place of a model, in a list that is flattened.
InPlace(desc, m, part) ==
  IF Atomic(desc, m) THEN {m} ELSE Range(desc[m][part])

\* Spread lists what is in the place of each model, each once.
LEMMA SpreadAre ==
  ASSUME NEW desc, NEW part, NEW C, NEW ms \in Seq(C), NEW T,
         \A m \in C : IF Atomic(desc, m) THEN m \in T
                      ELSE desc[m][part] \in Seq(T)
  PROVE  /\ Spread(desc, ms, part) \in Seq(T)
         /\ Range(Spread(desc, ms, part)) =
              UNION {InPlace(desc, m, part) : m \in Range(ms)}
         /\ (/\ IsInjective(ms)
             /\ \A m \in C : ~ Atomic(desc, m) => IsInjective(desc[m][part])
             /\ \A m, k \in C : m # k =>
                  InPlace(desc, m, part) \cap InPlace(desc, k, part) = {})
            => IsInjective(Spread(desc, ms, part))
<1> DEFINE n == Len(ms)
           ss == [i \in DOMAIN ms |->
                    IF Atomic(desc, ms[i]) THEN <<ms[i]>>
                    ELSE desc[ms[i]][part]]
           R(m) == InPlace(desc, m, part)
<1>1. /\ n \in Nat /\ DOMAIN ms = 1 .. n
      /\ \A i \in 1 .. n : ms[i] \in C /\ ms[i] \in Range(ms)
      /\ \A x \in Range(ms) : \E i \in 1 .. n : ms[i] = x
  BY SeqAt
<1>2. \A i \in 1 .. n : ss[i] = IF Atomic(desc, ms[i]) THEN <<ms[i]>>
                                ELSE desc[ms[i]][part]
  BY <1>1, Zenon
<1>3. ASSUME NEW i \in 1 .. n
      PROVE  /\ ss[i] \in Seq(T) /\ Range(ss[i]) = R(ms[i])
             /\ (Atomic(desc, ms[i]) \/ IsInjective(desc[ms[i]][part]))
                => IsInjective(ss[i])
  <2> DEFINE m == ms[i]
             u == ss[i]
             d == desc[m][part]
  <2>1. /\ m \in C /\ u = IF Atomic(desc, m) THEN <<m>> ELSE d
        /\ R(m) = IF Atomic(desc, m) THEN {m} ELSE Range(d)
        /\ IF Atomic(desc, m) THEN m \in T ELSE d \in Seq(T)
    BY <1>1, <1>2 DEF InPlace
  <2> HIDE DEF u, d, R, ss
  <2>2. CASE Atomic(desc, m)
    <3> HIDE DEF m
    <3>1. <<m>> \in Seq(T) /\ IsInjective(<<m>>) /\ Range(<<m>>) = {m}
      BY <2>1, <2>2, RangeShort DEF IsInjective
    <3> QED BY <2>1, <2>2, <3>1 DEF u, m
  <2>3. CASE ~ Atomic(desc, m)
    BY <2>1, <2>3 DEF u, d
  <2> QED BY <2>2, <2>3
<1>4. DOMAIN ss = 1 .. n /\ ss = [i \in 1 .. n |-> ss[i]]
  BY <1>1
<1>5. Spread(desc, ms, part) = Flatten(ss)
  BY DEF Spread
<1> HIDE DEF ss, R
<1>6. ss \in [1 .. n -> Seq(T)]
  BY <1>3, <1>4
<1>7. /\ Flatten(ss) \in Seq(T)
      /\ Range(Flatten(ss)) = UNION {Range(ss[i]) : i \in 1 .. n}
  <2> HIDE DEF n
  <2> QED BY <1>1, <1>6, FlattenRange
<1>8. UNION {Range(ss[i]) : i \in 1 .. n} = UNION {R(m) : m \in Range(ms)}
  BY <1>1, <1>3
<1>9. ASSUME IsInjective(ms),
             \A m \in C : ~ Atomic(desc, m) => IsInjective(desc[m][part]),
             \A m, k \in C : m # k => R(m) \cap R(k) = {}
      PROVE  IsInjective(Flatten(ss))
  <2>1. \A i, j \in 1 .. n : ms[i] = ms[j] => i = j
    BY <1>1, <1>9, Zenon DEF IsInjective
  <2>2. \A i, j \in 1 .. n : i # j => Range(ss[i]) \cap Range(ss[j]) = {}
    BY <1>1, <1>3, <1>9, <2>1
  <2>3. \A i \in 1 .. n : IsInjective(ss[i])
    BY <1>1, <1>3, <1>9
  <2> HIDE DEF n
  <2> QED BY <1>1, <1>6, <2>2, <2>3, FlattenInjective
<1> QED BY <1>5, <1>7, <1>8, <1>9 DEF R

\* Pairs are pairs of all the elements.
LEMMA PairsAre ==
  ASSUME NEW A, NEW B, NEW ls \in Seq(A), NEW rs \in Seq(B)
  PROVE  /\ Pairs(ls, rs) \in Seq(A \X B)
         /\ Range(Pairs(ls, rs)) \subseteq Range(ls) \X Range(rs)
<1> DEFINE k == Len(ls)
           l == Len(rs)
           T == A \X B
           row == [i \in 1 .. k |-> [j \in 1 .. l |-> <<ls[i], rs[j]>>]]
<1>1. /\ k \in Nat /\ DOMAIN ls = 1 .. k
      /\ \A i \in 1 .. k : ls[i] \in A /\ ls[i] \in Range(ls)
      /\ l \in Nat /\ DOMAIN rs = 1 .. l
      /\ \A i \in 1 .. l : rs[i] \in B /\ rs[i] \in Range(rs)
  BY SeqAt
<1>2. Pairs(ls, rs) = Flatten(row)
  BY <1>1, Zenon DEF Pairs
<1>3. ASSUME NEW i \in 1 .. k
      PROVE  /\ row[i] \in Seq(T)
             /\ Range(row[i]) \subseteq Range(ls) \X Range(rs)
  <2> DEFINE x == ls[i]
             r == [j \in 1 .. l |-> <<x, rs[j]>>]
  <2>1. row[i] = r
    BY <1>1
  <2>2. x \in A /\ x \in Range(ls)
    BY <1>1
  <2> HIDE DEF x, row, k, l
  <2>3. r \in [1 .. l -> T]
    BY <1>1, <2>2
  <2>4. \A y \in Range(r) : y \in Range(ls) \X Range(rs)
    <3> TAKE y \in Range(r)
    <3>1. PICK j \in 1 .. l : r[j] = y
      BY RangeIs
    <3> QED BY <1>1, <2>2, <3>1
  <2> HIDE DEF r, T
  <2>5. r \in Seq(T)
    BY <1>1, <2>3, MapIsSeq
  <2> QED BY <2>1, <2>4, <2>5
<1>4. row = [i \in 1 .. k |-> row[i]]
  BY <1>1
<1> HIDE DEF row, T
<1>5. row \in [1 .. k -> Seq(T)]
  BY <1>3, <1>4
<1>6. /\ Flatten(row) \in Seq(T)
      /\ Range(Flatten(row)) = UNION {Range(row[i]) : i \in 1 .. k}
  <2> HIDE DEF k
  <2> QED BY <1>1, <1>5, FlattenRange
<1> QED BY <1>2, <1>3, <1>6 DEF T

\* The couplings of a flattened model lead from what it has to what it has,
\* and to nothing that was not sent to before.
LEMMA FlattenedCouplings ==
  ASSUME NEW desc, NEW M, NEW L, IsCoupled(desc[TOP]),
         \A m \in Children(desc, TOP) :
           IF Atomic(desc, m) THEN m \in M
           ELSE /\ IsCoupled(desc[m]) /\ Children(desc, m) \subseteq M
                /\ Receivers(desc[m]) \subseteq L,
         Receivers(desc[TOP]) \subseteq L
  PROVE  LET d == FlattenedCoupled(desc, desc[TOP])
         IN /\ d.eic \in Seq(M) /\ d.eoc \in Seq(M) /\ d.ic \in Seq(M \X M)
            /\ Receivers(d) \subseteq L
            /\ desc[TOP].eic = <<>> => d.eic = <<>>
<1> DEFINE C == Children(desc, TOP)
           d0 == desc[TOP]
           T == M \X M
           ends == [i \in DOMAIN d0.ic |-> Ends(desc, d0.ic[i])]
           inner == [i \in DOMAIN d0.models |->
                       IF Atomic(desc, d0.models[i]) THEN <<>>
                       ELSE desc[d0.models[i]].ic]
           d == FlattenedCoupled(desc, d0)
<1>1. /\ d.eic = Spread(desc, d0.eic, "eic")
      /\ d.eoc = Spread(desc, d0.eoc, "eoc")
      /\ d.ic = Flatten(inner) \o Flatten(ends)
  BY DEF FlattenedCoupled, InnerCouplings
<1> HIDE DEF d
<1>2. /\ d0.models \in Seq(C) /\ d0.eic \in Seq(C) /\ d0.eoc \in Seq(C)
      /\ d0.ic \in Seq(C \X C)
  BY DEF IsCoupled, Children
<1>3. ASSUME NEW m \in C, ~ Atomic(desc, m)
      PROVE  /\ desc[m].eic \in Seq(M) /\ desc[m].eoc \in Seq(M)
             /\ desc[m].ic \in Seq(T)
             /\ Range(desc[m].eic) \subseteq L
             /\ \A x \in Range(desc[m].ic) : x[2] \in L
  <2> DEFINE k == Children(desc, m)
             a == desc[m].eic
             b == desc[m].eoc
             e == desc[m].ic
  <2>1. /\ k \subseteq M /\ a \in Seq(k) /\ b \in Seq(k) /\ e \in Seq(k \X k)
        /\ Receivers(desc[m]) \subseteq L
    BY <1>3 DEF IsCoupled, Children
  <2>2. Range(a) \subseteq L /\ \A x \in Range(e) : x[2] \in L
    BY <2>1 DEF Receivers
  <2> HIDE DEF k, a, b, e
  <2>3. k \X k \subseteq T
    BY <2>1
  <2>4. a \in Seq(M) /\ b \in Seq(M) /\ e \in Seq(T)
    <3> HIDE DEF T
    <3> QED BY <2>1, <2>3, SeqMonotonic
  <2> QED BY <2>2, <2>4 DEF a, b, e
<1>4. ASSUME NEW ms \in Seq(C)
      PROVE  /\ Spread(desc, ms, "eoc") \in Seq(M)
             /\ Spread(desc, ms, "eic") \in Seq(M)
             /\ Range(Spread(desc, ms, "eic")) =
                  UNION {InPlace(desc, m, "eic") : m \in Range(ms)}
  <2>1. \A m \in C : IF Atomic(desc, m) THEN m \in M
                     ELSE desc[m]["eoc"] \in Seq(M)
    BY <1>3
  <2>2. \A m \in C : IF Atomic(desc, m) THEN m \in M
                     ELSE desc[m]["eic"] \in Seq(M)
    BY <1>3
  <2> HIDE DEF C
  <2> QED BY <2>1, <2>2, SpreadAre
<1>5. ASSUME NEW m \in C, m \in Receivers(d0)
      PROVE  InPlace(desc, m, "eic") \subseteq L
  BY <1>3, <1>5 DEF InPlace
<1>6. \A m \in Range(d0.eic) : m \in Receivers(d0) /\ m \in C
  BY <1>2, RangeOfSeq, SMTT(30) DEF Receivers
<1>7. /\ d.eic \in Seq(M) /\ d.eoc \in Seq(M) /\ Range(d.eic) \subseteq L
  BY <1>1, <1>2, <1>4, <1>5, <1>6, SMTT(30)
<1>8. d0.eic = <<>> => d.eic = <<>>
  <2> SUFFICES ASSUME d0.eic = <<>> PROVE d.eic = <<>>
    OBVIOUS
  <2>1. Range(d0.eic) = {}
    BY RangeShort
  <2>2. Range(Spread(desc, d0.eic, "eic")) = {}
    <3> DEFINE ms == d0.eic
    <3>1. ms \in Seq(C) /\ Range(ms) = {}
      BY <1>2, <2>1
    <3> HIDE DEF ms, C
    <3>2. Range(Spread(desc, ms, "eic")) =
            UNION {InPlace(desc, m, "eic") : m \in Range(ms)}
      BY <1>4, <3>1
    <3>3. Range(Spread(desc, ms, "eic")) = {}
      BY <3>1, <3>2, SMTT(30)
    <3> QED BY <3>3 DEF ms
  <2> DEFINE q == d.eic
  <2>3. q \in Seq(M) /\ Range(q) = {}
    BY <1>1, <1>7, <2>2
  <2> HIDE DEF q
  <2>4. q = <<>>
    BY <2>3, SeqAt
  <2> QED BY <2>4 DEF q
<1> DEFINE P == {x \in T : x[2] \in L}
<1>9. Flatten(inner) \in Seq(P)
  <2> DEFINE n == Len(d0.models)
  <2>1. /\ n \in Nat /\ DOMAIN d0.models = 1 .. n
        /\ \A i \in 1 .. n : d0.models[i] \in C
    BY <1>2
  <2>2. ASSUME NEW i \in 1 .. n PROVE inner[i] \in Seq(P)
    <3>1. inner[i] = IF Atomic(desc, d0.models[i]) THEN <<>>
                     ELSE desc[d0.models[i]].ic
      BY <2>1, Zenon
    <3>2. CASE Atomic(desc, d0.models[i])
      BY <3>1, <3>2, EmptySeq
    <3>3. CASE ~ Atomic(desc, d0.models[i])
      <4> DEFINE e == desc[d0.models[i]].ic
      <4>1. e \in Seq(T) /\ \A x \in Range(e) : x[2] \in L
        BY <1>3, <2>1, <3>3
      <4>2. inner[i] = e
        BY <3>1, <3>3, Zenon
      <4> HIDE DEF e, T, inner
      <4>3. e \in Seq(P)
        BY <4>1, SeqAt
      <4> QED BY <4>2, <4>3
    <3> QED BY <3>2, <3>3
  <2>3. inner = [i \in 1 .. n |-> inner[i]]
    BY <2>1
  <2> HIDE DEF inner, n, P
  <2>4. inner \in [1 .. n -> Seq(P)]
    BY <2>2, <2>3
  <2> QED BY <2>1, <2>4, FlattenRange
<1>10. Flatten(ends) \in Seq(P)
  <2> DEFINE n == Len(d0.ic)
  <2>1. /\ n \in Nat /\ DOMAIN d0.ic = 1 .. n
        /\ \A i \in 1 .. n : d0.ic[i] \in C \X C /\ d0.ic[i] \in Range(d0.ic)
    <3> DEFINE q == d0.ic
               CC == C \X C
    <3>1. q \in Seq(CC)
      BY <1>2
    <3> HIDE DEF q, CC
    <3>2. /\ Len(q) \in Nat /\ DOMAIN q = 1 .. Len(q)
          /\ \A i \in 1 .. Len(q) : q[i] \in CC /\ q[i] \in Range(q)
      BY <3>1, SeqAt
    <3> QED BY <3>2 DEF q, CC
  <2>2. ASSUME NEW i \in 1 .. n PROVE ends[i] \in Seq(P)
    <3> DEFINE x == d0.ic[i][1]
               y == d0.ic[i][2]
               a == Spread(desc, <<x>>, "eoc")
               b == Spread(desc, <<y>>, "eic")
    <3>1. x \in C /\ y \in C /\ y \in Receivers(d0)
      BY <2>1 DEF Receivers
    <3>2. ends[i] = Pairs(a, b)
      BY <2>1, Zenon DEF Ends
    <3> HIDE DEF x, y, C, d0, ends
    <3>3. <<x>> \in Seq(C) /\ <<y>> \in Seq(C) /\ Range(<<y>>) = {y}
      BY <3>1, RangeShort
    <3>4. a \in Seq(M) /\ b \in Seq(M) /\ Range(b) = InPlace(desc, y, "eic")
      BY <1>4, <3>3, ZenonT(60)
    <3>5. Range(b) \subseteq L
      BY <1>5, <3>1, <3>4
    <3> HIDE DEF a, b
    <3> DEFINE q == Pairs(a, b)
    <3>6. q \in Seq(T) /\ Range(q) \subseteq Range(a) \X Range(b)
      BY <3>4, PairsAre
    <3> HIDE DEF q
    <3>7. \A z \in Range(q) : z[2] \in L
      BY <3>5, <3>6
    <3> HIDE DEF T
    <3>8. q \in Seq(P)
      BY <3>6, <3>7, SeqAt
    <3> QED BY <3>2, <3>8 DEF q
  <2>3. ends = [i \in 1 .. n |-> ends[i]]
    BY <2>1
  <2> HIDE DEF ends, n, P
  <2>4. ends \in [1 .. n -> Seq(P)]
    BY <2>2, <2>3
  <2> QED BY <2>1, <2>4, FlattenRange
<1>11. d.ic \in Seq(T) /\ \A x \in Range(d.ic) : x[2] \in L
  <2> DEFINE a == Flatten(inner)
             b == Flatten(ends)
             q == a \o b
  <2>1. d.ic = q /\ a \in Seq(P) /\ b \in Seq(P)
    BY <1>1, <1>9, <1>10
  <2> HIDE DEF a, b, P
  <2>2. q \in Seq(P)
    BY <2>1, ConcatProperties
  <2> HIDE DEF q
  <2>3. P \subseteq T /\ \A x \in P : x[2] \in L
    BY DEF P
  <2> HIDE DEF T
  <2>4. q \in Seq(T) /\ Range(q) \subseteq P
    BY <2>2, <2>3, SeqMonotonic, RangeOfSeq
  <2> QED BY <2>1, <2>3, <2>4
<1>12. Receivers(d) \subseteq L
  BY <1>7, <1>11 DEF Receivers
<1> QED BY <1>7, <1>8, <1>11, <1>12 DEF d

\* A flattened description is one of a tree with the same atomic models.
IsFlat(F, desc, depth, height) ==
  /\ IsDesc(F, depth, height) /\ Atoms(F) = Atoms(desc)
  /\ \A c \in DOMAIN F : \A m \in Receivers(F[c]) :
       \E b \in DOMAIN desc : m \in Receivers(desc[b])
  /\ desc[TOP].eic = <<>> => F[TOP].eic = <<>>

\* Flattening the top model leaves a tree.
LEMMA FlattenedIs ==
  ASSUME NEW desc, NEW depth, NEW height, IsDesc(desc, depth, height)
  PROVE  \E down : IsFlat(Flattened(desc), desc, down, height)
<1> DEFINE D == DOMAIN desc
           N == Nodes(desc)
           C == Children(desc, TOP)
           F == Flattened(desc)
           M == UNION {InPlace(desc, m, "models") : m \in C}
           L == UNION {Receivers(desc[b]) : b \in D}
           down == [n \in Nodes(F) |->
                      IF depth[n] =< 1 THEN depth[n] ELSE depth[n] - 1]
<1>1. /\ TOP \in D /\ height \in Nat /\ depth \in [N -> 0 .. height]
      /\ D \subseteq N
      /\ \A c \in D : \A m \in Children(desc, c) :
           /\ m \in N /\ depth[m] = depth[c] + 1
           /\ \A b \in D : m \in Children(desc, b) => b = c
      /\ \A n \in N \ {TOP} : \E c \in D : n \in Children(desc, c)
      /\ TOP \notin C
  BY TreeIs
<1>2. /\ \A n \in N : depth[n] \in Nat /\ depth[n] =< height
                      /\ (depth[n] = 0 <=> n = TOP)
      /\ \A c \in D : IsCoupled(desc[c])
  BY <1>1 DEF IsDesc, IsTree
<1>3. /\ DOMAIN F = D \ C /\ TOP \in D \ C
      /\ \A c \in D \ C : c # TOP => F[c] = desc[c]
      /\ F[TOP] = FlattenedCoupled(desc, desc[TOP])
  BY <1>1 DEF Flattened, Children
<1>4. \A m \in C : IF Atomic(desc, m) THEN m \in M
                   ELSE /\ m \in D /\ IsCoupled(desc[m])
                        /\ Children(desc, m) \subseteq M
                        /\ Receivers(desc[m]) \subseteq L
  BY <1>2 DEF InPlace, Children, Atomic
<1>5. /\ F[TOP].eic \in Seq(M) /\ F[TOP].eoc \in Seq(M)
      /\ F[TOP].ic \in Seq(M \X M)
      /\ Receivers(F[TOP]) \subseteq L
      /\ desc[TOP].eic = <<>> => F[TOP].eic = <<>>
  <2>1. IsCoupled(desc[TOP]) /\ Receivers(desc[TOP]) \subseteq L
    BY <1>1, <1>2
  <2> HIDE DEF M, L, F
  <2> QED BY <1>3, <1>4, <2>1, FlattenedCouplings
<1>6. /\ F[TOP].models \in Seq(M) /\ Range(F[TOP].models) = M
      /\ IsInjective(F[TOP].models)
  <2> DEFINE ms == desc[TOP].models
             q == Spread(desc, ms, "models")
  <2>1. F[TOP].models = q
    BY <1>3 DEF FlattenedCoupled
  <2>2. ms \in Seq(C) /\ IsInjective(ms) /\ Range(ms) = C
    BY <1>1, <1>2 DEF IsCoupled, Children
  <2>3. \A m \in C : IF Atomic(desc, m) THEN m \in M
                     ELSE desc[m]["models"] \in Seq(M)
    <3> SUFFICES ASSUME NEW m \in C, ~ Atomic(desc, m)
                 PROVE  desc[m].models \in Seq(M)
      BY <1>4
    <3> DEFINE K == Children(desc, m)
               e == desc[m].models
    <3>1. e \in Seq(K) /\ K \subseteq M
      BY <1>4 DEF IsCoupled, Children
    <3> HIDE DEF K, e, M
    <3>2. e \in Seq(M)
      BY <3>1, SeqMonotonic
    <3> QED BY <3>2 DEF e
  <2>4. \A m \in C : ~ Atomic(desc, m) => IsInjective(desc[m]["models"])
    BY <1>4 DEF IsCoupled
  <2>5. ASSUME NEW m \in C, NEW k \in C, m # k
        PROVE  InPlace(desc, m, "models") \cap InPlace(desc, k, "models") = {}
    <3>1. /\ depth[m] = depth[TOP] + 1 /\ depth[k] = depth[TOP] + 1
          /\ depth[TOP] = 0 /\ m \in N /\ k \in N
      BY <1>1, <1>2
    <3>2. ~ Atomic(desc, m) =>
            InPlace(desc, m, "models") = Children(desc, m) /\ m \in D
      BY DEF InPlace, Children, Atomic
    <3>3. ~ Atomic(desc, k) =>
            InPlace(desc, k, "models") = Children(desc, k) /\ k \in D
      BY DEF InPlace, Children, Atomic
    <3>4. Atomic(desc, m) => InPlace(desc, m, "models") = {m}
      BY DEF InPlace
    <3>5. Atomic(desc, k) => InPlace(desc, k, "models") = {k}
      BY DEF InPlace
    <3>6. m \in D => \A x \in Children(desc, m) : depth[x] = 2
      BY <1>1, <3>1
    <3>7. k \in D => \A x \in Children(desc, k) : depth[x] = 2
      BY <1>1, <3>1
    <3> QED BY <1>1, <2>5, <3>1, <3>2, <3>3, <3>4, <3>5, <3>6, <3>7
  <2> HIDE DEF C, M, ms
  <2>6. /\ q \in Seq(M) /\ IsInjective(q)
        /\ Range(q) = UNION {InPlace(desc, m, "models") : m \in Range(ms)}
    BY <2>2, <2>3, <2>4, <2>5, SpreadAre
  <2> QED BY <2>1, <2>2, <2>6 DEF M
<1>7. ASSUME NEW c \in D \ C, c # TOP
      PROVE  F[c] = desc[c] /\ Children(F, c) = Children(desc, c)
             /\ depth[c] >= 2
  <2>1. PICK b \in D : c \in Children(desc, b)
    BY <1>1, <1>7
  <2>2. b # TOP
    BY <1>7, <2>1
  <2>3. depth[c] = depth[b] + 1 /\ depth[b] # 0 /\ depth[b] \in Nat
    BY <1>1, <1>2, <2>1, <2>2
  <2> QED BY <1>3, <1>7, <2>3 DEF Children
<1>8. Children(F, TOP) = M
  BY <1>6 DEF Children
<1>9. \A m \in M : \/ m \in C /\ m \notin D /\ depth[m] = 1 /\ m \in N
                   \/ /\ depth[m] = 2 /\ m \in N
                      /\ \E k \in C : k \in D /\ m \in Children(desc, k)
  <2> TAKE m \in M
  <2>1. PICK k \in C : m \in InPlace(desc, k, "models")
    OBVIOUS
  <2>2. depth[k] = 1 /\ k \in N
    BY <1>1, <1>2
  <2>3. CASE Atomic(desc, k)
    BY <2>1, <2>2, <2>3 DEF InPlace, Atomic
  <2>4. CASE ~ Atomic(desc, k)
    <3>1. k \in D /\ m \in Children(desc, k)
      BY <2>1, <2>4 DEF InPlace, Atomic, Children
    <3> QED BY <1>1, <2>2, <3>1
  <2> QED BY <2>3, <2>4
<1>10. Nodes(F) = N \ (C \cap D)
  <2>1. Nodes(F) = (D \ C) \cup UNION {Children(F, c) : c \in D \ C}
    BY <1>3, Zenon DEF Nodes, Children
  <2>2. ASSUME NEW n \in Nodes(F) PROVE n \in N \ (C \cap D)
    <3>1. CASE n \in D \ C
      BY <1>1, <3>1
    <3>2. CASE n \in M
      <4>1. \A m \in C : depth[m] = 1
        BY <1>1, <1>2
      <4> QED BY <1>9, <3>2, <4>1
    <3>3. ASSUME NEW c \in D \ C, c # TOP, n \in Children(F, c)
          PROVE  n \in N \ (C \cap D)
      BY <1>1, <1>7, <3>3
    <3> QED BY <1>8, <2>1, <3>1, <3>2, <3>3
  <2>3. ASSUME NEW n \in N \ (C \cap D) PROVE n \in Nodes(F)
    <3>1. CASE n \in D
      BY <2>1, <3>1
    <3>2. CASE n \notin D
      <4>1. PICK c \in D : n \in Children(desc, c)
        BY <1>1, <3>2
      <4>2. CASE c = TOP
        BY <1>3, <1>4, <1>8, <2>1, <3>2, <4>1, <4>2 DEF Atomic
      <4>3. CASE c \in C
        <5>1. ~ Atomic(desc, c)
          BY <4>1 DEF Atomic
        <5> QED BY <1>3, <1>4, <1>8, <2>1, <4>1, <4>3, <5>1
      <4>4. CASE c \in D \ C /\ c # TOP
        BY <1>7, <2>1, <4>1, <4>4
      <4> QED BY <4>2, <4>3, <4>4
    <3> QED BY <3>1, <3>2
  <2> QED BY <2>2, <2>3
<1> HIDE DEF F, M, L
<1>11. Atoms(F) = Atoms(desc)
  BY <1>3, <1>10 DEF Atoms, Atomic
<1>12. \A c \in DOMAIN F : IsCoupled(F[c])
  <2>1. IsCoupled(F[TOP])
    BY <1>5, <1>6 DEF IsCoupled
  <2> QED BY <1>2, <1>3, <2>1
<1>13. \A n \in Nodes(F) :
         /\ down[n] \in 0 .. height /\ (down[n] = 0 <=> n = TOP)
         /\ down[n] = IF depth[n] =< 1 THEN depth[n] ELSE depth[n] - 1
  <2> TAKE n \in Nodes(F)
  <2>1. down[n] = IF depth[n] =< 1 THEN depth[n] ELSE depth[n] - 1
    OBVIOUS
  <2>2. n \in N /\ height \in Nat
    BY <1>1, <1>10
  <2> HIDE DEF down
  <2> QED BY <1>2, <2>1, <2>2
<1>14. ASSUME NEW n \in Nodes(F) \ {TOP}
       PROVE  \E c \in DOMAIN F : n \in Range(F[c].models)
  <2>1. PICK c \in D : n \in Children(desc, c)
    BY <1>1, <1>10
  <2>2. CASE c = TOP
    <3>1. n \notin D
      BY <1>10, <2>1, <2>2
    <3>2. n \in M
      BY <1>4, <2>1, <2>2, <3>1 DEF Atomic
    <3> QED BY <1>3, <1>6, <3>2
  <2>3. CASE c \in C
    <3>1. n \in M
      BY <1>4, <2>1, <2>3 DEF Atomic
    <3> QED BY <1>3, <1>6, <3>1
  <2>4. CASE c \in D \ C /\ c # TOP
    BY <1>3, <2>1, <2>4 DEF Children
  <2> QED BY <2>2, <2>3, <2>4
<1>15. ASSUME NEW c \in DOMAIN F, NEW m \in Children(F, c)
       PROVE  /\ down[m] = down[c] + 1
              /\ \A b \in DOMAIN F : m \in Children(F, b) => b = c
  <2>1. m \in Nodes(F) /\ c \in Nodes(F) /\ m \in N /\ c \in N
    BY <1>10, <1>15 DEF Nodes, Children
  <2>2. ASSUME NEW b \in D \ C, b # TOP, m \in Children(desc, b)
        PROVE  m \notin M
    BY <1>1, <1>9, <2>2
  <2>3. CASE c = TOP
    <3>1. m \in M /\ down[c] = 0
      BY <1>8, <1>13, <2>1, <2>3
    <3>2. down[m] = 1
      BY <1>9, <1>13, <2>1, <3>1
    <3>3. \A b \in DOMAIN F : m \in Children(F, b) => b = c
      BY <1>3, <1>7, <2>2, <2>3, <3>1
    <3> QED BY <3>1, <3>2, <3>3
  <2>4. CASE c # TOP
    <3>1. c \in D \ C /\ m \in Children(desc, c) /\ depth[c] >= 2
      BY <1>3, <1>7, <1>15, <2>4
    <3>2. depth[m] = depth[c] + 1 /\ depth[c] \in Nat
      BY <1>1, <1>2, <3>1
    <3>3. down[m] = depth[m] - 1 /\ down[c] = depth[c] - 1
      BY <1>13, <2>1, <3>1, <3>2
    <3>4. \A b \in DOMAIN F : m \in Children(F, b) => b = c
      BY <1>1, <1>3, <1>7, <1>8, <2>2, <2>4, <3>1
    <3> QED BY <3>2, <3>3, <3>4
  <2> QED BY <2>3, <2>4
<1>16. down \in [Nodes(F) -> 0 .. height]
  BY <1>13
<1> HIDE DEF down
<1>17. IsTree(F, down, height)
  BY <1>1, <1>3, <1>13, <1>14, <1>15, <1>16, Zenon DEF IsTree, Children
<1>18. IsDesc(F, down, height)
  BY <1>12, <1>17 DEF IsDesc
<1>19. ASSUME NEW c \in DOMAIN F, NEW m \in Receivers(F[c])
       PROVE  \E b \in DOMAIN desc : m \in Receivers(desc[b])
  BY <1>3, <1>5, <1>19 DEF L
<1>20. IsFlat(F, desc, down, height)
  BY <1>5, <1>11, <1>18, <1>19 DEF IsFlat
<1> QED BY <1>20, Zenon DEF F

----------------------------------------------------------------------------
(* The runner.                                                             *)

\* The inductive invariant: the description is that of a tree, and between
\* the passes nothing is left to do.
IInv ==
  /\ sim.queue \in Queues
  /\ \E depth, height : IsDesc(sim.desc, depth, height)
  /\ sim.desc[TOP].eic = <<>>
  /\ Idle(sim.desc, sim)

\* The simulation starts like that, flattened or not.
LEMMA InitIInv == Init => IInv
<1> SUFFICES ASSUME Init PROVE IInv
  OBVIOUS
<1>1. IsWorld(world) /\ Queues \subseteq {NULLQUEUE, FEL}
  BY SimulationAssumption DEF Init
<1> DEFINE D0 == world.desc
           model == world.model
           height == Cardinality(DOMAIN D0)
<1>2. /\ IsDesc(D0, Depths(D0), height) /\ D0[TOP].eic = <<>>
      /\ model \in [Atoms(D0) -> States]
      /\ \A c \in DOMAIN D0 : \A m \in Receivers(D0[c]) :
           Atomic(D0, m) => MayReceive(model[m])
  BY <1>1 DEF IsWorld, IsDesc, States, Longest
<1>3. PICK desc \in {D0, Flattened(D0)}, queue \in Queues :
        sim = Started(desc, model, queue)
  BY DEF Init
<1> HIDE DEF D0, model, height
<1>4. /\ \E depth : IsDesc(desc, depth, height)
      /\ desc[TOP].eic = <<>> /\ Atoms(desc) = Atoms(D0)
      /\ \A c \in DOMAIN desc : \A m \in Receivers(desc[c]) :
           m \in Atoms(desc) => MayReceive(model[m])
  <2>1. CASE desc = D0
    BY <1>2, <2>1 DEF Atoms
  <2>2. CASE desc = Flattened(D0)
    <3>1. PICK down : IsFlat(Flattened(D0), D0, down, height)
      BY <1>2, FlattenedIs
    <3>2. \A m \in Atoms(D0) : Atomic(D0, m)
      BY DEF Atoms
    <3> QED BY <1>2, <2>2, <3>1, <3>2 DEF IsFlat
  <2> QED BY <1>3, <2>1, <2>2
<1>5. PICK depth : IsDesc(desc, depth, height)
  BY <1>4
<1>6. Idle(desc, sim) /\ sim.queue = queue /\ sim.desc = desc
  BY <1>1, <1>2, <1>3, <1>4, <1>5, StartedIdle
<1> QED BY <1>3, <1>4, <1>6, Zenon DEF IInv

\* Every step leaves it so.
LEMMA NextIInv == IInv /\ [Next]_vars => IInv'
<1> SUFFICES ASSUME IInv, [Next]_vars PROVE IInv'
  OBVIOUS
<1>1. PICK depth, height : IsDesc(sim.desc, depth, height)
  BY DEF IInv
<1>2. CASE Step
  <2> DEFINE desc == sim.desc
             t == sim.next[TOP]
             r == AdvanceSimulation([sim EXCEPT !.called = {}], TOP, t)
  <2>1. t < End /\ sim' = r
    BY <1>2 DEF Step
  <2>2. Idle(desc, sim) /\ sim.queue \in Queues
    BY DEF IInv
  <2>3. Idle(desc, r) /\ r.queue = sim.queue /\ r.desc = desc
    BY <1>1, <2>1, <2>2, PassIsIdle
  <2>4. sim'.queue = sim.queue /\ sim'.desc = sim.desc
    BY <2>1, <2>3
  <2>5. Idle(sim'.desc, sim')
    BY <2>1, <2>3
  <2> HIDE DEF r, t, desc
  <2> QED BY <1>1, <2>2, <2>4, <2>5 DEF IInv, desc
<1>3. CASE UNCHANGED vars
  BY <1>3 DEF IInv, vars
<1> QED BY <1>2, <1>3 DEF Next, Returned

\* So it is always.
THEOREM InvariantHolds == Spec => []IInv
BY InitIInv, NextIInv, PTL DEF Spec

\* The parts of the tree between the passes.
LEMMA IdleParts ==
  ASSUME IInv
  PROVE  /\ sim \in Trees(sim.desc) /\ sim.asserted = TRUE
         /\ \A n \in Nodes(sim.desc) :
              /\ sim.last[n] \in 0 .. End /\ sim.next[n] \in 0 .. Infinity
              /\ sim.inbox[n] = <<>>
         /\ \A c \in DOMAIN sim.desc : Soonest(sim.desc, sim, c)
<1>1. Idle(sim.desc, sim)
  BY DEF IInv
<1>2. PICK depth, height : IsDesc(sim.desc, depth, height)
  BY DEF IInv
<1>3. sim \in Trees(sim.desc) /\ Sound(sim.desc, sim, sim.next[TOP])
  BY <1>1 DEF Idle, Sound
<1>4. TOP \in Nodes(sim.desc)
  BY <1>2, TreeIs
<1>5. sim.next \in [Nodes(sim.desc) -> Nat]
  BY <1>3, TreesAre
<1>6. sim.next[TOP] \in Nat
  BY <1>4, <1>5
<1>7. /\ sim.asserted = TRUE
      /\ \A n \in Nodes(sim.desc) :
           /\ sim.last[n] \in Nat /\ sim.next[n] \in Nat
           /\ sim.next[n] =< Infinity
  BY <1>3, <1>6, SoundIs
<1> QED BY <1>1, <1>3, <1>7, TimesAre DEF Idle

\* Times stay within their bounds, the future event lists hold what comes
\* later than the next time, and what is due is a sub-model: for every tree of
\* coordinators of either kind, flattened or not.
THEOREM TypeHolds == Spec => []TypeOK
<1>1. IInv => TypeOK
  <2> SUFFICES ASSUME IInv PROVE TypeOK
    OBVIOUS
  <2>1. /\ sim \in Trees(sim.desc)
        /\ \A n \in Nodes(sim.desc) :
             sim.last[n] \in 0 .. End /\ sim.next[n] \in 0 .. Infinity
        /\ \A c \in DOMAIN sim.desc : Soonest(sim.desc, sim, c)
    BY IdleParts
  <2> DEFINE desc == sim.desc
             N == Nodes(desc)
  <2>2. /\ sim.last \in [N -> Nat] /\ sim.next \in [N -> Nat]
        /\ \A c \in DOMAIN desc :
             Range(sim.inminents[c]) \subseteq Range(desc[c].models)
    BY <2>1, TreesAre DEF Children
  <2>3. sim.last \in [N -> 0 .. End] /\ sim.next \in [N -> 0 .. Infinity]
    BY <2>1, <2>2
  <2>4. ASSUME NEW c \in DOMAIN desc, NEW i \in DOMAIN sim.fel[c]
        PROVE  sim.fel[c][i][1] > sim.next[c]
    <3>1. sim.fel[c][i] \in Range(sim.fel[c])
      BY RangeIs
    <3> QED BY <2>1, <3>1 DEF Soonest
  <2> QED BY <2>2, <2>3, <2>4 DEF TypeOK, IInv
<1> QED BY <1>1, InvariantHolds, PTL

\* Every coordinator knows its soonest sub-model and, with a future event
\* list, has taken out exactly those that are due then, however many replaced
\* entries there are.
THEOREM CoordinatorsKnow == Spec => []NextIsSoonest
<1>1. IInv => NextIsSoonest
  <2> SUFFICES ASSUME IInv PROVE NextIsSoonest
    OBVIOUS
  <2>1. \A c \in DOMAIN sim.desc : Soonest(sim.desc, sim, c)
    BY IdleParts
  <2> QED BY <2>1 DEF NextIsSoonest, Soonest, Children
<1> QED BY <1>1, InvariantHolds, PTL

\* A pass leaves no message behind, and no assert on the times fails.
THEOREM NothingIsLeft == Spec => []PassesComplete
<1>1. IInv => PassesComplete
  <2> SUFFICES ASSUME IInv PROVE PassesComplete
    OBVIOUS
  <2>1. sim \in Trees(sim.desc) /\ sim.asserted = TRUE
        /\ \A n \in Nodes(sim.desc) : sim.inbox[n] = <<>>
    BY IdleParts
  <2>2. sim.inbox \in [Nodes(sim.desc) -> Seq(Nat)]
    BY <2>1, TreesAre
  <2>3. DOMAIN sim.inbox = Nodes(sim.desc)
    BY <2>2
  <2> QED BY <2>1, <2>3 DEF PassesComplete
<1> QED BY <1>1, InvariantHolds, PTL

----------------------------------------------------------------------------
(* A flat model that is polled.                                            *)

\* What a polled coordinator calls, when nothing is coupled to its input and
\* its sub-models are atomic: each of them at most once, those that are due,
\* and those with input.
IsNeeded(p, calls, t) ==
  /\ IsInjective(calls)
  /\ \A m \in Range(calls) : p.next[m] = t \/ p.inbox[m] # <<>>

\* A coordinator that polls atomic models calls only whom it has to.
LEMMA PolledCalls ==
  ASSUME NEW desc, NEW depth, NEW height, IsDesc(desc, depth, height),
         NEW t \in Nat, t < End, NEW s, Sound(desc, s, t),
         NEW c \in DOMAIN desc, desc[c].eic = <<>>, s.queue = NULLQUEUE,
         Children(desc, c) \subseteq Atoms(desc), s.next[c] = t
  PROVE  IsNeeded(Filled(s, c, t).s, Visits(s, c, t), t)
<1> DEFINE b == Begun(s, c, t)
           mail == Mail(s, c, t)
           R == Receivers(desc[c])
           N == Nodes(desc)
           C == Children(desc, c)
           D == Seq(Nat) \ {<<>>}
           due == Due(s, c, t)
           visit == Filled(s, c, t).visit
           p == Filled(s, c, t).s
<1>1. s \in Trees(desc) /\ c \in N /\ C \subseteq N
  BY SoundIs, TreeIs
<1>2. IsBegun(b, desc, s, c, t)
  BY <1>1, BegunIs
<1>3. due = Inminents(s, c) /\ due \in Seq(C)
      /\ \A m \in Range(due) : m \in C /\ s.next[m] = t
  <2>1. s.queue # FEL
    BY DEF NULLQUEUE, FEL
  <2>2. Inminents(s, c) \in Seq(C)
        /\ Range(Inminents(s, c)) = {m \in C : s.next[m] = s.next[c]}
    BY <1>1, <2>1, InminentsAre
  <2> QED BY <2>2 DEF Due
<1>4. IsInjective(due)
  <2> DEFINE ms == desc[c].models
             S == {m \in Range(ms) : s.next[m] = s.next[c]}
  <2>1. Inminents(s, c) = Those(ms, S)
    <3>1. s.desc = desc /\ s.queue # FEL
      BY <1>1, TreesAre DEF NULLQUEUE, FEL
    <3> QED BY <3>1 DEF Inminents
  <2>2. ms \in Seq(C) /\ IsInjective(ms)
    BY DEF IsDesc, IsCoupled, Children
  <2> HIDE DEF ms, S, C
  <2> QED BY <1>3, <2>1, <2>2, ThoseInjective
<1>5. mail \in Seq(R \X D)
  <2>1. \A m \in Range(Inminents(s, c)) : t = s.next[c] => Output(s, m, t) \in D
    <3> TAKE m \in Range(Inminents(s, c))
    <3>1. m \in Atoms(desc) /\ m \in N /\ s.next[m] = t
      BY <1>1, <1>3
    <3>2. Output(s, m, t) \in Seq(Nat) /\ Output(s, m, t) # <<>>
      BY <3>1, OutputTyped
    <3> QED BY <3>2
  <2> HIDE DEF D
  <2> QED BY <1>1, <2>1, MailIs
<1>6. R \subseteq C /\ R \in SUBSET N
  BY <1>1, ReceiversAre DEF IsDesc, Children
<1>7. IsPosted(Filled(s, c, t), desc, b, R, D, t)
  <2> HIDE DEF b, mail, R, N
  <2>1. Len(mail) \in Nat
    BY <1>5, SeqAt
  <2>2. PICK f : IsPosting(f, b, mail, t) /\ PostAll(b, mail, t) = f[Len(mail)]
    BY <2>1, PostStates
  <2>3. b \in Trees(desc) /\ R \in SUBSET N /\ D \in SUBSET Seq(Nat)
    BY <1>2, <1>6 DEF IsBegun
  <2> HIDE DEF D
  <2>4. IsPosted(f[Len(mail)], desc, b, R, D, t)
    BY <1>5, <2>2, <2>3, Posting DEF N
  <2>5. Filled(s, c, t) = f[Len(mail)]
    BY <2>2, Zenon DEF Filled, b, mail
  <2> QED BY <2>4, <2>5
<1>8. b.next = s.next /\ <<>> \notin D
  BY <1>2 DEF IsBegun
<1>9. /\ SameButInbox(p, b) /\ visit \in Seq(R) /\ IsInjective(visit)
      /\ \A m \in Range(visit) : s.next[m] # t /\ p.inbox[m] # <<>>
  BY <1>7, <1>8 DEF IsPosted
<1>10. p.next = s.next
  BY <1>8, <1>9 DEF SameButInbox
<1> HIDE DEF R, C, D, due, visit, p, mail, b
<1>11. visit \in Seq(C)
  BY <1>6, <1>9, SeqMonotonic
<1>12. Visits(s, c, t) = due \o visit
  BY DEF Visits, due, visit
<1>13. Range(due \o visit) = Range(due) \cup Range(visit)
  BY <1>3, <1>11, RangeOfBoth
<1>14. IsInjective(due \o visit)
  <2>1. Range(due) \cap Range(visit) = {}
    BY <1>3, <1>9
  <2> QED BY <1>3, <1>4, <1>9, <1>11, <2>1, JoinInjective
<1> QED BY <1>3, <1>9, <1>10, <1>12, <1>13, <1>14 DEF IsNeeded, p

\* Before the first call.
IsFresh(p) ==
  /\ p.queue = NULLQUEUE /\ p.called = {} /\ p.needless = FALSE

\* No call of them is needless.
LEMMA PolledNotNeedless ==
  ASSUME NEW desc, NEW depth, NEW height, IsDesc(desc, depth, height), NEW t,
         NEW c \in DOMAIN desc, Children(desc, c) \subseteq Atoms(desc),
         NEW calls \in Seq(Children(desc, c)), NEW p, IsFresh(p),
         IsNeeded(p, calls, t), NEW f,
         IsCalling(f, p, calls, c, Calls(desc, t)),
         \A i \in 0 .. Len(calls) : f[i] \in Trees(desc)
  PROVE  ~ f[Len(calls)].needless
<1> DEFINE n == Len(calls)
           Seen(i) == {calls[k] : k \in 1 .. i}
           Holds(s, i) ==
             /\ s.queue = NULLQUEUE /\ s.needless = FALSE
             /\ s.called = Seen(i)
             /\ \A m \in Atoms(desc) \ Seen(i) :
                  s.next[m] = p.next[m] /\ s.inbox[m] = p.inbox[m]
           S == {i \in Nat : Holds(f[i], i)}
<1>1. /\ n \in Nat /\ DOMAIN calls = 1 .. n
      /\ \A i \in 1 .. n : calls[i] \in Atoms(desc) /\ calls[i] \in Range(calls)
  BY SeqAt
<1>2. \A i, j \in 1 .. n : calls[i] = calls[j] => i = j
  BY <1>1, Zenon DEF IsNeeded, IsInjective
<1>3. 0 \in S
  <2>1. f[0] = p /\ Seen(0) = {}
    BY DEF IsCalling
  <2> QED BY <2>1 DEF IsFresh
<1>4. ASSUME NEW i \in 0 .. n - 1, i \in S PROVE i + 1 \in S
  <2>1. PICK j \in 1 .. n : j = i + 1 /\ j - 1 = i
    BY <1>1
  <2> DEFINE s == f[i]
             m == calls[j]
             r == Simulate(s, m, t)
  <2>2. i \in 0 .. n
    BY <1>1
  <2>3. s \in Trees(desc) /\ Holds(s, i) /\ m \in Atoms(desc)
        /\ m \in Range(calls)
    BY <1>1, <1>4, <2>2
  <2>4. f[j] = r
    <3>1. f[j] = Emplace(Calls(desc, t)[m][s], c, m)
      BY <2>1 DEF IsCalling
    <3>2. Calls(desc, t)[m][s] = r
      <4> DEFINE A(k, x) == IF Atomic(desc, k) THEN Simulate(x, k, t)
                            ELSE Coordinate(x, k, t, Calls(desc, t))
                 g == Calls(desc, t)
      <4>1. g = [k \in Nodes(desc) |-> [x \in Trees(desc) |-> A(k, x)]]
        BY CallsAre
      <4>2. m \in Nodes(desc) /\ Atomic(desc, m)
        BY <2>3 DEF Atoms
      <4>3. A(m, s) = r
        BY <4>2
      <4> HIDE DEF A, g, s, m, r
      <4>4. g[m][s] = A(m, s)
        BY <2>3, <4>1, <4>2
      <4> QED BY <4>3, <4>4 DEF g
    <3> HIDE DEF s, m, r
    <3>3. IsSimulated(r, s, m, t)
      BY <2>3, SimulateFields DEF r
    <3>4. r.queue # FEL
      BY <2>3, <3>3 DEF IsSimulated, NULLQUEUE, FEL
    <3> QED BY <3>1, <3>2, <3>4 DEF Emplace
  <2> HIDE DEF s, m, r
  <2>5. IsSimulated(r, s, m, t)
    BY <2>3, SimulateFields DEF r
  <2>6. m \notin Seen(i)
    <3>1. \A k \in 1 .. i : k \in 1 .. n /\ k # j
      BY <1>1, <2>1
    <3> QED BY <1>2, <3>1 DEF m
  <2>7. Runs(s, m, t)
    <3>1. s.next[m] = p.next[m] /\ s.inbox[m] = p.inbox[m]
      BY <2>3, <2>6
    <3> QED BY <2>3, <3>1 DEF IsNeeded, Runs
  <2>8. r.needless = FALSE /\ r.queue = NULLQUEUE
    BY <2>3, <2>5, <2>6, <2>7 DEF IsSimulated
  <2>9. Seen(j) = Seen(i) \cup {m}
    <3>1. \A k : k \in 1 .. j <=> k \in 1 .. i \/ k = j
      BY <1>1, <2>1
    <3> QED BY <3>1, Zenon DEF m
  <2>10. r.called = Seen(j)
    BY <2>3, <2>5, <2>9 DEF IsSimulated
  <2>11. ASSUME NEW k \in Atoms(desc) \ Seen(j)
         PROVE  r.next[k] = p.next[k] /\ r.inbox[k] = p.inbox[k]
    <3>1. k # m /\ k \in Atoms(desc) \ Seen(i)
      BY <2>9
    <3>2. /\ s.next \in [Nodes(desc) -> Nat]
          /\ s.inbox \in [Nodes(desc) -> Seq(Nat)]
      BY <2>3, TreesAre
    <3>3. r.next[k] = s.next[k] /\ r.inbox[k] = s.inbox[k]
      BY <2>5, <3>1, <3>2 DEF IsSimulated, Atoms
    <3> QED BY <2>3, <3>1, <3>3
  <2> HIDE DEF Seen
  <2>12. Holds(f[j], j)
    BY <2>4, <2>8, <2>10, <2>11
  <2> QED BY <2>1, <2>12
<1>5. n \in S
  <2> HIDE DEF S, n
  <2>1. n \in Nat
    BY <1>1
  <2>2. 0 .. n \subseteq S
    BY <1>3, <1>4, <2>1, CH!UpTo
  <2> QED BY <2>1, <2>2
<1> QED BY <1>5

IsPolledFlat(s) == DOMAIN s.desc = {TOP} /\ s.queue = NULLQUEUE

\* So a pass of a flat model that is polled makes no needless call.
LEMMA PassIsNeeded ==
  ASSUME NEW desc, NEW depth, NEW height, IsDesc(desc, depth, height),
         NEW s, Idle(desc, s), s.next[TOP] < End, desc[TOP].eic = <<>>,
         s.desc = desc, IsPolledFlat(s), s.needless = FALSE
  PROVE  LET r == AdvanceSimulation([s EXCEPT !.called = {}], TOP, s.next[TOP])
         IN r.needless = FALSE
<1> DEFINE t == s.next[TOP]
           q == [s EXCEPT !.called = {}]
           r == AdvanceSimulation(q, TOP, t)
           N == Nodes(desc)
           p == Filled(q, TOP, t).s
           calls == Visits(q, TOP, t)
           C == Children(desc, TOP)
           g == Calls(desc, t)
           e == CallAll(p, calls, TOP, g)
<1>1. /\ TOP \in N /\ TOP \in DOMAIN desc /\ s \in Trees(desc)
      /\ Sound(desc, s, t) /\ DOMAIN desc = {TOP} /\ s.queue = NULLQUEUE
  BY TreeIs DEF Idle, Sound, IsPolledFlat
<1>2. t \in Nat /\ t < End
  <2>1. s.next \in [N -> Nat]
    BY <1>1, TreesAre
  <2> QED BY <1>1, <2>1
<1>3. /\ q \in Trees(desc) /\ q.queue = s.queue /\ q.model = s.model
      /\ q.inbox = s.inbox /\ q.last = s.last /\ q.next = s.next
      /\ q.fel = s.fel /\ q.inminents = s.inminents
      /\ q.asserted = s.asserted /\ q.desc = desc
      /\ q.called = {} /\ q.needless = FALSE
  BY <1>1, ForgetIs
<1> HIDE DEF q
<1>4. Sound(desc, q, t)
  <2>1. \A m \in Atoms(desc) : AtomSound(q, m)
    BY <1>1, <1>3 DEF Sound, AtomSound
  <2> QED BY <1>1, <1>3, <2>1 DEF Sound
<1>5. \A c \in DOMAIN desc : Soonest(desc, q, c)
  BY <1>3, SoonestSame DEF Idle
<1>6. C \subseteq Atoms(desc)
  <2>1. \A m \in C : m \in N /\ m # TOP
    BY <1>1, TreeIs
  <2> QED BY <1>1, <2>1 DEF Atoms, Atomic
<1>7. r = Reschedule(e, TOP)
  <2>1. r = g[TOP][q]
    BY <1>3 DEF AdvanceSimulation
  <2> DEFINE A(k, x) == IF Atomic(desc, k) THEN Simulate(x, k, t)
                        ELSE Coordinate(x, k, t, Calls(desc, t))
  <2>2. g = [k \in N |-> [x \in Trees(desc) |-> A(k, x)]]
    BY <1>2, CallsAre
  <2>3. A(TOP, q) = Coordinate(q, TOP, t, g)
    BY <1>1 DEF Atomic
  <2> HIDE DEF A, g, r
  <2>4. g[TOP][q] = A(TOP, q)
    BY <1>1, <1>3, <2>2
  <2>5. Coordinate(q, TOP, t, g) = Reschedule(e, TOP)
    BY CoordinateIs
  <2> QED BY <2>1, <2>3, <2>4, <2>5
<1>8. IsFilled(p, desc, q, TOP, t)
  BY <1>1, <1>2, <1>4, <1>5, FilledIs
<1>9. IsNeeded(p, calls, t)
  BY <1>1, <1>2, <1>3, <1>4, <1>6, PolledCalls
<1>10. calls \in Seq(C)
  BY <1>1, <1>3, VisitsAre
<1>11. Underway(desc, depth, p, p, TOP, t, calls, 0)
  BY <1>1, <1>2, <1>4, <1>5, <1>8, CallStart
<1>12. \A m \in C : Keeps(desc, depth, m, t)
  <2>1. \A m \in C : m \in N
    BY <1>1, TreeIs
  <2> QED BY <1>2, <2>1, AllKeep
<1>13. ~ \E c \in DOMAIN desc : depth[c] > depth[TOP]
  <2>1. depth \in [N -> 0 .. height] /\ height \in Nat
    BY TreeIs
  <2>2. depth[TOP] \in Nat
    BY <1>1, <2>1
  <2> QED BY <1>1, <2>2
<1> HIDE DEF p, calls, C, r
<1>14. Len(calls) \in Nat
  BY <1>10, SeqAt
<1>15. PICK f : IsCalling(f, p, calls, TOP, g) /\ e = f[Len(calls)]
  <2> HIDE DEF g
  <2> QED BY <1>14, CallStates
<1>16. \A i \in 0 .. Len(calls) :
         Underway(desc, depth, p, f[i], TOP, t, calls, i)
  <2>1. IsCalling(f, p, calls, TOP, Calls(desc, t))
    BY <1>15
  <2>2. \A c \in DOMAIN desc : depth[c] > depth[TOP] => Soonest(desc, p, c)
    BY <1>13
  <2> HIDE DEF g, e, t
  <2>3. calls \in Seq(Children(desc, TOP))
        /\ \A m \in Children(desc, TOP) : Keeps(desc, depth, m, t)
    BY <1>10, <1>12 DEF C
  <2> QED BY <1>1, <1>2, <1>11, <2>1, <2>2, <2>3, CallingEach
<1>17. e.needless = FALSE
  <2>1. \A i \in 0 .. Len(calls) : f[i] \in Trees(desc)
    BY <1>16 DEF Underway, Sound
  <2>2. /\ p \in Trees(desc) /\ p.queue = NULLQUEUE /\ p.called = {}
        /\ p.needless = FALSE
    BY <1>1, <1>3, <1>8 DEF IsFilled, Sound
  <2>3. IsCalling(f, p, calls, TOP, Calls(desc, t))
    BY <1>15
  <2>4. calls \in Seq(Children(desc, TOP))
        /\ Children(desc, TOP) \subseteq Atoms(desc)
    BY <1>6, <1>10 DEF C
  <2> HIDE DEF g, e, t
  <2>5. f[Len(calls)].needless = FALSE
    <3>1. TOP \in DOMAIN desc
      BY <1>1
    <3>2. IsFresh(p)
      BY <2>2 DEF IsFresh
    <3>3. ~ f[Len(calls)].needless
      BY <1>9, <2>1, <2>3, <2>4, <3>1, <3>2, PolledNotNeedless
    <3>4. f[Len(calls)] \in Trees(desc)
      BY <1>14, <2>1
    <3>5. f[Len(calls)].needless \in BOOLEAN
      BY <3>4, TreesAre
    <3> QED BY <3>3, <3>5
  <2> QED BY <1>15, <2>5
<1>18. Sound(desc, e, t)
  <2>1. Len(calls) \in 0 .. Len(calls)
    BY <1>14
  <2> QED BY <1>15, <1>16, <2>1 DEF Underway
<1>19. IsRescheduled(r, desc, e, TOP)
  <2> HIDE DEF e, t
  <2> QED BY <1>1, <1>2, <1>7, <1>18, RescheduleIs
<1>20. r.needless = FALSE
  BY <1>17, <1>19 DEF IsRescheduled
<1> QED BY <1>20 DEF r, q

\* Polling the models of a single level never calls a simulator without a
\* reason: every call finds it due or with input, and is its only one in the
\* pass.
THEOREM FlatIsExact == Spec => []FlatNeverNeedless
<1>1. Init => FlatNeverNeedless
  BY DEF Init, Started, FlatNeverNeedless
<1>2. IInv /\ FlatNeverNeedless /\ [Next]_vars => FlatNeverNeedless'
  <2> SUFFICES ASSUME IInv, FlatNeverNeedless, [Next]_vars
               PROVE  FlatNeverNeedless'
    OBVIOUS
  <2>1. PICK depth, height : IsDesc(sim.desc, depth, height)
    BY DEF IInv
  <2>2. CASE Step
    <3> DEFINE t == sim.next[TOP]
               r == AdvanceSimulation([sim EXCEPT !.called = {}], TOP, t)
    <3>1. t < End /\ sim' = r
      BY <2>2 DEF Step
    <3>2. Idle(sim.desc, sim) /\ sim.desc[TOP].eic = <<>>
      BY DEF IInv
    <3>3. r.queue = sim.queue /\ r.desc = sim.desc
      BY <2>1, <3>1, <3>2, PassIsIdle
    <3>4. sim.needless \in BOOLEAN
      BY <3>2, TreesAre DEF Idle, Sound
    <3>5. IsPolledFlat(sim) => r.needless = FALSE
      <4> SUFFICES ASSUME IsPolledFlat(sim) PROVE r.needless = FALSE
        OBVIOUS
      <4>1. sim.needless = FALSE
        BY <3>4 DEF IsPolledFlat, FlatNeverNeedless, Flat
      <4> QED BY <2>1, <3>1, <3>2, <4>1, PassIsNeeded
    <3> HIDE DEF r
    <3>6. sim'.queue = sim.queue /\ sim'.desc = sim.desc
          /\ (IsPolledFlat(sim) => sim'.needless = FALSE)
      BY <3>1, <3>3, <3>5
    <3> QED BY <3>6 DEF FlatNeverNeedless, Flat, IsPolledFlat
  <2>3. CASE UNCHANGED vars
    BY <2>3 DEF FlatNeverNeedless, Flat, vars
  <2> QED BY <2>2, <2>3 DEF Next, Returned
<1> QED BY <1>1, <1>2, InvariantHolds, PTL DEF Spec
============================================================================
