--------------------------- MODULE OSSim_proofs ---------------------------
(***************************************************************************)
(* Theorems about OSSim, for every set of PIDs, memory, block sizes, times *)
(* of computation and number of calls, and both schedulers: what its runs  *)
(* check of the state holds in every state if the processes of the input   *)
(* file arrive together, none of them twice.  The inductive invariant IInv *)
(* says where the one running process is at any time, and which models may *)
(* have something to say in the same instant.  What one pass of the        *)
(* coordinator is comes first: which messages reach which model, and which *)
(* transition runs of each.                                                *)
(***************************************************************************)
EXTENDS OSSim, FiniteSetTheorems, SequenceTheorems, TLAPS

----------------------------------------------------------------------------
(* What is used throughout.                                                *)

\* Flatten is the loop that joins one bag to what it has.
Joined(s, t) == s \o t

CH == INSTANCE Handling_proofs WITH Handle <- Joined

\* Min picks it: a member of the set,
LEMMA MinIsMember ==
  ASSUME NEW S, S \subseteq Nat, S # {}
  PROVE  Min(S) \in S
BY CH!LeastExists, Zenon DEF Min

\* and no greater than any other.
LEMMA MinIsLeast ==
  ASSUME NEW S, S \subseteq Nat, NEW y \in S
  PROVE  Min(S) =< y
BY CH!LeastExists, Zenon DEF Min

\* Max picks the greatest number of a set of naturals up to n.
LEMMA MaxIsGreatest ==
  ASSUME NEW n \in Nat, NEW S \in SUBSET (0 .. n), S # {}
  PROVE  Max(S) \in S /\ \A y \in S : y =< Max(S)
<1> DEFINE T == {n - x : x \in S}
<1>1. T \subseteq Nat /\ T # {}
  <2>1. \A x \in S : n - x \in Nat
    OBVIOUS
  <2> QED BY <2>1
<1>2. PICK t \in T : \A y \in T : t =< y
  BY <1>1, CH!LeastExists
<1>3. PICK x \in S : t = n - x
  BY <1>2
<1>4. \A y \in S : x >= y
  <2> SUFFICES ASSUME NEW y \in S PROVE x >= y
    OBVIOUS
  <2>1. n - y \in T /\ x \in 0 .. n /\ y \in 0 .. n
    OBVIOUS
  <2>2. n - x =< n - y
    BY <1>2, <1>3, <2>1
  <2> QED BY <2>1, <2>2
<1>5. Max(S) \in S /\ \A y \in S : Max(S) >= y
  BY <1>4, Zenon DEF Max
<1>6. \A y \in S : y =< Max(S)
  BY <1>5
<1> QED BY <1>5, <1>6

\* PIDs are positive, times of computation and I/O are positive and finite.
LEMMA Bounds ==
  /\ Cardinality(Pids) \in Nat /\ Pids = 1 .. Cardinality(Pids)
  /\ Pids \subseteq Nat \ {0}
  /\ Infinity \in Nat \ {0}
  /\ ExecTimes \subseteq Nat \ {0} /\ Infinity \notin ExecTimes
  /\ IoTime \in Nat \ {0} /\ IoTime < Infinity
<1>1. Cardinality(Pids) \in Nat
  BY OSSimAssumption, FS_CardinalityType
<1> QED BY <1>1, OSSimAssumption, TimeAssumption, FunctionAssumption

----------------------------------------------------------------------------
(* The coordinator: the order of the models and what reaches an inbox.     *)

\* The models of a process, those of the first n, and the other models.
Three(p) == <<ProgramM(p), WriteM(p), ReadM(p)>>

ModelsUpTo(n) ==
  {ProgramM(p) : p \in 1 .. n} \cup {WriteM(p) : p \in 1 .. n}
    \cup {ReadM(p) : p \in 1 .. n}

Central == {Generator, KernelM, SciM, MemoryM}

\* A list of all the models of S, each once.
Lists(q, S) ==
  /\ q \in Seq(S)
  /\ \A m \in S : \E i \in DOMAIN q : q[i] = m
  /\ \A i, j \in DOMAIN q : q[i] = q[j] => i = j

\* Lists of different things, one after the other, list all of them.
LEMMA ListsConcat ==
  ASSUME NEW S, NEW T, NEW q, NEW r, Lists(q, S), Lists(r, T),
         \A s \in S : s \notin T
  PROVE  Lists(q \o r, S \cup T)
<1> DEFINE c == q \o r
           L == Len(q)
           R == Len(r)
<1>1. /\ q \in Seq(S) /\ r \in Seq(T) /\ L \in Nat /\ R \in Nat
      /\ DOMAIN q = 1 .. L /\ DOMAIN r = 1 .. R
  BY DEF Lists
<1>2. /\ DOMAIN c = 1 .. L + R
      /\ \A i \in 1 .. L : c[i] = q[i]
      /\ \A i \in 1 .. R : c[L + i] = r[i]
  BY <1>1
<1>3. c \in Seq(S \cup T)
  <2>1. q \in Seq(S \cup T) /\ r \in Seq(S \cup T)
    BY <1>1
  <2> QED BY <2>1, ConcatProperties
<1> HIDE DEF c, L, R
<1>4. \A i \in 1 .. L + R : i \in 1 .. L \/ \E k \in 1 .. R : i = L + k
  <2> SUFFICES ASSUME NEW i \in 1 .. L + R, i \notin 1 .. L
               PROVE  \E k \in 1 .. R : i = L + k
    OBVIOUS
  <2>1. i - L \in 1 .. R /\ i = L + (i - L)
    BY <1>1
  <2> QED BY <2>1
<1>5. \A i \in 1 .. L : i \in 1 .. L + R
  BY <1>1
<1>6. \A i \in 1 .. R : L + i \in 1 .. L + R
  BY <1>1
<1>7. \A m \in S \cup T : \E i \in DOMAIN c : c[i] = m
  <2>1. ASSUME NEW m \in S PROVE \E i \in DOMAIN c : c[i] = m
    <3>1. PICK i \in 1 .. L : q[i] = m
      BY <1>1 DEF Lists
    <3> QED BY <1>2, <1>5, <3>1
  <2>2. ASSUME NEW m \in T PROVE \E i \in DOMAIN c : c[i] = m
    <3>1. PICK i \in 1 .. R : r[i] = m
      BY <1>1 DEF Lists
    <3> QED BY <1>2, <1>6, <3>1
  <2> QED BY <2>1, <2>2
<1>8. ASSUME NEW i \in DOMAIN c, NEW j \in DOMAIN c, c[i] = c[j]
      PROVE  i = j
  <2>1. \A k \in 1 .. L : q[k] \in S
    BY <1>1
  <2>2. \A k \in 1 .. R : r[k] \in T
    BY <1>1
  <2>3. CASE i \in 1 .. L /\ j \in 1 .. L
    BY <1>1, <1>2, <1>8, <2>3 DEF Lists
  <2>4. CASE i \in 1 .. L /\ \E k \in 1 .. R : j = L + k
    BY <1>2, <1>8, <2>1, <2>2, <2>4
  <2>5. CASE j \in 1 .. L /\ \E k \in 1 .. R : i = L + k
    BY <1>2, <1>8, <2>1, <2>2, <2>5
  <2>6. ASSUME NEW k \in 1 .. R, NEW n \in 1 .. R, i = L + k, j = L + n
        PROVE  i = j
    <3>1. r[k] = r[n]
      BY <1>2, <1>8, <2>6
    <3> QED BY <1>1, <2>6, <3>1 DEF Lists
  <2> QED BY <1>2, <1>4, <2>3, <2>4, <2>5, <2>6
<1> QED BY <1>3, <1>7, <1>8 DEF Lists, c

\* No two models have the same name.
LEMMA ModelsDiffer ==
  /\ \A p, q : /\ ProgramM(p) # WriteM(q) /\ ProgramM(p) # ReadM(q)
               /\ WriteM(p) # ReadM(q)
               /\ ProgramM(p) = ProgramM(q) => p = q
               /\ WriteM(p) = WriteM(q) => p = q
               /\ ReadM(p) = ReadM(q) => p = q
  /\ \A p : /\ ProgramM(p) \notin Central /\ WriteM(p) \notin Central
            /\ ReadM(p) \notin Central
  /\ Generator # KernelM /\ Generator # SciM /\ Generator # MemoryM
  /\ KernelM # SciM /\ KernelM # MemoryM /\ SciM # MemoryM
BY DEF ProgramM, WriteM, ReadM, Central, Generator, KernelM, SciM, MemoryM

\* The models of a process are listed once each,
LEMMA ThreeLists ==
  ASSUME NEW p
  PROVE  Lists(Three(p), {ProgramM(p), WriteM(p), ReadM(p)})
<1> DEFINE a == ProgramM(p)
           b == WriteM(p)
           c == ReadM(p)
<1>1. a # b /\ a # c /\ b # c
  BY ModelsDiffer
<1> HIDE DEF a, b, c
<1>2. Lists(<<a, b, c>>, {a, b, c})
  BY <1>1 DEF Lists
<1> QED BY <1>2 DEF Three, a, b, c

\* and so are the four that there is one of.
LEMMA CentralLists ==
  Lists(<<Generator, KernelM, SciM, MemoryM>>, Central)
<1> DEFINE a == Generator
           b == KernelM
           c == SciM
           d == MemoryM
<1>1. a # b /\ a # c /\ b # c /\ a # d /\ b # d /\ c # d
  BY ModelsDiffer
<1> HIDE DEF a, b, c, d
<1>2. Lists(<<a, b, c, d>>, {a, b, c, d})
  BY <1>1 DEF Lists
<1> QED BY <1>2 DEF Central, a, b, c, d

----------------------------------------------------------------------------
(* The concatenation of many sequences.                                    *)

\* Flatten joins one sequence after the other.
LEMMA FlattenIsLoop == \A ss : Flatten(ss) = CH!Result(<<>>, ss)
BY Zenon DEF Flatten, HandleAll, MapThenFoldSet, Max, CH!Result,
       CH!HandleAll, CH!MapThenFoldSet, CH!Max, Joined

\* What is collected after each of the sequences.
IsCollection(f, n, T, ss) ==
  /\ \A i \in 0 .. n : f[i] \in Seq(T)
  /\ f[0] = <<>>
  /\ \A i \in 1 .. n : f[i] = f[i - 1] \o ss[i]

\* Flatten gives what is collected after the last of the sequences.
LEMMA FlattenStates ==
  ASSUME NEW n \in Nat, NEW T, NEW ss \in [1 .. n -> Seq(T)]
  PROVE  \E f : IsCollection(f, n, T, ss) /\ Flatten(ss) = f[n]
<1>1. DOMAIN ss = 1 .. n /\ \A i \in 1 .. n : ss[i] \in Seq(T)
  OBVIOUS
<1>2. PICK f : CH!IsRun(f, n, <<>>, ss) /\ CH!Result(<<>>, ss) = f[n]
  BY <1>1, CH!LoopStates, Zenon
<1>3. f[0] = <<>> /\ \A i \in 1 .. n : f[i] = f[i - 1] \o ss[i]
  BY <1>2, Zenon DEF CH!IsRun, Joined
<1> DEFINE S == {i \in Nat : f[i] \in Seq(T)}
<1>4. 0 \in S
  <2>1. f[0] \in Seq(T)
    BY <1>3, EmptySeq, Zenon
  <2> QED BY <2>1
<1>5. ASSUME NEW i \in 0 .. n - 1, i \in S PROVE i + 1 \in S
  <2>1. PICK j \in 1 .. n : j = i + 1 /\ j - 1 = i
    OBVIOUS
  <2>2. f[j] = f[j - 1] \o ss[j]
    BY <1>3, Zenon
  <2>3. f[j] = f[i] \o ss[j] /\ f[i] \in Seq(T) /\ ss[j] \in Seq(T)
    BY <1>1, <1>5, <2>1, <2>2
  <2>4. f[j] \in Seq(T)
    BY <2>3, ConcatProperties, Zenon
  <2> QED BY <2>1, <2>4
<1>6. 0 .. n \subseteq S
  <2> HIDE DEF S
  <2> QED BY <1>4, <1>5, CH!UpTo
<1>7. \A i \in 0 .. n : f[i] \in Seq(T)
  BY <1>6
<1>8. IsCollection(f, n, T, ss)
  BY <1>3, <1>7, Zenon DEF IsCollection
<1> QED BY <1>2, <1>8, FlattenIsLoop, Zenon

\* The only sequence that is not empty is all there is.
LEMMA FlattenOne ==
  ASSUME NEW n \in Nat, NEW T, NEW ss \in [1 .. n -> Seq(T)],
         NEW k \in 1 .. n, \A i \in 1 .. n : i # k => ss[i] = <<>>
  PROVE  Flatten(ss) = ss[k]
<1>1. PICK f : IsCollection(f, n, T, ss) /\ Flatten(ss) = f[n]
  BY FlattenStates, Zenon
<1> DEFINE P(i) == f[i] = IF i < k THEN <<>> ELSE ss[k]
           S == {i \in Nat : P(i)}
<1>2. 0 \in S
  <2>1. f[0] = <<>> /\ 0 < k
    BY <1>1 DEF IsCollection
  <2> QED BY <2>1
<1>3. ASSUME NEW i \in 0 .. n - 1, i \in S PROVE i + 1 \in S
  <2>1. PICK j \in 1 .. n : j = i + 1 /\ j - 1 = i
    OBVIOUS
  <2>2. f[j] = f[j - 1] \o ss[j]
    BY <1>1, Zenon DEF IsCollection
  <2>3. f[j] = f[i] \o ss[j] /\ ss[j] \in Seq(T) /\ i < j
    BY <2>1, <2>2
  <2>4. f[i] = IF i < k THEN <<>> ELSE ss[k]
    BY <1>3
  <2>5. ss[k] \in Seq(T)
    OBVIOUS
  <2> DEFINE a == ss[k]
             b == ss[j]
             c == f[i]
  <2>6. CASE j < k
    <3>1. c = <<>> /\ b = <<>>
      BY <2>1, <2>4, <2>6
    <3>2. c \o b = <<>>
      <4> HIDE DEF c, b
      <4> QED BY <3>1
    <3> QED BY <2>1, <2>3, <2>6, <3>2
  <2>7. CASE j = k
    <3>1. c = <<>> /\ b = a
      BY <2>1, <2>4, <2>7
    <3>2. c \o b = a
      <4> HIDE DEF c, b, a
      <4> QED BY <2>5, <3>1, ConcatEmptySeq DEF a
    <3>3. ~ (j < k) /\ f[j] = ss[k]
      BY <2>3, <2>7, <3>2
    <3> QED BY <2>1, <3>3
  <2>8. CASE j > k
    <3>1. c = a /\ b = <<>>
      BY <2>1, <2>4, <2>8
    <3>2. c \o b = a
      <4> HIDE DEF c, b, a
      <4> QED BY <2>5, <3>1, ConcatEmptySeq DEF a
    <3> QED BY <2>1, <2>3, <2>8, <3>2
  <2> QED BY <2>6, <2>7, <2>8
<1>4. n \in S
  <2> HIDE DEF S
  <2>1. 0 .. n \subseteq S
    BY <1>2, <1>3, CH!UpTo
  <2> QED BY <2>1
<1> QED BY <1>1, <1>4

\* Empty sequences leave no trace.
LEMMA FlattenEmpty ==
  ASSUME NEW n \in Nat, NEW T, NEW ss \in [1 .. n -> Seq(T)],
         \A i \in 1 .. n : ss[i] = <<>>
  PROVE  Flatten(ss) = <<>>
<1>1. CASE n = 0
  <2>1. PICK f : IsCollection(f, n, T, ss) /\ Flatten(ss) = f[n]
    BY FlattenStates, Zenon
  <2> QED BY <1>1, <2>1 DEF IsCollection
<1>2. CASE n # 0
  <2>1. 1 \in 1 .. n /\ ss[1] = <<>>
    BY <1>2
  <2>2. Flatten(ss) = ss[1]
    BY <2>1, FlattenOne
  <2> QED BY <2>1, <2>2
<1> QED BY <1>1, <1>2

\* Sequences of one element at most give their elements in their order: src
\* tells from which of them each one comes.
IsOrigin(src, b, n, ss) ==
  /\ DOMAIN src = DOMAIN b
  /\ \A i \in DOMAIN b : /\ src[i] \in 1 .. n /\ ss[src[i]] # <<>>
                         /\ b[i] = ss[src[i]][1]
  /\ \A i, j \in DOMAIN b : src[i] = src[j] => i = j
  /\ \A i \in 1 .. n : ss[i] # <<>> => \E j \in DOMAIN b : src[j] = i

LEMMA FlattenSingles ==
  ASSUME NEW n \in Nat, NEW T, NEW ss \in [1 .. n -> Seq(T)],
         \A i \in 1 .. n : Len(ss[i]) =< 1
  PROVE  \E src : IsOrigin(src, Flatten(ss), n, ss)
<1>1. PICK f : IsCollection(f, n, T, ss) /\ Flatten(ss) = f[n]
  BY FlattenStates, Zenon
<1> DEFINE S == {i \in Nat : \E src : IsOrigin(src, f[i], i, ss)}
<1>2. 0 \in S
  <2>1. f[0] = <<>>
    BY <1>1 DEF IsCollection
  <2>2. IsOrigin(<<>>, <<>>, 0, ss)
    BY DEF IsOrigin
  <2> QED BY <2>1, <2>2
<1>3. ASSUME NEW i \in 0 .. n - 1, i \in S PROVE i + 1 \in S
  <2>1. PICK j \in 1 .. n : j = i + 1 /\ j - 1 = i
    OBVIOUS
  <2>2. f[j] = f[j - 1] \o ss[j]
    BY <1>1, Zenon DEF IsCollection
  <2> DEFINE a == ss[j]
             c == f[i]
             b == f[j]
             L == Len(c)
  <2>3. /\ b = c \o a /\ a \in Seq(T) /\ c \in Seq(T) /\ Len(a) =< 1
        /\ L \in Nat /\ DOMAIN c = 1 .. L
    <3>1. i \in 0 .. n /\ c \in Seq(T)
      BY <1>1, SMTT(30) DEF IsCollection
    <3> QED BY <2>1, <2>2, <3>1
  <2>4. PICK src : IsOrigin(src, c, i, ss)
    BY <1>3
  <2>5. \A m \in 1 .. j : m \in 1 .. i \/ m = j
    BY <2>1
  <2>6. \A m \in 1 .. i : m \in 1 .. j /\ m # j
    BY <2>1
  <2>len. Len(a) \in Nat /\ (a # <<>> => Len(a) # 0) /\ DOMAIN a = 1 .. Len(a)
    <3> HIDE DEF a
    <3> QED BY <2>3, EmptySeq
  <2> HIDE DEF b, c, L
  <2>7. CASE a = <<>>
    <3>1. b = c
      BY <2>3, <2>7, ConcatEmptySeq
    <3>2. IsOrigin(src, b, j, ss)
      BY <2>4, <2>5, <2>6, <2>7, <3>1 DEF IsOrigin
    <3> QED BY <2>1, <3>2 DEF b
  <2>8. CASE a # <<>>
    <3>1. Len(a) = 1 /\ DOMAIN a = {1}
      BY <2>3, <2>len, <2>8
    <3> HIDE DEF a
    <3>2. /\ DOMAIN b = 1 .. L + 1 /\ b[L + 1] = a[1]
          /\ \A m \in 1 .. L : b[m] = c[m]
      <4> DEFINE e == c \o a
      <4>1. /\ e \in Seq(T) /\ Len(e) = L + 1
            /\ \A m \in 1 .. L + 1 : e[m] = IF m <= L THEN c[m]
                                            ELSE a[m - L]
        <5>1. /\ e \in Seq(T) /\ Len(e) = Len(c) + Len(a)
              /\ \A m \in 1 .. Len(c) + Len(a) :
                   e[m] = IF m <= Len(c) THEN c[m] ELSE a[m - Len(c)]
          BY <2>3, ConcatProperties, Zenon
        <5> HIDE DEF e
        <5> QED BY <2>3, <3>1, <5>1 DEF L
      <4>2. DOMAIN e = 1 .. L + 1
        <5> HIDE DEF e
        <5> QED BY <2>3, <4>1
      <4> HIDE DEF e
      <4>3. e[L + 1] = a[1] /\ \A m \in 1 .. L : e[m] = c[m]
        BY <2>3, <4>1
      <4>4. b = e
        BY <2>3 DEF e
      <4> QED BY <4>2, <4>3, <4>4
    <3> DEFINE new == [m \in 1 .. L + 1 |-> IF m = L + 1 THEN j ELSE src[m]]
    <3>3. /\ DOMAIN new = 1 .. L + 1 /\ new[L + 1] = j
          /\ \A m \in 1 .. L : new[m] = src[m]
          /\ \A m \in 1 .. L + 1 : m \in 1 .. L \/ m = L + 1
          /\ \A m \in 1 .. L : m \in 1 .. L + 1
          /\ L + 1 \in 1 .. L + 1
      BY <2>3
    <3> HIDE DEF new
    <3>4. \A m \in 1 .. L : /\ src[m] \in 1 .. i /\ ss[src[m]] # <<>>
                           /\ c[m] = ss[src[m]][1]
      BY <2>3, <2>4 DEF IsOrigin
    <3>5. \A m \in DOMAIN b : /\ new[m] \in 1 .. j /\ ss[new[m]] # <<>>
                             /\ b[m] = ss[new[m]][1]
      <4>1. ASSUME NEW m \in 1 .. L
            PROVE  /\ new[m] \in 1 .. j /\ ss[new[m]] # <<>>
                   /\ b[m] = ss[new[m]][1]
        BY <2>6, <3>2, <3>3, <3>4, Zenon
      <4>2. /\ new[L + 1] \in 1 .. j /\ ss[new[L + 1]] # <<>>
            /\ b[L + 1] = ss[new[L + 1]][1]
        <5>1. j \in 1 .. j
          BY <2>1
        <5> QED BY <2>8, <3>2, <3>3, <5>1 DEF a
      <4> QED BY <3>2, <3>3, <4>1, <4>2
    <3>6. \A x, y \in DOMAIN b : new[x] = new[y] => x = y
      <4> SUFFICES ASSUME NEW x \in 1 .. L + 1, NEW y \in 1 .. L + 1,
                          new[x] = new[y]
                   PROVE  x = y
        BY <3>2
      <4>1. \A m \in 1 .. L : src[m] # j
        BY <2>6, <3>4
      <4>2. \A u, v \in 1 .. L : src[u] = src[v] => u = v
        BY <2>3, <2>4 DEF IsOrigin
      <4> QED BY <3>3, <4>1, <4>2
    <3>7. \A m \in 1 .. j : ss[m] # <<>> => \E x \in DOMAIN b : new[x] = m
      <4> SUFFICES ASSUME NEW m \in 1 .. j, ss[m] # <<>>
                   PROVE  \E x \in 1 .. L + 1 : new[x] = m
        BY <3>2
      <4>1. CASE m = j
        BY <3>3, <4>1
      <4>2. CASE m \in 1 .. i
        <5>1. PICK x \in 1 .. L : src[x] = m
          BY <2>3, <2>4, <4>2 DEF IsOrigin
        <5> QED BY <3>3, <5>1
      <4> QED BY <2>5, <4>1, <4>2
    <3>8. IsOrigin(new, b, j, ss)
      BY <3>2, <3>3, <3>5, <3>6, <3>7, Zenon DEF IsOrigin
    <3> QED BY <2>1, <3>8 DEF b
  <2> QED BY <2>7, <2>8
<1>4. n \in S
  <2> HIDE DEF S
  <2>1. 0 .. n \subseteq S
    BY <1>2, <1>3, CH!UpTo
  <2> QED BY <2>1
<1> QED BY <1>1, <1>4

----------------------------------------------------------------------------
(* The list of models.                                                     *)

\* The operators on sequences and sets are the same in every instance.
LEMMA SameFlatten ==
  /\ \A ss : Sim!Flatten(ss) = Flatten(ss)
  /\ \A S : Sim!Max(S) = Max(S) /\ Sim!Min(S) = Min(S)
  /\ \A q : Sim!Range(q) = {q[i] : i \in DOMAIN q}
BY Zenon DEF Sim!Flatten, Sim!HandleAll, Sim!MapThenFoldSet, Sim!Max,
             Flatten, HandleAll, MapThenFoldSet, Max, Sim!Min, Min, Sim!Range

\* The list of the models in main holds each of them once.
LEMMA ModelList == Lists(ModelOrder, Central \cup Timed)
<1> DEFINE n == Cardinality(Pids)
           ss == [p \in 1 .. n |-> Three(p)]
           T == ModelsUpTo(n)
<1>1. n \in Nat /\ Pids = 1 .. n
  BY Bounds
<1> HIDE DEF n
<1>2. ss \in [1 .. n -> Seq(T)]
  <2>1. \A p \in 1 .. n : Three(p) \in Seq(T)
    <3> SUFFICES ASSUME NEW p \in 1 .. n PROVE Three(p) \in Seq(T)
      OBVIOUS
    <3>1. ProgramM(p) \in T /\ WriteM(p) \in T /\ ReadM(p) \in T
      BY DEF ModelsUpTo
    <3> HIDE DEF T
    <3> QED BY <3>1 DEF Three
  <2> HIDE DEF T
  <2> QED BY <2>1
<1>3. PICK f : /\ IsCollection(f, n, T, ss)
               /\ Flatten(ss) = f[n]
  <2> HIDE DEF T, ss
  <2> QED BY <1>1, <1>2, FlattenStates, Zenon
<1>31. /\ f[0] = <<>>
       /\ \A i \in 1 .. n : f[i] = f[i - 1] \o ss[i]
  <2> HIDE DEF T, ss
  <2> QED BY <1>3, Zenon DEF IsCollection
<1> DEFINE S == {i \in Nat : Lists(f[i], ModelsUpTo(i))}
<1>4. 0 \in S
  <2>1. Lists(<<>>, ModelsUpTo(0))
    BY DEF Lists, ModelsUpTo
  <2>2. f[0] = <<>>
    BY <1>31
  <2> QED BY <2>1, <2>2
<1>5. ASSUME NEW i \in 0 .. n - 1, i \in S PROVE i + 1 \in S
  <2>1. i \in Nat /\ i + 1 \in Nat /\ i + 1 \in 1 .. n /\ i + 1 - 1 = i
    BY <1>1
  <2>2. f[i + 1] = f[i] \o Three(i + 1)
    <3>1. ss[i + 1] = Three(i + 1)
      BY <2>1
    <3> HIDE DEF ss
    <3>2. PICK j \in 1 .. n : j = i + 1 /\ j - 1 = i
      BY <2>1
    <3>3. f[j] = f[j - 1] \o ss[j]
      BY <1>31, Zenon
    <3>4. f[j] = f[i] \o ss[j]
      BY <3>2, <3>3, Zenon
    <3> QED BY <3>1, <3>2, <3>4
  <2> DEFINE A == ModelsUpTo(i)
             B == {ProgramM(i + 1), WriteM(i + 1), ReadM(i + 1)}
  <2>3. \A m \in A : m \notin B
    <3>1. \A p \in 1 .. i : p # i + 1
      BY <2>1
    <3> QED BY <3>1, ModelsDiffer DEF ModelsUpTo
  <2>4. A \cup B = ModelsUpTo(i + 1)
    <3>1. 1 .. i + 1 = 1 .. i \cup {i + 1}
      BY <2>1
    <3> QED BY <3>1 DEF ModelsUpTo
  <2>5. Lists(f[i], A) /\ Lists(Three(i + 1), B)
    BY <1>5, ThreeLists
  <2> HIDE DEF A, B
  <2>6. Lists(f[i] \o Three(i + 1), A \cup B)
    BY <2>3, <2>5, ListsConcat
  <2> QED BY <2>1, <2>2, <2>4, <2>6
<1>6. n \in S
  <2> HIDE DEF S
  <2>1. 0 .. n \subseteq S
    BY <1>1, <1>4, <1>5, CH!UpTo
  <2> QED BY <1>1, <2>1
<1>7. Lists(f[n], T)
  BY <1>6
<1>8. Flatten([p \in Pids |-> Three(p)]) = f[n]
  BY <1>1, <1>3, SameFlatten
<1>9. ModelOrder = <<Generator, KernelM, SciM, MemoryM>> \o f[n]
  BY <1>8 DEF ModelOrder, Three
<1>10. \A m \in Central : m \notin T
  BY ModelsDiffer DEF ModelsUpTo
<1>11. T = Timed
  BY <1>1 DEF ModelsUpTo, Timed
<1> HIDE DEF T
<1>12. Lists(ModelOrder, Central \cup T)
  BY <1>7, <1>9, <1>10, CentralLists, ListsConcat
<1> QED BY <1>11, <1>12

\* The coordinator's models are those of main.
LEMMA AllModels == Sim!Models = Central \cup Timed
<1>1. Sim!Models = {ModelOrder[i] : i \in DOMAIN ModelOrder}
  BY SameFlatten DEF Sim!Models
<1>2. {ModelOrder[i] : i \in DOMAIN ModelOrder} = Central \cup Timed
  <2> DEFINE A == Central \cup Timed
  <2>1. Lists(ModelOrder, A)
    BY ModelList
  <2> HIDE DEF A
  <2>2. {ModelOrder[i] : i \in DOMAIN ModelOrder} = A
    <3>1. \A i \in DOMAIN ModelOrder : ModelOrder[i] \in A
      BY <2>1 DEF Lists
    <3>2. \A m \in A : \E i \in DOMAIN ModelOrder : ModelOrder[i] = m
      BY <2>1 DEF Lists
    <3> QED BY <3>1, <3>2
  <2> QED BY <2>2 DEF A
<1> QED BY <1>1, <1>2

\* Who is coupled to whom.
LEMMA WhoSends ==
  /\ \A s : <<s, KernelM>> \in Couplings <=>
       \/ s \in {Generator, SciM, MemoryM}
       \/ \E p \in Pids : s \in {WriteM(p), ReadM(p)}
  /\ \A s : <<s, MemoryM>> \in Couplings <=> s = KernelM
  /\ \A s : <<s, SciM>> \in Couplings <=> s \in Timed
  /\ \A s : <<s, Generator>> \notin Couplings
  /\ \A p \in Pids : \A s : <<s, ProgramM(p)>> \in Couplings <=> s = KernelM
  /\ \A p \in Pids : \A s : <<s, WriteM(p)>> \in Couplings <=> s = SciM
  /\ \A p \in Pids : \A s : <<s, ReadM(p)>> \in Couplings <=> s = SciM
BY DEF Couplings, ProgramM, WriteM, ReadM, Central, Generator, KernelM, SciM,
       MemoryM, Timed

----------------------------------------------------------------------------
(* What reaches an inbox.                                                  *)

\* The models with an output for m.
Senders(m, out) == {s \in DOMAIN out : <<s, m>> \in Couplings}

\* The sequences that the inbox of m is made of, one for each place in the
\* list of models.
IsInbox(n, ss, m, out) ==
  /\ Sim!Inbox(m, out) = Flatten(ss)
  /\ \A i \in Sim!SendersTo(m, out) :
       /\ i \in 1 .. n /\ ModelOrder[i] \in Senders(m, out)
       /\ ss[i] = out[ModelOrder[i]]
  /\ \A i \in 1 .. n : i \notin Sim!SendersTo(m, out) => ss[i] = <<>>
  /\ \A s \in Senders(m, out) :
       \E i \in Sim!SendersTo(m, out) : ModelOrder[i] = s
  /\ \A i, j \in Sim!SendersTo(m, out) : ModelOrder[i] = ModelOrder[j] => i = j

\* The senders to m stand in the list of models, each at one place.
LEMMA SenderPlaces ==
  ASSUME NEW m, NEW out, DOMAIN out \subseteq Sim!Models
  PROVE  /\ Len(ModelOrder) \in Nat
         /\ Sim!SendersTo(m, out) \subseteq 1 .. Len(ModelOrder)
         /\ \A i \in Sim!SendersTo(m, out) : ModelOrder[i] \in Senders(m, out)
         /\ \A s \in Senders(m, out) :
              \E i \in Sim!SendersTo(m, out) : ModelOrder[i] = s
         /\ \A i, j \in Sim!SendersTo(m, out) :
              ModelOrder[i] = ModelOrder[j] => i = j
<1> DEFINE A == Central \cup Timed
<1>1. Lists(ModelOrder, A)
  BY ModelList
<1>2. DOMAIN out \subseteq A
  BY AllModels
<1> HIDE DEF A
<1>3. /\ Len(ModelOrder) \in Nat /\ DOMAIN ModelOrder = 1 .. Len(ModelOrder)
  BY <1>1 DEF Lists
<1>4. \A i, j \in DOMAIN ModelOrder : ModelOrder[i] = ModelOrder[j] => i = j
  BY <1>1 DEF Lists
<1>5. \A s \in A : \E i \in DOMAIN ModelOrder : ModelOrder[i] = s
  BY <1>1 DEF Lists
<1> QED BY <1>2, <1>3, <1>4, <1>5, Zenon DEF Sim!SendersTo, Senders

\* An inbox is the outputs of the senders in the order of the models.
LEMMA InboxParts ==
  ASSUME NEW m, NEW T, NEW out, DOMAIN out \subseteq Sim!Models,
         \A s \in Senders(m, out) : out[s] \in Seq(T)
  PROVE  \E n \in Nat : \E ss \in [1 .. n -> Seq(T)] : IsInbox(n, ss, m, out)
<1> DEFINE S == Sim!SendersTo(m, out)
           L == Len(ModelOrder)
           n == Max(S \cup {0})
           ss == [i \in 1 .. n |->
                    IF i \in S THEN out[ModelOrder[i]] ELSE <<>>]
<1>1. /\ L \in Nat /\ S \subseteq 1 .. L
      /\ \A i \in S : ModelOrder[i] \in Senders(m, out)
      /\ \A s \in Senders(m, out) : \E i \in S : ModelOrder[i] = s
      /\ \A i, j \in S : ModelOrder[i] = ModelOrder[j] => i = j
  BY SenderPlaces
<1>2. Sim!Inbox(m, out) = Flatten(ss)
  <2>1. Sim!Inbox(m, out) = Sim!Flatten(
          [i \in 1 .. Sim!Max(S \cup {0}) |->
             IF i \in S THEN out[ModelOrder[i]] ELSE <<>>])
    BY Zenon DEF Sim!Inbox
  <2> QED BY <2>1, SameFlatten, Zenon
<1> HIDE DEF S, L
<1>3. n \in S \cup {0} /\ \A y \in S \cup {0} : y =< n
  <2> DEFINE R == S \cup {0}
  <2>1. R \in SUBSET (0 .. L) /\ R # {} /\ L \in Nat
    BY <1>1
  <2> HIDE DEF R
  <2>2. Max(R) \in R /\ \A y \in R : y =< Max(R)
    BY <2>1, MaxIsGreatest
  <2> QED BY <2>2 DEF R
<1> HIDE DEF n
<1>4. n \in Nat
  BY <1>1, <1>3
<1>5. \A i \in S : i \in 1 .. n
  BY <1>1, <1>3, <1>4
<1>6. ss \in [1 .. n -> Seq(T)]
  <2>1. \A i \in S : out[ModelOrder[i]] \in Seq(T)
    BY <1>1
  <2> QED BY <2>1
<1>7. IsInbox(n, ss, m, out)
  <2>0. Sim!Inbox(m, out) = Flatten(ss)
    BY <1>2
  <2>1. \A i \in S : ss[i] = out[ModelOrder[i]]
    BY <1>5
  <2>2. \A i \in 1 .. n : i \notin S => ss[i] = <<>>
    OBVIOUS
  <2> HIDE DEF ss
  <2> QED BY <1>1, <2>0, <1>5, <2>1, <2>2, Zenon DEF IsInbox, S
<1> QED BY <1>4, <1>6, <1>7, Zenon

\* Sequences of T one after the other are a sequence of T,
LEMMA FlattenTyped ==
  ASSUME NEW n \in Nat, NEW T, NEW ss \in [1 .. n -> Seq(T)]
  PROVE  Flatten(ss) \in Seq(T)
<1>1. PICK f : IsCollection(f, n, T, ss) /\ Flatten(ss) = f[n]
  BY FlattenStates, Zenon
<1>2. n \in 0 .. n
  OBVIOUS
<1> QED BY <1>1, <1>2, SameFlatten DEF IsCollection

\* so an inbox holds what its senders may send.
LEMMA InboxTyped ==
  ASSUME NEW m, NEW T, NEW out, DOMAIN out \subseteq Sim!Models,
         \A s \in Senders(m, out) : out[s] \in Seq(T)
  PROVE  Sim!Inbox(m, out) \in Seq(T)
<1>1. PICK n \in Nat : \E ss \in [1 .. n -> Seq(T)] : IsInbox(n, ss, m, out)
  BY InboxParts, Zenon
<1>2. PICK ss \in [1 .. n -> Seq(T)] : IsInbox(n, ss, m, out)
  BY <1>1, Zenon
<1> QED BY <1>2, FlattenTyped DEF IsInbox

\* If one sender at most has something to send, the inbox is its output.
LEMMA InboxOne ==
  ASSUME NEW m, NEW T, NEW out, DOMAIN out \subseteq Sim!Models,
         \A s \in Senders(m, out) : out[s] \in Seq(T),
         NEW r \in Senders(m, out),
         \A s \in Senders(m, out) : s # r => out[s] = <<>>
  PROVE  Sim!Inbox(m, out) = out[r]
<1>1. PICK n \in Nat : \E ss \in [1 .. n -> Seq(T)] : IsInbox(n, ss, m, out)
  BY InboxParts, Zenon
<1>2. PICK ss \in [1 .. n -> Seq(T)] : IsInbox(n, ss, m, out)
  BY <1>1, Zenon
<1>3. PICK k \in Sim!SendersTo(m, out) : ModelOrder[k] = r
  BY <1>2 DEF IsInbox
<1>4. k \in 1 .. n /\ ss[k] = out[r]
  BY <1>2, <1>3 DEF IsInbox
<1>5. \A i \in 1 .. n : i # k => ss[i] = <<>>
  <2> SUFFICES ASSUME NEW i \in 1 .. n, i # k, i \in Sim!SendersTo(m, out)
               PROVE  ss[i] = <<>>
    BY <1>2 DEF IsInbox
  <2>1. ModelOrder[i] # r /\ ModelOrder[i] \in Senders(m, out)
    BY <1>2, <1>3 DEF IsInbox
  <2> QED BY <1>2, <2>1 DEF IsInbox
<1>6. Flatten(ss) = ss[k]
  BY <1>4, <1>5, FlattenOne, SMTT(30)
<1> QED BY <1>2, <1>4, <1>6, SameFlatten DEF IsInbox

\* With nothing sent the inbox is empty.
LEMMA InboxEmpty ==
  ASSUME NEW m, NEW out, DOMAIN out \subseteq Sim!Models,
         \A s \in Senders(m, out) : out[s] = <<>>
  PROVE  Sim!Inbox(m, out) = <<>>
<1>0. \A s \in Senders(m, out) : out[s] \in Seq({})
  BY EmptySeq, Zenon
<1>1. PICK n \in Nat : \E ss \in [1 .. n -> Seq({})] : IsInbox(n, ss, m, out)
  BY <1>0, InboxParts, Zenon
<1>2. PICK ss \in [1 .. n -> Seq({})] : IsInbox(n, ss, m, out)
  BY <1>1, Zenon
<1>3. \A i \in 1 .. n : ss[i] = <<>>
  BY <1>2 DEF IsInbox
<1>4. Flatten(ss) = <<>>
  BY <1>3, FlattenEmpty
<1> QED BY <1>2, <1>4, SameFlatten DEF IsInbox

\* src tells from whom each message of the bag comes, if each sender sends one.
ComesFrom(src, b, S, out) ==
  /\ DOMAIN src = DOMAIN b
  /\ \A i \in DOMAIN b : src[i] \in S /\ b[i] = out[src[i]][1]
  /\ \A i, j \in DOMAIN b : src[i] = src[j] => i = j
  /\ \A s \in S : \E i \in DOMAIN b : src[i] = s

\* When every sender has one message, the inbox has it once, and no other.
LEMMA InboxSingles ==
  ASSUME NEW m, NEW T, NEW out, DOMAIN out \subseteq Sim!Models,
         \A s \in Senders(m, out) : out[s] \in Seq(T) /\ Len(out[s]) = 1
  PROVE  \E src : ComesFrom(src, Sim!Inbox(m, out), Senders(m, out), out)
<1>1. PICK n \in Nat : \E ss \in [1 .. n -> Seq(T)] : IsInbox(n, ss, m, out)
  BY InboxParts, Zenon
<1>2. PICK ss \in [1 .. n -> Seq(T)] : IsInbox(n, ss, m, out)
  BY <1>1, Zenon
<1>3. \A i \in 1 .. n : Len(ss[i]) =< 1
  <2> SUFFICES ASSUME NEW i \in 1 .. n PROVE Len(ss[i]) =< 1
    OBVIOUS
  <2>1. CASE i \in Sim!SendersTo(m, out)
    <3>1. ss[i] = out[ModelOrder[i]] /\ ModelOrder[i] \in Senders(m, out)
      BY <1>2, <2>1 DEF IsInbox
    <3>2. Len(ss[i]) = 1
      BY <3>1, Zenon
    <3> QED BY <3>2
  <2>2. CASE i \notin Sim!SendersTo(m, out)
    <3>1. ss[i] = <<>>
      BY <1>2, <2>2 DEF IsInbox
    <3> QED BY <3>1
  <2> QED BY <2>1, <2>2
<1>4. PICK o : IsOrigin(o, Flatten(ss), n, ss)
  BY <1>3, FlattenSingles, Zenon
<1> DEFINE b == Sim!Inbox(m, out)
           src == [i \in DOMAIN b |-> ModelOrder[o[i]]]
<1>5. Flatten(ss) = b
  BY <1>2, SameFlatten DEF IsInbox
<1>6. IsOrigin(o, b, n, ss)
  BY <1>4, <1>5, Zenon
<1> HIDE DEF b
<1>7. \A i \in DOMAIN b : /\ o[i] \in Sim!SendersTo(m, out)
                          /\ b[i] = ss[o[i]][1]
  BY <1>2, <1>6 DEF IsOrigin, IsInbox
<1>8. \A i \in DOMAIN b : src[i] \in Senders(m, out) /\ b[i] = out[src[i]][1]
  BY <1>2, <1>7 DEF IsInbox
<1>9. \A i, j \in DOMAIN b : src[i] = src[j] => i = j
  <2>1. \A i, j \in DOMAIN b : o[i] = o[j] => i = j
    BY <1>6 DEF IsOrigin
  <2>2. \A x, y \in Sim!SendersTo(m, out) :
          ModelOrder[x] = ModelOrder[y] => x = y
    BY <1>2 DEF IsInbox
  <2> QED BY <1>7, <2>1, <2>2
<1>10. \A s \in Senders(m, out) : \E i \in DOMAIN b : src[i] = s
  <2> SUFFICES ASSUME NEW s \in Senders(m, out)
               PROVE  \E i \in DOMAIN b : src[i] = s
    OBVIOUS
  <2>1. PICK k \in Sim!SendersTo(m, out) : ModelOrder[k] = s
    BY <1>2 DEF IsInbox
  <2>2. k \in 1 .. n /\ ss[k] = out[s]
    BY <1>2, <2>1 DEF IsInbox
  <2>3. Len(out[s]) = 1
    OBVIOUS
  <2>4. ss[k] # <<>>
    <3> DEFINE q == ss[k]
    <3>1. Len(q) = 1
      BY <2>2, <2>3, Zenon
    <3> HIDE DEF q
    <3>2. q # <<>>
      BY <3>1
    <3> QED BY <3>2 DEF q
  <2>5. PICK i \in DOMAIN b : o[i] = k
    BY <1>6, <2>2, <2>4 DEF IsOrigin
  <2> QED BY <2>1, <2>5
<1>11. DOMAIN src = DOMAIN b
  OBVIOUS
<1> HIDE DEF src
<1>12. ComesFrom(src, b, Senders(m, out), out)
  BY <1>8, <1>9, <1>10, <1>11 DEF ComesFrom
<1> QED BY <1>12 DEF b

\* A model that is not due is visited more than once only if something came
\* after an empty output, and at least once if it received anything.
LEMMA VisitsBounds ==
  ASSUME NEW m, NEW out, DOMAIN out \subseteq Sim!Models
  PROVE  /\ Sim!Visits(m, out) \in Nat
         /\ (\A s, r \in Senders(m, out) : out[s] = <<>> => s = r)
              => ~ (Sim!Visits(m, out) > 1)
         /\ Sim!Inbox(m, out) # <<>> => Sim!Visits(m, out) > 0
<1> DEFINE S == Sim!SendersTo(m, out)
           V == {i \in S : \A j \in S : j < i => out[ModelOrder[j]] = <<>>}
<1>0. Sim!Visits(m, out) = Cardinality(V)
  <2>1. Sim!Cardinality(V) = Cardinality(V)
    BY Zenon DEF Sim!Cardinality, Cardinality
  <2> QED BY <2>1, Zenon DEF Sim!Visits
<1>1. /\ Len(ModelOrder) \in Nat /\ S \subseteq 1 .. Len(ModelOrder)
      /\ \A i \in S : ModelOrder[i] \in Senders(m, out)
      /\ \A i, j \in S : ModelOrder[i] = ModelOrder[j] => i = j
      /\ \A s \in Senders(m, out) : \E i \in S : ModelOrder[i] = s
  BY SenderPlaces
<1> HIDE DEF S
<1>2. IsFiniteSet(V)
  <2>1. IsFiniteSet(1 .. Len(ModelOrder))
    BY <1>1, FS_Interval
  <2> QED BY <1>1, <2>1, FS_Subset
<1>3. Cardinality(V) \in Nat
  BY <1>2, FS_CardinalityType
<1>4. ASSUME \A s, r \in Senders(m, out) : out[s] = <<>> => s = r
      PROVE  ~ (Cardinality(V) > 1)
  <2>1. \A i, j \in V : i = j
    <3>1. \A i, j \in V : i < j => FALSE
      <4> SUFFICES ASSUME NEW i \in V, NEW j \in V, i < j PROVE FALSE
        OBVIOUS
      <4>1. out[ModelOrder[i]] = <<>>
        OBVIOUS
      <4>2. ModelOrder[i] = ModelOrder[j]
        BY <1>1, <1>4, <4>1
      <4> QED BY <1>1, <4>2
    <3>2. V \subseteq Nat
      BY <1>1
    <3> HIDE DEF V
    <3> QED BY <3>1, <3>2
  <2> HIDE DEF V
  <2>2. CASE V = {}
    BY <2>2, FS_EmptySet
  <2>3. CASE V # {}
    <3>1. PICK x : x \in V
      BY <2>3
    <3>2. V = {x}
      BY <2>1, <3>1
    <3>3. Cardinality(V) = 1
      BY <3>2, FS_Singleton
    <3> QED BY <3>3
  <2> QED BY <2>2, <2>3
<1>5. ASSUME Sim!Inbox(m, out) # <<>> PROVE Cardinality(V) > 0
  <2>1. Senders(m, out) # {}
    BY <1>5, InboxEmpty
  <2>2. S # {} /\ S \subseteq Nat
    BY <1>1, <2>1
  <2>3. PICK i \in S : \A j \in S : i =< j
    BY <2>2, CH!LeastExists
  <2>4. i \in V
    BY <2>2, <2>3
  <2> HIDE DEF V
  <2>5. Cardinality(V) # 0
    BY <1>2, <2>4, FS_EmptySet
  <2> QED BY <1>3, <2>5
<1> HIDE DEF V
<1> QED BY <1>0, <1>3, <1>4, <1>5

----------------------------------------------------------------------------
(* One pass of the coordinator, model by model.                            *)

\* The time of the next event, and who is due then.
Now == Sim!Soonest(left)
IsDue(m) == left[m] = Now

\* What m finds in its inbox.
Bag(m, child) == Sim!Inbox(m, Outputs(child))

\* The times that the programs draw, where they draw one.
Drawn(draw) ==
  [p \in Pids |-> IF p \in DOMAIN draw THEN draw[p] ELSE Infinity]

\* A pass in which a fork draws child and the programs draw draw.
Pass(child, draw) ==
  /\ Now # Infinity
  /\ (\E p \in Pids : Forks(p)) => child \in Children
  /\ draw \in [Draws(Sim!Calls(Outputs(child))) -> ExecTimes]
  /\ Transitions(Now, Sim!Calls(Outputs(child)), Drawn(draw))
  /\ Times(Now, Sim!Calls(Outputs(child)))

\* A step is a pass, for some draw of the programs.
LEMMA StepIsPass == Step => \E child, draw : Pass(child, draw)
<1> SUFFICES ASSUME Step PROVE \E child, draw : Pass(child, draw)
  OBVIOUS
<1>1. PICK child \in IF \E p \in Pids : Forks(p) THEN Children
                     ELSE {CHOOSE c \in Children : TRUE} :
        \E out \in {Outputs(child)} :
        \E calls \in {Sim!Calls(out)} :
        \E draw \in [Draws(calls) -> ExecTimes] :
          /\ Now # Infinity
          /\ Transitions(Now, calls, Drawn(draw))
          /\ Times(Now, calls)
  BY Zenon DEF Step, Now, Drawn
<1>2. PICK draw \in [Draws(Sim!Calls(Outputs(child))) -> ExecTimes] :
          /\ Now # Infinity
          /\ Transitions(Now, Sim!Calls(Outputs(child)), Drawn(draw))
          /\ Times(Now, Sim!Calls(Outputs(child)))
  BY <1>1, Zenon
<1>3. Pass(child, draw)
  BY <1>1, <1>2, Zenon DEF Pass
<1> QED BY <1>3

\* The time of the step is the least that is left to any model.
LEMMA NowIsSoonest ==
  ASSUME left \in [Sim!Models -> Nat]
  PROVE  /\ Now \in Nat
         /\ \A m \in Sim!Models : Now =< left[m]
         /\ \E m \in Sim!Models : IsDue(m)
<1> DEFINE M == Sim!Models
           S == {left[m] : m \in M}
<1>1. S \subseteq Nat
  OBVIOUS
<1>2. KernelM \in M
  BY AllModels DEF Central
<1>3. S # {}
  BY <1>2
<1>4. Now = Min(S)
  BY SameFlatten, Zenon DEF Now, Sim!Soonest
<1> HIDE DEF M
<1>5. Min(S) \in S /\ \A y \in S : Min(S) =< y
  <2> HIDE DEF S
  <2> QED BY <1>1, <1>3, MinIsMember, MinIsLeast
<1>6. PICK m \in M : Min(S) = left[m]
  BY <1>5
<1> QED BY <1>1, <1>4, <1>5, <1>6 DEF IsDue, M

\* Every model is one of these.
LEMMA ModelKinds ==
  /\ Generator \in Sim!Models /\ KernelM \in Sim!Models
  /\ SciM \in Sim!Models /\ MemoryM \in Sim!Models
  /\ \A p \in Pids : /\ ProgramM(p) \in Timed /\ WriteM(p) \in Timed
                     /\ ReadM(p) \in Timed
  /\ Timed \subseteq Sim!Models
  /\ \A m \in Sim!Models : m \in Timed \/ m \in Central
  /\ \A m \in Timed : \E p \in Pids : m \in {ProgramM(p), WriteM(p), ReadM(p)}
BY AllModels DEF Timed, Central

\* The time advance of each model, before a step
LEMMA TimeAdvances ==
  /\ TimeAdvance(Generator) = Wait(generator)
  /\ TimeAdvance(KernelM) = Arming(kernel.armed)
  /\ TimeAdvance(SciM) = Arming(sci.armed)
  /\ TimeAdvance(MemoryM) = Arming(memory.armed)
  /\ \A p \in Pids :
       /\ TimeAdvance(ProgramM(p)) = program[p].next_internal
       /\ TimeAdvance(WriteM(p)) = write[p].next_internal
       /\ TimeAdvance(ReadM(p)) = read[p].next_internal
BY ModelsDiffer DEF TimeAdvance, Generator, KernelM, SciM, MemoryM, ProgramM,
   WriteM, ReadM

\* and after it.
LEMMA TimeAdvancesNext ==
  /\ TimeAdvance(Generator)' = Wait(generator')
  /\ TimeAdvance(KernelM)' = Arming(kernel'.armed)
  /\ TimeAdvance(SciM)' = Arming(sci'.armed)
  /\ TimeAdvance(MemoryM)' = Arming(memory'.armed)
  /\ \A p \in Pids :
       /\ TimeAdvance(ProgramM(p))' = program'[p].next_internal
       /\ TimeAdvance(WriteM(p))' = write'[p].next_internal
       /\ TimeAdvance(ReadM(p))' = read'[p].next_internal
BY DEF TimeAdvance, Generator, KernelM, SciM, MemoryM, ProgramM, WriteM,
   ReadM

\* What each model says when it is due.
LEMMA OutputsOf ==
  ASSUME NEW child
  PROVE  /\ OutputOf(Generator, child) = Head(generator).arrivals
         /\ OutputOf(KernelM, child) = kernel.out_put
         /\ OutputOf(SciM, child) = sci.out_put
         /\ OutputOf(MemoryM, child) = memory.out_put
         /\ \A p \in Pids :
              /\ OutputOf(ProgramM(p), child)
                   = ProgramOut(program[p], p, child)
              /\ OutputOf(WriteM(p), child) = FunctionOut(write[p])
              /\ OutputOf(ReadM(p), child) = FunctionOut(read[p])
BY DEF OutputOf, Generator, KernelM, SciM, MemoryM, ProgramM, WriteM,
   ReadM

\* The models that are due say what they say, and no other does.
LEMMA OutputsAre ==
  ASSUME NEW child
  PROVE  /\ DOMAIN Outputs(child) \subseteq Sim!Models
         /\ \A m \in Sim!Models : m \in DOMAIN Outputs(child) <=> IsDue(m)
         /\ \A m \in DOMAIN Outputs(child) :
              Outputs(child)[m] = OutputOf(m, child)
         /\ \A m, s : s \in Senders(m, Outputs(child)) <=>
              s \in Sim!Models /\ IsDue(s) /\ <<s, m>> \in Couplings
BY DEF Outputs, Sim!Due, IsDue, Now, Senders

----------------------------------------------------------------------------
(* The models with a single sender, and what the pass does to each model.  *)

\* What the kernel and the system interface send in this step.
Sent   == IF IsDue(KernelM) THEN kernel.out_put ELSE <<>>
Passed == IF IsDue(SciM) THEN sci.out_put ELSE <<>>

\* A model with one sender hears what it says, in one visit.
LEMMA SingleSender ==
  ASSUME NEW m, NEW r \in Sim!Models, \A s : <<s, m>> \in Couplings <=> s = r,
         NEW child, NEW T, OutputOf(r, child) \in Seq(T)
  PROVE  /\ Bag(m, child) = IF IsDue(r) THEN OutputOf(r, child) ELSE <<>>
         /\ ~ (Sim!Visits(m, Outputs(child)) > 1)
<1> DEFINE out == Outputs(child)
<1>1. /\ DOMAIN out \subseteq Sim!Models
      /\ \A s : s \in Senders(m, out) <=> s = r /\ IsDue(r)
      /\ \A s \in Senders(m, out) : out[s] = OutputOf(r, child)
  <2>1. \A s \in Senders(m, out) : s \in DOMAIN out
    BY DEF Senders
  <2> QED BY <2>1, OutputsAre, Zenon
<1> HIDE DEF out
<1>2. CASE IsDue(r)
  <2>1. r \in Senders(m, out)
    BY <1>1, <1>2
  <2>2. \A s \in Senders(m, out) : s = r /\ out[s] \in Seq(T)
    BY <1>1
  <2>3. Sim!Inbox(m, out) = out[r]
    BY <1>1, <2>1, <2>2, InboxOne
  <2> QED BY <1>1, <1>2, <2>1, <2>2, <2>3, VisitsBounds DEF Bag, out
<1>3. CASE ~ IsDue(r)
  <2>1. Senders(m, out) = {}
    BY <1>1, <1>3
  <2>2. Sim!Inbox(m, out) = <<>>
    BY <1>1, <2>1, InboxEmpty
  <2> QED BY <1>1, <1>3, <2>1, <2>2, VisitsBounds DEF Bag, out
<1> QED BY <1>2, <1>3

\* What the memory, the programs and the operations hear; the generator
\* hears nothing.
LEMMA SimpleBags ==
  ASSUME NEW child, NEW T, kernel.out_put \in Seq(T), sci.out_put \in Seq(T)
  PROVE  /\ Bag(MemoryM, child) = Sent
         /\ ~ (Sim!Visits(MemoryM, Outputs(child)) > 1)
         /\ Bag(Generator, child) = <<>>
         /\ \A p \in Pids :
              /\ Bag(ProgramM(p), child) = Sent
              /\ ~ (Sim!Visits(ProgramM(p), Outputs(child)) > 1)
              /\ Bag(WriteM(p), child) = Passed
              /\ ~ (Sim!Visits(WriteM(p), Outputs(child)) > 1)
              /\ Bag(ReadM(p), child) = Passed
              /\ ~ (Sim!Visits(ReadM(p), Outputs(child)) > 1)
<1>1. /\ KernelM \in Sim!Models /\ OutputOf(KernelM, child) = kernel.out_put
      /\ SciM \in Sim!Models /\ OutputOf(SciM, child) = sci.out_put
  BY ModelKinds, OutputsOf
<1>2. ASSUME NEW m, \A s : <<s, m>> \in Couplings <=> s = KernelM
      PROVE  /\ Bag(m, child) = Sent
             /\ ~ (Sim!Visits(m, Outputs(child)) > 1)
  BY <1>1, <1>2, SingleSender DEF Sent
<1>3. ASSUME NEW m, \A s : <<s, m>> \in Couplings <=> s = SciM
      PROVE  /\ Bag(m, child) = Passed
             /\ ~ (Sim!Visits(m, Outputs(child)) > 1)
  BY <1>1, <1>3, SingleSender DEF Passed
<1>4. Bag(Generator, child) = <<>>
  <2> DEFINE out == Outputs(child)
  <2>1. Senders(Generator, out) = {} /\ DOMAIN out \subseteq Sim!Models
    BY WhoSends, OutputsAre DEF Senders
  <2> HIDE DEF out
  <2> QED BY <2>1, InboxEmpty DEF Bag, out
<1> QED BY <1>2, <1>3, <1>4, WhoSends, Zenon

\* What each simulator finds.
LEMMA CallsAre ==
  ASSUME NEW child, NEW m \in Sim!Models
  PROVE  LET call == Sim!Calls(Outputs(child))[m] IN
         /\ call.due <=> IsDue(m)
         /\ call.due \in BOOLEAN
         /\ call.inbox = Bag(m, child)
         /\ call.visits = Sim!Visits(m, Outputs(child))
<1> DEFINE b == m \in DOMAIN Outputs(child)
           i == Bag(m, child)
           v == Sim!Visits(m, Outputs(child))
           call == Sim!Calls(Outputs(child))[m]
<1>1. call = [due |-> b, inbox |-> i, visits |-> v]
  BY DEF Sim!Calls, Bag
<1>2. (b <=> IsDue(m)) /\ b \in BOOLEAN
  BY OutputsAre
<1> HIDE DEF b, i, v, call
<1>3. (call.due <=> b) /\ call.due \in BOOLEAN /\ call.inbox = i
      /\ call.visits = v
  BY <1>1, <1>2
<1> QED BY <1>2, <1>3 DEF i, v, call

\* advanceSimulation, where no second visit follows.
Advanced(m, child, s, internal, external) ==
  IF Bag(m, child) = <<>> THEN IF IsDue(m) THEN internal ELSE s ELSE external

\* What a pass does to the generator,
LEMMA GeneratorPass ==
  ASSUME NEW child, NEW draw, Pass(child, draw)
  PROVE  generator' = IF IsDue(Generator) THEN Tail(generator) ELSE generator
BY CallsAre, ModelKinds DEF Pass, Transitions, GeneratorInternal

\* to the memory,
LEMMA MemoryPass ==
  ASSUME NEW child, NEW draw, Pass(child, draw),
         ~ (Sim!Visits(MemoryM, Outputs(child)) > 1)
  PROVE  memory' = Advanced(MemoryM, child, memory, Mem!MemoryInternal(memory),
                            Mem!MemoryExternal(memory, Bag(MemoryM, child)))
<1> DEFINE call == Sim!Calls(Outputs(child))[MemoryM]
<1>1. memory' = Sim!Advance(call, memory, 0, Mem!MemoryInternal,
                           LAMBDA s, bag, t : Mem!MemoryExternal(s, bag),
                           LAMBDA s : s.armed)
  BY DEF Pass, Transitions
<1>2. /\ call.due <=> IsDue(MemoryM)
      /\ call.inbox = Bag(MemoryM, child)
      /\ call.visits = Sim!Visits(MemoryM, Outputs(child))
  BY CallsAre, ModelKinds
<1> HIDE DEF call
<1> QED BY <1>1, <1>2, Zenon DEF Sim!Advance, Advanced

\* to the kernel, if it is due or visited once,
LEMMA KernelPass ==
  ASSUME NEW child, NEW draw, Pass(child, draw),
         IsDue(KernelM) \/ ~ (Sim!Visits(KernelM, Outputs(child)) > 1)
  PROVE  kernel' = Advanced(KernelM, child, kernel, Ker!KernelInternal(kernel),
                            Ker!KernelExternal(kernel, Bag(KernelM, child)))
<1> DEFINE call == Sim!Calls(Outputs(child))[KernelM]
<1>1. kernel' = Sim!Advance(call, kernel, 0, Ker!KernelInternal,
                           LAMBDA s, bag, t : Ker!KernelExternal(s, bag),
                           LAMBDA s : s.armed)
  BY DEF Pass, Transitions
<1>2. /\ call.due <=> IsDue(KernelM)
      /\ call.inbox = Bag(KernelM, child)
      /\ call.visits = Sim!Visits(KernelM, Outputs(child))
  BY CallsAre, ModelKinds
<1> HIDE DEF call
<1> QED BY <1>1, <1>2, Zenon DEF Sim!Advance, Advanced

\* to the interface,
LEMMA SciPass ==
  ASSUME NEW child, NEW draw, Pass(child, draw),
         ~ (Sim!Visits(SciM, Outputs(child)) > 1)
  PROVE  sci' = Advanced(SciM, child, sci, InterfaceInternal(sci),
                         InterfaceExternal(sci, Bag(SciM, child)))
<1> DEFINE call == Sim!Calls(Outputs(child))[SciM]
<1>1. sci' = Sim!Advance(call, sci, 0, InterfaceInternal,
                        LAMBDA s, bag, t : InterfaceExternal(s, bag),
                        LAMBDA s : s.armed)
  BY DEF Pass, Transitions
<1>2. /\ call.due <=> IsDue(SciM)
      /\ call.inbox = Bag(SciM, child)
      /\ call.visits = Sim!Visits(SciM, Outputs(child))
  BY CallsAre, ModelKinds
<1> HIDE DEF call
<1> QED BY <1>1, <1>2, Zenon DEF Sim!Advance, Advanced

\* to each program
LEMMA ProgramPass ==
  ASSUME NEW child, NEW draw, Pass(child, draw), NEW p \in Pids,
         ~ (Sim!Visits(ProgramM(p), Outputs(child)) > 1)
  PROVE  program'[p] =
           Advanced(ProgramM(p), child, program[p],
                    ProgramInternal(program[p], Drawn(draw)[p]),
                    ProgramExternal(program[p], p, Bag(ProgramM(p), child),
                                    since[ProgramM(p)] + Now, Drawn(draw)[p]))
<1> DEFINE call == Sim!Calls(Outputs(child))[ProgramM(p)]
           dr == Drawn(draw)
           e == since[ProgramM(p)] + Now
<1>1. program'[p] =
       Sim!Advance(call, program[p], e,
                   LAMBDA s : ProgramInternal(s, dr[p]),
                   LAMBDA s, bag, t : ProgramExternal(s, p, bag, t, dr[p]),
                   LAMBDA s : s.next_internal = 0)
  BY DEF Pass, Transitions
<1>2. /\ call.due <=> IsDue(ProgramM(p))
      /\ call.inbox = Bag(ProgramM(p), child)
      /\ call.visits = Sim!Visits(ProgramM(p), Outputs(child))
  BY CallsAre, ModelKinds
<1> HIDE DEF call, dr, e
<1>3. program'[p] = Advanced(ProgramM(p), child, program[p],
                    ProgramInternal(program[p], dr[p]),
                    ProgramExternal(program[p], p, Bag(ProgramM(p), child),
                                    e, dr[p]))
  BY <1>1, <1>2, Zenon DEF Sim!Advance, Advanced
<1> QED BY <1>3 DEF dr, e

\* and to each of its operations.
LEMMA WritePass ==
  ASSUME NEW child, NEW draw, Pass(child, draw), NEW p \in Pids,
         ~ (Sim!Visits(WriteM(p), Outputs(child)) > 1)
  PROVE  write'[p] =
           Advanced(WriteM(p), child, write[p], FunctionInternal(write[p]),
                    FunctionExternal(write[p], "WriteFunction", p,
                                     Bag(WriteM(p), child),
                                     since[WriteM(p)] + Now))
<1> DEFINE call == Sim!Calls(Outputs(child))[WriteM(p)]
           e == since[WriteM(p)] + Now
<1>1. write'[p] =
       Sim!Advance(call, write[p], e, FunctionInternal,
                   LAMBDA s, bag, t :
                     FunctionExternal(s, "WriteFunction", p, bag, t),
                   LAMBDA s : s.next_internal = 0)
  BY DEF Pass, Transitions
<1>2. /\ call.due <=> IsDue(WriteM(p))
      /\ call.inbox = Bag(WriteM(p), child)
      /\ call.visits = Sim!Visits(WriteM(p), Outputs(child))
  BY CallsAre, ModelKinds
<1> HIDE DEF call, e
<1>3. write'[p] = Advanced(WriteM(p), child, write[p],
                    FunctionInternal(write[p]),
                    FunctionExternal(write[p], "WriteFunction", p,
                                     Bag(WriteM(p), child), e))
  BY <1>1, <1>2, Zenon DEF Sim!Advance, Advanced
<1> QED BY <1>3 DEF e

LEMMA ReadPass ==
  ASSUME NEW child, NEW draw, Pass(child, draw), NEW p \in Pids,
         ~ (Sim!Visits(ReadM(p), Outputs(child)) > 1)
  PROVE  read'[p] =
           Advanced(ReadM(p), child, read[p], FunctionInternal(read[p]),
                    FunctionExternal(read[p], "ReadFunction", p,
                                     Bag(ReadM(p), child),
                                     since[ReadM(p)] + Now))
<1> DEFINE call == Sim!Calls(Outputs(child))[ReadM(p)]
           e == since[ReadM(p)] + Now
<1>1. read'[p] =
       Sim!Advance(call, read[p], e, FunctionInternal,
                   LAMBDA s, bag, t :
                     FunctionExternal(s, "ReadFunction", p, bag, t),
                   LAMBDA s : s.next_internal = 0)
  BY DEF Pass, Transitions
<1>2. /\ call.due <=> IsDue(ReadM(p))
      /\ call.inbox = Bag(ReadM(p), child)
      /\ call.visits = Sim!Visits(ReadM(p), Outputs(child))
  BY CallsAre, ModelKinds
<1> HIDE DEF call, e
<1>3. read'[p] = Advanced(ReadM(p), child, read[p],
                    FunctionInternal(read[p]),
                    FunctionExternal(read[p], "ReadFunction", p,
                                     Bag(ReadM(p), child), e))
  BY <1>1, <1>2, Zenon DEF Sim!Advance, Advanced
<1> QED BY <1>3 DEF e

\* The simulators' times: a model that made a transition starts anew, any
\* other comes nearer.
Moves(m, child) == IsDue(m) \/ Bag(m, child) # <<>>

\* A model that makes a transition is timed anew, another comes nearer.
LEMMA TimesPass ==
  ASSUME NEW child, NEW draw, Pass(child, draw)
  PROVE  /\ DOMAIN left' = Sim!Models /\ DOMAIN since' = Timed
         /\ \A m \in Sim!Models :
              left'[m] = IF Moves(m, child) THEN TimeAdvance(m)'
                         ELSE Minus(left[m], Now)
         /\ \A m \in Timed :
              /\ Moves(m, child) => since'[m] = 0
              /\ since'[m] \in {0, since[m] + Now}
              /\ TimeAdvance(m)' = Infinity => since'[m] = 0
<1> DEFINE calls == Sim!Calls(Outputs(child))
<1>1. /\ left' = [m \in Sim!Models |->
                IF Sim!Runs(calls[m]) THEN TimeAdvance(m)'
                ELSE Minus(left[m], Now)]
      /\ since' = [m \in Timed |->
                 IF Sim!Called(calls[m]) \/ TimeAdvance(m)' = Infinity THEN 0
                 ELSE since[m] + Now]
  BY DEF Pass, Times
<1>2. \A m \in Sim!Models :
        /\ Sim!Runs(calls[m]) <=> Moves(m, child)
        /\ Sim!Called(calls[m]) <=>
             IsDue(m) \/ Sim!Visits(m, Outputs(child)) > 0
  BY CallsAre, Zenon DEF Sim!Runs, Sim!Called, Moves
<1>3. \A m \in Sim!Models :
        Bag(m, child) # <<>> => Sim!Visits(m, Outputs(child)) > 0
  BY VisitsBounds, OutputsAre, Zenon DEF Bag
<1>4. \A m \in Sim!Models : Moves(m, child) => Sim!Called(calls[m])
  BY <1>2, <1>3, Zenon DEF Moves
<1>5. Timed \subseteq Sim!Models
  BY ModelKinds
<1> HIDE DEF calls
<1>6. /\ DOMAIN left' = Sim!Models /\ DOMAIN since' = Timed
      /\ \A m \in Sim!Models :
              left'[m] = IF Moves(m, child) THEN TimeAdvance(m)'
                         ELSE Minus(left[m], Now)
  BY <1>1, <1>2, Zenon
<1>7. \A m \in Timed : since'[m] =
         IF Sim!Called(calls[m]) \/ TimeAdvance(m)' = Infinity THEN 0
                 ELSE since[m] + Now
  BY <1>1, Zenon
<1> QED BY <1>4, <1>5, <1>6, <1>7, Zenon

----------------------------------------------------------------------------
(* The components: what is proved of them holds of the instances here.     *)

\* The proofs about the components, for the instances that OSSim couples.
KP == INSTANCE Kernel_proofs WITH
        asked <- {}, requested <- {}, MaxOutput <- 0,
        Types <- {PROGRAM_IO, PROGRAM_FORK},
        Priorities <- {c.priority : c \in Children}
MP == INSTANCE MemoryModel_proofs WITH mem <- memory, MaxReplies <- 0
KH == INSTANCE Handling_proofs WITH Handle <- Ker!KernelReceive
MH == INSTANCE Handling_proofs WITH Handle <- Mem!MemoryReceive

\* The constants of OSSim satisfy what the components assume of theirs.
LEMMA Assumptions == KP!KernelAssumption /\ MP!MemoryAssumption
<1>1. {c.priority : c \in Children} \subseteq Int
  BY OSSimAssumption
<1> QED BY <1>1, Bounds, OSSimAssumption
        DEF KP!KernelAssumption, MP!MemoryAssumption

\* The constants of the components are the same in either instance.
LEMMA SameStates ==
  /\ Ker!WAITING = "waiting" /\ KP!WAITING = "waiting"
  /\ Ker!READY = "ready" /\ KP!READY = "ready"
  /\ Ker!RUNNING = "running" /\ KP!RUNNING = "running"
  /\ Ker!TERMINATED = "terminated" /\ KP!TERMINATED = "terminated"
  /\ Ker!UNDEFINED = "undefined" /\ KP!UNDEFINED = "undefined"
  /\ Ker!MEMORY_NOT_OK = 2 /\ KP!MEMORY_NOT_OK = 2
  /\ Mem!MEMORY_OK = 1 /\ MP!MEMORY_OK = 1
  /\ Mem!MEMORY_NOT_OK = 2 /\ MP!MEMORY_NOT_OK = 2
BY DEF Ker!WAITING, KP!WAITING, Ker!READY, KP!READY, Ker!RUNNING, KP!RUNNING,
       Ker!TERMINATED, KP!TERMINATED, Ker!UNDEFINED, KP!UNDEFINED,
       Ker!MEMORY_NOT_OK, KP!MEMORY_NOT_OK, Mem!MEMORY_OK, MP!MEMORY_OK,
       Mem!MEMORY_NOT_OK, MP!MEMORY_NOT_OK

\* Inserting into the queue is the same operator in either instance,
LEMMA SameEnqueue ==
  \A option, q, pcb : Ker!Enqueue(option, q, pcb) = KP!Enqueue(option, q, pcb)
BY Zenon DEF Ker!Enqueue, KP!Enqueue, Ker!PlaceOf, KP!PlaceOf,
             Ker!Min, KP!Min,
             Ker!SCHEDULER_FCFS, KP!SCHEDULER_FCFS

\* and so is starting the next process,
LEMMA SameStart == \A k : Ker!StartNext(k) = KP!StartNext(k)
BY SameStates, ZenonT(60)
   DEF Ker!StartNext, KP!StartNext, Ker!CtrlApp, KP!CtrlApp

\* joining the queue,
LEMMA SameJoin == \A k, p : Ker!JoinQueue(k, p) = KP!JoinQueue(k, p)
BY SameStates, SameEnqueue, Zenon
   DEF Ker!JoinQueue, KP!JoinQueue, Ker!PCB, KP!PCB

\* making a process ready,
LEMMA SameReady == \A k, p : Ker!MakeReady(k, p) = KP!MakeReady(k, p)
BY SameStart, SameJoin, Zenon DEF Ker!MakeReady, KP!MakeReady

\* asking for memory,
LEMMA SameAsk == \A k, p, m : Ker!AskMemory(k, p, m) = KP!AskMemory(k, p, m)
BY ZenonT(60) DEF Ker!AskMemory, KP!AskMemory, Ker!RequestMemory,
             KP!RequestMemory, Ker!Char, KP!Char

\* finding a free PID,
LEMMA SameFree ==
  /\ \A k : Ker!FreePids(k) = KP!FreePids(k)
  /\ \A S : Ker!Min(S) = KP!Min(S)
BY SameStates, Zenon DEF Ker!FreePids, KP!FreePids, Ker!Min, KP!Min

\* and with them the handling of a message by the kernel.
LEMMA SameKernelReceive ==
  \A k, m : Ker!KernelReceive(k, m) = KP!KernelReceive(k, m)
BY SameStart, SameReady, SameAsk, SameFree, SameStates, ZenonT(60)
   DEF Ker!KernelReceive, KP!KernelReceive, Ker!OnAppIn, KP!OnAppIn,
       Ker!OnResponseMemory, KP!OnResponseMemory, Ker!OnDoneIO, KP!OnDoneIO,
       Ker!OnStartIO, KP!OnStartIO, Ker!OnProcessComplete,
       KP!OnProcessComplete, Ker!OnProcessFork, KP!OnProcessFork,
       Ker!ReleaseMemory, KP!ReleaseMemory

\* So is what the kernel expects of a message.
LEMMA SameExpected == \A k, m : Ker!Expected(k, m) = KP!Expected(k, m)
BY SameFree, SameStates, Zenon DEF Ker!Expected, KP!Expected

\* The operators of the memory are the same in either instance,
LEMMA SameMemory ==
  /\ \A m, size : Mem!Holes(m, size) = MP!Holes(m, size)
  /\ Mem!Cells = MP!Cells /\ Mem!NoBlock = MP!NoBlock
  /\ \A S : Mem!Min(S) = MP!Min(S)
  /\ \A m, p, a : Mem!Reply(m, p, a) = MP!Reply(m, p, a)
  /\ \A m, p, j, s : Mem!Grant(m, p, j, s) = MP!Grant(m, p, j, s)
  /\ \A m, p : Mem!OnRelease(m, p) = MP!OnRelease(m, p)
<1>1. Mem!Cells = MP!Cells /\ Mem!NoBlock = MP!NoBlock
  BY DEF Mem!Cells, MP!Cells, Mem!NoBlock, MP!NoBlock
<1>2. \A j, s : Mem!Block(j, s) = MP!Block(j, s)
  BY DEF Mem!Block, MP!Block
<1>3. \A m, size : Mem!Holes(m, size) = MP!Holes(m, size)
  BY <1>2, Zenon DEF Mem!Holes, MP!Holes
<1>4. \A S : Mem!Min(S) = MP!Min(S)
  BY Zenon DEF Mem!Min, MP!Min
<1>5. \A m, p, a : Mem!Reply(m, p, a) = MP!Reply(m, p, a)
  BY Zenon DEF Mem!Reply, MP!Reply, Mem!Response, MP!Response
<1>6. \A m, p, j, s : Mem!Grant(m, p, j, s) = MP!Grant(m, p, j, s)
  BY <1>1, <1>2, Zenon DEF Mem!Grant, MP!Grant
<1>7. \A m, p : Mem!OnRelease(m, p) = MP!OnRelease(m, p)
  <2> SUFFICES ASSUME NEW m, NEW p
               PROVE  Mem!OnRelease(m, p) = MP!OnRelease(m, p)
    OBVIOUS
  <2> DEFINE rec == m.memoryTable[p]
             B(c) == c \in MP!Block(rec.start, rec.size)
  <2>1. \A c : (c \in Mem!Block(rec.start, rec.size)) <=> B(c)
    BY <1>2
  <2> QED BY <1>1, <1>2, Zenon DEF Mem!OnRelease, MP!OnRelease
<1> QED BY <1>1, <1>3, <1>4, <1>5, <1>6, <1>7

\* and with them its handling of a message.
LEMMA SameMemoryReceive ==
  \A m, msg : Mem!MemoryReceive(m, msg) = MP!MemoryReceive(m, msg)
BY SameMemory, SameStates, Zenon
   DEF Mem!MemoryReceive, MP!MemoryReceive, Mem!OnRequest, MP!OnRequest

\* The kernel handles a bag message by message,
LEMMA KernelIsLoop ==
  \A k, bag : Ker!KernelExternal(k, bag) = KH!Result(k, bag)
BY Zenon DEF Ker!KernelExternal, Ker!HandleAll,
       Ker!MapThenFoldSet, Ker!Max,
       KH!Result, KH!HandleAll, KH!MapThenFoldSet, KH!Max

\* and so does the memory.
LEMMA MemoryIsLoop ==
  \A m, bag : Mem!MemoryExternal(m, bag) = MH!Result(m, bag)
BY Zenon DEF Mem!MemoryExternal, Mem!HandleAll,
       Mem!MapThenFoldSet, Mem!Max,
       MH!Result, MH!HandleAll, MH!MapThenFoldSet, MH!Max

\* Two loops that start alike and take the same steps end alike.
LEMMA SameRuns ==
  ASSUME NEW n \in Nat, NEW f, NEW g, f[0] = g[0],
         \A i \in 1 .. n : f[i - 1] = g[i - 1] => f[i] = g[i]
  PROVE  f[n] = g[n]
<1> DEFINE S == {i \in Nat : f[i] = g[i]}
<1>1. 0 \in S
  OBVIOUS
<1>2. \A i \in 0 .. n - 1 : i \in S => i + 1 \in S
  <2> SUFFICES ASSUME NEW i \in 0 .. n - 1, f[i] = g[i]
               PROVE  f[i + 1] = g[i + 1]
    OBVIOUS
  <2>1. i + 1 \in 1 .. n /\ i + 1 - 1 = i
    OBVIOUS
  <2> QED BY <2>1
<1>3. n \in S
  <2> HIDE DEF S
  <2>1. 0 .. n \subseteq S
    BY <1>1, <1>2, KH!UpTo
  <2> QED BY <2>1
<1> QED BY <1>3

\* The kernel handles a bag as that of Kernel_proofs does,
LEMMA SameKernelExternal ==
  ASSUME NEW k, NEW T, NEW bag \in Seq(T)
  PROVE  Ker!KernelExternal(k, bag) = KP!KernelExternal(k, bag)
<1>1. PICK f : KP!KernelRun(f, k, bag)
  BY KP!KernelRuns, Assumptions
<1>2. PICK g : /\ KH!IsRun(g, Len(bag), k, bag)
               /\ KH!Result(k, bag) = g[Len(bag)]
  BY KH!LoopPrefixes
<1>3. Len(bag) \in Nat
  OBVIOUS
<1>4. f[0] = g[0]
  BY <1>1, <1>2, Zenon DEF KP!KernelRun, KH!IsRun
<1>5. \A i \in 1 .. Len(bag) : f[i - 1] = g[i - 1] => f[i] = g[i]
  BY <1>1, <1>2, SameKernelReceive, Zenon DEF KP!KernelRun, KH!IsRun
<1>6. f[Len(bag)] = g[Len(bag)]
  BY <1>3, <1>4, <1>5, SameRuns
<1> QED BY <1>1, <1>2, <1>6, KernelIsLoop, Zenon DEF KP!KernelRun

\* and the memory as that of MemoryModel_proofs does.
LEMMA SameMemoryExternal ==
  ASSUME NEW m, NEW T, NEW bag \in Seq(T)
  PROVE  Mem!MemoryExternal(m, bag) = MP!MemoryExternal(m, bag)
<1>1. PICK f : MP!MemoryRun(f, m, bag)
  BY MP!MemoryRuns, Assumptions
<1>2. PICK g : /\ MH!IsRun(g, Len(bag), m, bag)
               /\ MH!Result(m, bag) = g[Len(bag)]
  BY MH!LoopPrefixes
<1>3. Len(bag) \in Nat
  OBVIOUS
<1>4. f[0] = g[0]
  BY <1>1, <1>2, Zenon DEF MP!MemoryRun, MH!IsRun
<1>5. \A i \in 1 .. Len(bag) : f[i - 1] = g[i - 1] => f[i] = g[i]
  BY <1>1, <1>2, SameMemoryReceive, Zenon DEF MP!MemoryRun, MH!IsRun
<1>6. f[Len(bag)] = g[Len(bag)]
  BY <1>3, <1>4, <1>5, SameRuns
<1> QED BY <1>1, <1>2, <1>6, MemoryIsLoop, Zenon DEF MP!MemoryRun

----------------------------------------------------------------------------
(* The inductive invariant.                                                *)

\* A PID that no live process has, and the type its process has or had.
Free(p)   == State(p) \in {Ker!TERMINATED, Ker!UNDEFINED}
KindOf(p) == kernel.table[p].type

\* What is on its way to p, or from it.
Start(p)   == InQueue(kernel.out_put, "ctrlApp", p)
Asking(p)  == InQueue(kernel.out_put, "requestMemory", p)
Freeing(p) == InQueue(kernel.out_put, "releaseMemory", p)
Answer(p)  == InQueue(memory.out_put, "responseMemory", p)
IoCalled(p)  == \/ InQueue(sci.out_put, "ReadFunction", p)
              \/ InQueue(sci.out_put, "WriteFunction", p)
Exiting(p) == InQueue(sci.out_put, "processComplete", p)
Forking(p) == InQueue(sci.out_put, "processFork", p)
Call(p)    == IoCalled(p) \/ Exiting(p)

\* What p does.
Comp(p)   == program[p].next_internal # Infinity
Begin(p)  == write[p].next_internal = 0 \/ read[p].next_internal = 0
Active(p) == write[p].active \/ read[p].active
Blocked(m, p) == m.memoryTable[p] # Mem!NoBlock
HasBlock(p) == Blocked(memory, p)

\* No operation begins; and no process does anything.
NoBegin == \A p \in Pids : ~ Begin(p)
NoWork  == \A p \in Pids : ~ Comp(p) /\ ~ Active(p) /\ ~ Begin(p)

\* The states of a program and of an operation, and the messages passed on.
ProgramSet ==
  [executing : BOOLEAN, type : {0, PROGRAM_IO, PROGRAM_FORK},
   IO_count : 0 .. IoCalls, fork_count : 0 .. ForkCalls + 1,
   next_internal : 1 .. Infinity]

FunctionSet(p) ==
  [active : BOOLEAN, functionNumber : {1, p}, next_internal : 0 .. Infinity]

CallSet ==
  [port : {"WriteFunction", "ReadFunction", "IOApp", "processComplete"},
   value : Pids]
    \cup [port : {"processFork"}, value : Pids, value2 : {PROGRAM_IO},
          value3 : Int, value4 : BlockSizes]

\* The kernel agrees with itself (module Kernel_proofs), and what it has not
\* scheduled waits only while nothing runs.
InvKernel ==
  /\ KP!Consistent(kernel)
  /\ kernel.out_put # <<>> /\ ~ kernel.armed => ~ kernel.processing

\* The memory has its type, and answers are scheduled.
InvMemory ==
  /\ memory \in MP!MemSet
  /\ memory.out_put # <<>> => memory.armed

\* The interface is due when it holds something, and holds one system call
\* at most: only one process runs.
InvSci ==
  /\ sci \in [out_put : Seq(CallSet), armed : BOOLEAN]
  /\ sci.armed <=> sci.out_put # <<>>
  /\ \A i, j \in DOMAIN sci.out_put :
       sci.out_put[i].port # "IOApp" /\ sci.out_put[j].port # "IOApp" => i = j

\* An operation is at work while its timer runs, and a timer belongs to the
\* operation of its own process.
FunctionOK(f, p) ==
  /\ f \in FunctionSet(p)
  /\ f.active <=> f.next_internal \notin {0, Infinity}
  /\ f.next_internal # Infinity => f.functionNumber = p

\* The programs and operations; of the two of a process one is at rest.
InvPrograms ==
  /\ program \in [Pids -> ProgramSet]
  /\ \A p \in Pids :
       /\ FunctionOK(write[p], p) /\ FunctionOK(read[p], p)
       /\ write[p].next_internal = Infinity \/ read[p].next_internal = Infinity

\* With l left and s since: no timer runs, or it has not been overrun.
TimerIs(l, s, next) ==
  IF next = Infinity THEN l = Infinity /\ s = 0
  ELSE s + l =< next /\ (l = 0 => next = 0)

\* The coordinator's time of m agrees with the timer next of the model.
TimerOK(m, next) == TimerIs(left[m], since[m], next)

\* The coordinator's times are those of the models.
InvTimes ==
  /\ left \in [Sim!Models -> Nat]
  /\ since \in [Timed -> Nat]
  /\ left[Generator] = Wait(generator)
  /\ left[KernelM] = Arming(kernel.armed)
  /\ left[SciM] = Arming(sci.armed)
  /\ left[MemoryM] = Arming(memory.armed)
  /\ \A p \in Pids : /\ TimerOK(ProgramM(p), program[p].next_internal)
                     /\ TimerOK(WriteM(p), write[p].next_internal)
                     /\ TimerOK(ReadM(p), read[p].next_internal)

\* The time of p was drawn in this instant.
Fresh(p) ==
  /\ left[ProgramM(p)] = program[p].next_internal
  /\ since[ProgramM(p)] = 0

\* The process that runs is at one place: its start is on the way, or it
\* computes, or its call is on the way, or an operation begins.
TokensOf(p) ==
  /\ State(p) = Ker!RUNNING <=> Start(p) \/ Comp(p) \/ Call(p) \/ Begin(p)
  /\ Call(p) \/ Begin(p) => ~ Start(p) /\ ~ Comp(p)
  /\ State(p) = Ker!WAITING <=> Active(p)
  /\ Forking(p) => Comp(p) /\ Fresh(p)
  /\ Comp(p) /\ kernel.out_put # <<>> => Fresh(p)

InvTokens == \A p \in Pids : TokensOf(p)

\* A program is of the type that the kernel has for it, and so is a start on
\* its way; only I/O programs have operations.
KindsOf(p) ==
  /\ Comp(p) => program[p].type = KindOf(p)
  /\ ~ Free(p) \/ Asking(p) \/ Answer(p) => KindOf(p) # 0
  /\ \A i \in DOMAIN kernel.out_put :
       kernel.out_put[i].port = "ctrlApp" /\ kernel.out_put[i].value = p
         => kernel.out_put[i].value2 = KindOf(p)
  /\ IoCalled(p) \/ Begin(p) \/ Active(p) => KindOf(p) = PROGRAM_IO

InvKinds == \A p \in Pids : KindsOf(p)

\* A PID can be used again: a program that is about to be one anew has made
\* no calls yet, and one that computes has not made all of them.
CountsOf(p) ==
  /\ KindOf(p) = PROGRAM_FORK =>
       /\ program[p].IO_count = 0
       /\ Comp(p) => program[p].fork_count <= ForkCalls
       /\ Start(p) \/ State(p) \in {Ker!UNDEFINED, Ker!READY} =>
            program[p].fork_count = 0
       /\ Asking(p) \/ Answer(p) => State(p) = Ker!UNDEFINED
  /\ Free(p) \/ Exiting(p) => program[p].IO_count = 0

InvCounts == \A p \in Pids : CountsOf(p)

\* Requests, answers and releases are about processes that are not alive, and
\* who lives has a block.
BlocksOf(p) ==
  /\ Asking(p) \/ Freeing(p) \/ Answer(p) => Free(p)
  /\ Alive(p) => HasBlock(p)
  /\ HasBlock(p) => Alive(p) \/ Answer(p) \/ Freeing(p)

\* An answer says OK just when there is a block; there is one answer for a
\* process; and no request follows one of the same process.
InvBlocks ==
  /\ \A p \in Pids : BlocksOf(p)
  /\ \A i, j \in DOMAIN memory.out_put :
       memory.out_put[i].value = memory.out_put[j].value => i = j
  /\ \A i \in DOMAIN memory.out_put :
       memory.out_put[i].value2 = Mem!MEMORY_OK
         <=> HasBlock(memory.out_put[i].value)
  /\ MP!Ordered(kernel.out_put)

\* Before the first process arrives.
Pristine ==
  /\ kernel.out_put = <<>> /\ sci.out_put = <<>> /\ memory.out_put = <<>>
  /\ \A p \in Pids : /\ State(p) = Ker!UNDEFINED /\ KindOf(p) = 0
                     /\ ~ HasBlock(p)
                     /\ program[p] = InitialProgram
                     /\ write[p] = InitialFunction
                     /\ read[p] = InitialFunction

\* The input files whose processes all arrive together, none of them twice.
ArrivalSet == [port : {"appIn"}, value : Pids,
               value2 : {PROGRAM_IO, PROGRAM_FORK}, value3 : Int,
               value4 : BlockSizes]

\* An input file whose lines are of one time, with every PID at most once.
OneInstant ==
  {<<>>} \cup
  {<<batch>> : batch \in
     {b \in [wait : 0 .. Infinity - 1, arrivals : Seq(ArrivalSet)] :
        \A i, j \in DOMAIN b.arrivals :
          b.arrivals[i].value = b.arrivals[j].value => i = j}}

\* Who may have something to say at the same time as whom.
InvPhases ==
  /\ generator \in OneInstant
  /\ generator # <<>> => Pristine
  /\ (\E p \in Pids : Asking(p)) =>
        /\ sci.out_put = <<>> /\ memory.out_put = <<>>
        /\ NoBegin
        /\ kernel.armed \/ NoWork
  /\ memory.out_put # <<>> =>
        /\ ~ kernel.armed /\ kernel.out_put = <<>> /\ sci.out_put = <<>>
        /\ NoBegin
  /\ sci.out_put # <<>> => NoBegin
  /\ memory.armed /\ memory.out_put = <<>> =>
        /\ kernel.armed /\ kernel.out_put = <<>> /\ sci.out_put = <<>>
        /\ NoWork

\* The inductive invariant.
IInv ==
  /\ InvKernel /\ InvMemory /\ InvSci /\ InvPrograms /\ InvTimes
  /\ InvTokens /\ InvKinds /\ InvCounts /\ InvBlocks /\ InvPhases

----------------------------------------------------------------------------
(* What is due, by the invariant.                                          *)

\* The arithmetic of a timer: what is left of it when time passes.
LEMMA TimerNumbers ==
  ASSUME NEW now \in Nat, now < Infinity, NEW l \in Nat, now =< l,
         NEW s \in Nat, NEW next \in 0 .. Infinity,
         TimerIs(l, s, next)
  PROVE  /\ l = now => next # Infinity /\ (now = 0 <=> next = 0)
         /\ next = 0 => now = 0 /\ l = now
         /\ l # now /\ next # Infinity =>
              /\ l - now \in Nat \ {0}
              /\ next - (s + now) \in Nat \ {0}
              /\ s + now + (l - now) =< next
              /\ l # Infinity
<1>1. Infinity \in Nat \ {0}
  BY Bounds
<1>2. CASE next = Infinity
  BY <1>1, <1>2 DEF TimerIs
<1>3. CASE next # Infinity
  BY <1>1, <1>3 DEF TimerIs
<1> QED BY <1>2, <1>3

\* A finite time of the coordinator comes before the end of time.
LEMMA NowIsFinite ==
  ASSUME InvTimes, Now # Infinity
  PROVE  Now \in Nat /\ Now < Infinity
<1>1. /\ left \in [Sim!Models -> Nat] /\ KernelM \in Sim!Models
      /\ left[KernelM] = Arming(kernel.armed)
  BY ModelKinds DEF InvTimes
<1>2. Now \in Nat /\ Now =< left[KernelM]
  BY <1>1, NowIsSoonest
<1>3. left[KernelM] \in {0, Infinity}
  BY <1>1 DEF Arming
<1> HIDE DEF Now
<1> QED BY <1>2, <1>3, Bounds

\* A model is due when its timer has run off, and no timer is overrun.
LEMMA TimersDue ==
  ASSUME NEW m, NEW next \in 0 .. Infinity, TimerOK(m, next),
         left[m] \in Nat, since[m] \in Nat, Now \in Nat, Now < Infinity,
         Now =< left[m]
  PROVE  /\ IsDue(m) => next # Infinity /\ (Now = 0 <=> next = 0)
         /\ next = 0 => Now = 0 /\ IsDue(m)
         /\ ~ IsDue(m) /\ next # Infinity =>
              /\ left[m] - Now \in Nat \ {0}
              /\ next - (since[m] + Now) \in Nat \ {0}
              /\ since[m] + Now + (left[m] - Now) =< next
              /\ left[m] # Infinity
<1> HIDE DEF Now
<1> QED BY TimerNumbers DEF TimerOK, IsDue

\* The fields of the kernel are of their types.
LEMMA KernelTyped ==
  ASSUME InvKernel
  PROVE  /\ kernel.armed \in BOOLEAN /\ kernel.processing \in BOOLEAN
         /\ kernel.out_put \in Seq(KP!OutputSet)
         /\ kernel \in KP!KernelSet
BY KP!ConsistentParts, Assumptions DEF InvKernel

\* A model that is timed by a flag is due just when the flag is set.
LEMMA FlagsDue ==
  ASSUME NEW m \in Sim!Models, NEW flag \in BOOLEAN,
         left[m] = Arming(flag), Now \in Nat, Now # Infinity, Now =< left[m]
  PROVE  /\ IsDue(m) <=> flag
         /\ flag => Now = 0
BY Bounds DEF IsDue, Arming

\* When the central models are due.
LEMMA DueFacts ==
  ASSUME InvTimes, InvSci, InvMemory, InvPrograms, InvKernel, Now # Infinity
  PROVE  /\ Now \in Nat
         /\ IsDue(KernelM) <=> kernel.armed
         /\ kernel.armed => Now = 0
         /\ IsDue(SciM) <=> sci.out_put # <<>>
         /\ sci.out_put # <<>> => Now = 0
         /\ IsDue(MemoryM) <=> memory.armed
         /\ memory.armed => Now = 0
         /\ IsDue(Generator) => generator # <<>>
<1>1. /\ left \in [Sim!Models -> Nat] /\ since \in [Timed -> Nat]
      /\ left[Generator] = Wait(generator)
      /\ left[KernelM] = Arming(kernel.armed)
      /\ left[SciM] = Arming(sci.armed)
      /\ left[MemoryM] = Arming(memory.armed)
  BY DEF InvTimes
<1>2. /\ Now \in Nat /\ \A m \in Sim!Models : Now =< left[m]
  BY <1>1, NowIsSoonest
<1>3. /\ kernel.armed \in BOOLEAN /\ sci.armed \in BOOLEAN
      /\ memory.armed \in BOOLEAN
  BY KernelTyped DEF InvSci, InvMemory, MP!MemSet
<1>4. /\ IsDue(KernelM) <=> kernel.armed
      /\ kernel.armed => Now = 0
  BY <1>1, <1>2, <1>3, ModelKinds, FlagsDue
<1>5. /\ IsDue(SciM) <=> sci.armed
      /\ sci.armed => Now = 0
  BY <1>1, <1>2, <1>3, ModelKinds, FlagsDue
<1>6. /\ IsDue(MemoryM) <=> memory.armed
      /\ memory.armed => Now = 0
  BY <1>1, <1>2, <1>3, ModelKinds, FlagsDue
<1>7. sci.armed <=> sci.out_put # <<>>
  BY DEF InvSci
<1>8. IsDue(Generator) => generator # <<>>
  BY <1>1 DEF IsDue, Wait
<1> QED BY <1>2, <1>4, <1>5, <1>6, <1>7, <1>8

\* When the models of a process are due.
LEMMA WorkDue ==
  ASSUME InvTimes, InvPrograms, Now # Infinity, NEW p \in Pids
  PROVE  /\ IsDue(ProgramM(p)) => Comp(p) /\ Now # 0
         /\ IsDue(WriteM(p)) => write[p].next_internal # Infinity
                                /\ (Now = 0 <=> write[p].next_internal = 0)
         /\ IsDue(ReadM(p)) => read[p].next_internal # Infinity
                                /\ (Now = 0 <=> read[p].next_internal = 0)
         /\ write[p].next_internal = 0 => Now = 0 /\ IsDue(WriteM(p))
         /\ read[p].next_internal = 0 => Now = 0 /\ IsDue(ReadM(p))
<1>1. /\ left \in [Sim!Models -> Nat] /\ since \in [Timed -> Nat]
      /\ TimerOK(ProgramM(p), program[p].next_internal)
      /\ TimerOK(WriteM(p), write[p].next_internal)
      /\ TimerOK(ReadM(p), read[p].next_internal)
  BY DEF InvTimes
<1>2. /\ Now \in Nat /\ Now < Infinity /\ \A m \in Sim!Models : Now =< left[m]
  BY <1>1, NowIsSoonest, NowIsFinite
<1>3. /\ program[p].next_internal \in 1 .. Infinity
      /\ write[p].next_internal \in 0 .. Infinity
      /\ read[p].next_internal \in 0 .. Infinity
  BY DEF InvPrograms, ProgramSet, FunctionOK, FunctionSet
<1>4. \A m \in Timed : /\ left[m] \in Nat /\ since[m] \in Nat
                       /\ Now =< left[m]
  BY <1>1, <1>2, ModelKinds
<1>5. /\ ProgramM(p) \in Timed /\ WriteM(p) \in Timed /\ ReadM(p) \in Timed
  BY ModelKinds
<1>6. program[p].next_internal \in 0 .. Infinity
      /\ program[p].next_internal # 0
  BY <1>3, Bounds
<1>7. IsDue(ProgramM(p)) => Comp(p) /\ Now # 0
  BY <1>1, <1>2, <1>4, <1>5, <1>6, TimersDue DEF Comp
<1>8. /\ IsDue(WriteM(p)) => write[p].next_internal # Infinity
                                /\ (Now = 0 <=> write[p].next_internal = 0)
      /\ write[p].next_internal = 0 => Now = 0 /\ IsDue(WriteM(p))
  BY <1>1, <1>2, <1>4, <1>5, <1>3, TimersDue
<1>9. /\ IsDue(ReadM(p)) => read[p].next_internal # Infinity
                                /\ (Now = 0 <=> read[p].next_internal = 0)
      /\ read[p].next_internal = 0 => Now = 0 /\ IsDue(ReadM(p))
  BY <1>1, <1>2, <1>4, <1>5, <1>3, TimersDue
<1> QED BY <1>7, <1>8, <1>9

\* Some model is due at the time of the next event.
LEMMA SomethingDue ==
  ASSUME InvTimes
  PROVE  \/ IsDue(Generator) \/ IsDue(KernelM) \/ IsDue(SciM) \/ IsDue(MemoryM)
         \/ \E p \in Pids : IsDue(ProgramM(p)) \/ IsDue(WriteM(p))
                              \/ IsDue(ReadM(p))
<1>1. PICK m \in Sim!Models : IsDue(m)
  BY NowIsSoonest DEF InvTimes
<1>2. m \in Timed \/ m \in Central
  BY ModelKinds
<1>3. CASE m \in Central
  BY <1>1, <1>3 DEF Central
<1>4. CASE m \in Timed
  BY <1>1, <1>4, ModelKinds
<1> QED BY <1>2, <1>3, <1>4

\* The kinds of steps: what may be due at the same time.
LEMMA SentIs ==
  ASSUME IInv, Now # Infinity
  PROVE  /\ Sent = IF kernel.armed THEN kernel.out_put ELSE <<>>
         /\ Passed = sci.out_put
         /\ Sent \in Seq(KP!OutputSet)
         /\ Sent # <<>> => Now = 0
         /\ sci.out_put \in Seq(CallSet)
<1>1. /\ IsDue(KernelM) <=> kernel.armed
      /\ kernel.armed => Now = 0
      /\ IsDue(SciM) <=> sci.out_put # <<>>
  BY DueFacts DEF IInv
<1>2. kernel.out_put \in Seq(KP!OutputSet)
  BY KernelTyped DEF IInv
<1>3. sci.out_put \in Seq(CallSet)
  BY DEF IInv, InvSci
<1> QED BY <1>1, <1>2, <1>3 DEF Sent, Passed

\* The bags of SimpleBags, by the invariant.
LEMMA ThisBags ==
  ASSUME IInv, Now # Infinity, NEW child
  PROVE  /\ Bag(MemoryM, child) = Sent
         /\ ~ (Sim!Visits(MemoryM, Outputs(child)) > 1)
         /\ Bag(Generator, child) = <<>>
         /\ \A p \in Pids :
              /\ Bag(ProgramM(p), child) = Sent
              /\ ~ (Sim!Visits(ProgramM(p), Outputs(child)) > 1)
              /\ Bag(WriteM(p), child) = Passed
              /\ ~ (Sim!Visits(WriteM(p), Outputs(child)) > 1)
              /\ Bag(ReadM(p), child) = Passed
              /\ ~ (Sim!Visits(ReadM(p), Outputs(child)) > 1)
<1>1. kernel.out_put \in Seq(KP!OutputSet) /\ sci.out_put \in Seq(CallSet)
  BY KernelTyped DEF IInv, InvSci
<1> DEFINE T == KP!OutputSet \cup CallSet
<1>2. kernel.out_put \in Seq(T) /\ sci.out_put \in Seq(T)
  <2>1. \A S, U, q : q \in Seq(S) /\ S \subseteq U => q \in Seq(U)
    BY SeqMonotonic
  <2>2. KP!OutputSet \subseteq T /\ CallSet \subseteq T
    OBVIOUS
  <2> HIDE DEF T
  <2> QED BY <1>1, <2>1, <2>2, Zenon
<1> HIDE DEF T
<1> QED BY <1>2, SimpleBags

----------------------------------------------------------------------------
(* What every pass does to the memory, the programs and the operations.    *)

\* An empty queue holds nothing,
LEMMA QueueEmpty == \A port, p : ~ InQueue(<<>>, port, p)
BY DEF InQueue

\* another something,
LEMMA NotEmpty ==
  ASSUME NEW T, NEW q \in Seq(T)
  PROVE  q # <<>> <=> \E i : i \in DOMAIN q
<1>1. DOMAIN q = 1 .. Len(q) /\ Len(q) \in Nat
  OBVIOUS
<1>2. q # <<>> => 1 \in DOMAIN q
  BY <1>1, EmptySeq
<1>3. q = <<>> => \A i : i \notin DOMAIN q
  OBVIOUS
<1> QED BY <1>2, <1>3

\* and one more message is that and the others.
LEMMA QueueAppend ==
  ASSUME NEW T, NEW q \in Seq(T), NEW msg, NEW port, NEW p
  PROVE  InQueue(Append(q, msg), port, p)
           <=> InQueue(q, port, p) \/ (msg.port = port /\ msg.value = p)
<1>1. /\ Len(q) \in Nat /\ DOMAIN q = 1 .. Len(q)
      /\ DOMAIN Append(q, msg) = 1 .. Len(q) + 1
      /\ \A i \in 1 .. Len(q) : Append(q, msg)[i] = q[i]
      /\ Append(q, msg)[Len(q) + 1] = msg
  OBVIOUS
<1> DEFINE r == Append(q, msg)
           n == Len(q)
<1> HIDE DEF r, n
<1>2. \A i \in 1 .. n + 1 : i = n + 1 \/ i \in 1 .. n
  BY <1>1 DEF n
<1>3. n + 1 \in 1 .. n + 1 /\ 1 .. n \subseteq 1 .. n + 1
  BY <1>1 DEF n
<1>4. /\ DOMAIN q = 1 .. n /\ DOMAIN r = 1 .. n + 1
      /\ \A i \in 1 .. n : r[i] = q[i]
      /\ r[n + 1] = msg
  BY <1>1 DEF r, n
<1>5. InQueue(r, port, p)
           <=> InQueue(q, port, p) \/ (msg.port = port /\ msg.value = p)
  BY <1>2, <1>3, <1>4, Zenon DEF InQueue
<1> QED BY <1>5 DEF r

\* While the kernel sends, the memory is at rest; while the interface sends,
\* no operation begins and no time passes.
LEMMA Phases ==
  ASSUME IInv, Now # Infinity
  PROVE  /\ Sent # <<>> => /\ kernel.armed /\ kernel.out_put = Sent
                           /\ ~ memory.armed /\ memory.out_put = <<>>
                           /\ Now = 0
         /\ Passed # <<>> =>
              /\ NoBegin /\ Now = 0
              /\ \A p \in Pids : /\ ~ IsDue(ProgramM(p)) /\ ~ IsDue(WriteM(p))
                                 /\ ~ IsDue(ReadM(p))
<1>1. /\ InvPhases /\ InvMemory /\ InvTimes /\ InvPrograms
      /\ InvSci /\ InvKernel
  BY DEF IInv
<1>2. Sent # <<>> => kernel.armed /\ kernel.out_put = Sent /\ Now = 0
  BY SentIs
<1>3. Sent # <<>> => memory.out_put = <<>> /\ ~ memory.armed
  <2>1. memory.out_put # <<>> => ~ kernel.armed
    BY <1>1 DEF InvPhases
  <2>2. memory.armed /\ memory.out_put = <<>> => kernel.out_put = <<>>
    BY <1>1 DEF InvPhases
  <2>3. memory.armed \in BOOLEAN
    BY <1>1 DEF InvMemory, MP!MemSet
  <2> QED BY <1>2, <2>1, <2>2, <2>3
<1>4. ASSUME Passed # <<>>
      PROVE  NoBegin /\ Now = 0
  BY <1>1, <1>4, SentIs, DueFacts DEF InvPhases
<1>5. ASSUME Passed # <<>>, NEW p \in Pids
      PROVE  /\ ~ IsDue(ProgramM(p)) /\ ~ IsDue(WriteM(p))
             /\ ~ IsDue(ReadM(p))
  BY <1>1, <1>4, <1>5, WorkDue DEF NoBegin, Begin
<1> QED BY <1>2, <1>3, <1>4, <1>5

----------------------------------------------------------------------------

\* What the kernel sends is what the memory counts on of its clients: no
\* request of a process that has a block.
LEMMA SentToMemory ==
  ASSUME IInv, Now # Infinity, Sent # <<>>
  PROVE  MP!ClientBag(memory, Sent)
<1>1. /\ kernel.out_put = Sent /\ memory.out_put = <<>>
      /\ Sent \in Seq(KP!OutputSet)
  BY Phases, SentIs
<1>2. MP!Ordered(Sent)
  BY <1>1 DEF IInv, InvBlocks, BlocksOf
<1>3. \A i \in DOMAIN Sent : Sent[i] \in KP!OutputSet
  BY <1>1
<1>4. \A msg \in KP!OutputSet :
        /\ msg.port \in {"ctrlApp", "requestMemory", "releaseMemory"}
        /\ msg.value \in Pids
        /\ msg.port = "requestMemory" => msg.value2 \in BlockSizes
  BY DEF KP!OutputSet
<1>5. ASSUME NEW i \in DOMAIN Sent, Sent[i].port = "requestMemory"
      PROVE  \/ memory.memoryTable[Sent[i].value] = MP!NoBlock
             \/ MP!Released(Sent, Len(Sent), Sent[i].value)
  <2> DEFINE p == Sent[i].value
  <2>1. p \in Pids
    BY <1>3, <1>4
  <2>2. Asking(p)
    BY <1>1, <1>5 DEF Asking, InQueue
  <2>3. Free(p) /\ (HasBlock(p) => Alive(p) \/ Answer(p) \/ Freeing(p))
    BY <2>1, <2>2 DEF IInv, InvBlocks, BlocksOf
  <2>4. ~ Alive(p)
    BY <2>3, SameStates DEF Alive, Free
  <2>5. ~ Answer(p)
    BY <1>1, QueueEmpty DEF Answer
  <2>6. HasBlock(p) <=> memory.memoryTable[p] # MP!NoBlock
    BY SameMemory DEF HasBlock, Blocked
  <2>7. Freeing(p) => MP!Released(Sent, Len(Sent), p)
    <3>1. DOMAIN Sent = 1 .. Len(Sent)
      BY <1>1
    <3> QED BY <1>1, <3>1 DEF Freeing, InQueue, MP!Released
  <2> QED BY <2>3, <2>4, <2>5, <2>6, <2>7
<1> QED BY <1>2, <1>3, <1>4, <1>5, Zenon DEF MP!ClientBag

\* The memory after a pass: it answers what it was asked, and a block changes
\* hands only by a message of the kernel.
MemoryAfter ==
  /\ memory' \in MP!MemSet
  /\ memory'.armed <=> memory'.out_put # <<>>
  /\ \A p : InQueue(memory'.out_put, "responseMemory", p)
              <=> InQueue(Sent, "requestMemory", p)
  /\ \A p \in Pids : ~ InQueue(Sent, "requestMemory", p) =>
       (HasBlock(p)' <=> HasBlock(p) /\ ~ InQueue(Sent, "releaseMemory", p))
  /\ \A i, j \in DOMAIN memory'.out_put :
       memory'.out_put[i].value = memory'.out_put[j].value => i = j
  /\ \A i \in DOMAIN memory'.out_put :
       memory'.out_put[i].value2 = Mem!MEMORY_OK
         <=> Blocked(memory', memory'.out_put[i].value)

\* A pass makes of the memory what MemoryAfter says.
LEMMA MemoryEffect ==
  ASSUME IInv, NEW child, NEW draw, Pass(child, draw)
  PROVE  MemoryAfter
<1>1. Now # Infinity
  BY DEF Pass
<1>2. /\ memory' = IF Sent = <<>>
                  THEN IF memory.armed THEN Mem!MemoryInternal(memory)
                       ELSE memory
                  ELSE Mem!MemoryExternal(memory, Sent)
  <2>1. memory' = Advanced(MemoryM, child, memory, Mem!MemoryInternal(memory),
                           Mem!MemoryExternal(memory, Bag(MemoryM, child)))
    BY <1>1, ThisBags, MemoryPass
  <2>2. Bag(MemoryM, child) = Sent
    BY <1>1, ThisBags
  <2>3. IsDue(MemoryM) <=> memory.armed
    BY <1>1, DueFacts DEF IInv
  <2> QED BY <2>1, <2>2, <2>3 DEF Advanced
<1>3. memory \in MP!MemSet /\ (memory.out_put # <<>> => memory.armed)
  BY DEF IInv, InvMemory
<1>4. CASE Sent = <<>>
  <2>1. /\ memory' \in MP!MemSet /\ memory'.out_put = <<>>
        /\ ~ memory'.armed
        /\ memory'.memoryTable = memory.memoryTable
    <3>1. CASE memory.armed
      <4>1. memory' = [memory EXCEPT !.out_put = <<>>, !.armed = FALSE]
        BY <1>2, <1>4, <3>1 DEF Mem!MemoryInternal
      <4>2. memory = [f \in DOMAIN memory |-> memory[f]]
            /\ DOMAIN memory = {"memory", "memoryTable", "out_put", "armed"}
        BY <1>3 DEF MP!MemSet
      <4>3. /\ memory'.out_put = <<>> /\ memory'.armed = FALSE
            /\ memory'.memoryTable = memory.memoryTable
        BY <4>1, <4>2
      <4>4. memory' \in MP!MemSet
        <5>1. <<>> \in Seq(MP!RespSet)
          OBVIOUS
        <5> QED BY <1>3, <4>1, <5>1 DEF MP!MemSet
      <4> QED BY <4>3, <4>4
    <3>2. CASE ~ memory.armed
      BY <1>2, <1>3, <1>4, <3>2
    <3> QED BY <3>1, <3>2
  <2>2. memory'.armed \in BOOLEAN
    BY <2>1 DEF MP!MemSet
  <2>3. \A p : HasBlock(p)' <=> HasBlock(p)
    BY <2>1 DEF HasBlock, Blocked
  <2>4. DOMAIN memory'.out_put = {}
    BY <2>1
  <2> QED BY <1>4, <2>1, <2>2, <2>3, <2>4, QueueEmpty, Zenon DEF MemoryAfter
<1>5. CASE Sent # <<>>
  <2>1. /\ ~ memory.armed /\ memory.out_put = <<>>
        /\ Sent \in Seq(KP!OutputSet) /\ MP!ClientBag(memory, Sent)
    BY <1>1, <1>5, Phases, SentIs, SentToMemory
  <2>2. memory' = MP!MemoryExternal(memory, Sent)
    BY <1>2, <1>5, <2>1, SameMemoryExternal
  <2>3. MP!Served(memory, memory', Sent, Len(Sent))
    BY <1>3, <2>1, <2>2, Assumptions, MP!ClientBagEffect
  <2> DEFINE n == memory'
             out == memory'.out_put
             l == Len(Sent)
  <2>4. /\ n \in MP!MemSet
        /\ \A p \in Pids : ~ MP!Asked(Sent, l, p) =>
             n.memoryTable[p] = IF MP!Released(Sent, l, p) THEN MP!NoBlock
                                ELSE memory.memoryTable[p]
        /\ \A j \in DOMAIN out :
             /\ MP!Asked(Sent, l, out[j].value)
             /\ (out[j].value2 = MP!MEMORY_OK)
                  <=> (n.memoryTable[out[j].value] # MP!NoBlock)
        /\ \A i, j \in DOMAIN out : out[i].value = out[j].value => i = j
        /\ \A p : MP!Asked(Sent, l, p) => \E j \in DOMAIN out :
                                               out[j].value = p
        /\ n.armed <=> \E p : MP!Asked(Sent, l, p)
    BY <2>1, <2>3, Zenon DEF MP!Served
  <2>5. /\ \A p : MP!Asked(Sent, l, p) <=> InQueue(Sent, "requestMemory", p)
        /\ \A p : MP!Released(Sent, l, p) <=> InQueue(Sent, "releaseMemory", p)
    <3>1. DOMAIN Sent = 1 .. l
      BY <2>1
    <3> QED BY <3>1, Zenon DEF MP!Asked, MP!Released, InQueue
  <2>6. \A p : /\ HasBlock(p)' <=> n.memoryTable[p] # MP!NoBlock
               /\ Blocked(n, p) <=> n.memoryTable[p] # MP!NoBlock
    BY SameMemory DEF HasBlock, Blocked
  <2>7. \A p : HasBlock(p) <=> memory.memoryTable[p] # MP!NoBlock
    BY SameMemory DEF HasBlock, Blocked
  <2>8. out \in Seq(MP!RespSet)
    BY <2>4 DEF MP!MemSet
  <2>9. out # <<>> <=> \E j : j \in DOMAIN out
    BY <2>8, NotEmpty
  <2>10. \A j \in DOMAIN out : out[j].port = "responseMemory"
    <3>1. \A msg \in MP!RespSet : msg.port = "responseMemory"
      BY DEF MP!RespSet
    <3>2. \A j \in DOMAIN out : out[j] \in MP!RespSet
      BY <2>8
    <3> QED BY <3>1, <3>2
  <2>11. Mem!MEMORY_OK = MP!MEMORY_OK
    BY SameStates
  <2> HIDE DEF n, out, l
  <2>12. n.armed <=> out # <<>>
    BY <2>4, <2>9, Zenon
  <2>13. \A p : InQueue(out, "responseMemory", p)
              <=> InQueue(Sent, "requestMemory", p)
    <3>1. \A p : InQueue(out, "responseMemory", p)
                   <=> \E j \in DOMAIN out : out[j].value = p
      BY <2>10, Zenon DEF InQueue
    <3>2. \A p : MP!Asked(Sent, l, p)
                   <=> \E j \in DOMAIN out : out[j].value = p
      <4>1. \A j \in DOMAIN out : MP!Asked(Sent, l, out[j].value)
        BY <2>4
      <4>2. \A p : MP!Asked(Sent, l, p) => \E j \in DOMAIN out :
                                               out[j].value = p
        BY <2>4
      <4> QED BY <4>1, <4>2
    <3> QED BY <2>5, <3>1, <3>2, Zenon
  <2>14. \A p \in Pids : ~ InQueue(Sent, "requestMemory", p) =>
       (HasBlock(p)' <=> HasBlock(p) /\ ~ InQueue(Sent, "releaseMemory", p))
    BY <2>4, <2>5, <2>6, <2>7, Zenon
  <2>15. \A i \in DOMAIN out : out[i].value2 = Mem!MEMORY_OK
                                 <=> Blocked(n, out[i].value)
    BY <2>4, <2>6, <2>11, Zenon
  <2> QED BY <2>4, <2>12, <2>13, <2>14, <2>15, Zenon DEF MemoryAfter, n, out
<1> QED BY <1>4, <1>5

----------------------------------------------------------------------------
(* Timers.                                                                 *)

\* A model that makes a transition has a new timer, and the timer of any
\* other runs on.
LEMMA TimerMoves ==
  ASSUME InvTimes, NEW child, NEW draw, Pass(child, draw), NEW m \in Timed,
         NEW next \in 0 .. Infinity, NEW new \in 0 .. Infinity,
         TimerOK(m, next), TimeAdvance(m)' = new,
         Moves(m, child) \/ new = next
  PROVE  /\ TimerIs(left'[m], since'[m], new)
         /\ Moves(m, child) => left'[m] = new /\ since'[m] = 0
         /\ Now = 0 /\ ~ Moves(m, child) =>
              left'[m] = left[m] /\ since'[m] \in {0, since[m]}
         /\ left'[m] \in Nat /\ since'[m] \in Nat
<1>1. /\ m \in Sim!Models /\ left[m] \in Nat /\ since[m] \in Nat
      /\ left \in [Sim!Models -> Nat]
  BY ModelKinds DEF InvTimes
<1>2. Now \in Nat /\ Now < Infinity /\ Now =< left[m] /\ Infinity \in Nat \ {0}
  BY <1>1, NowIsFinite, NowIsSoonest, Bounds DEF Pass
<1>3. /\ left'[m] = IF Moves(m, child) THEN new ELSE Minus(left[m], Now)
      /\ Moves(m, child) => since'[m] = 0
      /\ since'[m] \in {0, since[m] + Now}
      /\ new = Infinity => since'[m] = 0
  BY <1>1, TimesPass
<1>4. TimerIs(left'[m], since'[m], new) <=>
        IF new = Infinity THEN left'[m] = Infinity /\ since'[m] = 0
        ELSE /\ since'[m] + left'[m] =< new
             /\ left'[m] = 0 => new = 0
  BY DEF TimerIs
<1>5. /\ next = Infinity => left[m] = Infinity /\ since[m] = 0
      /\ ~ Moves(m, child) => ~ IsDue(m)
      /\ ~ IsDue(m) /\ next # Infinity =>
              /\ left[m] - Now \in Nat \ {0}
              /\ since[m] + Now + (left[m] - Now) =< next
              /\ left[m] # Infinity
  BY <1>1, <1>2, TimersDue DEF TimerOK, TimerIs, Moves
<1> HIDE DEF Now
<1>6. CASE Moves(m, child)
  BY <1>3, <1>4, <1>6
<1>7. CASE ~ Moves(m, child)
  <2>1. new = next /\ left'[m] = Minus(left[m], Now)
    BY <1>3, <1>7
  <2>2. CASE next = Infinity
    BY <1>1, <1>2, <1>3, <1>4, <1>5, <1>7, <2>1, <2>2 DEF Minus
  <2>3. CASE next # Infinity
    <3>1. left'[m] = left[m] - Now /\ left'[m] \in Nat \ {0}
      BY <1>5, <1>7, <2>1, <2>3 DEF Minus
    <3>2. since'[m] + left'[m] =< new
      BY <1>1, <1>2, <1>3, <1>5, <1>7, <2>1, <2>3, <3>1
    <3>3. TimerIs(left'[m], since'[m], new)
      BY <1>4, <2>1, <2>3, <3>1, <3>2
    <3>4. Now = 0 => left'[m] = left[m] /\ since'[m] \in {0, since[m]}
      BY <1>1, <1>2, <1>3, <3>1
    <3> QED BY <1>1, <1>2, <1>3, <1>7, <3>1, <3>3, <3>4
  <2> QED BY <2>2, <2>3
<1> QED BY <1>6, <1>7

----------------------------------------------------------------------------
(* What a pass does to a program.                                          *)

\* The kernel starts p in this pass.
Begun(p) == InQueue(Sent, "ctrlApp", p)

\* A program that starts, or goes on with its next fork, draws a time.
LEMMA DrawnTimes ==
  ASSUME IInv, NEW child, NEW draw, Pass(child, draw), NEW p \in Pids,
         Begun(p) \/ Forks(p)
  PROVE  Drawn(draw)[p] \in 1 .. Infinity - 1
<1>1. Bag(ProgramM(p), child) = Sent /\ ProgramM(p) \in Sim!Models
  BY ThisBags, ModelKinds DEF Pass
<1>2. Sim!Calls(Outputs(child))[ProgramM(p)].inbox = Sent
  BY <1>1, CallsAre
<1>3. Begun(p) => Starts(Sent, p) # {}
  BY DEF Begun, InQueue, Starts
<1>4. p \in Draws(Sim!Calls(Outputs(child)))
  BY <1>2, <1>3 DEF Draws
<1>5. draw \in [Draws(Sim!Calls(Outputs(child))) -> ExecTimes]
  BY DEF Pass
<1> DEFINE D == Draws(Sim!Calls(Outputs(child)))
<1> HIDE DEF D
<1>6. Drawn(draw)[p] = draw[p] /\ draw[p] \in ExecTimes
  BY <1>4, <1>5 DEF Drawn, D
<1> QED BY <1>6, OSSimAssumption

\* Who is started runs, was not computing, and is told its type.
LEMMA StartKinds ==
  ASSUME IInv, Now # Infinity, NEW p \in Pids, Begun(p)
  PROVE  /\ State(p) = Ker!RUNNING /\ KindOf(p) \in {PROGRAM_IO, PROGRAM_FORK}
         /\ ~ IsDue(ProgramM(p))
         /\ \A i \in Starts(Sent, p) : Sent[i].value2 = KindOf(p)
<1>1. Sent # <<>> /\ Sent = kernel.out_put /\ Now = 0
  BY Phases, QueueEmpty DEF Begun
<1>2. Start(p)
  BY <1>1 DEF Begun, Start
<1>3. State(p) = Ker!RUNNING
  BY <1>2 DEF IInv, InvTokens, TokensOf
<1>4. KindOf(p) # 0
  BY <1>3, SameStates DEF IInv, InvKinds, KindsOf, Free
<1>5. KindOf(p) \in {PROGRAM_IO, PROGRAM_FORK, 0}
  BY KernelTyped DEF IInv, KindOf, KP!KernelSet
<1>6. \A i \in Starts(Sent, p) : Sent[i].value2 = KindOf(p)
  BY <1>1 DEF IInv, InvKinds, KindsOf, Starts
<1>7. ~ IsDue(ProgramM(p))
  BY <1>1, WorkDue DEF IInv
<1> QED BY <1>3, <1>4, <1>5, <1>6, <1>7

\* The program after a pass.
ProgramAfter(p) ==
  /\ program'[p] \in ProgramSet
  /\ Begun(p) =>
       /\ Comp(p)' /\ program'[p].type = KindOf(p)
       /\ program'[p].IO_count = program[p].IO_count
       /\ program'[p].fork_count = program[p].fork_count
  /\ ~ Begun(p) => program'[p].type = program[p].type
  /\ ~ Begun(p) /\ ~ IsDue(ProgramM(p)) =>
       /\ Comp(p)' <=> Comp(p)
       /\ program'[p].IO_count = program[p].IO_count
       /\ program'[p].fork_count = program[p].fork_count
  /\ IsDue(ProgramM(p)) /\ KindOf(p) = PROGRAM_IO =>
       /\ ~ Comp(p)'
       /\ program'[p].fork_count = program[p].fork_count
       /\ program'[p].IO_count = IF program[p].IO_count + 1 > IoCalls THEN 0
                                 ELSE program[p].IO_count + 1
  /\ IsDue(ProgramM(p)) /\ KindOf(p) = PROGRAM_FORK =>
       /\ Comp(p)' <=> ~ (program[p].fork_count + 1 > ForkCalls)
       /\ program'[p].IO_count = program[p].IO_count
       /\ program'[p].fork_count = program[p].fork_count + 1
  /\ Sent = <<>> /\ ~ IsDue(ProgramM(p)) => program'[p] = program[p]

\* The fields of a program are of their types.
LEMMA ProgramParts ==
  ASSUME InvPrograms, NEW p \in Pids
  PROVE  /\ program[p] \in ProgramSet
         /\ program[p].executing \in BOOLEAN
         /\ program[p].type \in {0, PROGRAM_IO, PROGRAM_FORK}
         /\ program[p].IO_count \in 0 .. IoCalls
         /\ program[p].fork_count \in 0 .. ForkCalls + 1
         /\ program[p].next_internal \in 1 .. Infinity
         /\ program[p] = [executing |-> program[p].executing,
                          type |-> program[p].type,
                          IO_count |-> program[p].IO_count,
                          fork_count |-> program[p].fork_count,
                          next_internal |-> program[p].next_internal]
BY DEF InvPrograms, ProgramSet

\* A record with such fields is a program.
LEMMA ProgramTyped ==
  ASSUME NEW n, NEW e \in BOOLEAN, NEW t \in {0, PROGRAM_IO, PROGRAM_FORK},
         NEW c \in 0 .. IoCalls, NEW f \in 0 .. ForkCalls + 1,
         NEW i \in 1 .. Infinity,
         n = [executing |-> e, type |-> t, IO_count |-> c, fork_count |-> f,
              next_internal |-> i]
  PROVE  n \in ProgramSet
BY DEF ProgramSet

\* A program that is due computes, is that of the running process, and is
\* alone: the kernel sends nothing then.
LEMMA DueProgram ==
  ASSUME IInv, Now # Infinity, NEW p \in Pids, IsDue(ProgramM(p))
  PROVE  /\ Comp(p) /\ Now # 0 /\ Sent = <<>> /\ ~ Begun(p)
         /\ State(p) = Ker!RUNNING
         /\ program[p].type = KindOf(p)
         /\ KindOf(p) \in {PROGRAM_IO, PROGRAM_FORK}
         /\ KindOf(p) = PROGRAM_FORK => program[p].fork_count =< ForkCalls
<1>1. Comp(p) /\ Now # 0
  BY WorkDue DEF IInv
<1>2. Sent = <<>>
  BY <1>1, Phases
<1>3. ~ Begun(p)
  BY <1>2, QueueEmpty DEF Begun
<1>4. State(p) = Ker!RUNNING /\ program[p].type = KindOf(p)
  BY <1>1 DEF IInv, InvTokens, TokensOf, InvKinds, KindsOf
<1>5. KindOf(p) # 0
  BY <1>4, SameStates DEF IInv, InvKinds, KindsOf, Free
<1>6. KindOf(p) \in {PROGRAM_IO, PROGRAM_FORK, 0}
  BY KernelTyped DEF IInv, KindOf, KP!KernelSet
<1>7. KindOf(p) = PROGRAM_FORK => program[p].fork_count =< ForkCalls
  BY <1>1 DEF IInv, InvCounts, CountsOf
<1> QED BY <1>1, <1>2, <1>3, <1>4, <1>5, <1>6, <1>7

\* A pass makes of a program what ProgramAfter says.
LEMMA ProgramEffect ==
  ASSUME IInv, NEW child, NEW draw, Pass(child, draw), NEW p \in Pids
  PROVE  ProgramAfter(p)
<1> DEFINE s == program[p]
           n == program'[p]
           d == Drawn(draw)[p]
           e == since[ProgramM(p)] + Now
<1>0. Now # Infinity
  BY DEF Pass
<1>1. n = IF Sent = <<>>
          THEN IF IsDue(ProgramM(p)) THEN ProgramInternal(s, d) ELSE s
          ELSE ProgramExternal(s, p, Sent, e, d)
  <2>1. /\ Bag(ProgramM(p), child) = Sent
        /\ ~ (Sim!Visits(ProgramM(p), Outputs(child)) > 1)
    BY <1>0, ThisBags
  <2> QED BY <2>1, ProgramPass DEF Advanced
<1>2. /\ s \in ProgramSet
      /\ s.executing \in BOOLEAN
      /\ s.type \in {0, PROGRAM_IO, PROGRAM_FORK}
      /\ s.IO_count \in 0 .. IoCalls
      /\ s.fork_count \in 0 .. ForkCalls + 1
      /\ s.next_internal \in 1 .. Infinity
      /\ s = [executing |-> s.executing, type |-> s.type,
              IO_count |-> s.IO_count, fork_count |-> s.fork_count,
              next_internal |-> s.next_internal]
  BY ProgramParts DEF IInv
<1>3. Infinity \in Nat \ {0} /\ IoCalls \in Nat /\ ForkCalls \in Nat
  BY Bounds, ProgramAssumption
<1>4. /\ Comp(p) <=> s.next_internal # Infinity
      /\ Comp(p)' <=> n.next_internal # Infinity
  BY DEF Comp
<1>5. CASE IsDue(ProgramM(p)) /\ KindOf(p) = PROGRAM_IO
  <2>1. Sent = <<>> /\ ~ Begun(p) /\ s.type = PROGRAM_IO
    BY <1>0, <1>5, DueProgram
  <2> HIDE DEF s, n, d, e
  <2>2. n = [s EXCEPT !.executing = FALSE, !.next_internal = Infinity,
                   !.IO_count = IF @ + 1 > IoCalls THEN 0 ELSE @ + 1]
    BY <1>1, <1>5, <2>1 DEF ProgramInternal, PROGRAM_IO, PROGRAM_FORK
  <2>3. /\ n.type = s.type /\ n.fork_count = s.fork_count
        /\ n.executing = FALSE /\ n.next_internal = Infinity
        /\ n.IO_count = IF s.IO_count + 1 > IoCalls THEN 0 ELSE s.IO_count + 1
        /\ n = [executing |-> n.executing, type |-> n.type,
                IO_count |-> n.IO_count, fork_count |-> n.fork_count,
                next_internal |-> n.next_internal]
    BY <1>2, <2>2
  <2>4. n \in ProgramSet
    <3>1. n.IO_count \in 0 .. IoCalls
      <4>1. /\ s.IO_count \in 0 .. IoCalls
            /\ n.IO_count = IF s.IO_count + 1 > IoCalls THEN 0
                            ELSE s.IO_count + 1
        BY <1>2, <2>3
      <4> QED BY <1>3, <4>1
    <3>2. FALSE \in BOOLEAN /\ Infinity \in 1 .. Infinity
      BY <1>3
    <3> QED BY <1>2, <2>3, <3>1, <3>2, ProgramTyped, Zenon
  <2> QED BY <1>4, <1>5, <2>1, <2>3, <2>4
         DEF ProgramAfter, s, n, PROGRAM_IO, PROGRAM_FORK
<1>6. CASE IsDue(ProgramM(p)) /\ KindOf(p) = PROGRAM_FORK
  <2>1. /\ Sent = <<>> /\ ~ Begun(p) /\ s.type = PROGRAM_FORK
        /\ s.fork_count =< ForkCalls
    BY <1>0, <1>6, DueProgram
  <2>2. d \in 1 .. Infinity - 1
    <3>1. Forks(p)
      BY <1>6, <2>1, ModelKinds DEF Forks, Sim!Due, IsDue, Now
    <3> QED BY <3>1, DrawnTimes
  <2>3. n = [s EXCEPT !.fork_count = @ + 1,
                   !.next_internal = IF s.fork_count + 1 > ForkCalls
                                     THEN Infinity ELSE d]
    BY <1>1, <1>6, <2>1 DEF ProgramInternal, PROGRAM_IO, PROGRAM_FORK
  <2> HIDE DEF s, n, d, e
  <2>4. /\ n.type = s.type /\ n.fork_count = s.fork_count + 1
        /\ n.executing = s.executing /\ n.IO_count = s.IO_count
        /\ n.next_internal = IF s.fork_count + 1 > ForkCalls
                             THEN Infinity ELSE d
        /\ n = [executing |-> n.executing, type |-> n.type,
                IO_count |-> n.IO_count, fork_count |-> n.fork_count,
                next_internal |-> n.next_internal]
    BY <1>2, <2>3
  <2>5. n \in ProgramSet
    <3>1. /\ n.fork_count \in 0 .. ForkCalls + 1
          /\ n.next_internal \in 1 .. Infinity
      <4>1. /\ s.fork_count \in 0 .. ForkCalls + 1 /\ s.fork_count =< ForkCalls
            /\ n.fork_count = s.fork_count + 1
            /\ n.next_internal \in {d, Infinity}
        BY <1>2, <2>1, <2>4
      <4> QED BY <1>3, <2>2, <4>1
    <3> QED BY <1>2, <2>4, <3>1, ProgramTyped, Zenon
  <2>6. n.next_internal # Infinity <=> ~ (s.fork_count + 1 > ForkCalls)
    BY <1>3, <2>2, <2>4
  <2> QED BY <1>4, <1>6, <2>1, <2>4, <2>5, <2>6
         DEF ProgramAfter, s, n, PROGRAM_IO, PROGRAM_FORK
<1>7. CASE Begun(p)
  <2>1. /\ ~ IsDue(ProgramM(p)) /\ KindOf(p) \in {PROGRAM_IO, PROGRAM_FORK}
        /\ \A i \in Starts(Sent, p) : Sent[i].value2 = KindOf(p)
    BY <1>0, <1>7, StartKinds
  <2>2. d \in 1 .. Infinity - 1
    BY <1>7, DrawnTimes
  <2>3. Sent # <<>> /\ Starts(Sent, p) # {}
    BY <1>7, QueueEmpty DEF Begun, InQueue, Starts
  <2> DEFINE typed == {i \in Starts(Sent, p) : Sent[i].value2 # 0}
  <2>4. n = [s EXCEPT !.executing = TRUE, !.next_internal = d,
                      !.type = IF typed = {} THEN @
                               ELSE Sent[Max(typed)].value2]
    BY <1>1, <2>3 DEF ProgramExternal
  <2>5. typed = Starts(Sent, p)
    BY <2>1 DEF PROGRAM_IO, PROGRAM_FORK
  <2>6. Max(typed) \in typed
    <3>1. Sent \in Seq(KP!OutputSet)
      BY <1>0, SentIs
    <3>2. typed \in SUBSET (0 .. Len(Sent)) /\ Len(Sent) \in Nat /\ typed # {}
      BY <2>3, <2>5, <3>1 DEF Starts
    <3> HIDE DEF typed
    <3> QED BY <3>2, MaxIsGreatest
  <2>7. Sent[Max(typed)].value2 = KindOf(p) /\ typed # {}
    BY <2>1, <2>3, <2>5, <2>6
  <2> HIDE DEF s, n, d, e, typed
  <2>8. /\ n.type = KindOf(p) /\ n.fork_count = s.fork_count
        /\ n.executing = TRUE /\ n.IO_count = s.IO_count
        /\ n.next_internal = d
        /\ n = [executing |-> n.executing, type |-> n.type,
                IO_count |-> n.IO_count, fork_count |-> n.fork_count,
                next_internal |-> n.next_internal]
    BY <1>2, <2>4, <2>7
  <2>9. n \in ProgramSet
    <3>1. /\ n.executing \in BOOLEAN
          /\ n.type \in {0, PROGRAM_IO, PROGRAM_FORK}
          /\ n.next_internal \in 1 .. Infinity
      <4>1. n.executing = TRUE /\ n.type = KindOf(p) /\ n.next_internal = d
        BY <2>8
      <4>2. n.executing \in BOOLEAN
        BY <4>1, Zenon
      <4> QED BY <1>3, <2>1, <2>2, <4>1, <4>2
    <3> QED BY <1>2, <2>8, <3>1, ProgramTyped, ZenonT(60)
  <2>10. n.next_internal # Infinity
    BY <1>3, <2>2, <2>8
  <2> QED BY <1>4, <1>7, <2>1, <2>3, <2>8, <2>9, <2>10 DEF ProgramAfter, s, n
<1>8. CASE ~ Begun(p) /\ ~ IsDue(ProgramM(p)) /\ Sent = <<>>
  <2>1. n = s
    BY <1>1, <1>8
  <2> HIDE DEF s, n, d, e
  <2> QED BY <1>2, <1>4, <1>8, <2>1 DEF ProgramAfter, s, n
<1>9. CASE ~ Begun(p) /\ ~ IsDue(ProgramM(p)) /\ Sent # <<>>
  <2>1. Starts(Sent, p) = {}
    BY <1>9 DEF Begun, InQueue, Starts
  <2>2. n = [s EXCEPT !.next_internal = Minus(@, e)]
    BY <1>1, <1>9, <2>1 DEF ProgramExternal
  <2>3. /\ TimerOK(ProgramM(p), s.next_internal)
        /\ left[ProgramM(p)] \in Nat /\ since[ProgramM(p)] \in Nat
        /\ Now \in Nat /\ Now < Infinity /\ Now =< left[ProgramM(p)]
    BY <1>0, NowIsFinite, NowIsSoonest, ModelKinds DEF IInv, InvTimes
  <2>4. s.next_internal # Infinity =>
          s.next_internal - e \in Nat \ {0} /\ e \in Nat
    BY <1>2, <1>9, <2>3, TimersDue, SMTT(30)
  <2> HIDE DEF s, n, d, e
  <2>5. /\ n.type = s.type /\ n.fork_count = s.fork_count
        /\ n.executing = s.executing /\ n.IO_count = s.IO_count
        /\ n.next_internal = Minus(s.next_internal, e)
        /\ n = [executing |-> n.executing, type |-> n.type,
                IO_count |-> n.IO_count, fork_count |-> n.fork_count,
                next_internal |-> n.next_internal]
    BY <1>2, <2>2
  <2>6. /\ n.next_internal \in 1 .. Infinity
        /\ n.next_internal = Infinity <=> s.next_internal = Infinity
    BY <1>2, <1>3, <2>4, <2>5 DEF Minus
  <2>7. n \in ProgramSet
    BY <1>2, <2>5, <2>6, ProgramTyped, Zenon
  <2> QED BY <1>4, <1>9, <2>5, <2>6, <2>7 DEF ProgramAfter, s, n
<1>10. IsDue(ProgramM(p)) => KindOf(p) \in {PROGRAM_IO, PROGRAM_FORK}
  BY <1>0, DueProgram
<1> QED BY <1>5, <1>6, <1>7, <1>8, <1>9, <1>10

----------------------------------------------------------------------------

\* The time of a program is kept; it is fresh when the program heard
\* something or was due, and stays fresh within the instant.
LEMMA ProgramTimes ==
  ASSUME IInv, NEW child, NEW draw, Pass(child, draw), NEW p \in Pids
  PROVE  /\ TimerOK(ProgramM(p), program[p].next_internal)'
         /\ left'[ProgramM(p)] \in Nat /\ since'[ProgramM(p)] \in Nat
         /\ IsDue(ProgramM(p)) \/ Sent # <<>> => Fresh(p)'
         /\ Now = 0 /\ Fresh(p) /\ ~ Begun(p) => Fresh(p)'
<1> DEFINE m == ProgramM(p)
           next == program[p].next_internal
           new == program'[p].next_internal
<1>1. /\ Bag(m, child) = Sent /\ m \in Timed /\ Now # Infinity
  BY ThisBags, ModelKinds DEF Pass
<1>2. Moves(m, child) <=> IsDue(m) \/ Sent # <<>>
  BY <1>1 DEF Moves
<1>3. next \in 0 .. Infinity /\ new \in 0 .. Infinity
  <2>1. \A s \in ProgramSet : s.next_internal \in 1 .. Infinity
    BY DEF ProgramSet
  <2>2. program[p] \in ProgramSet /\ program'[p] \in ProgramSet
    BY ProgramEffect DEF ProgramAfter, IInv, InvPrograms
  <2>3. next \in 1 .. Infinity /\ new \in 1 .. Infinity
    BY <2>1, <2>2
  <2> QED BY <2>3, Bounds
<1>4. TimerOK(m, next) /\ TimeAdvance(m)' = new
  BY TimeAdvancesNext DEF IInv, InvTimes
<1>5. ~ Moves(m, child) => new = next
  BY <1>2, ProgramEffect DEF ProgramAfter
<1>6. /\ TimerIs(left'[m], since'[m], new)
      /\ Moves(m, child) => left'[m] = new /\ since'[m] = 0
      /\ Now = 0 /\ ~ Moves(m, child) =>
           left'[m] = left[m] /\ since'[m] \in {0, since[m]}
      /\ left'[m] \in Nat /\ since'[m] \in Nat
  BY <1>1, <1>3, <1>4, <1>5, TimerMoves DEF IInv
<1>7. Moves(m, child) => Fresh(p)'
  BY <1>6 DEF Fresh
<1>8. Now = 0 /\ Fresh(p) /\ ~ Moves(m, child) => Fresh(p)'
  BY <1>5, <1>6 DEF Fresh
<1>9. TimerOK(m, program[p].next_internal)'
  BY <1>6 DEF TimerOK
<1> QED BY <1>2, <1>6, <1>7, <1>8, <1>9

----------------------------------------------------------------------------
(* What a pass does to the two operations of a process.                    *)

\* f becomes n: the operation name of p.
FunctionAfter(f, n, m, name, p) ==
  /\ FunctionOK(n, p)
  /\ InQueue(Passed, name, p) => /\ n.next_internal = 0
                                 /\ f.next_internal = Infinity
  /\ IsDue(m) => /\ n.active <=> ~ f.active
                 /\ n.next_internal # 0
  /\ ~ IsDue(m) /\ ~ InQueue(Passed, name, p) =>
       /\ n.active <=> f.active
       /\ f.next_internal # 0 /\ n.next_internal # 0

\* What a pass does to one operation.
LEMMA FunctionMoves ==
  ASSUME NEW p \in Pids, NEW f, NEW n, NEW m \in Timed, NEW name,
         FunctionOK(f, p), TimerOK(m, f.next_internal),
         left[m] \in Nat, since[m] \in Nat,
         Now \in Nat, Now < Infinity, Now =< left[m],
         n = IF Passed = <<>> THEN IF IsDue(m) THEN FunctionInternal(f) ELSE f
             ELSE FunctionExternal(f, name, p, Passed, since[m] + Now),
         IsDue(m) => Passed = <<>>,
         InQueue(Passed, name, p) => ~ f.active
  PROVE  /\ FunctionAfter(f, n, m, name, p)
         /\ f.next_internal \in 0 .. Infinity
         /\ n.next_internal \in 0 .. Infinity
         /\ ~ IsDue(m) /\ Passed = <<>> => n = f
<1> DEFINE e == since[m] + Now
           called == InQueue(Passed, name, p)
<1>1. /\ f.active \in BOOLEAN /\ f.functionNumber \in {1, p}
      /\ f.next_internal \in 0 .. Infinity
      /\ f = [active |-> f.active, functionNumber |-> f.functionNumber,
              next_internal |-> f.next_internal]
  BY DEF FunctionOK, FunctionSet
<1>2. /\ f.active <=> f.next_internal \notin {0, Infinity}
      /\ f.next_internal # Infinity => f.functionNumber = p
  BY DEF FunctionOK
<1>3. Infinity \in Nat \ {0} /\ IoTime \in Nat \ {0} /\ IoTime < Infinity
  BY Bounds
<1>4. /\ IsDue(m) => f.next_internal # Infinity
      /\ f.next_internal = 0 => Now = 0 /\ IsDue(m)
      /\ ~ IsDue(m) /\ f.next_internal # Infinity =>
           f.next_internal - e \in Nat \ {0}
  BY <1>1, TimersDue
<1>5. Passed = <<>> => ~ called
  BY QueueEmpty
<1>6. called <=> \E i \in DOMAIN Passed : /\ Passed[i].port = name
                                          /\ Passed[i].value = p
  BY DEF InQueue
<1>7. ASSUME NEW a \in BOOLEAN, NEW k \in {1, p}, NEW i \in 0 .. Infinity,
             n = [active |-> a, functionNumber |-> k, next_internal |-> i],
             a <=> i \notin {0, Infinity}, i # Infinity => k = p
      PROVE  FunctionOK(n, p) /\ (n.active <=> a) /\ n.next_internal = i
  BY <1>7 DEF FunctionOK, FunctionSet
<1> HIDE DEF e, called
<1>8. CASE IsDue(m)
  <2>1. n = [f EXCEPT !.active = ~ @,
                      !.next_internal = IF f.active THEN Infinity ELSE IoTime]
    BY <1>8 DEF FunctionInternal
  <2>2. n = [active |-> ~ f.active, functionNumber |-> f.functionNumber,
             next_internal |-> IF f.active THEN Infinity ELSE IoTime]
    BY <1>1, <2>1
  <2>3. /\ (~ f.active) \in BOOLEAN
        /\ (IF f.active THEN Infinity ELSE IoTime) \in 0 .. Infinity
        /\ (~ f.active) <=> (IF f.active THEN Infinity ELSE IoTime)
                                \notin {0, Infinity}
    BY <1>1, <1>3
  <2>4. f.functionNumber = p
    BY <1>2, <1>4, <1>8
  <2>5. /\ FunctionOK(n, p) /\ (n.active <=> ~ f.active)
        /\ n.next_internal = IF f.active THEN Infinity ELSE IoTime
    <3> DEFINE i == IF f.active THEN Infinity ELSE IoTime
               a == ~ f.active
    <3> HIDE DEF i, a
    <3>1. /\ a \in BOOLEAN /\ i \in 0 .. Infinity
          /\ a <=> i \notin {0, Infinity}
      BY <2>3 DEF a, i
    <3>2. n = [active |-> a, functionNumber |-> p, next_internal |-> i]
      BY <2>2, <2>4 DEF a, i
    <3>3. FunctionOK(n, p) /\ (n.active <=> a) /\ n.next_internal = i
      BY <1>7, <3>1, <3>2
    <3> QED BY <3>3 DEF a, i
  <2> QED BY <1>1, <1>3, <1>5, <1>8, <2>5 DEF FunctionAfter, called
<1>9. CASE called
  <2>1. Passed # <<>> /\ ~ IsDue(m)
    BY <1>5, <1>9
  <2>2. n = [f EXCEPT !.next_internal = 0, !.functionNumber = p]
    BY <1>6, <1>9, <2>1 DEF FunctionExternal
  <2>3. n = [active |-> f.active, functionNumber |-> p, next_internal |-> 0]
    BY <1>1, <2>2
  <2>4. ~ f.active /\ f.next_internal = Infinity
    BY <1>1, <1>2, <1>4, <1>9, <2>1 DEF called
  <2>5. FunctionOK(n, p) /\ n.next_internal = 0
    BY <1>1, <1>3, <1>7, <2>3, <2>4
  <2> QED BY <1>1, <1>3, <2>1, <2>4, <2>5, <1>9 DEF FunctionAfter, called
<1>10. CASE ~ IsDue(m) /\ ~ called /\ Passed = <<>>
  <2>1. n = f /\ f.next_internal # 0
    BY <1>4, <1>10
  <2> QED BY <1>1, <1>10, <2>1 DEF FunctionAfter, called
<1>11. CASE ~ IsDue(m) /\ ~ called /\ Passed # <<>>
  <2>1. n = [f EXCEPT !.next_internal = Minus(@, e)]
    BY <1>6, <1>11 DEF FunctionExternal, e
  <2> DEFINE i == Minus(f.next_internal, e)
  <2>2. /\ i \in 1 .. Infinity
        /\ i = Infinity <=> f.next_internal = Infinity
    <3>1. e \in Nat
      BY DEF e
    <3> QED BY <1>1, <1>3, <1>4, <1>11, <3>1 DEF Minus
  <2> HIDE DEF i
  <2>3. n = [active |-> f.active, functionNumber |-> f.functionNumber,
             next_internal |-> i]
    BY <1>1, <2>1 DEF i
  <2>4. f.next_internal # 0 /\ i # 0 /\ i \in 0 .. Infinity
    BY <1>3, <1>4, <1>11, <2>2
  <2>5. /\ f.active <=> i \notin {0, Infinity}
        /\ i # Infinity => f.functionNumber = p
    BY <1>2, <2>2, <2>4
  <2>6. FunctionOK(n, p) /\ (n.active <=> f.active) /\ n.next_internal = i
    BY <1>1, <1>7, <2>3, <2>4, <2>5
  <2> QED BY <1>1, <1>11, <2>4, <2>6 DEF FunctionAfter, called
<1> QED BY <1>8, <1>9, <1>10, <1>11

----------------------------------------------------------------------------

\* What the interface asks of the operations of p, and which of them end.
IoPassed(p) == \/ InQueue(Passed, "ReadFunction", p)
               \/ InQueue(Passed, "WriteFunction", p)
Ends(p) == \/ IsDue(WriteM(p)) /\ write[p].active
           \/ IsDue(ReadM(p)) /\ read[p].active

\* An operation is called only while its process is not at one already, and
\* a bag of the interface calls one process at most.
LEMMA CalledOnce ==
  ASSUME IInv, Now # Infinity, NEW p \in Pids, IoPassed(p)
  PROVE  /\ ~ Active(p) /\ ~ Begin(p)
         /\ ~ InQueue(Passed, "ReadFunction", p)
              \/ ~ InQueue(Passed, "WriteFunction", p)
<1>1. Passed = sci.out_put /\ Passed # <<>>
  BY SentIs, QueueEmpty DEF IoPassed
<1>2. Call(p)
  BY <1>1 DEF IoPassed, Call, IoCalled
<1>3. State(p) = Ker!RUNNING
  BY <1>2 DEF IInv, InvTokens, TokensOf
<1>4. ~ Active(p)
  BY <1>3, SameStates DEF IInv, InvTokens, TokensOf
<1>5. ~ Begin(p)
  BY <1>1, Phases DEF NoBegin
<1>6. \A i, j \in DOMAIN Passed :
        Passed[i].port # "IOApp" /\ Passed[j].port # "IOApp" => i = j
  BY <1>1 DEF IInv, InvSci
<1>7. ~ InQueue(Passed, "ReadFunction", p)
        \/ ~ InQueue(Passed, "WriteFunction", p)
  BY <1>6 DEF InQueue
<1> QED BY <1>4, <1>5, <1>7

\* What a pass does to the two operations of a process and their times.
LEMMA OperationsMove ==
  ASSUME IInv, NEW child, NEW draw, Pass(child, draw), NEW p \in Pids
  PROVE  /\ FunctionAfter(write[p], write'[p], WriteM(p), "WriteFunction", p)
         /\ FunctionAfter(read[p], read'[p], ReadM(p), "ReadFunction", p)
         /\ TimerOK(WriteM(p), write[p].next_internal)'
         /\ TimerOK(ReadM(p), read[p].next_internal)'
         /\ left'[WriteM(p)] \in Nat /\ since'[WriteM(p)] \in Nat
         /\ left'[ReadM(p)] \in Nat /\ since'[ReadM(p)] \in Nat
         /\ IsDue(WriteM(p)) => write[p].next_internal # Infinity
         /\ IsDue(ReadM(p)) => read[p].next_internal # Infinity
         /\ ~ IsDue(WriteM(p)) /\ Passed = <<>> => write'[p] = write[p]
         /\ ~ IsDue(ReadM(p)) /\ Passed = <<>> => read'[p] = read[p]
<1>1. /\ Now # Infinity /\ Now \in Nat /\ Now < Infinity
      /\ \A m \in Timed : /\ left[m] \in Nat /\ since[m] \in Nat
                          /\ Now =< left[m]
  BY NowIsFinite, NowIsSoonest, ModelKinds DEF Pass, IInv, InvTimes
<1>2. /\ FunctionOK(write[p], p) /\ FunctionOK(read[p], p)
      /\ TimerOK(WriteM(p), write[p].next_internal)
      /\ TimerOK(ReadM(p), read[p].next_internal)
  BY DEF IInv, InvPrograms, InvTimes
<1>3. WriteM(p) \in Timed /\ ReadM(p) \in Timed
  BY ModelKinds
<1>4. /\ Bag(WriteM(p), child) = Passed /\ Bag(ReadM(p), child) = Passed
      /\ ~ (Sim!Visits(WriteM(p), Outputs(child)) > 1)
      /\ ~ (Sim!Visits(ReadM(p), Outputs(child)) > 1)
  BY <1>1, ThisBags
<1>5. /\ IsDue(WriteM(p)) => Passed = <<>>
      /\ IsDue(ReadM(p)) => Passed = <<>>
  BY <1>1, Phases
<1>6. /\ IsDue(WriteM(p)) => write[p].next_internal # Infinity
      /\ IsDue(ReadM(p)) => read[p].next_internal # Infinity
  BY <1>1, WorkDue DEF IInv
<1>7. /\ InQueue(Passed, "WriteFunction", p) => ~ write[p].active
      /\ InQueue(Passed, "ReadFunction", p) => ~ read[p].active
  BY <1>1, CalledOnce DEF IoPassed, Active
<1>8. /\ write'[p] =
           IF Passed = <<>>
           THEN IF IsDue(WriteM(p)) THEN FunctionInternal(write[p])
                ELSE write[p]
           ELSE FunctionExternal(write[p], "WriteFunction", p, Passed,
                                 since[WriteM(p)] + Now)
      /\ read'[p] =
           IF Passed = <<>>
           THEN IF IsDue(ReadM(p)) THEN FunctionInternal(read[p])
                ELSE read[p]
           ELSE FunctionExternal(read[p], "ReadFunction", p, Passed,
                                 since[ReadM(p)] + Now)
  BY <1>4, WritePass, ReadPass DEF Advanced
<1>9. /\ FunctionAfter(write[p], write'[p], WriteM(p), "WriteFunction", p)
      /\ write[p].next_internal \in 0 .. Infinity
      /\ write'[p].next_internal \in 0 .. Infinity
      /\ ~ IsDue(WriteM(p)) /\ Passed = <<>> => write'[p] = write[p]
  BY <1>1, <1>2, <1>3, <1>5, <1>7, <1>8, FunctionMoves
<1>10. /\ FunctionAfter(read[p], read'[p], ReadM(p), "ReadFunction", p)
       /\ read[p].next_internal \in 0 .. Infinity
       /\ read'[p].next_internal \in 0 .. Infinity
       /\ ~ IsDue(ReadM(p)) /\ Passed = <<>> => read'[p] = read[p]
  BY <1>1, <1>2, <1>3, <1>5, <1>7, <1>8, FunctionMoves
<1>11. /\ Moves(WriteM(p), child) <=> IsDue(WriteM(p)) \/ Passed # <<>>
       /\ Moves(ReadM(p), child) <=> IsDue(ReadM(p)) \/ Passed # <<>>
  BY <1>4 DEF Moves
<1>12. /\ TimeAdvance(WriteM(p))' = write'[p].next_internal
       /\ TimeAdvance(ReadM(p))' = read'[p].next_internal
  BY TimeAdvancesNext
<1>13. /\ TimerIs(left'[WriteM(p)], since'[WriteM(p)], write'[p].next_internal)
       /\ left'[WriteM(p)] \in Nat /\ since'[WriteM(p)] \in Nat
  <2>1. \/ Moves(WriteM(p), child)
        \/ write'[p].next_internal = write[p].next_internal
    BY <1>9, <1>11
  <2> QED BY <1>2, <1>3, <1>9, <1>12, <2>1, TimerMoves DEF IInv
<1>14. /\ TimerIs(left'[ReadM(p)], since'[ReadM(p)], read'[p].next_internal)
       /\ left'[ReadM(p)] \in Nat /\ since'[ReadM(p)] \in Nat
  <2>1. \/ Moves(ReadM(p), child)
        \/ read'[p].next_internal = read[p].next_internal
    BY <1>10, <1>11
  <2> QED BY <1>2, <1>3, <1>10, <1>12, <2>1, TimerMoves DEF IInv
<1>15. /\ TimerOK(WriteM(p), write[p].next_internal)'
       /\ TimerOK(ReadM(p), read[p].next_internal)'
  BY <1>13, <1>14 DEF TimerOK
<1> QED BY <1>6, <1>9, <1>10, <1>13, <1>14, <1>15

\* The operations of a process after a pass.
OperationsAfter(p) ==
  /\ FunctionOK(write'[p], p) /\ FunctionOK(read'[p], p)
  /\ write'[p].next_internal = Infinity \/ read'[p].next_internal = Infinity
  /\ Begin(p)' <=> IoPassed(p)
  /\ Active(p)' <=> Begin(p) \/ (Active(p) /\ ~ Ends(p))
  /\ ~ IsDue(WriteM(p)) /\ Passed = <<>> => write'[p] = write[p]
  /\ ~ IsDue(ReadM(p)) /\ Passed = <<>> => read'[p] = read[p]

\* A pass makes of the operations what OperationsAfter says.
LEMMA OperationsEffect ==
  ASSUME IInv, NEW child, NEW draw, Pass(child, draw), NEW p \in Pids
  PROVE  OperationsAfter(p)
<1> DEFINE w == write[p]  wn == write'[p]
           r == read[p]   rn == read'[p]
<1>1. /\ FunctionAfter(w, wn, WriteM(p), "WriteFunction", p)
      /\ FunctionAfter(r, rn, ReadM(p), "ReadFunction", p)
      /\ IsDue(WriteM(p)) => w.next_internal # Infinity
      /\ IsDue(ReadM(p)) => r.next_internal # Infinity
  BY OperationsMove
<1>2. /\ w.next_internal = Infinity \/ r.next_internal = Infinity
      /\ FunctionOK(w, p) /\ FunctionOK(r, p)
  BY DEF IInv, InvPrograms
<1>3. \A f : FunctionOK(f, p) =>
        (f.active <=> f.next_internal \notin {0, Infinity})
  BY DEF FunctionOK
<1>4. 0 # Infinity
  BY Bounds
<1>5. /\ Active(p) <=> w.active \/ r.active
      /\ Active(p)' <=> wn.active \/ rn.active
      /\ Begin(p) <=> w.next_internal = 0 \/ r.next_internal = 0
      /\ Begin(p)' <=> wn.next_internal = 0 \/ rn.next_internal = 0
  BY DEF Active, Begin
<1>6. IoPassed(p) =>
        /\ ~ Active(p) /\ ~ Begin(p)
        /\ ~ InQueue(Passed, "ReadFunction", p)
             \/ ~ InQueue(Passed, "WriteFunction", p)
  BY CalledOnce DEF Pass
<1>7. w.next_internal = 0 => IsDue(WriteM(p))
  BY WorkDue DEF IInv, Pass
<1>8. r.next_internal = 0 => IsDue(ReadM(p))
  BY WorkDue DEF IInv, Pass
<1> DEFINE cw == InQueue(Passed, "WriteFunction", p)
           cr == InQueue(Passed, "ReadFunction", p)
           dw == IsDue(WriteM(p))
           dr == IsDue(ReadM(p))
<1>9. /\ FunctionOK(wn, p)
      /\ cw => wn.next_internal = 0 /\ w.next_internal = Infinity
      /\ dw => (wn.active <=> ~ w.active) /\ wn.next_internal # 0
      /\ ~ dw /\ ~ cw => (wn.active <=> w.active) /\ wn.next_internal # 0
  BY <1>1 DEF FunctionAfter
<1>10. /\ FunctionOK(rn, p)
       /\ cr => rn.next_internal = 0 /\ r.next_internal = Infinity
       /\ dr => (rn.active <=> ~ r.active) /\ rn.next_internal # 0
       /\ ~ dr /\ ~ cr => (rn.active <=> r.active) /\ rn.next_internal # 0
  BY <1>1 DEF FunctionAfter
<1>11. /\ w.active <=> w.next_internal \notin {0, Infinity}
       /\ r.active <=> r.next_internal \notin {0, Infinity}
       /\ wn.active <=> wn.next_internal \notin {0, Infinity}
       /\ rn.active <=> rn.next_internal \notin {0, Infinity}
  BY <1>2, <1>3, <1>9, <1>10
<1>12. /\ IoPassed(p) <=> cr \/ cw
       /\ Ends(p) <=> (dw /\ w.active) \/ (dr /\ r.active)
  BY DEF IoPassed, Ends
<1>16. /\ ~ IsDue(WriteM(p)) /\ Passed = <<>> => write'[p] = write[p]
       /\ ~ IsDue(ReadM(p)) /\ Passed = <<>> => read'[p] = read[p]
  BY OperationsMove
<1> HIDE DEF w, wn, r, rn, cw, cr, dw, dr
<1>13. Begin(p)' <=> IoPassed(p)
  BY <1>5, <1>9, <1>10, <1>12
<1>14. Active(p)' <=> Begin(p) \/ (Active(p) /\ ~ Ends(p))
  BY <1>1, <1>2, <1>4, <1>5, <1>6, <1>7, <1>8, <1>9, <1>10, <1>11,
     <1>12 DEF dw, dr, cw, cr
<1>15. wn.next_internal = Infinity \/ rn.next_internal = Infinity
  BY <1>1, <1>2, <1>4, <1>5, <1>6, <1>7, <1>8, <1>9, <1>10, <1>11,
     <1>12 DEF dw, dr, cw, cr
<1> QED BY <1>9, <1>10, <1>13, <1>14, <1>15, <1>16 DEF OperationsAfter, wn, rn

----------------------------------------------------------------------------

\* A pass keeps the programs and operations in order.
LEMMA ProgramsNext ==
  ASSUME IInv, NEW child, NEW draw, Pass(child, draw)
  PROVE  InvPrograms'
<1>1. DOMAIN program' = Pids /\ program' = [p \in Pids |-> program'[p]]
  <2> DEFINE calls == Sim!Calls(Outputs(child))
             dr == Drawn(draw)
             F(p) == Sim!Advance(calls[ProgramM(p)], program[p],
                   since[ProgramM(p)] + Now,
                   LAMBDA s : ProgramInternal(s, dr[p]),
                   LAMBDA s, bag, t : ProgramExternal(s, p, bag, t, dr[p]),
                   LAMBDA s : s.next_internal = 0)
  <2>1. program' = [p \in Pids |-> F(p)]
    BY DEF Pass, Transitions
  <2> HIDE DEF F
  <2> QED BY <2>1
<1>2. \A p \in Pids : program'[p] \in ProgramSet
  BY ProgramEffect DEF ProgramAfter
<1>3. program' \in [Pids -> ProgramSet]
  BY <1>1, <1>2
<1>4. \A p \in Pids : OperationsAfter(p)
  BY OperationsEffect
<1>5. \A p \in Pids :
       /\ FunctionOK(write'[p], p) /\ FunctionOK(read'[p], p)
       /\ \/ write'[p].next_internal = Infinity
          \/ read'[p].next_internal = Infinity
  BY <1>4 DEF OperationsAfter
<1>6. \A p \in Pids :
       (/\ FunctionOK(write[p], p) /\ FunctionOK(read[p], p)
        /\ \/ write[p].next_internal = Infinity
           \/ read[p].next_internal = Infinity)'
  BY <1>5 DEF FunctionOK
<1>7. (program \in [Pids -> ProgramSet])'
  BY <1>3 DEF ProgramSet
<1> QED BY <1>6, <1>7 DEF InvPrograms

----------------------------------------------------------------------------
(* The kinds of passes, by who sends to the kernel.                        *)

\* Whose turn it is in a pass.
ArrivalPass  == IsDue(Generator)
TimePass     == ~ IsDue(Generator) /\ Now # 0
CallPass     == sci.out_put # <<>>
AnswerPass   == memory.out_put # <<>>
BeginPass    == \E p \in Pids : Begin(p)
KernelOnly   == /\ ~ IsDue(Generator) /\ Now = 0
                /\ sci.out_put = <<>> /\ memory.out_put = <<>> /\ NoBegin

\* There is no other kind of pass.
LEMMA PassKinds ==
  \/ ArrivalPass \/ TimePass \/ CallPass \/ AnswerPass \/ BeginPass
  \/ KernelOnly
BY DEF ArrivalPass, TimePass, CallPass, AnswerPass, BeginPass, KernelOnly,
       NoBegin

\* Who is due in each of them.
LEMMA ArrivalDue ==
  ASSUME IInv, Now # Infinity, ArrivalPass
  PROVE  /\ Pristine /\ generator # <<>>
         /\ ~ IsDue(SciM)
         /\ IsDue(MemoryM) => IsDue(KernelM)
         /\ Sent = <<>> /\ Passed = <<>>
         /\ \A p \in Pids : /\ ~ IsDue(ProgramM(p)) /\ ~ IsDue(WriteM(p))
                            /\ ~ IsDue(ReadM(p))
<1>1. generator # <<>>
  BY DueFacts DEF IInv, ArrivalPass
<1>2. Pristine
  BY <1>1 DEF IInv, InvPhases
<1>3. /\ ~ IsDue(SciM) /\ Passed = <<>> /\ Sent = <<>>
  BY <1>2, DueFacts, SentIs DEF IInv, Pristine
<1>4. IsDue(MemoryM) => IsDue(KernelM)
  <2>1. memory.out_put = <<>>
    BY <1>2 DEF Pristine
  <2>2. memory.armed => kernel.armed
    BY <2>1 DEF IInv, InvPhases
  <2> QED BY <2>2, DueFacts DEF IInv
<1>5. ASSUME NEW p \in Pids
      PROVE  ~ IsDue(ProgramM(p)) /\ ~ IsDue(WriteM(p)) /\ ~ IsDue(ReadM(p))
  <2>1. /\ program[p].next_internal = Infinity
        /\ write[p].next_internal = Infinity
        /\ read[p].next_internal = Infinity
    BY <1>2, <1>5 DEF Pristine, InitialProgram, InitialFunction
  <2> QED BY <1>5, <2>1, WorkDue DEF IInv, Comp
<1> QED BY <1>1, <1>2, <1>3, <1>4, <1>5

\* When time passes everyone but programs and operations is at rest, and the
\* operations that are due have been at work.
LEMMA TimeDue ==
  ASSUME IInv, Now # Infinity, TimePass
  PROVE  /\ ~ IsDue(Generator) /\ ~ IsDue(KernelM) /\ ~ IsDue(SciM)
         /\ ~ IsDue(MemoryM)
         /\ ~ kernel.armed /\ ~ memory.armed
         /\ sci.out_put = <<>> /\ memory.out_put = <<>>
         /\ Sent = <<>> /\ Passed = <<>>
         /\ NoBegin /\ generator = <<>>
         /\ \A p \in Pids : ~ Asking(p)
         /\ \A p \in Pids : /\ IsDue(WriteM(p)) => write[p].active
                            /\ IsDue(ReadM(p)) => read[p].active
<1>1. /\ ~ IsDue(Generator) /\ ~ IsDue(KernelM) /\ ~ IsDue(SciM)
      /\ ~ IsDue(MemoryM) /\ ~ kernel.armed /\ ~ memory.armed
      /\ sci.out_put = <<>>
  BY DueFacts DEF IInv, TimePass
<1>2. memory.out_put = <<>>
  BY <1>1 DEF IInv, InvMemory
<1>3. Sent = <<>> /\ Passed = <<>>
  BY <1>1, SentIs
<1>4. \A p \in Pids : ~ Begin(p)
  BY WorkDue DEF IInv, Begin, TimePass
<1>5. PICK p \in Pids : \/ IsDue(ProgramM(p)) \/ IsDue(WriteM(p))
                        \/ IsDue(ReadM(p))
  BY <1>1, SomethingDue DEF IInv
<1>6. ASSUME NEW q \in Pids
      PROVE  /\ IsDue(WriteM(q)) => write[q].active
             /\ IsDue(ReadM(q)) => read[q].active
  <2>1. /\ IsDue(WriteM(q)) => write[q].next_internal \notin {0, Infinity}
        /\ IsDue(ReadM(q)) => read[q].next_internal \notin {0, Infinity}
    BY WorkDue DEF IInv, TimePass
  <2>2. FunctionOK(write[q], q) /\ FunctionOK(read[q], q)
    BY DEF IInv, InvPrograms
  <2> QED BY <2>1, <2>2 DEF FunctionOK
<1>7. Comp(p) \/ Active(p)
  BY <1>5, <1>6, WorkDue DEF IInv, Active
<1>8. generator = <<>>
  <2>1. SUFFICES ASSUME generator # <<>> PROVE FALSE
    OBVIOUS
  <2>2. Pristine
    BY <2>1 DEF IInv, InvPhases
  <2>3. program[p] = InitialProgram /\ write[p] = InitialFunction
        /\ read[p] = InitialFunction
    BY <2>2 DEF Pristine
  <2> QED BY <1>7, <2>3 DEF Comp, Active, InitialProgram, InitialFunction
<1>9. ASSUME NEW q \in Pids PROVE ~ Asking(q)
  <2>1. ~ NoWork
    BY <1>7 DEF NoWork
  <2> QED BY <1>1, <2>1 DEF IInv, InvPhases
<1> QED BY <1>1, <1>2, <1>3, <1>4, <1>6, <1>8, <1>9 DEF NoBegin

\* When a call is passed on, nothing but the kernel is due as well.
LEMMA CallDue ==
  ASSUME IInv, Now # Infinity, CallPass
  PROVE  /\ ~ IsDue(Generator) /\ IsDue(SciM) /\ ~ IsDue(MemoryM)
         /\ ~ memory.armed /\ memory.out_put = <<>> /\ generator = <<>>
         /\ Passed = sci.out_put /\ Now = 0 /\ NoBegin
         /\ \A p \in Pids : ~ Asking(p)
         /\ \A p \in Pids : /\ ~ IsDue(ProgramM(p)) /\ ~ IsDue(WriteM(p))
                            /\ ~ IsDue(ReadM(p))
<1>1. IsDue(SciM) /\ Passed = sci.out_put /\ Now = 0 /\ Passed # <<>>
  BY DueFacts, SentIs DEF IInv, CallPass
<1>2. /\ NoBegin
      /\ \A p \in Pids : /\ ~ IsDue(ProgramM(p)) /\ ~ IsDue(WriteM(p))
                         /\ ~ IsDue(ReadM(p))
  BY <1>1, Phases
<1>3. generator = <<>>
  BY DEF IInv, InvPhases, Pristine, CallPass
<1>4. memory.out_put = <<>> /\ ~ memory.armed
  BY DEF IInv, InvPhases, InvMemory, CallPass
<1>5. \A p \in Pids : ~ Asking(p)
  BY DEF IInv, InvPhases, CallPass
<1>6. ~ IsDue(Generator) /\ ~ IsDue(MemoryM)
  BY <1>3, <1>4, DueFacts DEF IInv
<1> QED BY <1>1, <1>2, <1>3, <1>4, <1>5, <1>6

\* When the memory answers, nothing else is due.
LEMMA AnswerDue ==
  ASSUME IInv, Now # Infinity, AnswerPass
  PROVE  /\ ~ IsDue(Generator) /\ ~ IsDue(KernelM) /\ ~ IsDue(SciM)
         /\ IsDue(MemoryM) /\ memory.armed /\ ~ kernel.armed
         /\ kernel.out_put = <<>> /\ sci.out_put = <<>> /\ generator = <<>>
         /\ Sent = <<>> /\ Passed = <<>> /\ Now = 0 /\ NoBegin
         /\ \A p \in Pids : /\ ~ IsDue(ProgramM(p)) /\ ~ IsDue(WriteM(p))
                            /\ ~ IsDue(ReadM(p))
<1>1. memory.armed
  BY DEF IInv, InvMemory, AnswerPass
<1>2. /\ ~ kernel.armed /\ kernel.out_put = <<>> /\ sci.out_put = <<>>
      /\ NoBegin
  BY DEF IInv, InvPhases, AnswerPass
<1>3. /\ IsDue(MemoryM) /\ ~ IsDue(KernelM) /\ ~ IsDue(SciM) /\ Now = 0
  BY <1>1, <1>2, DueFacts DEF IInv
<1>4. generator = <<>>
  BY DEF IInv, InvPhases, Pristine, AnswerPass
<1>5. ~ IsDue(Generator)
  BY <1>4, DueFacts DEF IInv
<1>6. \A p \in Pids : /\ ~ IsDue(ProgramM(p)) /\ ~ IsDue(WriteM(p))
                      /\ ~ IsDue(ReadM(p))
  BY <1>2, <1>3, WorkDue DEF IInv, NoBegin, Begin
<1>7. Sent = <<>> /\ Passed = <<>>
  BY <1>2, SentIs
<1> QED BY <1>1, <1>2, <1>3, <1>4, <1>5, <1>6, <1>7

\* When an operation begins, no program, interface or memory is due, and only
\* the running process begins one.
LEMMA BeginDue ==
  ASSUME IInv, Now # Infinity, NEW p \in Pids, Begin(p)
  PROVE  /\ ~ IsDue(Generator) /\ ~ IsDue(SciM) /\ ~ IsDue(MemoryM)
         /\ ~ memory.armed /\ memory.out_put = <<>> /\ sci.out_put = <<>>
         /\ generator = <<>> /\ Passed = <<>> /\ Now = 0
         /\ State(p) = Ker!RUNNING
         /\ \A q \in Pids : ~ Asking(q)
         /\ \A q \in Pids : /\ ~ IsDue(ProgramM(q))
                            /\ IsDue(WriteM(q)) => write[q].next_internal = 0
                            /\ IsDue(ReadM(q)) => read[q].next_internal = 0
                            /\ Begin(q) => q = p
<1>1. Now = 0
  BY WorkDue DEF IInv, Begin
<1>2. ~ NoBegin /\ ~ NoWork
  BY DEF NoBegin, NoWork
<1>3. sci.out_put = <<>> /\ memory.out_put = <<>> /\ ~ memory.armed
  BY <1>2 DEF IInv, InvPhases
<1>4. \A q \in Pids : ~ Asking(q)
  BY <1>2 DEF IInv, InvPhases
<1>5. generator = <<>>
  <2>1. SUFFICES ASSUME generator # <<>> PROVE FALSE
    OBVIOUS
  <2>2. write[p] = InitialFunction /\ read[p] = InitialFunction
    BY <2>1 DEF IInv, InvPhases, Pristine
  <2> QED BY <2>2, Bounds DEF Begin, InitialFunction
<1>6. ~ IsDue(Generator) /\ ~ IsDue(SciM) /\ ~ IsDue(MemoryM)
  BY <1>3, <1>5, DueFacts DEF IInv
<1>7. Passed = <<>>
  BY <1>3, SentIs
<1>8. \A q \in Pids : /\ ~ IsDue(ProgramM(q))
                      /\ IsDue(WriteM(q)) => write[q].next_internal = 0
                      /\ IsDue(ReadM(q)) => read[q].next_internal = 0
  BY <1>1, WorkDue DEF IInv
<1>9. \A q \in Pids : Begin(q) => State(q) = Ker!RUNNING
  BY DEF IInv, InvTokens, TokensOf
<1>10. \A q, r \in Pids :
         State(q) = Ker!RUNNING /\ State(r) = Ker!RUNNING => q = r
  <2>1. \A q, r \in KP!In(kernel, KP!RUNNING) : q = r
    BY KP!ConsistentParts, Assumptions DEF IInv, InvKernel
  <2> QED BY <2>1, SameStates DEF KP!In, State
<1> QED BY <1>1, <1>3, <1>4, <1>5, <1>6, <1>7, <1>8, <1>9, <1>10

\* When the kernel is alone, nothing else has something to say.
LEMMA KernelDue ==
  ASSUME IInv, Now # Infinity, KernelOnly
  PROVE  /\ IsDue(KernelM) /\ kernel.armed /\ ~ IsDue(SciM)
         /\ Sent = kernel.out_put /\ Passed = <<>>
         /\ \A p \in Pids : /\ ~ IsDue(ProgramM(p)) /\ ~ IsDue(WriteM(p))
                            /\ ~ IsDue(ReadM(p))
<1>1. \A p \in Pids : /\ ~ IsDue(ProgramM(p)) /\ ~ IsDue(WriteM(p))
                      /\ ~ IsDue(ReadM(p))
  BY WorkDue DEF IInv, KernelOnly, NoBegin, Begin
<1>2. ~ IsDue(SciM) /\ ~ IsDue(Generator)
  BY DueFacts DEF IInv, KernelOnly
<1>3. IsDue(MemoryM) => kernel.armed
  BY DueFacts DEF IInv, InvPhases, KernelOnly
<1>4. IsDue(KernelM) /\ kernel.armed
  BY <1>1, <1>2, <1>3, SomethingDue, DueFacts DEF IInv
<1>5. Sent = kernel.out_put /\ Passed = <<>>
  BY <1>4, SentIs DEF KernelOnly
<1> QED BY <1>1, <1>2, <1>4, <1>5

----------------------------------------------------------------------------
(* What the kernel finds in its inbox.                                     *)

\* Who the kernel may hear.
LEMMA KernelSenders ==
  ASSUME NEW child
  PROVE  /\ DOMAIN Outputs(child) \subseteq Sim!Models
         /\ \A s : s \in Senders(KernelM, Outputs(child)) <=>
              /\ IsDue(s)
              /\ \/ s \in {Generator, SciM, MemoryM}
                 \/ \E p \in Pids : s \in {WriteM(p), ReadM(p)}
         /\ \A s \in Senders(KernelM, Outputs(child)) :
              Outputs(child)[s] = OutputOf(s, child)
<1> DEFINE out == Outputs(child)
<1>1. /\ DOMAIN out \subseteq Sim!Models
      /\ \A s : s \in Senders(KernelM, out) <=>
           s \in Sim!Models /\ IsDue(s) /\ <<s, KernelM>> \in Couplings
      /\ \A s \in DOMAIN out : out[s] = OutputOf(s, child)
  BY OutputsAre
<1>2. \A s : <<s, KernelM>> \in Couplings <=>
        \/ s \in {Generator, SciM, MemoryM}
        \/ \E p \in Pids : s \in {WriteM(p), ReadM(p)}
  BY WhoSends
<1>3. \A s : <<s, KernelM>> \in Couplings => s \in Sim!Models
  BY <1>2, ModelKinds
<1>4. \A s \in Senders(KernelM, out) : s \in DOMAIN out
  BY DEF Senders
<1> HIDE DEF out
<1> QED BY <1>1, <1>2, <1>3, <1>4, Zenon DEF out

\* The bag holds what r sends if no one else has anything to say.
LEMMA KernelHears ==
  ASSUME NEW child, NEW T, NEW r, OutputOf(r, child) \in Seq(T), IsDue(r),
         \/ r \in {Generator, SciM, MemoryM}
         \/ \E p \in Pids : r \in {WriteM(p), ReadM(p)},
         \A s \in {Generator, SciM, MemoryM} :
           s # r /\ IsDue(s) => OutputOf(s, child) = <<>>,
         \A p \in Pids : /\ WriteM(p) # r => ~ IsDue(WriteM(p))
                         /\ ReadM(p) # r => ~ IsDue(ReadM(p))
  PROVE  Bag(KernelM, child) = OutputOf(r, child)
<1> DEFINE out == Outputs(child)
<1>1. /\ DOMAIN out \subseteq Sim!Models
      /\ \A s \in Senders(KernelM, out) : out[s] = OutputOf(s, child)
      /\ r \in Senders(KernelM, out)
      /\ \A s \in Senders(KernelM, out) : s # r => OutputOf(s, child) = <<>>
  BY KernelSenders, Zenon
<1>2. \A s \in Senders(KernelM, out) : out[s] \in Seq(T)
  <2>1. <<>> \in Seq(T)
    OBVIOUS
  <2> HIDE DEF out
  <2> QED BY <1>1, <2>1, Zenon
<1> HIDE DEF out
<1>3. \A s \in Senders(KernelM, out) : s # r => out[s] = <<>>
  BY <1>1, Zenon
<1>4. Sim!Inbox(KernelM, out) = out[r]
  BY <1>1, <1>2, <1>3, InboxOne
<1> QED BY <1>1, <1>4 DEF Bag, out

\* Nobody speaks to the kernel.
LEMMA KernelSilence ==
  ASSUME NEW child,
         \A s \in {Generator, SciM, MemoryM} :
           IsDue(s) => OutputOf(s, child) = <<>>,
         \A p \in Pids : ~ IsDue(WriteM(p)) /\ ~ IsDue(ReadM(p))
  PROVE  Bag(KernelM, child) = <<>>
<1> DEFINE out == Outputs(child)
<1>1. /\ DOMAIN out \subseteq Sim!Models
      /\ \A s \in Senders(KernelM, out) : out[s] = <<>>
  BY KernelSenders, Zenon
<1> HIDE DEF out
<1> QED BY <1>1, InboxEmpty DEF Bag, out

\* Whoever sends the kernel nothing, is the only one to do so, or finds the
\* kernel due.
LEMMA KernelVisits ==
  ASSUME IInv, Now # Infinity, NEW child
  PROVE  IsDue(KernelM) \/ ~ (Sim!Visits(KernelM, Outputs(child)) > 1)
<1> DEFINE out == Outputs(child)
<1> SUFFICES ASSUME ~ IsDue(KernelM)
             PROVE  ~ (Sim!Visits(KernelM, out) > 1)
  OBVIOUS
<1>1. /\ DOMAIN out \subseteq Sim!Models
      /\ \A s : s \in Senders(KernelM, out) <=>
              /\ IsDue(s)
              /\ \/ s \in {Generator, SciM, MemoryM}
                 \/ \E p \in Pids : s \in {WriteM(p), ReadM(p)}
      /\ \A s \in Senders(KernelM, out) : out[s] = OutputOf(s, child)
  BY KernelSenders
<1>2. /\ OutputOf(SciM, child) = sci.out_put
      /\ OutputOf(MemoryM, child) = memory.out_put
      /\ \A p \in Pids : /\ OutputOf(WriteM(p), child) = FunctionOut(write[p])
                         /\ OutputOf(ReadM(p), child) = FunctionOut(read[p])
  BY OutputsOf
<1>3. \A f : FunctionOut(f) # <<>>
  BY DEF FunctionOut
<1>4. IsDue(SciM) => sci.out_put # <<>>
  BY DueFacts DEF IInv
<1>5. IsDue(MemoryM) => memory.out_put # <<>>
  BY DueFacts DEF IInv, InvPhases
<1>6. IsDue(Generator) =>
        /\ ~ IsDue(SciM) /\ ~ IsDue(MemoryM)
        /\ \A p \in Pids : ~ IsDue(WriteM(p)) /\ ~ IsDue(ReadM(p))
  BY ArrivalDue DEF ArrivalPass
<1> HIDE DEF out
<1>7. \A s \in Senders(KernelM, out) : out[s] = <<>> => s = Generator
  <2> SUFFICES ASSUME NEW s \in Senders(KernelM, out), out[s] = <<>>,
                      s # Generator
               PROVE  FALSE
    OBVIOUS
  <2>1. IsDue(s) /\ OutputOf(s, child) = <<>>
    BY <1>1
  <2>2. s # SciM
    BY <1>2, <1>4, <2>1
  <2>3. s # MemoryM
    BY <1>2, <1>5, <2>1
  <2>4. PICK p \in Pids : s \in {WriteM(p), ReadM(p)}
    BY <1>1, <2>2, <2>3
  <2> QED BY <1>2, <1>3, <2>1, <2>4
<1>8. \A s, r \in Senders(KernelM, out) : out[s] = <<>> => s = r
  BY <1>1, <1>6, <1>7, Zenon
<1> QED BY <1>1, <1>8, VisitsBounds

\* What a pass does to the kernel.
LEMMA KernelMoves ==
  ASSUME IInv, NEW child, NEW draw, Pass(child, draw),
         NEW T, Bag(KernelM, child) \in Seq(T)
  PROVE  kernel' = IF Bag(KernelM, child) = <<>>
                   THEN IF kernel.armed THEN Ker!KernelInternal(kernel)
                        ELSE kernel
                   ELSE KP!KernelExternal(kernel, Bag(KernelM, child))
<1>1. Now # Infinity
  BY DEF Pass
<1>2. kernel' = Advanced(KernelM, child, kernel, Ker!KernelInternal(kernel),
                            Ker!KernelExternal(kernel, Bag(KernelM, child)))
  BY <1>1, KernelVisits, KernelPass
<1>3. IsDue(KernelM) <=> kernel.armed
  BY <1>1, DueFacts DEF IInv
<1>4. Ker!KernelExternal(kernel, Bag(KernelM, child))
        = KP!KernelExternal(kernel, Bag(KernelM, child))
  BY SameKernelExternal
<1> QED BY <1>2, <1>3, <1>4 DEF Advanced

\* After its internal transition the kernel has sent what it had.
LEMMA KernelRests ==
  ASSUME IInv
  PROVE  LET n == Ker!KernelInternal(kernel) IN
         /\ KP!Consistent(n) /\ n.out_put = <<>> /\ n.armed = FALSE
         /\ n.table = kernel.table
<1>1. KP!Consistent(kernel)
  BY DEF IInv, InvKernel
<1>2. Ker!KernelInternal(kernel) = KP!KernelInternal(kernel)
  BY DEF Ker!KernelInternal, KP!KernelInternal
<1>3. KP!Consistent(KP!KernelInternal(kernel))
  BY <1>1, Assumptions, KP!InternalConsistent
<1>4. kernel \in KP!KernelSet
  BY <1>1, Assumptions, KP!ConsistentParts
<1> QED BY <1>2, <1>3, <1>4 DEF Ker!KernelInternal, KP!KernelSet

----------------------------------------------------------------------------
(* What the system interface passes on.                                    *)

\* The loop of the interface over its bag.
SH == INSTANCE Handling_proofs WITH Handle <- InterfaceReceive

\* The interface handles a bag message by message.
LEMMA InterfaceIsLoop ==
  \A s, bag : InterfaceExternal(s, bag) = SH!Result(s, bag)
BY Zenon DEF InterfaceExternal, HandleAll, MapThenFoldSet, Max,
       SH!Result, SH!HandleAll, SH!MapThenFoldSet, SH!Max

\* A message under the port it is passed on.
Relay(msg) == [msg EXCEPT !.port = PassedOnAs[msg.port]]

\* An idle interface has passed on the first l messages of the bag.
Relayed(n, bag, l) ==
  /\ n = [out_put |-> n.out_put, armed |-> n.armed]
  /\ Len(n.out_put) = l
  /\ \A i \in 1 .. l : n.out_put[i] = Relay(bag[i])
  /\ n.armed \in BOOLEAN
  /\ n.armed <=> l # 0

\* It passes each message on, in order, and is due after any.
LEMMA RelayBagEffect ==
  ASSUME NEW T, NEW bag \in Seq(T),
         \A i \in DOMAIN bag : bag[i].port \in DOMAIN PassedOnAs,
         NEW U, \A i \in DOMAIN bag : Relay(bag[i]) \in U
  PROVE  LET n == InterfaceExternal(InitialInterface, bag) IN
         /\ n \in [out_put : Seq(U), armed : BOOLEAN]
         /\ Relayed(n, bag, Len(bag))
<1> DEFINE n == Len(bag)
<1>1. n \in Nat /\ DOMAIN bag = 1 .. n
  OBVIOUS
<1>2. PICK f : /\ SH!IsRun(f, n, InitialInterface, bag)
               /\ SH!Result(InitialInterface, bag) = f[n]
  BY <1>1, SH!LoopStates
<1> HIDE DEF n
<1> DEFINE S == {i \in Nat : /\ f[i] \in [out_put : Seq(U), armed : BOOLEAN]
                             /\ Relayed(f[i], bag, i)}
<1>3. 0 \in S
  <2>1. f[0] = [out_put |-> <<>>, armed |-> FALSE]
    BY <1>2 DEF SH!IsRun, InitialInterface
  <2> DEFINE s == f[0]
  <2> HIDE DEF s
  <2>2. /\ s.out_put = <<>> /\ s.armed = FALSE
        /\ s = [out_put |-> s.out_put, armed |-> s.armed]
    BY <2>1 DEF s
  <2>3. <<>> \in Seq(U) /\ Len(<<>>) = 0
    OBVIOUS
  <2>4. s \in [out_put : Seq(U), armed : BOOLEAN]
    BY <2>1, <2>3 DEF s
  <2>5. Relayed(s, bag, 0)
    <3>1. s.armed \in BOOLEAN /\ ~ s.armed
      BY <2>2, Zenon
    <3>2. \A i \in 1 .. 0 : s.out_put[i] = Relay(bag[i])
      OBVIOUS
    <3> QED BY <2>2, <2>3, <3>1, <3>2 DEF Relayed
  <2> QED BY <2>4, <2>5 DEF s
<1>4. ASSUME NEW i \in 0 .. n - 1, i \in S
      PROVE  i + 1 \in S
  <2> DEFINE s == f[i]
             t == f[i + 1]
             msg == bag[i + 1]
  <2>1. i + 1 \in 1 .. n /\ i \in Nat /\ i + 1 - 1 = i
    BY <1>1
  <2>2. t = InterfaceReceive(s, msg)
    BY <1>2, <2>1 DEF SH!IsRun
  <2>3. msg.port \in DOMAIN PassedOnAs /\ Relay(msg) \in U
    BY <1>1, <2>1
  <2>4. t = [s EXCEPT !.armed = TRUE, !.out_put = Append(@, Relay(msg))]
    BY <2>2, <2>3 DEF InterfaceReceive, Relay
  <2>5. /\ s \in [out_put : Seq(U), armed : BOOLEAN]
        /\ Relayed(s, bag, i)
    BY <1>4
  <2> HIDE DEF s, t
  <2>6. /\ s.out_put \in Seq(U) /\ Len(s.out_put) = i
        /\ \A j \in 1 .. i : s.out_put[j] = Relay(bag[j])
    BY <2>5 DEF Relayed
  <2>7. t = [out_put |-> Append(s.out_put, Relay(msg)), armed |-> TRUE]
    BY <2>4, <2>5
  <2> DEFINE q == s.out_put
             r == Append(q, Relay(msg))
  <2>8. /\ r \in Seq(U) /\ Len(r) = i + 1
        /\ \A j \in 1 .. i : r[j] = q[j]
        /\ r[i + 1] = Relay(msg)
    <3> HIDE DEF q
    <3>1. q \in Seq(U) /\ Len(q) = i
      BY <2>6 DEF q
    <3> QED BY <2>3, <3>1
  <2> HIDE DEF q, r
  <2>9. \A j \in 1 .. i + 1 : r[j] = Relay(bag[j])
    <3>1. \A j \in 1 .. i + 1 : j \in 1 .. i \/ j = i + 1
      BY <2>1
    <3> QED BY <2>6, <2>8, <3>1 DEF q
  <2>10. t = [out_put |-> r, armed |-> TRUE]
    BY <2>7 DEF r, q
  <2>11. t.out_put = r /\ t.armed = TRUE
    BY <2>10
  <2>12. t \in [out_put : Seq(U), armed : BOOLEAN]
    BY <2>8, <2>10
  <2>13. Relayed(t, bag, i + 1)
    BY <2>1, <2>8, <2>9, <2>10, <2>11 DEF Relayed
  <2> QED BY <2>1, <2>12, <2>13 DEF t
<1>5. 0 .. n \subseteq S
  <2> HIDE DEF S
  <2> QED BY <1>1, <1>3, <1>4, SH!UpTo DEF n
<1>6. n \in S
  BY <1>1, <1>5 DEF n
<1> QED BY <1>2, <1>6, InterfaceIsLoop DEF n

\* Who speaks to the interface says one thing, and is heard in one visit.
LEMMA SciSenders ==
  ASSUME NEW child
  PROVE  /\ DOMAIN Outputs(child) \subseteq Sim!Models
         /\ \A s : s \in Senders(SciM, Outputs(child))
                     <=> IsDue(s) /\ s \in Timed
         /\ \A s \in Senders(SciM, Outputs(child)) :
              Outputs(child)[s] = OutputOf(s, child)
         /\ ~ (Sim!Visits(SciM, Outputs(child)) > 1)
         /\ \A s \in Senders(SciM, Outputs(child)) :
              Len(Outputs(child)[s]) = 1
<1> DEFINE out == Outputs(child)
<1>1. /\ DOMAIN out \subseteq Sim!Models
      /\ \A s : s \in Senders(SciM, out) <=>
           s \in Sim!Models /\ IsDue(s) /\ <<s, SciM>> \in Couplings
      /\ \A s \in DOMAIN out : out[s] = OutputOf(s, child)
  BY OutputsAre
<1>2. \A s : <<s, SciM>> \in Couplings <=> s \in Timed
  BY WhoSends
<1>3. \A s \in Timed : s \in Sim!Models
  BY ModelKinds
<1>4. \A s \in Senders(SciM, out) : s \in DOMAIN out
  BY DEF Senders
<1> HIDE DEF out
<1>5. /\ \A s : s \in Senders(SciM, out) <=> IsDue(s) /\ s \in Timed
      /\ \A s \in Senders(SciM, out) : out[s] = OutputOf(s, child)
  BY <1>1, <1>2, <1>3, <1>4, Zenon
<1>6. ASSUME NEW s \in Senders(SciM, out)
      PROVE  Len(out[s]) = 1
  <2>1. PICK p \in Pids : s \in {ProgramM(p), WriteM(p), ReadM(p)}
    BY <1>5, ModelKinds
  <2>2. /\ OutputOf(ProgramM(p), child) = ProgramOut(program[p], p, child)
        /\ OutputOf(WriteM(p), child) = FunctionOut(write[p])
        /\ OutputOf(ReadM(p), child) = FunctionOut(read[p])
    BY OutputsOf
  <2>3. Len(ProgramOut(program[p], p, child)) = 1
    BY DEF ProgramOut
  <2>4. \A f : Len(FunctionOut(f)) = 1
    BY DEF FunctionOut
  <2> QED BY <1>5, <2>1, <2>2, <2>3, <2>4
<1>7. \A s \in Senders(SciM, out) : out[s] # <<>>
  BY <1>6
<1>8. ~ (Sim!Visits(SciM, out) > 1)
  BY <1>1, <1>7, VisitsBounds
<1> QED BY <1>1, <1>5, <1>6, <1>8 DEF out

\* The interface has nothing left after its internal transition.
LEMMA InterfaceRests ==
  ASSUME IInv
  PROVE  /\ sci.out_put = <<>> => sci = InitialInterface
         /\ InterfaceInternal(sci) = InitialInterface
<1>1. /\ sci \in [out_put : Seq(CallSet), armed : BOOLEAN]
      /\ sci.armed <=> sci.out_put # <<>>
  BY DEF IInv, InvSci
<1>2. /\ sci = [out_put |-> sci.out_put, armed |-> sci.armed]
      /\ sci.armed \in BOOLEAN
  BY <1>1
<1>3. InterfaceInternal(sci) = [out_put |-> <<>>, armed |-> FALSE]
  <2> DEFINE n == InterfaceInternal(sci)
  <2>1. n = [sci EXCEPT !.out_put = <<>>, !.armed = FALSE]
    BY DEF InterfaceInternal
  <2>2. n \in [out_put : {<<>>}, armed : {FALSE}]
    BY <1>1, <2>1
  <2> HIDE DEF n
  <2> QED BY <2>2 DEF n
<1>4. sci.out_put = <<>> => sci.armed = FALSE
  BY <1>1, <1>2
<1> QED BY <1>2, <1>3, <1>4 DEF InitialInterface

\* Where no program and no operation is due, the interface hears nothing.
LEMMA SciQuiet ==
  ASSUME IInv, NEW child, NEW draw, Pass(child, draw),
         \A p \in Pids : /\ ~ IsDue(ProgramM(p)) /\ ~ IsDue(WriteM(p))
                         /\ ~ IsDue(ReadM(p))
  PROVE  sci' = InitialInterface
<1> DEFINE out == Outputs(child)
<1>1. /\ DOMAIN out \subseteq Sim!Models
      /\ \A s \in Senders(SciM, out) : FALSE
      /\ ~ (Sim!Visits(SciM, out) > 1)
  BY SciSenders, ModelKinds
<1>2. Bag(SciM, child) = <<>>
  <2> HIDE DEF out
  <2> QED BY <1>1, InboxEmpty DEF Bag, out
<1>3. sci' = IF IsDue(SciM) THEN InterfaceInternal(sci) ELSE sci
  BY <1>1, <1>2, SciPass DEF Advanced
<1>4. IsDue(SciM) <=> sci.out_put # <<>>
  BY DueFacts DEF IInv, Pass
<1> QED BY <1>3, <1>4, InterfaceRests

----------------------------------------------------------------------------
(* What the interface passes on when an operation begins, or time passes.  *)

\* At most one process runs.
LEMMA OneRuns ==
  ASSUME IInv, NEW p \in Pids, NEW q \in Pids,
         State(p) = Ker!RUNNING, State(q) = Ker!RUNNING
  PROVE  p = q
<1>1. KP!Consistent(kernel)
  BY DEF IInv, InvKernel
<1>2. \A r, s \in KP!In(kernel, KP!RUNNING) : r = s
  BY <1>1, KP!ConsistentParts, Assumptions
<1>3. p \in KP!In(kernel, KP!RUNNING) /\ q \in KP!In(kernel, KP!RUNNING)
  BY SameStates DEF State, KP!In
<1> QED BY <1>2, <1>3

\* The reports of an operation.
StartIo(p) == [port |-> "startIO", value |-> p]
DoneIo(p)  == [port |-> "doneIO", value |-> p]

\* An operation that begins reports it, and is the only one due.
LEMMA BeginSpeaks ==
  ASSUME IInv, Now # Infinity, NEW p \in Pids, Begin(p), NEW child
  PROVE  \E r \in {WriteM(p), ReadM(p)} :
           /\ IsDue(r) /\ OutputOf(r, child) = <<StartIo(p)>>
           /\ \A q \in Pids : /\ ~ IsDue(ProgramM(q))
                              /\ WriteM(q) # r => ~ IsDue(WriteM(q))
                              /\ ReadM(q) # r => ~ IsDue(ReadM(q))
<1>1. \A q \in Pids :
        /\ ~ IsDue(ProgramM(q))
        /\ IsDue(WriteM(q)) => write[q].next_internal = 0 /\ q = p
        /\ IsDue(ReadM(q)) => read[q].next_internal = 0 /\ q = p
  BY BeginDue DEF Begin
<1>2. /\ FunctionOK(write[p], p) /\ FunctionOK(read[p], p)
      /\ write[p].next_internal = Infinity \/ read[p].next_internal = Infinity
  BY DEF IInv, InvPrograms
<1>3. /\ write[p].next_internal = 0 => IsDue(WriteM(p))
      /\ read[p].next_internal = 0 => IsDue(ReadM(p))
  BY WorkDue DEF IInv
<1>4. /\ OutputOf(WriteM(p), child) = FunctionOut(write[p])
      /\ OutputOf(ReadM(p), child) = FunctionOut(read[p])
  BY OutputsOf
<1>5. \A f : FunctionOK(f, p) /\ f.next_internal = 0 =>
               FunctionOut(f) = <<StartIo(p)>>
  <2> SUFFICES ASSUME NEW f, FunctionOK(f, p), f.next_internal = 0
               PROVE  FunctionOut(f) = <<StartIo(p)>>
    OBVIOUS
  <2>1. ~ f.active /\ f.functionNumber = p
    BY Bounds DEF FunctionOK
  <2> QED BY <2>1 DEF FunctionOut, StartIo
<1>6. 0 # Infinity
  BY Bounds
<1>7. CASE write[p].next_internal = 0
  <2>1. ~ IsDue(ReadM(p))
    BY <1>1, <1>2, <1>6, <1>7
  <2>2. \A q \in Pids : /\ WriteM(q) # WriteM(p) => ~ IsDue(WriteM(q))
                        /\ ~ IsDue(ReadM(q))
    BY <1>1, <2>1
  <2> QED BY <1>1, <1>2, <1>3, <1>4, <1>5, <1>7, <2>2
<1>8. CASE read[p].next_internal = 0
  <2>1. ~ IsDue(WriteM(p))
    BY <1>1, <1>2, <1>6, <1>8
  <2>2. \A q \in Pids : /\ ReadM(q) # ReadM(p) => ~ IsDue(ReadM(q))
                        /\ ~ IsDue(WriteM(q))
    BY <1>1, <2>1
  <2> QED BY <1>1, <1>2, <1>3, <1>4, <1>5, <1>8, <2>2
<1> QED BY <1>7, <1>8 DEF Begin

\* The interface has nothing left when an operation begins: it hears startIO.
LEMMA SciBegin ==
  ASSUME IInv, NEW child, NEW draw, Pass(child, draw),
         NEW p \in Pids, Begin(p)
  PROVE  sci' = InitialInterface
<1> DEFINE out == Outputs(child)
           bag == <<StartIo(p)>>
<1>0. Now # Infinity
  BY DEF Pass
<1>1. PICK r \in {WriteM(p), ReadM(p)} :
        /\ IsDue(r) /\ OutputOf(r, child) = bag
        /\ \A q \in Pids : /\ ~ IsDue(ProgramM(q))
                           /\ WriteM(q) # r => ~ IsDue(WriteM(q))
                           /\ ReadM(q) # r => ~ IsDue(ReadM(q))
  BY <1>0, BeginSpeaks
<1>2. /\ DOMAIN out \subseteq Sim!Models
      /\ \A s : s \in Senders(SciM, out) <=> IsDue(s) /\ s \in Timed
      /\ \A s \in Senders(SciM, out) : out[s] = OutputOf(s, child)
      /\ ~ (Sim!Visits(SciM, out) > 1)
  BY SciSenders
<1>3. \A s \in Senders(SciM, out) : s = r
  BY <1>1, <1>2, ModelKinds
<1>4. r \in Senders(SciM, out)
  BY <1>1, <1>2, ModelKinds
<1>5. bag \in Seq({StartIo(p)}) /\ bag # <<>> /\ Len(bag) = 1
      /\ bag[1] = StartIo(p)
  OBVIOUS
<1>6. Bag(SciM, child) = bag
  <2> HIDE DEF out, bag
  <2> QED BY <1>1, <1>2, <1>3, <1>4, <1>5, InboxOne DEF Bag, out
<1>7. sci' = InterfaceExternal(sci, bag)
  BY <1>2, <1>5, <1>6, SciPass DEF Advanced
<1>8. PICK f : SH!IsRun(f, 1, sci, bag) /\ SH!Result(sci, bag) = f[1]
  <2> HIDE DEF bag
  <2> HIDE DEF bag
  <2>1. DOMAIN bag = 1 .. 1
    BY <1>5
  <2> QED BY <2>1, SH!LoopStates
<1>9. f[1] = InterfaceReceive(f[0], bag[1]) /\ f[0] = sci
  BY <1>8 DEF SH!IsRun
<1>10. bag[1].port \notin DOMAIN PassedOnAs
  BY <1>5 DEF PassedOnAs, StartIo
<1>11. f[1] = sci
  BY <1>9, <1>10 DEF InterfaceReceive
<1>12. sci.out_put = <<>>
  BY <1>0, BeginDue
<1> QED BY <1>7, <1>8, <1>11, <1>12, InterfaceIsLoop, InterfaceRests

\* m is the call that p makes in its state, as the interface passes it on.
CallOf(m, p) ==
  /\ m.value = p
  /\ m.port \in {"ReadFunction", "WriteFunction"} <=>
       KindOf(p) = PROGRAM_IO /\ program[p].IO_count < IoCalls
  /\ m.port = "processComplete" <=>
       \/ KindOf(p) = PROGRAM_IO /\ ~ (program[p].IO_count < IoCalls)
       \/ KindOf(p) = PROGRAM_FORK /\ ~ (program[p].fork_count < ForkCalls)
  /\ m.port = "processFork" <=>
       KindOf(p) = PROGRAM_FORK /\ program[p].fork_count < ForkCalls

\* A program that forks calls the fork, with a child of I/O type.
LEMMA ForkOut ==
  ASSUME NEW s, s.type = PROGRAM_FORK, s.fork_count < ForkCalls,
         NEW p, NEW child
  PROVE  ProgramOut(s, p, child)
           = <<[port |-> "forkSCI", value |-> p, value2 |-> PROGRAM_IO,
                value3 |-> child.priority, value4 |-> child.size]>>
BY DEF ProgramOut, PROGRAM_IO, PROGRAM_FORK

\* A program that is due makes the call that CallOf says.
LEMMA ProgramSpeaks ==
  ASSUME IInv, NEW child, Now # Infinity, NEW p \in Pids, IsDue(ProgramM(p)),
         (\E q \in Pids : Forks(q)) => child \in Children
  PROVE  LET m == OutputOf(ProgramM(p), child)[1] IN
         /\ m.port \in DOMAIN PassedOnAs /\ Relay(m) \in CallSet
         /\ CallOf(Relay(m), p)
<1> DEFINE m == OutputOf(ProgramM(p), child)[1]
<1>1. m = ProgramOut(program[p], p, child)[1]
  BY OutputsOf
<1>2. /\ program[p].type = KindOf(p)
      /\ KindOf(p) \in {PROGRAM_IO, PROGRAM_FORK}
  BY DueProgram
<1>3. PROGRAM_IO = 1 /\ PROGRAM_FORK = 2
  BY DEF PROGRAM_IO, PROGRAM_FORK
<1>4. /\ program[p].IO_count \in Int /\ program[p].fork_count \in Int
  <2>1. /\ program[p].IO_count \in 0 .. IoCalls
        /\ program[p].fork_count \in 0 .. ForkCalls + 1
    BY ProgramParts DEF IInv
  <2> QED BY <2>1, ProgramAssumption
<1>5. CASE KindOf(p) = PROGRAM_IO
  <2>1. m = [port |-> IoCall(program[p]), value |-> p]
    BY <1>1, <1>2, <1>3, <1>5 DEF ProgramOut
  <2>2. /\ IoCall(program[p]) = "exitSCI" <=> ~ (program[p].IO_count < IoCalls)
        /\ IoCall(program[p]) \in {"exitSCI", "readSCI", "writeSCI"}
    <3>1. program[p].IO_count >= IoCalls <=> ~ (program[p].IO_count < IoCalls)
      BY <1>4, ProgramAssumption
    <3> QED BY <3>1 DEF IoCall
  <2> DEFINE c == IoCall(program[p])
  <2> HIDE DEF c
  <2>3. /\ c \in DOMAIN PassedOnAs
        /\ c = "exitSCI" => PassedOnAs[c] = "processComplete"
        /\ c = "readSCI" => PassedOnAs[c] = "ReadFunction"
        /\ c = "writeSCI" => PassedOnAs[c] = "WriteFunction"
    BY <2>2 DEF PassedOnAs, c
  <2>4. Relay(m) = [port |-> PassedOnAs[c], value |-> p] /\ m.port = c
    BY <2>1 DEF Relay, c
  <2> DEFINE d == PassedOnAs[c]
  <2>5. /\ d \in {"ReadFunction", "WriteFunction", "processComplete"}
        /\ d = "processComplete" <=> ~ (program[p].IO_count < IoCalls)
    BY <2>2, <2>3 DEF c
  <2> HIDE DEF d, m
  <2>6. Relay(m) = [port |-> d, value |-> p]
    BY <2>4 DEF d
  <2>7. Relay(m) \in CallSet /\ Relay(m).port = d /\ Relay(m).value = p
    BY <2>5, <2>6 DEF CallSet
  <2>8. CallOf(Relay(m), p)
    BY <1>3, <1>5, <2>5, <2>7 DEF CallOf
  <2> QED BY <2>3, <2>4, <2>7, <2>8 DEF m
<1>6. CASE KindOf(p) = PROGRAM_FORK
  <2>1. child \in Children
    BY <1>2, <1>6, ModelKinds DEF Forks, Sim!Due, IsDue, Now
  <2>2. child.priority \in Int /\ child.size \in BlockSizes
    BY <2>1, OSSimAssumption
  <2>3. CASE program[p].fork_count < ForkCalls
    <3>1. m = [port |-> "forkSCI", value |-> p, value2 |-> PROGRAM_IO,
               value3 |-> child.priority, value4 |-> child.size]
      BY <1>1, <1>2, <1>6, <2>3, ForkOut
    <3>2. /\ PassedOnAs["forkSCI"] = "processFork"
          /\ "forkSCI" \in DOMAIN PassedOnAs
      BY DEF PassedOnAs
    <3>3. Relay(m) = [port |-> "processFork", value |-> p,
                      value2 |-> PROGRAM_IO, value3 |-> child.priority,
                      value4 |-> child.size]
      BY <3>1, <3>2 DEF Relay
    <3>4. m.port = "forkSCI"
      BY <3>1
    <3> HIDE DEF m
    <3>5. Relay(m) \in CallSet
      BY <2>2, <3>3 DEF CallSet
    <3>6. CallOf(Relay(m), p)
      BY <1>3, <1>6, <2>3, <3>3 DEF CallOf
    <3> QED BY <3>2, <3>4, <3>5, <3>6 DEF m
  <2>4. CASE ~ (program[p].fork_count < ForkCalls)
    <3>1. m = [port |-> "exitSCI", value |-> p]
      BY <1>1, <1>2, <1>3, <1>6, <2>4 DEF ProgramOut
    <3>2. /\ PassedOnAs["exitSCI"] = "processComplete"
          /\ "exitSCI" \in DOMAIN PassedOnAs
      BY DEF PassedOnAs
    <3>3. Relay(m) = [port |-> "processComplete", value |-> p]
      BY <3>1, <3>2 DEF Relay
    <3>4. m.port = "exitSCI"
      BY <3>1
    <3> HIDE DEF m
    <3>5. Relay(m) \in CallSet
      BY <3>3 DEF CallSet
    <3>6. CallOf(Relay(m), p)
      BY <1>3, <1>6, <2>4, <3>3 DEF CallOf
    <3> QED BY <3>2, <3>4, <3>5, <3>6 DEF m
  <2> QED BY <2>3, <2>4
<1> QED BY <1>2, <1>5, <1>6

\* An operation that ends reports it, to no effect on the interface.
LEMMA OperationSpeaks ==
  ASSUME IInv, NEW child, Now # Infinity, TimePass, NEW p \in Pids,
         NEW s \in {WriteM(p), ReadM(p)}, IsDue(s)
  PROVE  /\ OutputOf(s, child) = <<DoneIo(p)>>
         /\ "doneIO" \in DOMAIN PassedOnAs
         /\ Relay(DoneIo(p)) \in CallSet
         /\ Relay(DoneIo(p)).port = "IOApp"
         /\ Active(p)
<1>1. /\ IsDue(WriteM(p)) => write[p].active
      /\ IsDue(ReadM(p)) => read[p].active
  BY TimeDue
<1>2. FunctionOK(write[p], p) /\ FunctionOK(read[p], p)
  BY DEF IInv, InvPrograms
<1>3. \A f : FunctionOK(f, p) /\ f.active => FunctionOut(f) = <<DoneIo(p)>>
  BY DEF FunctionOK, FunctionOut, DoneIo
<1>4. /\ OutputOf(WriteM(p), child) = FunctionOut(write[p])
      /\ OutputOf(ReadM(p), child) = FunctionOut(read[p])
  BY OutputsOf
<1>5. /\ "doneIO" \in DOMAIN PassedOnAs /\ PassedOnAs["doneIO"] = "IOApp"
  BY DEF PassedOnAs
<1>6. Relay(DoneIo(p)) = [port |-> "IOApp", value |-> p]
  BY <1>5 DEF Relay, DoneIo
<1>7. Relay(DoneIo(p)) \in CallSet
  BY <1>6 DEF CallSet
<1> QED BY <1>1, <1>2, <1>3, <1>4, <1>5, <1>6, <1>7 DEF Active

----------------------------------------------------------------------------
(* What the interface passes on when time passes.                          *)

\* The calls that wait in the interface after time has passed.
SciAfter ==
  /\ InvSci'
  /\ \A p \in Pids :
       /\ IoCalled(p)' <=> /\ IsDue(ProgramM(p)) /\ KindOf(p) = PROGRAM_IO
                           /\ program[p].IO_count < IoCalls
       /\ Exiting(p)' <=>
            /\ IsDue(ProgramM(p))
            /\ \/ KindOf(p) = PROGRAM_IO /\ ~ (program[p].IO_count < IoCalls)
               \/ /\ KindOf(p) = PROGRAM_FORK
                  /\ ~ (program[p].fork_count < ForkCalls)
       /\ Forking(p)' <=> /\ IsDue(ProgramM(p)) /\ KindOf(p) = PROGRAM_FORK
                          /\ program[p].fork_count < ForkCalls

\* What a model that is due says, and how it is passed on.
Speaks(m, child) == OutputOf(m, child)[1]

\* What models of processes say, and that only programs make calls.
LEMMA TimedSpeaks ==
  ASSUME IInv, NEW child, Now # Infinity, TimePass,
         (\E q \in Pids : Forks(q)) => child \in Children
  PROVE  /\ \A s \in Timed : IsDue(s) =>
              /\ Speaks(s, child).port \in DOMAIN PassedOnAs
              /\ Relay(Speaks(s, child)) \in CallSet
         /\ \A p \in Pids : IsDue(ProgramM(p)) =>
              CallOf(Relay(Speaks(ProgramM(p), child)), p)
         /\ \A s \in Timed :
              IsDue(s) /\ Relay(Speaks(s, child)).port # "IOApp" =>
                \E p \in Pids : s = ProgramM(p)
<1>1. \A p \in Pids : IsDue(ProgramM(p)) =>
        /\ Speaks(ProgramM(p), child).port \in DOMAIN PassedOnAs
        /\ Relay(Speaks(ProgramM(p), child)) \in CallSet
        /\ CallOf(Relay(Speaks(ProgramM(p), child)), p)
  BY ProgramSpeaks DEF Speaks
<1>2. \A p \in Pids : \A s \in {WriteM(p), ReadM(p)} : IsDue(s) =>
        /\ Speaks(s, child).port \in DOMAIN PassedOnAs
        /\ Relay(Speaks(s, child)) \in CallSet
        /\ Relay(Speaks(s, child)).port = "IOApp"
  <2> SUFFICES ASSUME NEW p \in Pids, NEW s \in {WriteM(p), ReadM(p)}, IsDue(s)
               PROVE  /\ Speaks(s, child).port \in DOMAIN PassedOnAs
                      /\ Relay(Speaks(s, child)) \in CallSet
                      /\ Relay(Speaks(s, child)).port = "IOApp"
    OBVIOUS
  <2>1. /\ OutputOf(s, child) = <<DoneIo(p)>>
        /\ "doneIO" \in DOMAIN PassedOnAs
        /\ Relay(DoneIo(p)) \in CallSet
        /\ Relay(DoneIo(p)).port = "IOApp"
    BY OperationSpeaks
  <2>2. Speaks(s, child) = DoneIo(p)
    BY <2>1 DEF Speaks
  <2>3. DoneIo(p).port = "doneIO"
    BY DEF DoneIo
  <2> QED BY <2>1, <2>2, <2>3
<1>3. \A s \in Timed : \E p \in Pids : s \in {ProgramM(p), WriteM(p), ReadM(p)}
  BY ModelKinds
<1>4. \A s \in Timed : \/ \E p \in Pids : s = ProgramM(p)
                       \/ \E p \in Pids : s \in {WriteM(p), ReadM(p)}
  BY <1>3
<1> QED BY <1>1, <1>2, <1>4, Zenon

\* A program says one thing.
LEMMA ProgramSays ==
  ASSUME NEW s, NEW p, NEW child
  PROVE  \E x : ProgramOut(s, p, child) = <<x>>
<1> DEFINE a == [port |-> IoCall(s), value |-> p]
           b == [port |-> "forkSCI", value |-> p, value2 |-> PROGRAM_IO,
                 value3 |-> child.priority, value4 |-> child.size]
           c == [port |-> "exitSCI", value |-> p]
           d == [port |-> "", value |-> p]
           io == s.type = PROGRAM_IO
           fork == s.type = PROGRAM_FORK
           more == s.fork_count < ForkCalls
<1> HIDE DEF a, b, c, d, io, fork, more
<1>1. ProgramOut(s, p, child) =
        CASE io -> <<a>> [] fork -> IF more THEN <<b>> ELSE <<c>>
          [] OTHER -> <<d>>
  BY Zenon DEF ProgramOut, a, b, c, d, io, fork, more
<1>2. ~ (io /\ fork)
  BY DEF io, fork, PROGRAM_IO, PROGRAM_FORK
<1>3. ProgramOut(s, p, child) \in {<<a>>, <<b>>, <<c>>, <<d>>}
  BY <1>1, <1>2
<1> QED BY <1>3

\* The messages that wait are those of the models that are due.
SciFrom(src, child) ==
  /\ sci' \in [out_put : Seq(CallSet), armed : BOOLEAN]
  /\ sci'.armed <=> sci'.out_put # <<>>
  /\ \A i \in DOMAIN sci'.out_put :
       /\ src[i] \in Timed /\ IsDue(src[i])
       /\ sci'.out_put[i] = Relay(Speaks(src[i], child))
  /\ \A i, j \in DOMAIN sci'.out_put : src[i] = src[j] => i = j
  /\ \A s \in Timed : IsDue(s) => \E i \in DOMAIN sci'.out_put : src[i] = s

\* The interface holds as many messages as it heard.
LEMMA SciTyped ==
  ASSUME NEW bag, Relayed(sci', bag, Len(bag)), Len(bag) \in Nat,
         sci' \in [out_put : Seq(CallSet), armed : BOOLEAN]
  PROVE  /\ DOMAIN sci'.out_put = 1 .. Len(bag)
         /\ sci'.armed <=> sci'.out_put # <<>>
         /\ \A i \in 1 .. Len(bag) : sci'.out_put[i] = Relay(bag[i])
<1> DEFINE q == sci'.out_put
           n == Len(bag)
<1>1. /\ q \in Seq(CallSet) /\ Len(q) = n
      /\ \A i \in 1 .. n : q[i] = Relay(bag[i])
      /\ sci'.armed <=> n # 0
  BY DEF Relayed
<1> HIDE DEF q, n
<1>2. DOMAIN q = 1 .. n
  BY <1>1
<1>3. q # <<>> <=> n # 0
  BY <1>1
<1> QED BY <1>1, <1>2, <1>3 DEF q, n

\* When time passes the interface hears everyone who is due, once.
LEMMA SciHears ==
  ASSUME IInv, NEW child, NEW draw, Pass(child, draw), TimePass
  PROVE  \E src : SciFrom(src, child)
<1> DEFINE out == Outputs(child)
           bag == Bag(SciM, child)
           T == {OutputOf(s, child)[1] : s \in Timed}
<1>0. Now # Infinity /\ ((\E q \in Pids : Forks(q)) => child \in Children)
  BY DEF Pass
<1>1. /\ DOMAIN out \subseteq Sim!Models
      /\ \A s : s \in Senders(SciM, out) <=> IsDue(s) /\ s \in Timed
      /\ \A s \in Senders(SciM, out) : out[s] = OutputOf(s, child)
      /\ ~ (Sim!Visits(SciM, out) > 1)
      /\ \A s \in Senders(SciM, out) : Len(out[s]) = 1
  BY SciSenders
<1>2. \A s \in Timed : IsDue(s) =>
        OutputOf(s, child) \in Seq({OutputOf(s, child)[1]})
  <2> SUFFICES ASSUME NEW s \in Timed, IsDue(s)
               PROVE  OutputOf(s, child) \in Seq({OutputOf(s, child)[1]})
    OBVIOUS
  <2>1. \A x : <<x>> \in Seq({x}) /\ <<x>>[1] = x
    OBVIOUS
  <2>2. PICK p \in Pids : s \in {ProgramM(p), WriteM(p), ReadM(p)}
    BY ModelKinds
  <2>3. /\ OutputOf(ProgramM(p), child) = ProgramOut(program[p], p, child)
        /\ OutputOf(WriteM(p), child) = FunctionOut(write[p])
        /\ OutputOf(ReadM(p), child) = FunctionOut(read[p])
    BY OutputsOf
  <2>4. \A f : \E x : FunctionOut(f) = <<x>>
    BY Zenon DEF FunctionOut
  <2>5. \E x : ProgramOut(program[p], p, child) = <<x>>
    BY ProgramSays
  <2>6. PICK x : OutputOf(s, child) = <<x>>
    BY <2>2, <2>3, <2>4, <2>5, Zenon
  <2> QED BY <2>1, <2>6
<1>3. \A s \in Senders(SciM, out) : out[s] \in Seq(T) /\ Len(out[s]) = 1
  <2> SUFFICES ASSUME NEW s \in Senders(SciM, out)
               PROVE  out[s] \in Seq(T) /\ Len(out[s]) = 1
    OBVIOUS
  <2>1. s \in Timed /\ IsDue(s) /\ out[s] = OutputOf(s, child)
        /\ Len(out[s]) = 1
    BY <1>1
  <2>2. out[s] \in Seq({OutputOf(s, child)[1]})
    BY <1>2, <2>1
  <2>3. {OutputOf(s, child)[1]} \subseteq T
    BY <2>1
  <2> HIDE DEF out, T
  <2> QED BY <2>1, <2>2, <2>3
<1>4. bag \in Seq(T)
  <2> HIDE DEF out, T
  <2> QED BY <1>1, <1>3, InboxTyped DEF Bag, out
<1>5. PICK src : ComesFrom(src, bag, Senders(SciM, out), out)
  <2> HIDE DEF out, T
  <2> QED BY <1>1, <1>3, InboxSingles DEF Bag, out
<1>6. /\ DOMAIN src = DOMAIN bag
      /\ \A i \in DOMAIN bag : /\ src[i] \in Timed /\ IsDue(src[i])
                               /\ bag[i] = Speaks(src[i], child)
      /\ \A i, j \in DOMAIN bag : src[i] = src[j] => i = j
      /\ \A s \in Timed : IsDue(s) => \E i \in DOMAIN bag : src[i] = s
  <2> HIDE DEF out, T, bag
  <2> QED BY <1>1, <1>5, Zenon DEF ComesFrom, Speaks
<1>7. /\ \A i \in DOMAIN bag : bag[i].port \in DOMAIN PassedOnAs
      /\ \A i \in DOMAIN bag : Relay(bag[i]) \in CallSet
  <2> HIDE DEF bag
  <2> QED BY <1>0, <1>6, TimedSpeaks
<1>8. sci = InitialInterface /\ ~ IsDue(SciM)
  BY <1>0, TimeDue, InterfaceRests
<1> HIDE DEF bag, T
<1>9. sci' = IF bag = <<>> THEN sci ELSE InterfaceExternal(sci, bag)
  BY <1>1, <1>8, SciPass DEF Advanced, bag
<1>10. /\ sci' \in [out_put : Seq(CallSet), armed : BOOLEAN]
       /\ Relayed(sci', bag, Len(bag))
  <2>1. CASE bag # <<>>
    BY <1>4, <1>7, <1>8, <1>9, <2>1, RelayBagEffect
  <2>2. CASE bag = <<>>
    <3>1. sci' = InitialInterface /\ Len(bag) = 0
      BY <1>8, <1>9, <2>2
    <3>2. InitialInterface \in [out_put : Seq(CallSet), armed : BOOLEAN]
      BY DEF InitialInterface
    <3>3. InitialInterface.out_put = <<>> /\ InitialInterface.armed = FALSE
          /\ InitialInterface = [out_put |-> InitialInterface.out_put,
                                 armed |-> InitialInterface.armed]
      BY DEF InitialInterface
    <3> DEFINE s == InitialInterface
    <3> HIDE DEF s
    <3>4. Relayed(s, bag, 0)
      <4>1. /\ s.out_put = <<>> /\ s.armed = FALSE
            /\ s = [out_put |-> s.out_put, armed |-> s.armed]
        BY <3>3 DEF s
      <4>2. s.armed \in BOOLEAN /\ ~ s.armed
        BY <4>1, Zenon
      <4>3. \A i \in 1 .. 0 : s.out_put[i] = Relay(bag[i])
        OBVIOUS
      <4>4. Len(s.out_put) = 0
        BY <4>1
      <4> QED BY <4>1, <4>2, <4>3, <4>4 DEF Relayed
    <3> QED BY <3>1, <3>2, <3>4 DEF s
  <2> QED BY <2>1, <2>2
<1>11. DOMAIN bag = 1 .. Len(bag) /\ Len(bag) \in Nat
  BY <1>4
<1>12. /\ DOMAIN sci'.out_put = 1 .. Len(bag)
       /\ sci'.armed <=> sci'.out_put # <<>>
       /\ \A i \in 1 .. Len(bag) : sci'.out_put[i] = Relay(bag[i])
  BY <1>10, <1>11, SciTyped
<1>13. SciFrom(src, child)
  BY <1>6, <1>10, <1>11, <1>12, Zenon DEF SciFrom
<1> QED BY <1>13

----------------------------------------------------------------------------

\* A port is waiting for p just if the program of p, being due, says so.
LEMMA SciPorts ==
  ASSUME IInv, NEW child, NEW draw, Pass(child, draw), TimePass,
         NEW src, SciFrom(src, child), NEW port, port # "IOApp",
         NEW p \in Pids
  PROVE  InQueue(sci'.out_put, port, p) <=>
           /\ IsDue(ProgramM(p))
           /\ Relay(Speaks(ProgramM(p), child)).port = port
<1> DEFINE q == sci'.out_put
<1>0. Now # Infinity /\ ((\E r \in Pids : Forks(r)) => child \in Children)
  BY DEF Pass
<1>1. /\ \A i \in DOMAIN q :
           /\ src[i] \in Timed /\ IsDue(src[i])
           /\ q[i] = Relay(Speaks(src[i], child))
      /\ \A s \in Timed : IsDue(s) => \E i \in DOMAIN q : src[i] = s
  BY DEF SciFrom
<1>2. /\ \A r \in Pids : IsDue(ProgramM(r)) =>
           CallOf(Relay(Speaks(ProgramM(r), child)), r)
      /\ \A s \in Timed :
           IsDue(s) /\ Relay(Speaks(s, child)).port # "IOApp" =>
             \E r \in Pids : s = ProgramM(r)
  BY <1>0, TimedSpeaks
<1> HIDE DEF q
<1>3. ASSUME InQueue(q, port, p)
      PROVE  /\ IsDue(ProgramM(p))
             /\ Relay(Speaks(ProgramM(p), child)).port = port
  <2>1. PICK i \in DOMAIN q : q[i].port = port /\ q[i].value = p
    BY <1>3 DEF InQueue
  <2>2. PICK r \in Pids : src[i] = ProgramM(r)
    BY <1>1, <1>2, <2>1
  <2>3. Relay(Speaks(ProgramM(r), child)).value = r
    BY <1>1, <1>2, <2>1, <2>2 DEF CallOf
  <2>4. r = p
    BY <1>1, <2>1, <2>2, <2>3
  <2> QED BY <1>1, <2>1, <2>2, <2>4
<1>4. ASSUME IsDue(ProgramM(p)),
             Relay(Speaks(ProgramM(p), child)).port = port
      PROVE  InQueue(q, port, p)
  <2>1. ProgramM(p) \in Timed
    BY ModelKinds
  <2>2. PICK i \in DOMAIN q : src[i] = ProgramM(p)
    BY <1>1, <1>4, <2>1
  <2>3. Relay(Speaks(ProgramM(p), child)).value = p
    BY <1>2, <1>4 DEF CallOf
  <2> QED BY <1>1, <1>4, <2>2, <2>3 DEF InQueue
<1> QED BY <1>3, <1>4 DEF q

\* When time passes, the calls made by programs are on their way.
LEMMA SciTime ==
  ASSUME IInv, NEW child, NEW draw, Pass(child, draw), TimePass
  PROVE  SciAfter
<1>0. Now # Infinity /\ ((\E r \in Pids : Forks(r)) => child \in Children)
  BY DEF Pass
<1>1. PICK src : SciFrom(src, child)
  BY SciHears
<1>2. /\ \A r \in Pids : IsDue(ProgramM(r)) =>
           CallOf(Relay(Speaks(ProgramM(r), child)), r)
      /\ \A s \in Timed :
           IsDue(s) /\ Relay(Speaks(s, child)).port # "IOApp" =>
             \E r \in Pids : s = ProgramM(r)
  BY <1>0, TimedSpeaks
<1>3. \A r, s \in Pids : IsDue(ProgramM(r)) /\ IsDue(ProgramM(s)) => r = s
  BY <1>0, DueProgram, OneRuns
<1>4. \A i, j \in DOMAIN sci'.out_put :
        sci'.out_put[i].port # "IOApp" /\ sci'.out_put[j].port # "IOApp"
          => i = j
  <2> SUFFICES ASSUME NEW i \in DOMAIN sci'.out_put,
                      NEW j \in DOMAIN sci'.out_put,
                      sci'.out_put[i].port # "IOApp",
                      sci'.out_put[j].port # "IOApp"
               PROVE  i = j
    OBVIOUS
  <2>1. PICK r \in Pids : src[i] = ProgramM(r) /\ IsDue(ProgramM(r))
    BY <1>1, <1>2 DEF SciFrom
  <2>2. PICK s \in Pids : src[j] = ProgramM(s) /\ IsDue(ProgramM(s))
    BY <1>1, <1>2 DEF SciFrom
  <2>3. src[i] = src[j]
    BY <1>3, <2>1, <2>2
  <2> QED BY <1>1, <2>3 DEF SciFrom
<1>5. InvSci'
  BY <1>1, <1>4 DEF InvSci, SciFrom
<1>6. ASSUME NEW p \in Pids
      PROVE  /\ IoCalled(p)' <=>
                  /\ IsDue(ProgramM(p)) /\ KindOf(p) = PROGRAM_IO
                  /\ program[p].IO_count < IoCalls
             /\ Exiting(p)' <=>
                  /\ IsDue(ProgramM(p))
                  /\ \/ /\ KindOf(p) = PROGRAM_IO
                        /\ ~ (program[p].IO_count < IoCalls)
                     \/ /\ KindOf(p) = PROGRAM_FORK
                        /\ ~ (program[p].fork_count < ForkCalls)
             /\ Forking(p)' <=>
                  /\ IsDue(ProgramM(p)) /\ KindOf(p) = PROGRAM_FORK
                  /\ program[p].fork_count < ForkCalls
  <2> DEFINE port == Relay(Speaks(ProgramM(p), child)).port
  <2>1. \A name : name # "IOApp" =>
          (InQueue(sci'.out_put, name, p) <=>
             IsDue(ProgramM(p)) /\ port = name)
    BY <1>1, SciPorts
  <2>2. IsDue(ProgramM(p)) =>
          /\ port \in {"ReadFunction", "WriteFunction"} <=>
               KindOf(p) = PROGRAM_IO /\ program[p].IO_count < IoCalls
          /\ port = "processComplete" <=>
               \/ KindOf(p) = PROGRAM_IO /\ ~ (program[p].IO_count < IoCalls)
               \/ /\ KindOf(p) = PROGRAM_FORK
                  /\ ~ (program[p].fork_count < ForkCalls)
          /\ port = "processFork" <=>
               KindOf(p) = PROGRAM_FORK /\ program[p].fork_count < ForkCalls
    BY <1>2 DEF CallOf
  <2> HIDE DEF port
  <2>3. /\ IoCalled(p)' <=> InQueue(sci'.out_put, "ReadFunction", p)
                              \/ InQueue(sci'.out_put, "WriteFunction", p)
        /\ Exiting(p)' <=> InQueue(sci'.out_put, "processComplete", p)
        /\ Forking(p)' <=> InQueue(sci'.out_put, "processFork", p)
    BY Zenon DEF IoCalled, Exiting, Forking, InQueue
  <2>4. /\ "ReadFunction" # "IOApp" /\ "WriteFunction" # "IOApp"
        /\ "processComplete" # "IOApp" /\ "processFork" # "IOApp"
    OBVIOUS
  <2> QED BY <2>1, <2>2, <2>3, <2>4
<1> QED BY <1>5, <1>6 DEF SciAfter

----------------------------------------------------------------------------

\* An empty interface is as SciAfter says if no program is due.
LEMMA RestedIs ==
  ASSUME sci' = InitialInterface, \A p \in Pids : ~ IsDue(ProgramM(p))
  PROVE  SciAfter
<1>1. /\ sci'.out_put = <<>> /\ sci'.armed = FALSE
      /\ sci' \in [out_put : Seq(CallSet), armed : BOOLEAN]
  BY DEF InitialInterface
<1>2. ~ sci'.armed /\ DOMAIN sci'.out_put = {}
  BY <1>1
<1>3. InvSci'
  BY <1>1, <1>2 DEF InvSci
<1>4. ASSUME NEW p \in Pids
      PROVE  ~ IoCalled(p)' /\ ~ Exiting(p)' /\ ~ Forking(p)'
  BY <1>2 DEF IoCalled, Exiting, Forking, InQueue
<1> QED BY <1>3, <1>4 DEF SciAfter

\* A pass makes of the interface what SciAfter says.
LEMMA SciEffect ==
  ASSUME IInv, NEW child, NEW draw, Pass(child, draw)
  PROVE  SciAfter /\ (~ TimePass => sci' = InitialInterface)
<1>0. Now # Infinity
  BY DEF Pass
<1>1. CASE TimePass
  BY <1>1, SciTime
<1>2. CASE BeginPass
  <2>1. PICK p \in Pids : Begin(p)
    BY <1>2 DEF BeginPass
  <2>2. \A q \in Pids : ~ IsDue(ProgramM(q))
    BY <1>0, <2>1, BeginDue
  <2>3. sci' = InitialInterface
    BY <2>1, SciBegin
  <2> QED BY <2>2, <2>3, RestedIs
<1>3. CASE ArrivalPass \/ CallPass \/ AnswerPass \/ KernelOnly
  <2>1. \A p \in Pids : /\ ~ IsDue(ProgramM(p)) /\ ~ IsDue(WriteM(p))
                        /\ ~ IsDue(ReadM(p))
    BY <1>0, <1>3, ArrivalDue, CallDue, AnswerDue, KernelDue
  <2>2. sci' = InitialInterface
    BY <2>1, SciQuiet
  <2> QED BY <2>1, <2>2, RestedIs
<1> QED BY <1>1, <1>2, <1>3, PassKinds

\* Times that are flags.
LEMMA Armings ==
  /\ \A flag : Arming(flag) \in Nat
  /\ \A l, d \in Nat : Minus(l, d) = IF l = Infinity THEN Infinity ELSE l - d
  /\ \A flag : ~ flag => Arming(flag) = Infinity
BY Bounds DEF Arming, Minus

\* The coordinator's time of a model that is timed by a flag.
LEMMA FlagTimes ==
  ASSUME InvTimes, NEW child, NEW draw, Pass(child, draw),
         NEW m \in {KernelM, SciM, MemoryM}, NEW flag, NEW flagNext,
         left[m] = Arming(flag), TimeAdvance(m)' = Arming(flagNext),
         ~ IsDue(m) => ~ flag,
         ~ Moves(m, child) => ~ flagNext
  PROVE  left'[m] = Arming(flagNext)
<1>1. m \in Sim!Models
  BY ModelKinds
<1>2. left'[m] = IF Moves(m, child) THEN TimeAdvance(m)'
                 ELSE Minus(left[m], Now)
  BY <1>1, TimesPass
<1>3. ASSUME ~ Moves(m, child) PROVE left'[m] = Infinity /\ ~ flagNext
  <2>1. left[m] = Infinity
    BY <1>3, Armings DEF Moves
  <2>2. Now \in Nat /\ Infinity \in Nat
    BY Bounds, NowIsFinite DEF Pass
  <2> QED BY <1>2, <1>3, <2>1, <2>2, Armings
<1> QED BY <1>2, <1>3, Armings

\* An input file of one instant has one batch.
LEMMA OneBatch ==
  ASSUME NEW g \in OneInstant, g # <<>>
  PROVE  /\ Tail(g) = <<>>
         /\ Head(g).wait \in 0 .. Infinity - 1
         /\ Head(g).arrivals \in Seq(ArrivalSet)
         /\ \A i, j \in DOMAIN Head(g).arrivals :
              Head(g).arrivals[i].value = Head(g).arrivals[j].value => i = j
<1> DEFINE B == [wait : 0 .. Infinity - 1, arrivals : Seq(ArrivalSet)]
<1>1. \E b \in B : /\ g = <<b>>
                   /\ \A i, j \in DOMAIN b.arrivals :
                        b.arrivals[i].value = b.arrivals[j].value => i = j
  BY Zenon DEF OneInstant
<1>2. PICK b \in B : /\ g = <<b>>
                     /\ \A i, j \in DOMAIN b.arrivals :
                          b.arrivals[i].value = b.arrivals[j].value => i = j
  BY <1>1, Zenon
<1>3. \A x : Tail(<<x>>) = <<>> /\ Head(<<x>>) = x
  OBVIOUS
<1>4. Tail(g) = <<>> /\ Head(g) = b
  BY <1>2, <1>3, Zenon
<1>5. b.wait \in 0 .. Infinity - 1 /\ b.arrivals \in Seq(ArrivalSet)
  OBVIOUS
<1> QED BY <1>2, <1>4, <1>5, ZenonT(60)

\* The generator after a pass.
LEMMA GeneratorTimes ==
  ASSUME IInv, NEW child, NEW draw, Pass(child, draw)
  PROVE  /\ left'[Generator] = Wait(generator')
         /\ generator' \in OneInstant
         /\ generator' = IF IsDue(Generator) THEN <<>> ELSE generator
<1>0. Now # Infinity /\ InvTimes /\ Now \in Nat /\ Now < Infinity
  BY NowIsFinite DEF Pass, IInv
<1>1. generator' = IF IsDue(Generator) THEN Tail(generator) ELSE generator
  BY GeneratorPass
<1>2. generator \in OneInstant /\ (generator # <<>> => Pristine)
  BY DEF IInv, InvPhases
<1>3. generator # <<>> => Tail(generator) = <<>>
  BY <1>2, OneBatch
<1>4. IsDue(Generator) => generator # <<>>
  BY <1>0, DueFacts DEF IInv
<1>5. <<>> \in OneInstant
  BY DEF OneInstant
<1>6. left'[Generator] = IF IsDue(Generator) THEN Wait(generator')
                         ELSE Minus(left[Generator], Now)
  BY <1>0, ThisBags, TimesPass, TimeAdvancesNext, ModelKinds DEF Moves
<1>7. left[Generator] = Wait(generator) /\ left[Generator] \in Nat
  BY <1>0, ModelKinds DEF InvTimes
<1>8. ASSUME ~ IsDue(Generator) PROVE left'[Generator] = left[Generator]
  <2>1. CASE generator = <<>>
    <3>1. left[Generator] = Infinity
      BY <1>7, <2>1 DEF Wait
    <3> QED BY <1>0, <1>6, <1>7, <1>8, <3>1, Armings
  <2>2. CASE generator # <<>>
    <3>1. Pristine
      BY <1>2, <2>2
    <3>2. \A p \in Pids : /\ ~ IsDue(ProgramM(p)) /\ ~ IsDue(WriteM(p))
                          /\ ~ IsDue(ReadM(p))
      BY <1>0, <3>1, WorkDue
         DEF Pristine, IInv, InitialProgram, InitialFunction, Comp
    <3>3. ~ IsDue(SciM)
      BY <1>0, <3>1, DueFacts DEF Pristine, IInv
    <3>4. IsDue(KernelM) \/ IsDue(MemoryM)
      BY <1>0, <1>8, <3>2, <3>3, SomethingDue
    <3>5. Now = 0
      BY <1>0, <3>4, DueFacts DEF IInv
    <3> DEFINE l == left[Generator]
    <3>6. left'[Generator] = Minus(l, 0) /\ l \in Nat
      BY <1>6, <1>7, <1>8, <3>5
    <3> HIDE DEF l
    <3>7. Minus(l, 0) = l
      BY <3>6, Armings
    <3> QED BY <3>6, <3>7 DEF l
  <2> QED BY <2>1, <2>2
<1> QED BY <1>1, <1>2, <1>3, <1>4, <1>5, <1>6, <1>7, <1>8

----------------------------------------------------------------------------

\* The times of the central models after a pass.
LEMMA CentralTimes ==
  ASSUME IInv, NEW child, NEW draw, Pass(child, draw)
  PROVE  /\ left'[KernelM] = Arming(kernel'.armed)
         /\ left'[SciM] = Arming(sci'.armed)
         /\ left'[MemoryM] = Arming(memory'.armed)
<1>0. Now # Infinity /\ InvTimes
  BY DEF Pass, IInv
<1>1. /\ IsDue(KernelM) <=> kernel.armed
      /\ IsDue(SciM) <=> sci.armed
      /\ IsDue(MemoryM) <=> memory.armed
  BY <1>0, DueFacts DEF IInv, InvSci
<1>2. /\ left[KernelM] = Arming(kernel.armed)
      /\ left[SciM] = Arming(sci.armed)
      /\ left[MemoryM] = Arming(memory.armed)
  BY <1>0 DEF InvTimes
<1>3. ~ Moves(KernelM, child) => ~ kernel'.armed
  <2> SUFFICES ASSUME ~ Moves(KernelM, child) PROVE ~ kernel'.armed
    OBVIOUS
  <2>1. Bag(KernelM, child) = <<>> /\ ~ kernel.armed
    BY <1>1 DEF Moves
  <2>2. Bag(KernelM, child) \in Seq({})
    BY <2>1
  <2>3. kernel' = kernel
    BY <2>1, <2>2, KernelMoves
  <2> QED BY <2>1, <2>3
<1>4. ~ Moves(SciM, child) => ~ sci'.armed
  <2> SUFFICES ASSUME ~ Moves(SciM, child) PROVE ~ sci'.armed
    OBVIOUS
  <2>1. Bag(SciM, child) = <<>> /\ ~ sci.armed /\ ~ IsDue(SciM)
    BY <1>1 DEF Moves
  <2>2. ~ (Sim!Visits(SciM, Outputs(child)) > 1)
    BY SciSenders
  <2>3. sci' = sci
    BY <2>1, <2>2, SciPass DEF Advanced
  <2> QED BY <2>1, <2>3
<1>5. ~ Moves(MemoryM, child) => ~ memory'.armed
  <2> SUFFICES ASSUME ~ Moves(MemoryM, child) PROVE ~ memory'.armed
    OBVIOUS
  <2>1. Bag(MemoryM, child) = <<>> /\ ~ memory.armed /\ ~ IsDue(MemoryM)
    BY <1>1 DEF Moves
  <2>2. ~ (Sim!Visits(MemoryM, Outputs(child)) > 1)
    BY <1>0, ThisBags
  <2>3. memory' = memory
    BY <2>1, <2>2, MemoryPass DEF Advanced
  <2> QED BY <2>1, <2>3
<1> QED BY <1>0, <1>1, <1>2, <1>3, <1>4, <1>5, FlagTimes, TimeAdvancesNext

\* A pass keeps the coordinator's times those of the models.
LEMMA TimesNext ==
  ASSUME IInv, NEW child, NEW draw, Pass(child, draw)
  PROVE  InvTimes'
<1>1. /\ left'[Generator] = Wait(generator') /\ generator' \in OneInstant
      /\ left'[KernelM] = Arming(kernel'.armed)
      /\ left'[SciM] = Arming(sci'.armed)
      /\ left'[MemoryM] = Arming(memory'.armed)
  BY GeneratorTimes, CentralTimes
<1>2. \A p \in Pids :
        /\ TimerOK(ProgramM(p), program[p].next_internal)'
        /\ TimerOK(WriteM(p), write[p].next_internal)'
        /\ TimerOK(ReadM(p), read[p].next_internal)'
        /\ left'[ProgramM(p)] \in Nat /\ since'[ProgramM(p)] \in Nat
        /\ left'[WriteM(p)] \in Nat /\ since'[WriteM(p)] \in Nat
        /\ left'[ReadM(p)] \in Nat /\ since'[ReadM(p)] \in Nat
  BY ProgramTimes, OperationsMove
<1>3. \A m \in Timed : left'[m] \in Nat /\ since'[m] \in Nat
  BY <1>2, ModelKinds
<1>4. Wait(generator') \in Nat
  <2> DEFINE g == generator'
  <2>1. g \in OneInstant
    BY <1>1
  <2> HIDE DEF g
  <2>2. g # <<>> => Head(g).wait \in 0 .. Infinity - 1
    BY <2>1, OneBatch
  <2>3. Wait(g) \in Nat
    BY <2>2, Bounds DEF Wait
  <2> QED BY <2>3 DEF g
<1>5. \A m \in Sim!Models : left'[m] \in Nat
  <2>1. \A m \in Central : left'[m] \in Nat
    BY <1>1, <1>4, Armings DEF Central
  <2> QED BY <1>3, <2>1, ModelKinds
<1>6. /\ left' = [m \in Sim!Models |-> left'[m]]
      /\ since' = [m \in Timed |-> since'[m]]
  <2> DEFINE calls == Sim!Calls(Outputs(child))
  <2>1. Times(Now, calls)
    BY DEF Pass
  <2> HIDE DEF calls
  <2> QED BY <2>1, Zenon DEF Times
<1>7. left' \in [Sim!Models -> Nat] /\ since' \in [Timed -> Nat]
  <2> DEFINE l == left'  s == since'
  <2>1. /\ l = [m \in Sim!Models |-> l[m]] /\ s = [m \in Timed |-> s[m]]
        /\ \A m \in Sim!Models : l[m] \in Nat
        /\ \A m \in Timed : s[m] \in Nat
    BY <1>3, <1>5, <1>6
  <2> HIDE DEF l, s
  <2>2. l \in [Sim!Models -> Nat] /\ s \in [Timed -> Nat]
    BY <2>1
  <2> QED BY <2>2 DEF l, s
<1> QED BY <1>1, <1>2, <1>7 DEF InvTimes

----------------------------------------------------------------------------
(* What is left to show of a pass, and how the parts give the invariant.   *)

\* What the invariant says of one process.
ProcessOf(p) == TokensOf(p) /\ KindsOf(p) /\ CountsOf(p) /\ BlocksOf(p)

\* What depends on the kind of the pass.
Remaining ==
  /\ InvKernel /\ InvPhases
  /\ \A p \in Pids : ProcessOf(p)
  /\ MP!Ordered(kernel.out_put)

\* The invariant says it.
LEMMA ProcessesBefore ==
  ASSUME IInv, NEW p \in Pids
  PROVE  ProcessOf(p)
BY DEF IInv, ProcessOf, InvTokens, InvKinds, InvCounts, InvBlocks

\* With what remains the whole invariant is kept.
LEMMA Assembled ==
  ASSUME IInv, NEW child, NEW draw, Pass(child, draw), Remaining'
  PROVE  IInv'
<1>1. MemoryAfter
  BY MemoryEffect
<1>2. InvMemory'
  BY <1>1 DEF MemoryAfter, InvMemory
<1>3. InvSci' /\ InvPrograms' /\ InvTimes'
  BY SciEffect, ProgramsNext, TimesNext DEF SciAfter
<1>4. InvBlocks'
  <2>1. \A p \in Pids : BlocksOf(p)'
    BY DEF Remaining, ProcessOf
  <2>2. /\ \A i, j \in DOMAIN memory'.out_put :
             memory'.out_put[i].value = memory'.out_put[j].value => i = j
        /\ \A i \in DOMAIN memory'.out_put :
             memory'.out_put[i].value2 = Mem!MEMORY_OK
               <=> HasBlock(memory.out_put[i].value)'
    BY <1>1 DEF MemoryAfter, HasBlock, Blocked
  <2> QED BY <2>1, <2>2 DEF InvBlocks, Remaining
<1>5. InvTokens' /\ InvKinds' /\ InvCounts'
  BY DEF Remaining, ProcessOf, InvTokens, InvKinds, InvCounts
<1> QED BY <1>2, <1>3, <1>4, <1>5 DEF Remaining, IInv

\* The memory answers nothing that it was not asked.
LEMMA NoAnswers ==
  ASSUME MemoryAfter, \A p \in Pids : ~ InQueue(Sent, "requestMemory", p)
  PROVE  memory'.out_put = <<>> /\ ~ memory'.armed
<1> DEFINE q == memory'.out_put
<1>1. q \in Seq(MP!RespSet) /\ (memory'.armed <=> q # <<>>)
      /\ \A p : ~ (p \in Pids /\ InQueue(q, "responseMemory", p))
  BY DEF MemoryAfter, MP!MemSet
<1>2. \A m \in MP!RespSet : m.port = "responseMemory" /\ m.value \in Pids
  BY DEF MP!RespSet
<1> HIDE DEF q
<1>3. \A i \in DOMAIN q : q[i] \in MP!RespSet
  BY <1>1
<1>4. \A i \in DOMAIN q : FALSE
  BY <1>1, <1>2, <1>3 DEF InQueue
<1>5. q = <<>>
  BY <1>1, <1>4, NotEmpty
<1> QED BY <1>1, <1>5 DEF q

\* The start messages for p name the type t.
StartsAre(out, p, t) ==
  \A i \in DOMAIN out :
    out[i].port = "ctrlApp" /\ out[i].value = p => out[i].value2 = t

\* What an additional message makes of a queue.
LEMMA AppendEffect ==
  ASSUME NEW T, NEW q \in Seq(T), NEW msg
  PROVE  /\ \A port, p : InQueue(Append(q, msg), port, p)
              <=> InQueue(q, port, p) \/ (msg.port = port /\ msg.value = p)
         /\ \A p, t : StartsAre(Append(q, msg), p, t)
              <=> /\ StartsAre(q, p, t)
                  /\ msg.port = "ctrlApp" /\ msg.value = p => msg.value2 = t
         /\ Append(q, msg) # <<>>
         /\ (\A i \in DOMAIN q : q[i].port # "requestMemory") =>
              MP!Ordered(Append(q, msg))
<1> DEFINE r == Append(q, msg)
<1>1. /\ Len(q) \in Nat /\ DOMAIN q = 1 .. Len(q)
      /\ DOMAIN r = 1 .. (Len(q) + 1) /\ r[Len(q) + 1] = msg
      /\ \A i \in 1 .. Len(q) : r[i] = q[i]
      /\ r # <<>>
  OBVIOUS
<1>2. \A port, p : InQueue(r, port, p)
        <=> InQueue(q, port, p) \/ (msg.port = port /\ msg.value = p)
  BY QueueAppend
<1> DEFINE n == Len(q)
<1> HIDE DEF r, n
<1>3. \A i : i \in 1 .. (n + 1) <=> i \in 1 .. n \/ i = n + 1
  BY <1>1 DEF n
<1>4. \A p, t : StartsAre(r, p, t)
        <=> /\ StartsAre(q, p, t)
            /\ msg.port = "ctrlApp" /\ msg.value = p => msg.value2 = t
  BY <1>1, <1>3, ZenonT(60) DEF StartsAre, n
<1>5. ASSUME \A i \in DOMAIN q : q[i].port # "requestMemory"
      PROVE  MP!Ordered(r)
  <2> SUFFICES ASSUME NEW i \in DOMAIN r, NEW j \in DOMAIN r, i < j,
                      r[i].port = "requestMemory"
               PROVE  FALSE
    BY DEF MP!Ordered
  <2>1. i = n + 1 /\ j \in 1 .. n + 1 /\ n \in Nat
    BY <1>1, <1>3, <1>5 DEF n
  <2> QED BY <2>1
<1> QED BY <1>1, <1>2, <1>4, <1>5 DEF r

\* What the kernel sends is known by its port.
LEMMA QueueKnown ==
  ASSUME IInv
  PROVE  /\ kernel.out_put \in Seq(KP!OutputSet)
         /\ \A i \in DOMAIN kernel.out_put :
              /\ kernel.out_put[i].port \in
                   {"ctrlApp", "requestMemory", "releaseMemory"}
              /\ kernel.out_put[i].value \in Pids
         /\ (\A p \in Pids : ~ Start(p)) =>
              \A p, t : StartsAre(kernel.out_put, p, t)
         /\ (\A p \in Pids : ~ Asking(p)) =>
              \A i \in DOMAIN kernel.out_put :
                kernel.out_put[i].port # "requestMemory"
         /\ \A p : Start(p) => kernel.armed
<1> DEFINE q == kernel.out_put
<1>1. q \in Seq(KP!OutputSet)
  BY KernelTyped DEF IInv
<1>2. \A m \in KP!OutputSet :
        /\ m.port \in {"ctrlApp", "requestMemory", "releaseMemory"}
        /\ m.value \in Pids
  BY DEF KP!OutputSet
<1>3. (\E i \in DOMAIN q : q[i].port = "ctrlApp") => kernel.armed
  BY DEF IInv, InvKernel, KP!Consistent, KP!Settled, KP!Scheduled
<1>4. \A p : /\ Start(p) <=> InQueue(q, "ctrlApp", p)
             /\ Asking(p) <=> InQueue(q, "requestMemory", p)
  BY DEF Start, Asking
<1> HIDE DEF q
<1>5. \A i \in DOMAIN q : q[i] \in KP!OutputSet
  BY <1>1
<1>6. \A i \in DOMAIN q :
        /\ q[i].port \in {"ctrlApp", "requestMemory", "releaseMemory"}
        /\ q[i].value \in Pids
  BY <1>2, <1>5
<1>7. \A i \in DOMAIN q :
        /\ q[i].port = "ctrlApp" => \E p \in Pids : Start(p)
        /\ q[i].port = "requestMemory" => \E p \in Pids : Asking(p)
  BY <1>4, <1>6 DEF InQueue
<1>8. (\A p \in Pids : ~ Start(p)) => \A p, t : StartsAre(q, p, t)
  BY <1>7 DEF StartsAre
<1>9. \A p : Start(p) => kernel.armed
  BY <1>3, <1>4 DEF InQueue
<1> QED BY <1>1, <1>6, <1>7, <1>8, <1>9 DEF q

----------------------------------------------------------------------------
(* The pass in which the kernel alone sends.                               *)

\* With an empty output nothing is on its way from the kernel.
LEMMA EmptyQueue ==
  ASSUME kernel'.out_put = <<>>
  PROVE  /\ \A p : ~ Start(p)' /\ ~ Asking(p)' /\ ~ Freeing(p)'
         /\ \A p, t : StartsAre(kernel'.out_put, p, t)
         /\ MP!Ordered(kernel'.out_put)
<1>1. DOMAIN kernel'.out_put = {}
  OBVIOUS
<1> QED BY <1>1, Zenon
        DEF Start, Asking, Freeing, InQueue, StartsAre, MP!Ordered

\* Where the sender of the calls keeps silent, none is on the way.
LEMMA NoCalls ==
  ASSUME sci.out_put = <<>>
  PROVE  \A p : /\ ~ IoCalled(p) /\ ~ Exiting(p) /\ ~ Forking(p) /\ ~ Call(p)
                /\ ~ IoPassed(p)
<1>1. DOMAIN sci.out_put = {} /\ Passed = <<>>
  BY DEF Passed
<1> QED BY <1>1, Zenon
    DEF IoCalled, Exiting, Forking, Call, IoPassed, InQueue

\* No call is on its way after the pass.
LEMMA NoCallsNext ==
  ASSUME sci' = InitialInterface
  PROVE  /\ sci'.out_put = <<>>
         /\ \A p : /\ ~ IoCalled(p)' /\ ~ Exiting(p)' /\ ~ Forking(p)'
                   /\ ~ Call(p)'
<1>1. sci'.out_put = <<>>
  BY DEF InitialInterface
<1>2. DOMAIN sci'.out_put = {}
  BY <1>1
<1> QED BY <1>1, <1>2, Zenon DEF IoCalled, Exiting, Forking, Call, InQueue

\* No answer is on its way.
LEMMA NoAnswersBefore ==
  ASSUME memory.out_put = <<>>
  PROVE  \A p : ~ Answer(p)
<1>1. DOMAIN memory.out_put = {}
  OBVIOUS
<1> QED BY <1>1 DEF Answer, InQueue

\* Nothing but the kernel acts: what the process becomes.
LEMMA KernelOnlyBasics ==
  ASSUME IInv, NEW child, NEW draw, Pass(child, draw), KernelOnly
  PROVE  /\ KP!Consistent(kernel') /\ kernel'.out_put = <<>>
         /\ kernel'.armed = FALSE /\ kernel'.table = kernel.table
<1>0. Now # Infinity
  BY DEF Pass
<1>1. /\ kernel.armed /\ ~ IsDue(SciM) /\ ~ IsDue(Generator)
      /\ memory.out_put = <<>>
      /\ \A p \in Pids : ~ IsDue(WriteM(p)) /\ ~ IsDue(ReadM(p))
  BY <1>0, KernelDue DEF KernelOnly
<1>2. \A s \in {Generator, SciM, MemoryM} :
        IsDue(s) => OutputOf(s, child) = <<>>
  BY <1>1, OutputsOf
<1>3. Bag(KernelM, child) = <<>>
  BY <1>1, <1>2, KernelSilence
<1>4. Bag(KernelM, child) \in Seq({})
  BY <1>3
<1>5. kernel' = Ker!KernelInternal(kernel)
  BY <1>1, <1>3, <1>4, KernelMoves
<1> QED BY <1>5, KernelRests

\* When the kernel is alone, what it says of a process is kept,
LEMMA KernelOnlyProcess ==
  ASSUME IInv, NEW child, NEW draw, Pass(child, draw), KernelOnly,
         NEW p \in Pids
  PROVE  ProcessOf(p)'
<1>0. Now # Infinity
  BY DEF Pass
<1>1. /\ kernel'.out_put = <<>> /\ kernel'.table = kernel.table
  BY KernelOnlyBasics
<1>2. /\ State(p)' = State(p) /\ KindOf(p)' = KindOf(p)
      /\ Free(p)' <=> Free(p)
      /\ Alive(p)' <=> Alive(p)
  BY <1>1 DEF State, KindOf, Free, Alive
<1>3. /\ ~ Start(p)' /\ ~ Asking(p)' /\ ~ Freeing(p)'
      /\ \A t : StartsAre(kernel'.out_put, p, t)
  BY <1>1, EmptyQueue
<1>4. /\ sci.out_put = <<>> /\ memory.out_put = <<>> /\ ~ Begin(p)
      /\ Sent = kernel.out_put /\ Passed = <<>>
      /\ ~ IsDue(ProgramM(p)) /\ ~ IsDue(WriteM(p)) /\ ~ IsDue(ReadM(p))
  BY <1>0, KernelDue DEF KernelOnly, NoBegin
<1>5. /\ ~ IoCalled(p) /\ ~ Exiting(p) /\ ~ Forking(p) /\ ~ Call(p)
      /\ ~ IoPassed(p) /\ ~ Answer(p)
  BY <1>4, NoCalls, NoAnswersBefore
<1>6. ~ KernelOnly \/ ~ TimePass
  BY DEF KernelOnly, TimePass
<1>7. ~ IoCalled(p)' /\ ~ Exiting(p)' /\ ~ Forking(p)' /\ ~ Call(p)'
  BY <1>6, SciEffect, NoCallsNext
<1>8. /\ Begun(p) <=> Start(p)
      /\ InQueue(Sent, "requestMemory", p) <=> Asking(p)
      /\ InQueue(Sent, "releaseMemory", p) <=> Freeing(p)
  BY <1>4 DEF Begun, Start, Asking, Freeing
<1>9. /\ ~ Begin(p)' /\ (Active(p)' <=> Active(p))
  BY <1>4, <1>5, OperationsEffect DEF OperationsAfter, Ends
<1>10. /\ Answer(p)' <=> Asking(p)
       /\ ~ Asking(p) => (HasBlock(p)' <=> HasBlock(p) /\ ~ Freeing(p))
  BY <1>8, MemoryEffect DEF MemoryAfter, Answer
<1>11. /\ Comp(p)' <=> Comp(p) \/ Start(p)
       /\ Comp(p)' =>
            program'[p].type = IF Start(p) THEN KindOf(p) ELSE program[p].type
       /\ program'[p].IO_count = program[p].IO_count
       /\ program'[p].fork_count = program[p].fork_count
  BY <1>4, <1>8, ProgramEffect DEF ProgramAfter
<1>12. ProcessOf(p)
  BY ProcessesBefore
<1>13. TokensOf(p)'
  BY <1>1, <1>2, <1>3, <1>4, <1>5, <1>7, <1>9, <1>11, <1>12
     DEF ProcessOf, TokensOf
<1>14. KindsOf(p)'
  <2>1. \A i \in DOMAIN kernel'.out_put :
          kernel'.out_put[i].port = "ctrlApp" /\ kernel'.out_put[i].value = p
            => kernel'.out_put[i].value2 = KindOf(p)'
    BY <1>3 DEF StartsAre
  <2> QED BY <1>2, <1>3, <1>5, <1>7, <1>9, <1>10, <1>11, <1>12, <2>1
          DEF ProcessOf, KindsOf
<1>15. CountsOf(p)'
  <2>1. State(p) = Ker!RUNNING => ~ Free(p)
    BY SameStates DEF Free
  <2>2. 0 <= ForkCalls
    BY ProgramAssumption
  <2> QED BY <1>2, <1>3, <1>5, <1>7, <1>10, <1>11, <1>12, <2>1, <2>2
          DEF ProcessOf, CountsOf
<1>16. BlocksOf(p)'
  <2>1. Alive(p) => ~ Free(p)
    BY SameStates DEF Alive, Free
  <2> QED BY <1>2, <1>3, <1>5, <1>10, <1>12, <2>1
          DEF ProcessOf, BlocksOf
<1> QED BY <1>13, <1>14, <1>15, <1>16 DEF ProcessOf

----------------------------------------------------------------------------

\* The kernel alone leaves a system in which nothing happened as it is.
LEMMA KernelOnlyPristine ==
  ASSUME IInv, NEW child, NEW draw, Pass(child, draw), KernelOnly, Pristine
  PROVE  Pristine'
<1>0. Now # Infinity
  BY DEF Pass
<1>1. /\ kernel'.out_put = <<>> /\ kernel'.table = kernel.table
  BY KernelOnlyBasics
<1>2. sci'.out_put = <<>>
  BY SciEffect, NoCallsNext DEF KernelOnly, TimePass
<1>3. Sent = <<>> /\ Passed = <<>>
  BY <1>0, KernelDue DEF Pristine
<1>4. \A port, p : ~ InQueue(Sent, port, p)
  BY <1>3, QueueEmpty
<1>5. memory'.out_put = <<>>
  BY <1>4, MemoryEffect, NoAnswers
<1>6. ASSUME NEW p \in Pids
      PROVE  /\ State(p)' = Ker!UNDEFINED /\ KindOf(p)' = 0
             /\ ~ HasBlock(p)'
             /\ program'[p] = InitialProgram
             /\ write'[p] = InitialFunction
             /\ read'[p] = InitialFunction
  <2>1. /\ State(p) = Ker!UNDEFINED /\ KindOf(p) = 0
        /\ ~ HasBlock(p)
        /\ program[p] = InitialProgram
        /\ write[p] = InitialFunction
        /\ read[p] = InitialFunction
    BY DEF Pristine
  <2>2. State(p)' = State(p) /\ KindOf(p)' = KindOf(p)
    BY <1>1 DEF State, KindOf
  <2>3. ~ HasBlock(p)'
    BY <1>4, <2>1, MemoryEffect DEF MemoryAfter
  <2>4. ~ IsDue(ProgramM(p)) /\ ~ IsDue(WriteM(p)) /\ ~ IsDue(ReadM(p))
    BY <1>0, KernelDue
  <2>5. program'[p] = program[p]
    BY <1>3, <2>4, ProgramEffect DEF ProgramAfter
  <2>6. write'[p] = write[p] /\ read'[p] = read[p]
    BY <1>3, <2>4, OperationsEffect DEF OperationsAfter
  <2> QED BY <2>1, <2>2, <2>3, <2>5, <2>6
<1> QED BY <1>1, <1>2, <1>5, <1>6 DEF Pristine

\* and so is what remains.
LEMMA KernelOnlyNext ==
  ASSUME IInv, NEW child, NEW draw, Pass(child, draw), KernelOnly
  PROVE  Remaining'
<1>0. Now # Infinity
  BY DEF Pass
<1>1. /\ KP!Consistent(kernel') /\ kernel'.out_put = <<>>
      /\ kernel'.armed = FALSE
  BY KernelOnlyBasics
<1>2. InvKernel'
  BY <1>1 DEF InvKernel
<1>3. /\ sci'.out_put = <<>>
      /\ \A p : ~ Call(p)'
  BY SciEffect, NoCallsNext DEF KernelOnly, TimePass
<1>4. generator' = generator /\ generator' \in OneInstant
  BY <1>0, GeneratorTimes DEF KernelOnly
<1>5. generator' # <<>> => Pristine'
  BY <1>4, KernelOnlyPristine DEF IInv, InvPhases
<1>6. \A p \in Pids : ~ Asking(p)'
  BY <1>1, EmptyQueue
<1>7. NoBegin'
  <2>1. Passed = <<>>
    BY <1>0, KernelDue
  <2>2. \A p : ~ IoPassed(p)
    BY <2>1, QueueEmpty DEF IoPassed
  <2>3. \A p \in Pids : ~ Begin(p)'
    BY <2>2, OperationsEffect DEF OperationsAfter
  <2> QED BY <2>3 DEF NoBegin
<1>8. memory'.armed <=> memory'.out_put # <<>>
  BY MemoryEffect DEF MemoryAfter
<1>9. InvPhases'
  BY <1>1, <1>3, <1>4, <1>5, <1>6, <1>7, <1>8 DEF InvPhases
<1>10. \A p \in Pids : ProcessOf(p)'
  BY KernelOnlyProcess
<1>11. MP!Ordered(kernel'.out_put)
  BY <1>1, EmptyQueue
<1> QED BY <1>2, <1>9, <1>10, <1>11 DEF Remaining

----------------------------------------------------------------------------
(* The passes in which processes get ready.                                *)

\* What the kernel makes of a bag that wakes processes.
WokenBy(bag) ==
  /\ KP!Consistent(kernel')
  /\ \A p \in Pids : KindOf(p)' = KindOf(p)
  /\ \A p \in Pids : (\A i \in DOMAIN bag : bag[i].value # p) =>
                       State(p)' = State(p)
  /\ \A i \in DOMAIN bag :
       kernel'.table[bag[i].value].state \in
         IF KP!Refused(bag[i]) THEN {Ker!UNDEFINED}
         ELSE {Ker!READY, Ker!RUNNING}
  /\ \/ /\ kernel'.out_put = kernel.out_put
        /\ \A p \in Pids :
             State(p)' = Ker!RUNNING <=> State(p) = Ker!RUNNING
        /\ kernel'.processing = kernel.processing
     \/ \E i \in DOMAIN bag :
          /\ ~ KP!Refused(bag[i])
          /\ kernel'.out_put =
               Append(kernel.out_put, KP!StartOf(kernel, bag[i].value))
          /\ \A p \in Pids : State(p)' = Ker!RUNNING <=> p = bag[i].value
          /\ \A p \in Pids : State(p) # Ker!RUNNING
  /\ kernel'.armed <=>
       kernel.armed \/ \E i \in DOMAIN bag : ~ KP!Refused(bag[i])

\* Running in the terms of Kernel_proofs.
LEMMA RunningIn ==
  /\ \A p : p \in KP!In(kernel, KP!RUNNING)
              <=> p \in Pids /\ State(p) = Ker!RUNNING
  /\ \A p : p \in KP!In(kernel', KP!RUNNING)
              <=> p \in Pids /\ State(p)' = Ker!RUNNING
BY SameStates DEF KP!In, State

\* Woken of Kernel_proofs, in the terms of OSSim.
LEMMA WokenFacts ==
  ASSUME NEW T, NEW bag \in Seq(T), KP!Consistent(kernel),
         KP!Woken(kernel, kernel', bag, Len(bag)),
         \A i \in DOMAIN bag : bag[i].value \in Pids
  PROVE  WokenBy(bag)
<1>1. DOMAIN bag = 1 .. Len(bag)
  OBVIOUS
<1> DEFINE l == Len(bag)
<1> HIDE DEF l
<1>2. /\ KP!Consistent(kernel')
      /\ \A p \in Pids : kernel'.table[p].type = kernel.table[p].type
      /\ \A p \in Pids : (\A i \in DOMAIN bag : bag[i].value # p) =>
                           kernel'.table[p].state = kernel.table[p].state
      /\ \A i \in DOMAIN bag :
           kernel'.table[bag[i].value].state \in
             IF KP!Refused(bag[i]) THEN {KP!UNDEFINED}
             ELSE {KP!READY, KP!RUNNING}
      /\ \/ /\ kernel'.out_put = kernel.out_put
            /\ KP!In(kernel', KP!RUNNING) = KP!In(kernel, KP!RUNNING)
         \/ \E i \in DOMAIN bag :
              /\ ~ KP!Refused(bag[i])
              /\ kernel'.out_put =
                   Append(kernel.out_put, KP!StartOf(kernel, bag[i].value))
              /\ KP!In(kernel', KP!RUNNING) = {bag[i].value}
              /\ KP!In(kernel, KP!RUNNING) = {}
      /\ kernel'.armed <=>
           kernel.armed \/ \E i \in DOMAIN bag : ~ KP!Refused(bag[i])
  BY <1>1, Zenon DEF KP!Woken
<1>3. /\ kernel.processing <=> KP!In(kernel, KP!RUNNING) # {}
      /\ kernel'.processing <=> KP!In(kernel', KP!RUNNING) # {}
      /\ kernel.processing \in BOOLEAN /\ kernel'.processing \in BOOLEAN
  BY <1>2, KP!ConsistentParts, Assumptions
<1>4. \A p \in Pids : KindOf(p)' = KindOf(p)
  BY <1>2 DEF KindOf
<1>5. \A p \in Pids : (\A i \in DOMAIN bag : bag[i].value # p) =>
                        State(p)' = State(p)
  BY <1>2 DEF State
<1>6. \A i \in DOMAIN bag :
        kernel'.table[bag[i].value].state \in
          IF KP!Refused(bag[i]) THEN {Ker!UNDEFINED}
          ELSE {Ker!READY, Ker!RUNNING}
  BY <1>2, SameStates
<1>7. \/ /\ kernel'.out_put = kernel.out_put
         /\ \A p \in Pids :
              State(p)' = Ker!RUNNING <=> State(p) = Ker!RUNNING
         /\ kernel'.processing = kernel.processing
      \/ \E i \in DOMAIN bag :
           /\ ~ KP!Refused(bag[i])
           /\ kernel'.out_put =
                Append(kernel.out_put, KP!StartOf(kernel, bag[i].value))
           /\ \A p \in Pids : State(p)' = Ker!RUNNING <=> p = bag[i].value
           /\ \A p \in Pids : State(p) # Ker!RUNNING
  <2>1. CASE /\ kernel'.out_put = kernel.out_put
             /\ KP!In(kernel', KP!RUNNING) = KP!In(kernel, KP!RUNNING)
    <3>1. kernel'.processing <=> kernel.processing
      BY <1>3, <2>1
    <3>2. kernel'.processing = kernel.processing
      BY <1>3, <3>1
    <3>3. \A p \in Pids :
            State(p)' = Ker!RUNNING <=> State(p) = Ker!RUNNING
      BY <2>1, RunningIn
    <3> QED BY <2>1, <3>2, <3>3
  <2>2. CASE \E i \in DOMAIN bag :
              /\ ~ KP!Refused(bag[i])
              /\ kernel'.out_put =
                   Append(kernel.out_put, KP!StartOf(kernel, bag[i].value))
              /\ KP!In(kernel', KP!RUNNING) = {bag[i].value}
              /\ KP!In(kernel, KP!RUNNING) = {}
    <3>1. PICK i \in DOMAIN bag :
              /\ ~ KP!Refused(bag[i])
              /\ kernel'.out_put =
                   Append(kernel.out_put, KP!StartOf(kernel, bag[i].value))
              /\ KP!In(kernel', KP!RUNNING) = {bag[i].value}
              /\ KP!In(kernel, KP!RUNNING) = {}
      BY <2>2, Zenon
    <3>2. \A p \in Pids : State(p)' = Ker!RUNNING <=> p = bag[i].value
      BY <3>1, RunningIn
    <3>3. \A p \in Pids : State(p) # Ker!RUNNING
      BY <3>1, RunningIn
    <3> QED BY <3>1, <3>2, <3>3
  <2> QED BY <1>2, <2>1, <2>2
<1> QED BY <1>2, <1>4, <1>5, <1>6, <1>7, Zenon DEF WokenBy

\* What the kernel hears when the memory answers.
LEMMA AnswerBag ==
  ASSUME IInv, NEW child, Now # Infinity, AnswerPass
  PROVE  /\ Bag(KernelM, child) = memory.out_put
         /\ memory.out_put \in Seq(MP!RespSet)
         /\ KP!WakeBag(kernel, memory.out_put)
<1>1. /\ ~ IsDue(Generator) /\ ~ IsDue(SciM) /\ IsDue(MemoryM)
      /\ \A p \in Pids : ~ IsDue(WriteM(p)) /\ ~ IsDue(ReadM(p))
  BY AnswerDue
<1>2. OutputOf(MemoryM, child) = memory.out_put
  BY OutputsOf
<1>3. memory.out_put \in Seq(MP!RespSet)
  BY DEF IInv, InvMemory, MP!MemSet
<1>4. Bag(KernelM, child) = memory.out_put
  BY <1>1, <1>2, <1>3, KernelHears, ModelsDiffer
<1> DEFINE q == memory.out_put
<1>5. /\ \A i, j \in DOMAIN q : q[i].value = q[j].value => i = j
      /\ \A p \in Pids : InQueue(q, "responseMemory", p) => Free(p)
  BY DEF IInv, InvBlocks, BlocksOf, Answer
<1>6. \A m \in MP!RespSet : m.port = "responseMemory" /\ m.value \in Pids
  BY DEF MP!RespSet
<1>7. \A p \in Pids : Free(p) => p \in KP!FreePids(kernel)
  BY SameStates DEF Free, KP!FreePids, State
<1> HIDE DEF q
<1>8. \A i \in DOMAIN q : q[i] \in MP!RespSet
  BY <1>3 DEF q
<1>9. \A i \in DOMAIN q :
        /\ q[i].value \in Pids /\ q[i].port = "responseMemory"
        /\ q[i].value \in KP!FreePids(kernel)
  BY <1>5, <1>6, <1>7, <1>8 DEF InQueue
<1>10. KP!WakeBag(kernel, q)
  BY <1>5, <1>9 DEF KP!WakeBag
<1> QED BY <1>3, <1>4, <1>10 DEF q

\* The answers wake the processes they grant a block.
LEMMA AnswerWakes ==
  ASSUME IInv, NEW child, NEW draw, Pass(child, draw), AnswerPass
  PROVE  WokenBy(memory.out_put)
<1>0. Now # Infinity
  BY DEF Pass
<1>1. /\ Bag(KernelM, child) = memory.out_put
      /\ memory.out_put \in Seq(MP!RespSet)
      /\ KP!WakeBag(kernel, memory.out_put)
  BY <1>0, AnswerBag
<1>2. memory.out_put # <<>>
  BY DEF AnswerPass
<1>3. kernel' = KP!KernelExternal(kernel, memory.out_put)
  BY <1>1, <1>2, KernelMoves
<1>4. KP!Consistent(kernel)
  BY DEF IInv, InvKernel
<1>5. KP!Woken(kernel, kernel', memory.out_put, Len(memory.out_put))
  BY <1>1, <1>3, <1>4, KP!WakeBagEffect, Assumptions
<1>6. \A i \in DOMAIN memory.out_put : memory.out_put[i].value \in Pids
  BY <1>1 DEF KP!WakeBag
<1> QED BY <1>1, <1>4, <1>5, <1>6, WokenFacts

----------------------------------------------------------------------------
(* The pass in which the memory answers.                                   *)

\* The kernel starts q, its queue of messages being empty before.
StartsOnly(q) ==
  /\ kernel'.out_put = Append(<<>>, KP!StartOf(kernel, q))
  /\ kernel'.armed
  /\ \A p \in Pids : State(p)' = Ker!RUNNING <=> p = q
  /\ \A p \in Pids : State(p) # Ker!RUNNING

\* What the kernel makes of the answers.
AnswersAre ==
  /\ KP!Consistent(kernel')
  /\ \A p \in Pids : KindOf(p)' = KindOf(p)
  /\ \A p \in Pids : ~ Answer(p) => State(p)' = State(p)
  /\ \A p \in Pids : Answer(p) => /\ Free(p)
                                  /\ State(p)' \in IF HasBlock(p)
                                       THEN {Ker!READY, Ker!RUNNING}
                                       ELSE {Ker!UNDEFINED}
  /\ \/ /\ kernel'.out_put = <<>>
        /\ \A p \in Pids :
             State(p)' = Ker!RUNNING <=> State(p) = Ker!RUNNING
     \/ \E q \in Pids : Answer(q) /\ StartsOnly(q)

\* It does.
LEMMA AnswersKernel ==
  ASSUME IInv, NEW child, NEW draw, Pass(child, draw), AnswerPass
  PROVE  AnswersAre
<1> DEFINE q == memory.out_put
<1>0. Now # Infinity
  BY DEF Pass
<1>1. WokenBy(q) /\ kernel.out_put = <<>> /\ ~ kernel.armed
  BY <1>0, AnswerWakes, AnswerDue
<1>2. q \in Seq(MP!RespSet) /\ KP!WakeBag(kernel, q)
  BY <1>0, AnswerBag
<1>3. /\ \A i, j \in DOMAIN q : q[i].value = q[j].value => i = j
      /\ \A i \in DOMAIN q : q[i].value2 = 1 <=> HasBlock(q[i].value)
      /\ \A p \in Pids : Answer(p) => Free(p)
  BY SameStates DEF IInv, InvBlocks, BlocksOf
<1>4. \A p : Answer(p) <=> InQueue(q, "responseMemory", p)
  BY DEF Answer
<1>5. \A m \in MP!RespSet :
        /\ m.port = "responseMemory" /\ m.value \in Pids
        /\ m.value2 \in {1, 2}
  BY SameStates DEF MP!RespSet
<1> HIDE DEF q
<1>6. \A i \in DOMAIN q : /\ q[i].port = "responseMemory"
                          /\ q[i].value \in Pids
                          /\ KP!Refused(q[i]) <=> ~ HasBlock(q[i].value)
  <2> SUFFICES ASSUME NEW i \in DOMAIN q
               PROVE  /\ q[i].port = "responseMemory" /\ q[i].value \in Pids
                      /\ KP!Refused(q[i]) <=> ~ HasBlock(q[i].value)
    OBVIOUS
  <2>1. q[i] \in MP!RespSet
    BY <1>2
  <2> QED BY <1>3, <1>5, <2>1, SameStates DEF KP!Refused
<1>7. \A p : Answer(p) <=> \E i \in DOMAIN q : q[i].value = p
  BY <1>4, <1>6 DEF InQueue
<1>8. \A p \in Pids : ~ Answer(p) => State(p)' = State(p)
  BY <1>1, <1>7 DEF WokenBy
<1>9. \A p \in Pids : Answer(p) =>
        State(p)' \in IF HasBlock(p) THEN {Ker!READY, Ker!RUNNING}
                      ELSE {Ker!UNDEFINED}
  <2> SUFFICES ASSUME NEW p \in Pids, Answer(p)
               PROVE  State(p)' \in IF HasBlock(p)
                        THEN {Ker!READY, Ker!RUNNING} ELSE {Ker!UNDEFINED}
    OBVIOUS
  <2>1. PICK i \in DOMAIN q : q[i].value = p
    BY <1>7
  <2>2. kernel'.table[q[i].value].state \in
          IF KP!Refused(q[i]) THEN {Ker!UNDEFINED}
          ELSE {Ker!READY, Ker!RUNNING}
    BY <1>1, Zenon DEF WokenBy
  <2>3. kernel'.table[q[i].value].state = State(p)'
    BY <2>1 DEF State
  <2> QED BY <1>6, <2>1, <2>2, <2>3
<1>10. \/ /\ kernel'.out_put = <<>>
          /\ \A p \in Pids :
               State(p)' = Ker!RUNNING <=> State(p) = Ker!RUNNING
       \/ \E r \in Pids : Answer(r) /\ StartsOnly(r)
  <2>1. ASSUME NEW i \in DOMAIN q,
               /\ ~ KP!Refused(q[i])
               /\ kernel'.out_put =
                    Append(kernel.out_put, KP!StartOf(kernel, q[i].value))
               /\ \A p \in Pids : State(p)' = Ker!RUNNING <=> p = q[i].value
               /\ \A p \in Pids : State(p) # Ker!RUNNING
        PROVE  q[i].value \in Pids /\ Answer(q[i].value)
               /\ StartsOnly(q[i].value)
    <3>1. kernel'.armed
      BY <1>1, <2>1 DEF WokenBy
    <3> QED BY <1>1, <1>6, <1>7, <2>1, <3>1 DEF StartsOnly
  <2>2. CASE \E i \in DOMAIN q :
               /\ ~ KP!Refused(q[i])
               /\ kernel'.out_put =
                    Append(kernel.out_put, KP!StartOf(kernel, q[i].value))
               /\ \A p \in Pids : State(p)' = Ker!RUNNING <=> p = q[i].value
               /\ \A p \in Pids : State(p) # Ker!RUNNING
    BY <2>1, <2>2
  <2>3. CASE /\ kernel'.out_put = kernel.out_put
             /\ \A p \in Pids :
                  State(p)' = Ker!RUNNING <=> State(p) = Ker!RUNNING
    BY <1>1, <2>3
  <2> QED BY <1>1, <2>2, <2>3 DEF WokenBy
<1>11. KP!Consistent(kernel') /\ \A p \in Pids : KindOf(p)' = KindOf(p)
  BY <1>1 DEF WokenBy
<1> QED BY <1>3, <1>8, <1>9, <1>10, <1>11 DEF AnswersAre

\* What a queue with a single start message holds.
LEMMA SingleStart ==
  ASSUME NEW q \in Pids,
         kernel'.out_put = Append(<<>>, KP!StartOf(kernel, q)),
         KindOf(q)' = KindOf(q)
  PROVE  /\ \A p : /\ Start(p)' <=> p = q
                   /\ ~ Asking(p)' /\ ~ Freeing(p)'
         /\ \A p \in Pids : StartsAre(kernel'.out_put, p, KindOf(p)')
         /\ MP!Ordered(kernel'.out_put)
         /\ kernel'.out_put # <<>>
<1> DEFINE msg == KP!StartOf(kernel, q)
<1>1. msg.port = "ctrlApp" /\ msg.value = q /\ msg.value2 = KindOf(q)
  BY DEF KP!StartOf, KindOf
<1> HIDE DEF msg
<1>2. <<>> \in Seq({}) /\ DOMAIN <<>> = {}
  OBVIOUS
<1>3. /\ \A port, p : InQueue(kernel'.out_put, port, p)
           <=> (msg.port = port /\ msg.value = p)
      /\ \A p, t : StartsAre(kernel'.out_put, p, t)
           <=> (msg.port = "ctrlApp" /\ msg.value = p => msg.value2 = t)
      /\ kernel'.out_put # <<>>
      /\ MP!Ordered(kernel'.out_put)
  <2>1. /\ \A port, p : InQueue(Append(<<>>, msg), port, p)
             <=> InQueue(<<>>, port, p) \/ (msg.port = port /\ msg.value = p)
        /\ \A p, t : StartsAre(Append(<<>>, msg), p, t)
             <=> /\ StartsAre(<<>>, p, t)
                 /\ msg.port = "ctrlApp" /\ msg.value = p => msg.value2 = t
        /\ Append(<<>>, msg) # <<>>
        /\ MP!Ordered(Append(<<>>, msg))
    BY <1>2, AppendEffect
  <2>2. \A p, t : StartsAre(<<>>, p, t)
    BY <1>2 DEF StartsAre
  <2>3. kernel'.out_put = Append(<<>>, msg)
    BY DEF msg
  <2> QED BY <2>1, <2>2, <2>3, QueueEmpty
<1>4. \A p : /\ Start(p)' <=> InQueue(kernel'.out_put, "ctrlApp", p)
             /\ Asking(p)' <=> InQueue(kernel'.out_put, "requestMemory", p)
             /\ Freeing(p)' <=> InQueue(kernel'.out_put, "releaseMemory", p)
  BY DEF Start, Asking, Freeing, InQueue
<1>5. \A p : /\ Start(p)' <=> p = q
             /\ ~ Asking(p)' /\ ~ Freeing(p)'
  BY <1>1, <1>3, <1>4
<1>6. \A p \in Pids : msg.value = p => msg.value2 = KindOf(p)'
  <2> SUFFICES msg.value2 = KindOf(q)'
    BY <1>1 DEF KindOf
  <2> QED BY <1>1
<1> QED BY <1>3, <1>5, <1>6

----------------------------------------------------------------------------

\* Where nothing is sent and nothing is due, programs and operations rest.
LEMMA NothingElse ==
  ASSUME IInv, NEW child, NEW draw, Pass(child, draw),
         Sent = <<>>, Passed = <<>>, NEW p \in Pids,
         ~ IsDue(ProgramM(p)), ~ IsDue(WriteM(p)), ~ IsDue(ReadM(p))
  PROVE  /\ program'[p] = program[p] /\ (Comp(p)' <=> Comp(p))
         /\ write'[p] = write[p] /\ read'[p] = read[p]
         /\ Begin(p)' <=> Begin(p)
         /\ Active(p)' <=> Active(p)
         /\ ~ Answer(p)' /\ (HasBlock(p)' <=> HasBlock(p))
<1>1. program'[p] = program[p]
  BY ProgramEffect DEF ProgramAfter
<1>2. write'[p] = write[p] /\ read'[p] = read[p]
  BY OperationsEffect DEF OperationsAfter
<1>3. \A port, q : ~ InQueue(Sent, port, q)
  BY QueueEmpty
<1>4. ~ Answer(p)' /\ (HasBlock(p)' <=> HasBlock(p))
  BY <1>3, MemoryEffect DEF MemoryAfter, Answer
<1> QED BY <1>1, <1>2, <1>4 DEF Comp, Begin, Active

\* When the memory answers, what is said of a process is kept,
LEMMA AnswerProcess ==
  ASSUME IInv, NEW child, NEW draw, Pass(child, draw), AnswerPass,
         NEW p \in Pids
  PROVE  ProcessOf(p)'
<1>0. Now # Infinity
  BY DEF Pass
<1>1. /\ kernel.out_put = <<>> /\ sci.out_put = <<>>
      /\ Sent = <<>> /\ Passed = <<>> /\ ~ Begin(p)
      /\ ~ IsDue(ProgramM(p)) /\ ~ IsDue(WriteM(p)) /\ ~ IsDue(ReadM(p))
  BY <1>0, AnswerDue DEF NoBegin
<1>2. /\ KindOf(p)' = KindOf(p)
      /\ ~ Answer(p) => State(p)' = State(p)
      /\ Answer(p) => /\ Free(p)
                      /\ State(p)' \in IF HasBlock(p)
                           THEN {Ker!READY, Ker!RUNNING} ELSE {Ker!UNDEFINED}
  BY AnswersKernel DEF AnswersAre
<1>3. /\ Answer(p) => ~ Alive(p) /\ State(p) # Ker!WAITING
                      /\ State(p) # Ker!RUNNING
      /\ Free(p) <=> ~ Alive(p) /\ State(p) \in {Ker!UNDEFINED, Ker!TERMINATED}
      /\ Answer(p) /\ HasBlock(p) => Alive(p)' /\ ~ Free(p)'
      /\ Answer(p) /\ ~ HasBlock(p) => ~ Alive(p)' /\ Free(p)'
      /\ Answer(p) => State(p)' # Ker!WAITING
      /\ Answer(p) /\ State(p)' = Ker!READY => HasBlock(p)
      /\ ~ Answer(p) => (Free(p)' <=> Free(p)) /\ (Alive(p)' <=> Alive(p))
  BY <1>2, SameStates DEF Free, Alive
<1>4. /\ ~ Start(p) /\ ~ Asking(p) /\ ~ Freeing(p)
      /\ ~ IoCalled(p) /\ ~ Exiting(p) /\ ~ Forking(p) /\ ~ Call(p)
  BY <1>1, NoCalls, QueueEmpty DEF Start, Asking, Freeing
<1>5. /\ ~ IoCalled(p)' /\ ~ Exiting(p)' /\ ~ Forking(p)' /\ ~ Call(p)'
  <2>1. ~ TimePass
    BY <1>0, AnswerDue DEF TimePass
  <2> QED BY <2>1, SciEffect, NoCallsNext
<1>6. /\ program'[p] = program[p] /\ (Comp(p)' <=> Comp(p))
      /\ ~ Begin(p)' /\ (Active(p)' <=> Active(p))
      /\ ~ Answer(p)' /\ (HasBlock(p)' <=> HasBlock(p))
  BY <1>1, NothingElse
<1>7. ProcessOf(p)
  BY ProcessesBefore
<1>8. /\ ~ Asking(p)' /\ ~ Freeing(p)'
      /\ StartsAre(kernel'.out_put, p, KindOf(p)')
      /\ \/ /\ kernel'.out_put = <<>> /\ ~ Start(p)'
            /\ State(p)' = Ker!RUNNING <=> State(p) = Ker!RUNNING
         \/ /\ Start(p)' <=> State(p)' = Ker!RUNNING
            /\ Start(p)' => Answer(p)
            /\ State(p) # Ker!RUNNING
  <2>1. CASE /\ kernel'.out_put = <<>>
             /\ \A q \in Pids :
                  State(q)' = Ker!RUNNING <=> State(q) = Ker!RUNNING
    BY <2>1, EmptyQueue
  <2>2. CASE \E q \in Pids : Answer(q) /\ StartsOnly(q)
    <3>1. PICK q \in Pids : Answer(q) /\ StartsOnly(q)
      BY <2>2
    <3>2. KindOf(q)' = KindOf(q)
      BY AnswersKernel DEF AnswersAre
    <3>3. /\ kernel'.out_put = Append(<<>>, KP!StartOf(kernel, q))
          /\ State(p)' = Ker!RUNNING <=> p = q
          /\ State(p) # Ker!RUNNING
      BY <3>1 DEF StartsOnly
    <3>4. /\ Start(p)' <=> p = q
          /\ ~ Asking(p)' /\ ~ Freeing(p)'
          /\ StartsAre(kernel'.out_put, p, KindOf(p)')
      BY <3>2, <3>3, SingleStart
    <3> QED BY <3>1, <3>3, <3>4
  <2> QED BY <2>1, <2>2, AnswersKernel DEF AnswersAre
<1>9. TokensOf(p)'
  BY <1>1, <1>2, <1>3, <1>4, <1>5, <1>6, <1>7, <1>8 DEF ProcessOf, TokensOf
<1>10. KindsOf(p)'
  <2>1. \A i \in DOMAIN kernel'.out_put :
          kernel'.out_put[i].port = "ctrlApp" /\ kernel'.out_put[i].value = p
            => kernel'.out_put[i].value2 = KindOf(p)'
    BY <1>8 DEF StartsAre
  <2> QED BY <1>1, <1>2, <1>3, <1>5, <1>6, <1>7, <1>8, <2>1
          DEF ProcessOf, KindsOf
<1>11. CountsOf(p)'
  <2>1. Answer(p) /\ KindOf(p) = PROGRAM_FORK => program[p].fork_count = 0
    BY <1>7 DEF ProcessOf, CountsOf
  <2>2. State(p)' \in {Ker!UNDEFINED, Ker!READY} /\ ~ Answer(p) =>
          State(p) \in {Ker!UNDEFINED, Ker!READY}
    BY <1>2
  <2> QED BY <1>2, <1>3, <1>5, <1>6, <1>7, <1>8, <2>1, <2>2
          DEF ProcessOf, CountsOf
<1>12. BlocksOf(p)'
  BY <1>3, <1>4, <1>6, <1>7, <1>8 DEF ProcessOf, BlocksOf
<1> QED BY <1>9, <1>10, <1>11, <1>12 DEF ProcessOf

\* No operation begins where none was called.
LEMMA NoBeginNext ==
  ASSUME IInv, NEW child, NEW draw, Pass(child, draw), Passed = <<>>
  PROVE  NoBegin'
<1>1. \A p : ~ IoPassed(p)
  BY QueueEmpty DEF IoPassed
<1>2. \A p \in Pids : ~ Begin(p)'
  BY <1>1, OperationsEffect DEF OperationsAfter
<1> QED BY <1>2 DEF NoBegin

\* The later passes: nothing arrives any more, the memory is asked nothing.
LEMMA LaterPhases ==
  ASSUME IInv, NEW child, NEW draw, Pass(child, draw), generator = <<>>,
         \A p \in Pids : ~ InQueue(Sent, "requestMemory", p),
         \/ \A p \in Pids : ~ Asking(p)'
         \/ kernel'.armed /\ sci' = InitialInterface /\ NoBegin',
         sci' = InitialInterface \/ NoBegin'
  PROVE  InvPhases'
<1>1. generator' = <<>> /\ generator' \in OneInstant
  BY GeneratorTimes
<1>2. memory'.out_put = <<>> /\ ~ memory'.armed
  BY MemoryEffect, NoAnswers
<1>3. sci' = InitialInterface => sci'.out_put = <<>>
  BY NoCallsNext
<1> QED BY <1>1, <1>2, <1>3 DEF InvPhases

\* and the rest follows from the kernel's output,
LEMMA AnswerRest ==
  ASSUME IInv, NEW child, NEW draw, Pass(child, draw), AnswerPass,
         InvKernel', MP!Ordered(kernel'.out_put),
         \A p \in Pids : ~ Asking(p)'
  PROVE  Remaining'
<1>0. Now # Infinity
  BY DEF Pass
<1>1. generator = <<>> /\ Sent = <<>> /\ Passed = <<>>
  BY <1>0, AnswerDue
<1>2. InvPhases'
  BY <1>1, NoBeginNext, QueueEmpty, LaterPhases
<1> QED BY <1>2, AnswerProcess DEF Remaining

\* so what remains is kept.
LEMMA AnswerNext ==
  ASSUME IInv, NEW child, NEW draw, Pass(child, draw), AnswerPass
  PROVE  Remaining'
<1>0. Now # Infinity
  BY DEF Pass
<1>1. AnswersAre
  BY AnswersKernel
<1>2. CASE kernel'.out_put = <<>>
  <2>1. MP!Ordered(kernel'.out_put) /\ \A p \in Pids : ~ Asking(p)'
    BY <1>2, EmptyQueue
  <2>2. InvKernel'
    BY <1>1, <1>2 DEF AnswersAre, InvKernel
  <2> QED BY <1>0, <2>1, <2>2, AnswerRest
<1>3. CASE \E q \in Pids : Answer(q) /\ StartsOnly(q)
  <2>1. PICK q \in Pids : StartsOnly(q)
    BY <1>3
  <2>2. KindOf(q)' = KindOf(q)
    BY <1>1 DEF AnswersAre
  <2>3. MP!Ordered(kernel'.out_put) /\ \A p \in Pids : ~ Asking(p)'
    BY <2>1, <2>2, SingleStart DEF StartsOnly
  <2>4. InvKernel'
    BY <1>1, <2>1 DEF AnswersAre, InvKernel, StartsOnly
  <2> QED BY <1>0, <2>3, <2>4, AnswerRest
<1> QED BY <1>1, <1>2, <1>3 DEF AnswersAre

----------------------------------------------------------------------------
(* The pass in which time passes.                                          *)

\* A queue after one more start message.
LEMMA AddedStart ==
  ASSUME NEW T, NEW put \in Seq(T), NEW q \in Pids,
         kernel'.out_put = Append(put, KP!StartOf(kernel, q))
  PROVE  /\ \A p : /\ Start(p)' <=> InQueue(put, "ctrlApp", p) \/ p = q
                   /\ Asking(p)' <=> InQueue(put, "requestMemory", p)
                   /\ Freeing(p)' <=> InQueue(put, "releaseMemory", p)
         /\ \A p, t : StartsAre(kernel'.out_put, p, t) <=>
              StartsAre(put, p, t) /\ (p = q => KindOf(q) = t)
         /\ (\A i \in DOMAIN put : put[i].port # "requestMemory") =>
              MP!Ordered(kernel'.out_put)
         /\ kernel'.out_put # <<>>
<1> DEFINE msg == KP!StartOf(kernel, q)
<1>1. msg.port = "ctrlApp" /\ msg.value = q /\ msg.value2 = KindOf(q)
  BY DEF KP!StartOf, KindOf
<1> HIDE DEF msg
<1>2. kernel'.out_put = Append(put, msg)
  BY DEF msg
<1>3. /\ \A port, p : InQueue(kernel'.out_put, port, p)
           <=> InQueue(put, port, p) \/ (msg.port = port /\ msg.value = p)
      /\ \A p, t : StartsAre(kernel'.out_put, p, t)
           <=> /\ StartsAre(put, p, t)
               /\ (msg.port = "ctrlApp" /\ msg.value = p => msg.value2 = t)
      /\ kernel'.out_put # <<>>
      /\ (\A i \in DOMAIN put : put[i].port # "requestMemory") =>
           MP!Ordered(kernel'.out_put)
  BY <1>2, AppendEffect
<1>4. \A p : /\ Start(p)' <=> InQueue(kernel'.out_put, "ctrlApp", p)
             /\ Asking(p)' <=> InQueue(kernel'.out_put, "requestMemory", p)
             /\ Freeing(p)' <=> InQueue(kernel'.out_put, "releaseMemory", p)
  BY DEF Start, Asking, Freeing, InQueue
<1> QED BY <1>1, <1>3, <1>4

\* A queue that stays as it is.
LEMMA SameQueue ==
  ASSUME kernel'.out_put = kernel.out_put
  PROVE  \A p : /\ Start(p)' <=> Start(p)
                /\ Asking(p)' <=> Asking(p)
                /\ Freeing(p)' <=> Freeing(p)
BY DEF Start, Asking, Freeing, InQueue

\* What the kernel hears when time has passed: the operations that end.
LEMMA TimeBag ==
  ASSUME IInv, NEW child, Now # Infinity, TimePass
  PROVE  LET bag == Bag(KernelM, child) IN
         /\ bag \in Seq({DoneIo(p) : p \in Pids})
         /\ KP!WakeBag(kernel, bag)
         /\ \A i \in DOMAIN bag : bag[i].port = "doneIO"
         /\ \A p \in Pids : Ends(p) <=> \E i \in DOMAIN bag : bag[i].value = p
<1> DEFINE out == Outputs(child)
           bag == Bag(KernelM, child)
           S == Senders(KernelM, out)
           T == {DoneIo(p) : p \in Pids}
<1>1. /\ DOMAIN out \subseteq Sim!Models
      /\ \A s : s \in S <=>
           /\ IsDue(s)
           /\ \/ s \in {Generator, SciM, MemoryM}
              \/ \E p \in Pids : s \in {WriteM(p), ReadM(p)}
      /\ \A s \in S : out[s] = OutputOf(s, child)
  BY KernelSenders
<1>2. /\ ~ IsDue(Generator) /\ ~ IsDue(SciM) /\ ~ IsDue(MemoryM)
      /\ \A p \in Pids : /\ IsDue(WriteM(p)) => write[p].active
                         /\ IsDue(ReadM(p)) => read[p].active
  BY TimeDue
<1>3. \A p \in Pids : ~ (IsDue(WriteM(p)) /\ IsDue(ReadM(p)))
  BY WorkDue DEF IInv, InvPrograms
<1>4. \A p \in Pids : Ends(p) <=> IsDue(WriteM(p)) \/ IsDue(ReadM(p))
  BY <1>2 DEF Ends
<1>5. \A p \in Pids : \A s \in {WriteM(p), ReadM(p)} : IsDue(s) =>
        OutputOf(s, child) = <<DoneIo(p)>> /\ Active(p)
  BY OperationSpeaks
<1>6. \A s \in S : \E p \in Pids :
        /\ s \in {WriteM(p), ReadM(p)} /\ IsDue(s)
        /\ out[s] = <<DoneIo(p)>>
  BY <1>1, <1>2, <1>5
<1>7. \A s \in S : out[s] \in Seq(T) /\ Len(out[s]) = 1
  <2> SUFFICES ASSUME NEW s \in S PROVE out[s] \in Seq(T) /\ Len(out[s]) = 1
    OBVIOUS
  <2>1. PICK p \in Pids : out[s] = <<DoneIo(p)>>
    BY <1>6
  <2> DEFINE m == DoneIo(p)
  <2>2. m \in T
    OBVIOUS
  <2> HIDE DEF m, T
  <2>3. <<m>> \in Seq(T) /\ Len(<<m>>) = 1
    BY <2>2
  <2> QED BY <2>1, <2>3 DEF m
<1>8. bag \in Seq(T)
  <2> HIDE DEF out, T
  <2> QED BY <1>1, <1>7, InboxTyped DEF Bag, out
<1>9. PICK src : ComesFrom(src, bag, S, out)
  <2> HIDE DEF out, T
  <2> QED BY <1>1, <1>7, InboxSingles DEF Bag, out
<1> HIDE DEF out, S, T, bag
<1>10. \A i \in DOMAIN bag : \E p \in Pids :
         /\ src[i] \in {WriteM(p), ReadM(p)} /\ IsDue(src[i])
         /\ bag[i] = DoneIo(p)
  <2> SUFFICES ASSUME NEW i \in DOMAIN bag
               PROVE  \E p \in Pids :
                        /\ src[i] \in {WriteM(p), ReadM(p)} /\ IsDue(src[i])
                        /\ bag[i] = DoneIo(p)
    OBVIOUS
  <2>1. src[i] \in S /\ bag[i] = out[src[i]][1]
    BY <1>9 DEF ComesFrom
  <2>2. PICK p \in Pids : /\ src[i] \in {WriteM(p), ReadM(p)} /\ IsDue(src[i])
                          /\ out[src[i]] = <<DoneIo(p)>>
    BY <1>6, <2>1
  <2> QED BY <2>1, <2>2
<1>11. \A p : DoneIo(p).port = "doneIO" /\ DoneIo(p).value = p
  BY DEF DoneIo
<1>12. \A i \in DOMAIN bag :
         /\ bag[i].port = "doneIO" /\ bag[i].value \in Pids
         /\ src[i] \in {WriteM(bag[i].value), ReadM(bag[i].value)}
         /\ IsDue(src[i])
  BY <1>10, <1>11
<1>13. \A i, j \in DOMAIN bag : bag[i].value = bag[j].value => i = j
  <2> SUFFICES ASSUME NEW i \in DOMAIN bag, NEW j \in DOMAIN bag,
                      bag[i].value = bag[j].value
               PROVE  i = j
    OBVIOUS
  <2>1. src[i] = src[j]
    BY <1>3, <1>12
  <2> QED BY <1>9, <2>1 DEF ComesFrom
<1>14. ASSUME NEW p \in Pids
       PROVE  Ends(p) <=> \E i \in DOMAIN bag : bag[i].value = p
  <2>1. ASSUME NEW s \in {WriteM(p), ReadM(p)}, IsDue(s)
        PROVE  \E i \in DOMAIN bag : bag[i].value = p
    <3>1. s \in S
      BY <1>1, <2>1
    <3>2. PICK i \in DOMAIN bag : src[i] = s /\ bag[i] = out[s][1]
      BY <1>9, <3>1 DEF ComesFrom
    <3>3. out[s] = <<DoneIo(p)>>
      BY <1>1, <1>5, <2>1, <3>1
    <3> QED BY <1>11, <3>2, <3>3
  <2>2. ASSUME NEW i \in DOMAIN bag, bag[i].value = p
        PROVE  Ends(p)
    BY <1>4, <1>12, <2>2
  <2> QED BY <1>4, <2>1, <2>2
<1>15. \A p \in Pids : Ends(p) => State(p) = Ker!WAITING
  <2>1. \A p \in Pids : Ends(p) => Active(p)
    BY DEF Ends, Active
  <2> QED BY <2>1, ProcessesBefore DEF ProcessOf, TokensOf
<1>16. KP!WakeBag(kernel, bag)
  <2>1. \A i \in DOMAIN bag : kernel.table[bag[i].value].state = KP!WAITING
    BY <1>12, <1>14, <1>15, SameStates DEF State
  <2> QED BY <1>12, <1>13, <2>1 DEF KP!WakeBag
<1> QED BY <1>8, <1>12, <1>14, <1>16 DEF bag, T

----------------------------------------------------------------------------

\* The kernel starts q after what it has to send, no process running before.
Adds(q) ==
  /\ kernel'.out_put = Append(kernel.out_put, KP!StartOf(kernel, q))
  /\ \A p \in Pids : State(p)' = Ker!RUNNING <=> p = q
  /\ \A p \in Pids : State(p) # Ker!RUNNING

\* What the kernel makes of the operations that end.
EndsAre ==
  /\ KP!Consistent(kernel')
  /\ \A p \in Pids : KindOf(p)' = KindOf(p)
  /\ \A p \in Pids : ~ Ends(p) => State(p)' = State(p)
  /\ \A p \in Pids : Ends(p) => State(p)' \in {Ker!READY, Ker!RUNNING}
  /\ \/ /\ kernel'.out_put = kernel.out_put
        /\ \A p \in Pids :
             State(p)' = Ker!RUNNING <=> State(p) = Ker!RUNNING
        /\ kernel'.processing = kernel.processing
     \/ \E q \in Pids : Ends(q) /\ Adds(q) /\ kernel'.armed

\* Without messages nobody is woken.
LEMMA WokenByNone ==
  ASSUME KP!Consistent(kernel), kernel' = kernel
  PROVE  WokenBy(<<>>)
<1>1. DOMAIN <<>> = {}
  OBVIOUS
<1>2. \A p : State(p)' = State(p) /\ KindOf(p)' = KindOf(p)
  BY DEF State, KindOf
<1> QED BY <1>1, <1>2 DEF WokenBy

\* The kernel makes it.
LEMMA EndsKernel ==
  ASSUME IInv, NEW child, NEW draw, Pass(child, draw), TimePass
  PROVE  EndsAre
<1> DEFINE bag == Bag(KernelM, child)
<1>0. Now # Infinity
  BY DEF Pass
<1>1. /\ bag \in Seq({DoneIo(p) : p \in Pids})
      /\ KP!WakeBag(kernel, bag)
      /\ \A i \in DOMAIN bag : bag[i].port = "doneIO"
      /\ \A p \in Pids : Ends(p) <=> \E i \in DOMAIN bag : bag[i].value = p
  BY <1>0, TimeBag
<1>2. ~ kernel.armed /\ KP!Consistent(kernel)
  BY <1>0, TimeDue DEF IInv, InvKernel
<1>3. kernel' = IF bag = <<>> THEN kernel ELSE KP!KernelExternal(kernel, bag)
  BY <1>1, <1>2, KernelMoves
<1> HIDE DEF bag
<1>4. \A i \in DOMAIN bag : bag[i].value \in Pids
  BY <1>1 DEF KP!WakeBag
<1>5. WokenBy(bag)
  <2>1. CASE bag = <<>>
    BY <1>2, <1>3, <2>1, WokenByNone
  <2>2. CASE bag # <<>>
    <3>1. KP!Woken(kernel, kernel', bag, Len(bag))
      BY <1>1, <1>2, <1>3, <2>2, KP!WakeBagEffect, Assumptions
    <3> QED BY <1>1, <1>2, <1>4, <3>1, WokenFacts
  <2> QED BY <2>1, <2>2
<1>6. \A i \in DOMAIN bag : ~ KP!Refused(bag[i])
  BY <1>1 DEF KP!Refused
<1>7. \A p \in Pids : ~ Ends(p) => State(p)' = State(p)
  BY <1>1, <1>5 DEF WokenBy
<1>8. ASSUME NEW p \in Pids, Ends(p)
      PROVE  State(p)' \in {Ker!READY, Ker!RUNNING}
  <2>1. PICK i \in DOMAIN bag : bag[i].value = p
    BY <1>1, <1>8
  <2>2. kernel'.table[bag[i].value].state \in {Ker!READY, Ker!RUNNING}
    BY <1>5, <1>6 DEF WokenBy
  <2> QED BY <2>1, <2>2 DEF State
<1>9. ASSUME NEW i \in DOMAIN bag,
             /\ ~ KP!Refused(bag[i])
             /\ kernel'.out_put =
                  Append(kernel.out_put, KP!StartOf(kernel, bag[i].value))
             /\ \A p \in Pids : State(p)' = Ker!RUNNING <=> p = bag[i].value
             /\ \A p \in Pids : State(p) # Ker!RUNNING
      PROVE  \E q \in Pids : Ends(q) /\ Adds(q) /\ kernel'.armed
  <2>1. bag[i].value \in Pids /\ Ends(bag[i].value) /\ kernel'.armed
    BY <1>1, <1>4, <1>5, <1>6 DEF WokenBy
  <2>2. Adds(bag[i].value)
    BY <1>9 DEF Adds
  <2> QED BY <2>1, <2>2
<1>10. \/ /\ kernel'.out_put = kernel.out_put
          /\ \A p \in Pids :
               State(p)' = Ker!RUNNING <=> State(p) = Ker!RUNNING
          /\ kernel'.processing = kernel.processing
       \/ \E i \in DOMAIN bag :
            /\ ~ KP!Refused(bag[i])
            /\ kernel'.out_put =
                 Append(kernel.out_put, KP!StartOf(kernel, bag[i].value))
            /\ \A p \in Pids : State(p)' = Ker!RUNNING <=> p = bag[i].value
            /\ \A p \in Pids : State(p) # Ker!RUNNING
  BY <1>5, Zenon DEF WokenBy
<1>11. \/ /\ kernel'.out_put = kernel.out_put
          /\ \A p \in Pids :
               State(p)' = Ker!RUNNING <=> State(p) = Ker!RUNNING
          /\ kernel'.processing = kernel.processing
       \/ \E q \in Pids : Ends(q) /\ Adds(q) /\ kernel'.armed
  BY <1>9, <1>10
<1>12. KP!Consistent(kernel') /\ \A p \in Pids : KindOf(p)' = KindOf(p)
  BY <1>5 DEF WokenBy
<1> QED BY <1>7, <1>8, <1>11, <1>12 DEF EndsAre

\* While time passes nothing is on the way, and the kernel holds back what it
\* has to send only where no process runs.
LEMMA TimeBefore ==
  ASSUME IInv, Now # Infinity, TimePass, NEW p \in Pids
  PROVE  /\ ~ Start(p) /\ ~ Asking(p) /\ ~ Answer(p) /\ ~ Begin(p)
         /\ ~ IoCalled(p) /\ ~ Exiting(p) /\ ~ Forking(p) /\ ~ Call(p)
         /\ \A t : StartsAre(kernel.out_put, p, t)
         /\ kernel.out_put # <<>> => ~ kernel.processing /\ ~ Comp(p)
         /\ Ends(p) => Active(p)
<1>1. /\ ~ kernel.armed /\ sci.out_put = <<>> /\ memory.out_put = <<>>
      /\ \A q \in Pids : ~ Begin(q) /\ ~ Asking(q)
  BY TimeDue DEF NoBegin
<1>2. \A q \in Pids : ~ Start(q)
  BY <1>1, QueueKnown
<1>3. \A t : StartsAre(kernel.out_put, p, t)
  BY <1>2, QueueKnown
<1>4. kernel.out_put # <<>> => ~ kernel.processing /\ State(p) # Ker!RUNNING
  <2>1. kernel.out_put # <<>> => ~ kernel.processing
    BY <1>1 DEF IInv, InvKernel
  <2>2. kernel.processing <=> KP!In(kernel, KP!RUNNING) # {}
    BY DEF IInv, InvKernel, KP!Consistent
  <2> QED BY <2>1, <2>2, RunningIn
<1>5. Comp(p) => State(p) = Ker!RUNNING
  BY ProcessesBefore DEF ProcessOf, TokensOf
<1> QED BY <1>1, <1>2, <1>3, <1>4, <1>5, NoCalls, NoAnswersBefore
        DEF Ends, Active

----------------------------------------------------------------------------

\* The queue and who runs, once time has passed.
TimeQueue(p) ==
  /\ ~ Asking(p)' /\ (Freeing(p)' <=> Freeing(p))
  /\ StartsAre(kernel'.out_put, p, KindOf(p)')
  /\ \/ /\ ~ Start(p)'
        /\ State(p)' = Ker!RUNNING <=> State(p) = Ker!RUNNING
        /\ kernel'.out_put # <<>> => ~ Comp(p)
     \/ /\ Start(p)' <=> State(p)' = Ker!RUNNING
        /\ Start(p)' => Ends(p)
        /\ State(p) # Ker!RUNNING

\* What the kernel has on its way when time passes.
LEMMA TimeQueues ==
  ASSUME IInv, NEW child, NEW draw, Pass(child, draw), TimePass,
         NEW p \in Pids
  PROVE  TimeQueue(p)
<1>0. Now # Infinity
  BY DEF Pass
<1>1. EndsAre
  BY EndsKernel
<1>2. /\ ~ Start(p) /\ ~ Asking(p)
      /\ \A t : StartsAre(kernel.out_put, p, t)
      /\ kernel.out_put # <<>> => ~ Comp(p)
  BY <1>0, TimeBefore
<1>3. CASE /\ kernel'.out_put = kernel.out_put
           /\ \A q \in Pids :
                State(q)' = Ker!RUNNING <=> State(q) = Ker!RUNNING
  BY <1>2, <1>3, SameQueue DEF TimeQueue
<1>4. CASE \E q \in Pids : Ends(q) /\ Adds(q) /\ kernel'.armed
  <2>1. PICK q \in Pids : Ends(q) /\ Adds(q)
    BY <1>4
  <2>2. kernel.out_put \in Seq(KP!OutputSet)
    BY QueueKnown
  <2>3. kernel'.out_put = Append(kernel.out_put, KP!StartOf(kernel, q))
    BY <2>1 DEF Adds
  <2>4. /\ Start(p)' <=> Start(p) \/ p = q
        /\ Asking(p)' <=> Asking(p)
        /\ Freeing(p)' <=> Freeing(p)
        /\ \A t : StartsAre(kernel'.out_put, p, t) <=>
             StartsAre(kernel.out_put, p, t) /\ (p = q => KindOf(q) = t)
    BY <2>2, <2>3, AddedStart DEF Start, Asking, Freeing
  <2>5. KindOf(p)' = KindOf(p)
    BY <1>1 DEF EndsAre
  <2>6. StartsAre(kernel'.out_put, p, KindOf(p))
    BY <1>2, <2>4
  <2> QED BY <1>2, <2>1, <2>4, <2>5, <2>6 DEF TimeQueue, Adds
<1> QED BY <1>1, <1>3, <1>4 DEF EndsAre

\* What a program and the calls on its behalf become while time passes.
TimeProgram(p) ==
  /\ IsDue(ProgramM(p)) => Comp(p) /\ Fresh(p)' /\ State(p) = Ker!RUNNING
  /\ ~ IsDue(ProgramM(p)) =>
       /\ Comp(p)' <=> Comp(p)
       /\ program'[p].IO_count = program[p].IO_count
       /\ program'[p].fork_count = program[p].fork_count
       /\ ~ Call(p)' /\ ~ IoCalled(p)' /\ ~ Exiting(p)' /\ ~ Forking(p)'
  /\ IsDue(ProgramM(p)) => (Comp(p)' <=> ~ Call(p)')
  /\ program'[p].type = program[p].type
  /\ Forking(p)' => Comp(p)'
  /\ IoCalled(p)' => KindOf(p) = PROGRAM_IO
  /\ Exiting(p)' => program'[p].IO_count = 0 \/ KindOf(p) = PROGRAM_FORK
  /\ KindOf(p) = PROGRAM_FORK =>
       /\ program'[p].IO_count = program[p].IO_count
       /\ IsDue(ProgramM(p)) /\ Comp(p)' => program'[p].fork_count =< ForkCalls

\* What a program and its call become when time passes.
LEMMA TimePrograms ==
  ASSUME IInv, NEW child, NEW draw, Pass(child, draw), TimePass,
         NEW p \in Pids
  PROVE  TimeProgram(p)
<1>0. Now # Infinity
  BY DEF Pass
<1>1. Sent = <<>>
  BY <1>0, TimeDue
<1>2. ~ Begun(p)
  BY <1>1, QueueEmpty DEF Begun
<1>3. IsDue(ProgramM(p)) => Fresh(p)'
  BY ProgramTimes
<1>4. IsDue(ProgramM(p)) =>
        /\ Comp(p) /\ State(p) = Ker!RUNNING
        /\ KindOf(p) \in {PROGRAM_IO, PROGRAM_FORK}
  BY <1>0, DueProgram
<1>5. ProgramAfter(p)
  BY ProgramEffect
<1>6. /\ IoCalled(p)' <=> /\ IsDue(ProgramM(p)) /\ KindOf(p) = PROGRAM_IO
                          /\ program[p].IO_count < IoCalls
      /\ Exiting(p)' <=>
           /\ IsDue(ProgramM(p))
           /\ \/ KindOf(p) = PROGRAM_IO /\ ~ (program[p].IO_count < IoCalls)
              \/ /\ KindOf(p) = PROGRAM_FORK
                 /\ ~ (program[p].fork_count < ForkCalls)
      /\ Forking(p)' <=> /\ IsDue(ProgramM(p)) /\ KindOf(p) = PROGRAM_FORK
                         /\ program[p].fork_count < ForkCalls
  BY SciEffect DEF SciAfter
<1>7. Call(p)' <=> IoCalled(p)' \/ Exiting(p)'
  BY DEF Call, IoCalled, Exiting
<1>8. PROGRAM_IO # PROGRAM_FORK
  BY DEF PROGRAM_IO, PROGRAM_FORK
<1>9. /\ program[p].IO_count \in Int /\ program[p].fork_count \in Int
      /\ ForkCalls \in Int /\ IoCalls \in Int
  <2>1. InvPrograms
    BY DEF IInv
  <2>2. /\ program[p].IO_count \in 0 .. IoCalls
        /\ program[p].fork_count \in 0 .. ForkCalls + 1
    BY <2>1, ProgramParts
  <2> QED BY <2>2, ProgramAssumption
<1>10. CASE ~ IsDue(ProgramM(p))
  BY <1>2, <1>5, <1>6, <1>7, <1>10 DEF ProgramAfter, TimeProgram
<1>11. CASE IsDue(ProgramM(p)) /\ KindOf(p) = PROGRAM_IO
  <2>1. /\ ~ Comp(p)'
        /\ program'[p].type = program[p].type
        /\ program'[p].IO_count = IF program[p].IO_count + 1 > IoCalls THEN 0
                                  ELSE program[p].IO_count + 1
    BY <1>2, <1>5, <1>11 DEF ProgramAfter
  <2>2. Call(p)' /\ ~ Forking(p)'
    BY <1>6, <1>7, <1>8, <1>11
  <2>3. Exiting(p)' => program'[p].IO_count = 0
    BY <1>6, <1>8, <1>9, <1>11, <2>1
  <2> QED BY <1>3, <1>4, <1>8, <1>11, <2>1, <2>2, <2>3 DEF TimeProgram
<1>12. CASE IsDue(ProgramM(p)) /\ KindOf(p) = PROGRAM_FORK
  <2>1. /\ Comp(p)' <=> ~ (program[p].fork_count + 1 > ForkCalls)
        /\ program'[p].type = program[p].type
        /\ program'[p].IO_count = program[p].IO_count
        /\ program'[p].fork_count = program[p].fork_count + 1
    BY <1>2, <1>5, <1>12 DEF ProgramAfter
  <2>2. /\ Call(p)' <=> ~ (program[p].fork_count < ForkCalls)
        /\ Forking(p)' <=> program[p].fork_count < ForkCalls
        /\ ~ IoCalled(p)'
    BY <1>6, <1>7, <1>8, <1>12
  <2>3. /\ Forking(p)' => Comp(p)'
        /\ Comp(p)' <=> ~ Call(p)'
        /\ Comp(p)' => program'[p].fork_count =< ForkCalls
    BY <1>9, <2>1, <2>2
  <2> QED BY <1>3, <1>4, <1>8, <1>12, <2>1, <2>2, <2>3 DEF TimeProgram
<1> QED BY <1>4, <1>10, <1>11, <1>12

\* When time passes, what is said of a process is kept,
LEMMA TimeProcess ==
  ASSUME IInv, NEW child, NEW draw, Pass(child, draw), TimePass,
         NEW p \in Pids
  PROVE  ProcessOf(p)'
<1>0. Now # Infinity
  BY DEF Pass
<1>1. /\ KindOf(p)' = KindOf(p)
      /\ ~ Ends(p) => State(p)' = State(p)
      /\ Ends(p) => State(p)' \in {Ker!READY, Ker!RUNNING}
  BY EndsKernel DEF EndsAre
<1>2. /\ ~ Start(p) /\ ~ Asking(p) /\ ~ Answer(p) /\ ~ Begin(p)
      /\ ~ IoCalled(p) /\ ~ Exiting(p) /\ ~ Forking(p) /\ ~ Call(p)
      /\ Ends(p) => Active(p)
  BY <1>0, TimeBefore
<1>3. TimeQueue(p)
  BY TimeQueues
<1>4. TimeProgram(p)
  BY TimePrograms
<1>5. ProcessOf(p)
  BY ProcessesBefore
<1>6. Sent = <<>> /\ Passed = <<>>
  BY <1>0, TimeDue
<1>7. ~ Begin(p)' /\ (Active(p)' <=> Active(p) /\ ~ Ends(p))
  <2>1. ~ IoPassed(p)
    BY <1>6, QueueEmpty DEF IoPassed
  <2> QED BY <1>2, <2>1, OperationsEffect DEF OperationsAfter
<1>8. ~ Answer(p)' /\ (HasBlock(p)' <=> HasBlock(p))
  <2>1. \A port, q : ~ InQueue(Sent, port, q)
    BY <1>6, QueueEmpty
  <2> QED BY <2>1, MemoryEffect DEF MemoryAfter, Answer
<1>9. Ends(p) => State(p) = Ker!WAITING /\ KindOf(p) = PROGRAM_IO
  BY <1>2, <1>5 DEF ProcessOf, TokensOf, KindsOf
<1>10. /\ Free(p)' <=> Free(p) /\ ~ Ends(p)
       /\ Free(p) => ~ Ends(p) /\ State(p) # Ker!RUNNING
       /\ Alive(p)' <=> Alive(p)
       /\ Ends(p) => ~ Free(p) /\ Alive(p) /\ State(p) # Ker!RUNNING
                     /\ State(p)' # Ker!WAITING
  BY <1>1, <1>9, SameStates DEF Free, Alive
<1>11. PROGRAM_IO # PROGRAM_FORK
  BY DEF PROGRAM_IO, PROGRAM_FORK
<1>12. TokensOf(p)'
  <2>1. Call(p)' <=> IoCalled(p)' \/ Exiting(p)'
    BY DEF Call, IoCalled, Exiting
  <2> QED BY <1>1, <1>2, <1>3, <1>4, <1>5, <1>7, <1>10, <2>1
          DEF ProcessOf, TokensOf, TimeQueue, TimeProgram
<1>13. KindsOf(p)'
  <2>1. \A i \in DOMAIN kernel'.out_put :
          kernel'.out_put[i].port = "ctrlApp" /\ kernel'.out_put[i].value = p
            => kernel'.out_put[i].value2 = KindOf(p)'
    BY <1>3 DEF StartsAre, TimeQueue
  <2> QED BY <1>1, <1>2, <1>3, <1>4, <1>5, <1>7, <1>8, <1>10, <2>1
          DEF ProcessOf, KindsOf, TimeQueue, TimeProgram
<1>14. CountsOf(p)'
  <2>1. State(p) \in {Ker!UNDEFINED, Ker!READY} => State(p) # Ker!RUNNING
    BY SameStates
  <2>2. KindOf(p) = PROGRAM_FORK => ~ Ends(p)
    BY <1>9, <1>11
  <2> QED BY <1>1, <1>2, <1>3, <1>4, <1>5, <1>7, <1>8, <1>10, <2>1, <2>2
          DEF ProcessOf, CountsOf, TimeQueue, TimeProgram
<1>15. BlocksOf(p)'
  BY <1>2, <1>3, <1>5, <1>8, <1>10 DEF ProcessOf, BlocksOf, TimeQueue
<1> QED BY <1>12, <1>13, <1>14, <1>15 DEF ProcessOf

\* and so is what remains.
LEMMA TimeNext ==
  ASSUME IInv, NEW child, NEW draw, Pass(child, draw), TimePass
  PROVE  Remaining'
<1>0. Now # Infinity
  BY DEF Pass
<1>1. /\ generator = <<>> /\ Sent = <<>> /\ Passed = <<>>
      /\ ~ kernel.armed /\ \A p \in Pids : ~ Asking(p)
  BY <1>0, TimeDue
<1>2. \A p \in Pids : ~ Asking(p)'
  BY TimeQueues DEF TimeQueue
<1>3. InvPhases'
  BY <1>1, <1>2, NoBeginNext, QueueEmpty, LaterPhases
<1>4. \A p \in Pids : ProcessOf(p)'
  BY TimeProcess
<1>5. /\ kernel.out_put \in Seq(KP!OutputSet)
      /\ \A i \in DOMAIN kernel.out_put :
           kernel.out_put[i].port # "requestMemory"
  BY <1>1, QueueKnown
<1>6. EndsAre
  BY EndsKernel
<1>7. CASE /\ kernel'.out_put = kernel.out_put
           /\ kernel'.processing = kernel.processing
  <2>1. MP!Ordered(kernel'.out_put)
    BY <1>7 DEF IInv, InvBlocks
  <2>2. InvKernel'
    BY <1>1, <1>6, <1>7 DEF IInv, InvKernel, EndsAre
  <2> QED BY <1>3, <1>4, <2>1, <2>2 DEF Remaining
<1>8. CASE \E q \in Pids : Ends(q) /\ Adds(q) /\ kernel'.armed
  <2>1. PICK q \in Pids : Adds(q) /\ kernel'.armed
    BY <1>8
  <2>2. MP!Ordered(kernel'.out_put)
    BY <1>5, <2>1, AddedStart DEF Adds
  <2>3. InvKernel'
    BY <1>6, <2>1 DEF InvKernel, EndsAre
  <2> QED BY <1>3, <1>4, <2>2, <2>3 DEF Remaining
<1> QED BY <1>6, <1>7, <1>8 DEF EndsAre

----------------------------------------------------------------------------
(* The passes in which the running process leaves the processor.           *)

\* The running process r goes to state s, the kernel's queue having become put
\* by then; the next ready process, if there is one, starts.
Leaves(r, s, put) ==
  /\ KP!Consistent(kernel')
  /\ \A p \in Pids : KindOf(p)' = KindOf(p)
  /\ State(r)' = s
  /\ \A p \in Pids \ {r} :
       \/ State(p)' = State(p) /\ State(p)' # Ker!RUNNING
       \/ State(p) = Ker!READY /\ State(p)' = Ker!RUNNING
  /\ \/ /\ \A p \in Pids : State(p)' # Ker!RUNNING
        /\ kernel'.out_put = put
     \/ \E q \in Pids :
          /\ State(q) = Ker!READY
          /\ \A p \in Pids : State(p)' = Ker!RUNNING <=> p = q
          /\ kernel'.out_put = Append(put, KP!StartOf(kernel, q))
          /\ kernel'.armed

\* Leaving of Kernel_proofs, in the terms of OSSim.
LEMMA LeavingFacts ==
  ASSUME IInv, NEW r \in Pids, State(r) = Ker!RUNNING,
         NEW s \in {Ker!WAITING, Ker!TERMINATED}, NEW put,
         KP!Consistent(kernel'), KP!Leaving(kernel, kernel', r, s, put)
  PROVE  Leaves(r, s, put)
<1>1. \A p \in Pids : State(p) = Ker!RUNNING <=> p = r
  BY OneRuns
<1>2. s # Ker!RUNNING /\ Ker!READY # Ker!RUNNING
  BY SameStates
<1>3. CASE /\ KP!StateMoves(kernel, kernel', r, s)
           /\ kernel'.out_put = put
  <2>1. \A p \in Pids : /\ KindOf(p)' = KindOf(p)
                        /\ State(p)' = IF p = r THEN s ELSE State(p)
    BY <1>3 DEF KP!StateMoves, KindOf, State
  <2>2. State(r)' = s
    BY <2>1
  <2>3. \A p \in Pids : State(p)' # Ker!RUNNING
    BY <1>1, <1>2, <2>1
  <2> QED BY <1>3, <2>1, <2>2, <2>3 DEF Leaves
<1>4. ASSUME NEW q \in KP!In(kernel, KP!READY),
             \A p \in Pids :
               /\ kernel'.table[p].type = kernel.table[p].type
               /\ kernel'.table[p].state = IF p = q THEN KP!RUNNING
                                           ELSE IF p = r THEN s
                                           ELSE kernel.table[p].state,
             kernel'.out_put = Append(put, KP!StartOf(kernel, q)),
             kernel'.armed = TRUE
      PROVE  Leaves(r, s, put)
  <2>1. q \in Pids /\ State(q) = Ker!READY
    BY SameStates DEF KP!In, State
  <2>2. q # r
    BY <1>2, <2>1
  <2>3. \A p \in Pids : /\ KindOf(p)' = KindOf(p)
                        /\ State(p)' = IF p = q THEN Ker!RUNNING
                                       ELSE IF p = r THEN s ELSE State(p)
    BY <1>4, SameStates DEF KindOf, State
  <2>4. State(r)' = s
    BY <2>2, <2>3
  <2>5. \A p \in Pids : State(p)' = Ker!RUNNING <=> p = q
    BY <1>1, <1>2, <2>3
  <2>6. \A p \in Pids \ {r} :
          \/ State(p)' = State(p) /\ State(p)' # Ker!RUNNING
          \/ State(p) = Ker!READY /\ State(p)' = Ker!RUNNING
    BY <1>1, <2>1, <2>3
  <2> QED BY <1>4, <2>1, <2>3, <2>4, <2>5, <2>6 DEF Leaves
<1> QED BY <1>3, <1>4 DEF KP!Leaving

\* The kernel's queue and who runs, once r has left.
LEMMA LeavesQueue ==
  ASSUME NEW r \in Pids, NEW s, NEW T, NEW put \in Seq(T),
         Leaves(r, s, put), NEW p \in Pids, ~ InQueue(put, "ctrlApp", p),
         \A t : StartsAre(put, p, t)
  PROVE  /\ Start(p)' <=> State(p)' = Ker!RUNNING
         /\ Asking(p)' <=> InQueue(put, "requestMemory", p)
         /\ Freeing(p)' <=> InQueue(put, "releaseMemory", p)
         /\ StartsAre(kernel'.out_put, p, KindOf(p)')
<1>1. KindOf(p)' = KindOf(p)
  BY DEF Leaves
<1>2. CASE /\ \A q \in Pids : State(q)' # Ker!RUNNING
           /\ kernel'.out_put = put
  <2>1. /\ Start(p)' <=> InQueue(put, "ctrlApp", p)
        /\ Asking(p)' <=> InQueue(put, "requestMemory", p)
        /\ Freeing(p)' <=> InQueue(put, "releaseMemory", p)
    BY <1>2 DEF Start, Asking, Freeing, InQueue
  <2> QED BY <1>2, <2>1
<1>3. ASSUME NEW q \in Pids,
             \A n \in Pids : State(n)' = Ker!RUNNING <=> n = q,
             kernel'.out_put = Append(put, KP!StartOf(kernel, q))
      PROVE  /\ Start(p)' <=> State(p)' = Ker!RUNNING
             /\ Asking(p)' <=> InQueue(put, "requestMemory", p)
             /\ Freeing(p)' <=> InQueue(put, "releaseMemory", p)
             /\ StartsAre(kernel'.out_put, p, KindOf(p)')
  <2>1. /\ Start(p)' <=> InQueue(put, "ctrlApp", p) \/ p = q
        /\ Asking(p)' <=> InQueue(put, "requestMemory", p)
        /\ Freeing(p)' <=> InQueue(put, "releaseMemory", p)
        /\ \A t : StartsAre(kernel'.out_put, p, t) <=>
             StartsAre(put, p, t) /\ (p = q => KindOf(q) = t)
    BY <1>3, AddedStart
  <2>2. StartsAre(kernel'.out_put, p, KindOf(p))
    BY <2>1
  <2> QED BY <1>1, <1>3, <2>1, <2>2
<1> QED BY <1>2, <1>3 DEF Leaves

\* The invariant on the kernel holds again once the process has left.
LEMMA LeavesKernel ==
  ASSUME NEW r \in Pids, NEW s, NEW T, NEW put \in Seq(T),
         Leaves(r, s, put), \A i \in DOMAIN put : put[i].port # "requestMemory"
  PROVE  InvKernel' /\ MP!Ordered(kernel'.out_put)
<1>1. KP!Consistent(kernel')
  BY DEF Leaves
<1>2. CASE /\ \A p \in Pids : State(p)' # Ker!RUNNING
           /\ kernel'.out_put = put
  <2>1. MP!Ordered(kernel'.out_put)
    BY <1>2 DEF MP!Ordered
  <2>2. KP!In(kernel', KP!RUNNING) = {}
    BY <1>2, RunningIn
  <2>3. ~ kernel'.processing
    BY <1>1, <2>2 DEF KP!Consistent
  <2> QED BY <1>1, <2>1, <2>3 DEF InvKernel
<1>3. CASE \E q \in Pids :
             /\ kernel'.out_put = Append(put, KP!StartOf(kernel, q))
             /\ kernel'.armed
  <2>1. PICK q \in Pids :
          /\ kernel'.out_put = Append(put, KP!StartOf(kernel, q))
          /\ kernel'.armed
    BY <1>3
  <2>2. MP!Ordered(kernel'.out_put)
    BY <2>1, AddedStart
  <2> QED BY <1>1, <2>1, <2>2 DEF InvKernel
<1> QED BY <1>2, <1>3 DEF Leaves

----------------------------------------------------------------------------
(* The pass in which an operation begins.                                  *)

\* What the kernel hears then: one startIO.
LEMMA BeginBag ==
  ASSUME IInv, Now # Infinity, NEW r \in Pids, Begin(r), NEW child
  PROVE  Bag(KernelM, child) = <<StartIo(r)>>
<1>1. PICK m \in {WriteM(r), ReadM(r)} :
        /\ IsDue(m) /\ OutputOf(m, child) = <<StartIo(r)>>
        /\ \A q \in Pids : /\ WriteM(q) # m => ~ IsDue(WriteM(q))
                           /\ ReadM(q) # m => ~ IsDue(ReadM(q))
  BY BeginSpeaks
<1>2. ~ IsDue(Generator) /\ ~ IsDue(SciM) /\ ~ IsDue(MemoryM)
  BY BeginDue
<1>3. \A x : <<x>> \in Seq({x})
  OBVIOUS
<1>4. OutputOf(m, child) \in Seq({StartIo(r)})
  BY <1>1, <1>3
<1>5. Bag(KernelM, child) = OutputOf(m, child)
  BY <1>1, <1>2, <1>4, KernelHears
<1> QED BY <1>1, <1>5

\* A bag of one message is that message.
LEMMA OneMessage ==
  ASSUME NEW k, NEW msg, KP!Expected(k, msg), msg.port \in KP!KnownPorts
  PROVE  KP!KernelExternal(k, <<msg>>) = KP!KernelReceive(k, msg)
<1> DEFINE bag == <<msg>>
<1>1. /\ bag \in Seq({msg}) /\ \A i, j \in DOMAIN bag : i = j
      /\ 1 \in DOMAIN bag /\ \A i \in DOMAIN bag : bag[i] = msg
  OBVIOUS
<1> HIDE DEF bag
<1>2. \A i \in DOMAIN bag : bag[i].port \in KP!KnownPorts =>
        KP!KernelExternal(k, bag) = KP!KernelReceive(k, bag[i])
  BY <1>1, KP!CallBagEffect, Assumptions
<1>3. KP!KernelExternal(k, bag) = KP!KernelReceive(k, msg)
  BY <1>1, <1>2
<1> QED BY <1>3 DEF bag

\* The running process waits when its operation begins.
LEMMA BeginKernel ==
  ASSUME IInv, NEW child, NEW draw, Pass(child, draw), NEW r \in Pids, Begin(r)
  PROVE  Leaves(r, Ker!WAITING, kernel.out_put)
<1> DEFINE msg == StartIo(r)
<1>0. Now # Infinity
  BY DEF Pass
<1>1. Bag(KernelM, child) = <<msg>>
  BY <1>0, BeginBag
<1>2. msg.port = "startIO" /\ msg.value = r
  BY DEF StartIo
<1>3. State(r) = Ker!RUNNING /\ kernel.table[r].state = KP!RUNNING
  BY <1>0, BeginDue, SameStates DEF State
<1> HIDE DEF msg
<1>4. KP!Expected(kernel, msg) /\ msg.port \in KP!KnownPorts
  BY <1>2, <1>3 DEF KP!Expected, KP!KnownPorts
<1>5. kernel' = KP!KernelReceive(kernel, msg)
  <2>1. <<msg>> \in Seq({msg}) /\ <<msg>> # <<>>
    OBVIOUS
  <2>2. kernel' = KP!KernelExternal(kernel, <<msg>>)
    BY <1>1, <2>1, KernelMoves
  <2> QED BY <1>4, <2>2, OneMessage
<1>6. KP!Consistent(kernel)
  BY DEF IInv, InvKernel
<1>7. /\ KP!Consistent(kernel')
      /\ KP!Leaving(kernel, kernel', r, Ker!WAITING, kernel.out_put)
  BY <1>2, <1>3, <1>5, <1>6, KP!StartIOEffect, Assumptions, SameStates
<1> QED BY <1>3, <1>7, LeavingFacts

\* No program computes or starts where an operation begins.
LEMMA BeginBefore ==
  ASSUME IInv, Now # Infinity, NEW r \in Pids, Begin(r), NEW p \in Pids
  PROVE  /\ ~ Start(p) /\ ~ Comp(p) /\ ~ Asking(p) /\ ~ Answer(p)
         /\ ~ IoCalled(p) /\ ~ Exiting(p) /\ ~ Forking(p) /\ ~ Call(p)
         /\ Begin(p) <=> p = r
         /\ ~ Ends(p) /\ ~ Begun(p) /\ ~ IsDue(ProgramM(p))
         /\ State(p) = Ker!RUNNING <=> p = r
         /\ \A t : StartsAre(kernel.out_put, p, t)
<1>1. /\ memory.out_put = <<>> /\ sci.out_put = <<>>
      /\ State(r) = Ker!RUNNING
      /\ \A q \in Pids : ~ Asking(q)
      /\ \A q \in Pids : /\ ~ IsDue(ProgramM(q))
                         /\ IsDue(WriteM(q)) => write[q].next_internal = 0
                         /\ IsDue(ReadM(q)) => read[q].next_internal = 0
                         /\ Begin(q) => q = r
  BY BeginDue
<1>2. \A q \in Pids : TokensOf(q)
  BY ProcessesBefore DEF ProcessOf
<1>3. \A q \in Pids : State(q) = Ker!RUNNING <=> q = r
  BY <1>1, OneRuns
<1>4. \A q \in Pids : ~ Start(q) /\ ~ Comp(q)
  BY <1>2, <1>3 DEF TokensOf
<1>5. \A t : StartsAre(kernel.out_put, p, t)
  BY <1>4, QueueKnown
<1>6. ~ Ends(p)
  <2>1. FunctionOK(write[p], p) /\ FunctionOK(read[p], p)
    BY DEF IInv, InvPrograms
  <2> QED BY <1>1, <2>1 DEF Ends, FunctionOK
<1>7. ~ Begun(p)
  <2>1. Sent = IF kernel.armed THEN kernel.out_put ELSE <<>>
    BY SentIs
  <2> QED BY <1>4, <2>1, QueueEmpty DEF Begun, Start
<1> QED BY <1>1, <1>3, <1>4, <1>5, <1>6, <1>7, NoCalls, NoAnswersBefore

\* What the kernel sends is on its way before.
LEMMA SentNames ==
  ASSUME IInv, Now # Infinity, NEW p
  PROVE  /\ Begun(p) => Start(p)
         /\ InQueue(Sent, "requestMemory", p) => Asking(p)
         /\ InQueue(Sent, "releaseMemory", p) => Freeing(p)
<1>1. Sent = IF kernel.armed THEN kernel.out_put ELSE <<>>
  BY SentIs
<1> QED BY <1>1, QueueEmpty DEF Begun, Start, Asking, Freeing

----------------------------------------------------------------------------

\* States around the departure of the running process r.
LEMMA LeavesStates ==
  ASSUME NEW r \in Pids, NEW s \in {Ker!WAITING, Ker!TERMINATED}, NEW put,
         Leaves(r, s, put), State(r) = Ker!RUNNING, NEW p \in Pids
  PROVE  /\ KindOf(p)' = KindOf(p)
         /\ State(p)' = Ker!WAITING <=>
              IF p = r THEN s = Ker!WAITING ELSE State(p) = Ker!WAITING
         /\ State(p)' = Ker!RUNNING =>
              p # r /\ State(p) = Ker!READY /\ ~ Free(p) /\ ~ Free(p)'
         /\ State(p)' \in {Ker!UNDEFINED, Ker!READY} =>
              p # r /\ State(p)' = State(p)
         /\ Free(p)' <=> IF p = r THEN s = Ker!TERMINATED ELSE Free(p)
         /\ Alive(p)' <=> IF p = r THEN s = Ker!WAITING ELSE Alive(p)
         /\ Alive(p) => ~ Free(p)
         /\ p = r => Alive(p) /\ ~ Free(p)
<1>1. /\ KindOf(p)' = KindOf(p)
      /\ p = r => State(p)' = s /\ State(p) = Ker!RUNNING
      /\ p # r => \/ State(p)' = State(p) /\ State(p)' # Ker!RUNNING
                  \/ State(p) = Ker!READY /\ State(p)' = Ker!RUNNING
  BY DEF Leaves
<1> QED BY <1>1, SameStates DEF Free, Alive

\* When an operation begins, what is said of a process is kept,
LEMMA BeginProcess ==
  ASSUME IInv, NEW child, NEW draw, Pass(child, draw),
         NEW r \in Pids, Begin(r), NEW p \in Pids
  PROVE  ProcessOf(p)'
<1>0. Now # Infinity
  BY DEF Pass
<1>1. /\ ~ Start(p) /\ ~ Comp(p) /\ ~ Asking(p) /\ ~ Answer(p)
      /\ ~ IoCalled(p) /\ ~ Exiting(p) /\ ~ Forking(p) /\ ~ Call(p)
      /\ Begin(p) <=> p = r
      /\ ~ Ends(p) /\ ~ Begun(p) /\ ~ IsDue(ProgramM(p))
      /\ State(p) = Ker!RUNNING <=> p = r
      /\ \A t : StartsAre(kernel.out_put, p, t)
  BY <1>0, BeginBefore
<1>2. Leaves(r, Ker!WAITING, kernel.out_put) /\ State(r) = Ker!RUNNING
  BY <1>0, BeginKernel, BeginDue
<1>3. /\ KindOf(p)' = KindOf(p)
      /\ State(p)' = Ker!WAITING <=> p = r \/ State(p) = Ker!WAITING
      /\ State(p)' = Ker!RUNNING =>
           p # r /\ State(p) = Ker!READY /\ ~ Free(p) /\ ~ Free(p)'
      /\ State(p)' \in {Ker!UNDEFINED, Ker!READY} =>
           p # r /\ State(p)' = State(p)
      /\ Free(p)' <=> Free(p)
      /\ Alive(p)' <=> Alive(p)
      /\ Alive(p) => ~ Free(p)
  BY <1>2, LeavesStates, SameStates
<1>4. kernel.out_put \in Seq(KP!OutputSet)
  BY QueueKnown
<1>5. /\ Start(p)' <=> State(p)' = Ker!RUNNING
      /\ Asking(p)' <=> InQueue(kernel.out_put, "requestMemory", p)
      /\ Freeing(p)' <=> InQueue(kernel.out_put, "releaseMemory", p)
      /\ StartsAre(kernel'.out_put, p, KindOf(p)')
  BY <1>1, <1>2, <1>4, LeavesQueue DEF Start
<1>6. ~ Asking(p)' /\ (Freeing(p)' <=> Freeing(p))
  BY <1>1, <1>5 DEF Asking, Freeing
<1>7. ~ IoCalled(p)' /\ ~ Exiting(p)' /\ ~ Forking(p)' /\ ~ Call(p)'
  BY SciBegin, NoCallsNext
<1>8. /\ ~ Comp(p)'
      /\ program'[p].IO_count = program[p].IO_count
      /\ program'[p].fork_count = program[p].fork_count
  BY <1>1, ProgramEffect DEF ProgramAfter
<1>9. Passed = <<>>
  BY <1>0, BeginDue
<1>10. ~ Begin(p)' /\ (Active(p)' <=> p = r \/ Active(p))
  <2>1. ~ IoPassed(p)
    BY <1>9, QueueEmpty DEF IoPassed
  <2> QED BY <1>1, <2>1, OperationsEffect DEF OperationsAfter
<1>11. /\ ~ Answer(p)'
       /\ HasBlock(p)' => HasBlock(p)
       /\ HasBlock(p) /\ ~ Freeing(p) => HasBlock(p)'
  BY <1>0, <1>1, SentNames, MemoryEffect DEF MemoryAfter, Answer
<1>12. ProcessOf(p)
  BY ProcessesBefore
<1>13. TokensOf(p)'
  BY <1>1, <1>3, <1>5, <1>7, <1>8, <1>10, <1>12 DEF ProcessOf, TokensOf
<1>14. KindsOf(p)'
  <2>1. \A i \in DOMAIN kernel'.out_put :
          kernel'.out_put[i].port = "ctrlApp" /\ kernel'.out_put[i].value = p
            => kernel'.out_put[i].value2 = KindOf(p)'
    BY <1>5 DEF StartsAre
  <2> QED BY <1>1, <1>3, <1>6, <1>7, <1>8, <1>10, <1>11, <1>12, <2>1
          DEF ProcessOf, KindsOf
<1>15. CountsOf(p)'
  BY <1>1, <1>3, <1>5, <1>6, <1>7, <1>8, <1>11, <1>12, SameStates
     DEF ProcessOf, CountsOf
<1>16. BlocksOf(p)'
  BY <1>1, <1>3, <1>6, <1>11, <1>12 DEF ProcessOf, BlocksOf
<1> QED BY <1>13, <1>14, <1>15, <1>16 DEF ProcessOf

\* and so is what remains.
LEMMA BeginNext ==
  ASSUME IInv, NEW child, NEW draw, Pass(child, draw), BeginPass
  PROVE  Remaining'
<1>0. Now # Infinity
  BY DEF Pass
<1>1. PICK r \in Pids : Begin(r)
  BY DEF BeginPass
<1>2. /\ generator = <<>> /\ Passed = <<>>
      /\ \A p \in Pids : ~ Asking(p)
  BY <1>0, <1>1, BeginDue
<1>3. Leaves(r, Ker!WAITING, kernel.out_put)
  BY <1>1, BeginKernel
<1>4. /\ kernel.out_put \in Seq(KP!OutputSet)
      /\ \A i \in DOMAIN kernel.out_put :
           kernel.out_put[i].port # "requestMemory"
  BY <1>2, QueueKnown
<1>5. InvKernel' /\ MP!Ordered(kernel'.out_put)
  BY <1>3, <1>4, LeavesKernel
<1>6. \A p \in Pids : ~ InQueue(Sent, "requestMemory", p)
  BY <1>0, <1>2, SentNames
<1>7. ASSUME NEW p \in Pids PROVE ~ Asking(p)'
  <2>1. \A t : StartsAre(kernel.out_put, p, t)
    BY <1>0, <1>1, BeginBefore
  <2>2. ~ Start(p)
    BY <1>0, <1>1, BeginBefore
  <2>3. Asking(p)' <=> InQueue(kernel.out_put, "requestMemory", p)
    BY <1>3, <1>4, <2>1, <2>2, LeavesQueue DEF Start
  <2> QED BY <1>2, <2>3 DEF Asking
<1>8. InvPhases'
  BY <1>2, <1>6, <1>7, NoBeginNext, LaterPhases
<1> QED BY <1>1, <1>5, <1>8, BeginProcess DEF Remaining

----------------------------------------------------------------------------
(* The pass in which the calls reach the kernel.                           *)

\* Whatever the kernel does, the others do this when the calls are made.
CallRest(p) ==
  /\ ~ Asking(p) /\ ~ Answer(p) /\ ~ Begin(p)
  /\ Begin(p)' <=> IoCalled(p)
  /\ Active(p)' <=> Active(p)
  /\ ~ IoCalled(p)' /\ ~ Exiting(p)' /\ ~ Forking(p)' /\ ~ Call(p)'
  /\ ~ Answer(p)'
  /\ HasBlock(p)' => HasBlock(p)
  /\ HasBlock(p) /\ ~ Freeing(p) => HasBlock(p)'
  /\ Comp(p)' <=> Comp(p) \/ Start(p)
  /\ program'[p].type = IF Start(p) THEN KindOf(p) ELSE program[p].type
  /\ program'[p].IO_count = program[p].IO_count
  /\ program'[p].fork_count = program[p].fork_count
  /\ kernel.armed /\ kernel.out_put # <<>> => Fresh(p)'
  /\ Fresh(p) /\ ~ Start(p) => Fresh(p)'

\* The rest is as CallRest says.
LEMMA CallsRest ==
  ASSUME IInv, NEW child, NEW draw, Pass(child, draw), CallPass, NEW p \in Pids
  PROVE  CallRest(p)
<1>0. Now # Infinity
  BY DEF Pass
<1>1. /\ memory.out_put = <<>> /\ Passed = sci.out_put /\ Now = 0
      /\ ~ Asking(p) /\ ~ Begin(p)
      /\ ~ IsDue(ProgramM(p)) /\ ~ IsDue(WriteM(p)) /\ ~ IsDue(ReadM(p))
  BY <1>0, CallDue DEF NoBegin
<1>2. Sent = IF kernel.armed THEN kernel.out_put ELSE <<>>
  BY <1>0, SentIs
<1>3. Begun(p) <=> Start(p)
  <2>1. Start(p) => kernel.armed
    BY QueueKnown
  <2> QED BY <1>0, <1>2, <2>1, SentNames DEF Begun, Start
<1>4. IoPassed(p) <=> IoCalled(p)
  BY <1>1 DEF IoPassed, IoCalled
<1>5. Begin(p)' <=> IoCalled(p)
  BY <1>4, OperationsEffect DEF OperationsAfter
<1>6. Active(p)' <=> Active(p)
  BY <1>1, OperationsEffect DEF OperationsAfter, Ends
<1>7. ~ IoCalled(p)' /\ ~ Exiting(p)' /\ ~ Forking(p)' /\ ~ Call(p)'
  <2>1. ~ TimePass
    BY <1>1 DEF TimePass
  <2> QED BY <2>1, SciEffect, NoCallsNext
<1>8. /\ ~ Answer(p)'
      /\ HasBlock(p)' => HasBlock(p)
      /\ HasBlock(p) /\ ~ Freeing(p) => HasBlock(p)'
  BY <1>0, <1>1, SentNames, MemoryEffect DEF MemoryAfter, Answer
<1>9. /\ Comp(p)' <=> Comp(p) \/ Start(p)
      /\ program'[p].type = IF Start(p) THEN KindOf(p) ELSE program[p].type
      /\ program'[p].IO_count = program[p].IO_count
      /\ program'[p].fork_count = program[p].fork_count
  BY <1>1, <1>3, ProgramEffect DEF ProgramAfter
<1>10. /\ kernel.armed /\ kernel.out_put # <<>> => Fresh(p)'
       /\ Fresh(p) /\ ~ Start(p) => Fresh(p)'
  BY <1>1, <1>2, <1>3, ProgramTimes
<1> QED BY <1>1, <1>5, <1>6, <1>7, <1>8, <1>9, <1>10, NoAnswersBefore
        DEF CallRest

\* The kernel hears the calls, and at most one of them concerns it.
LEMMA CallBag ==
  ASSUME IInv, Now # Infinity, CallPass, NEW child
  PROVE  /\ Bag(KernelM, child) = sci.out_put
         /\ sci.out_put \in Seq(CallSet)
         /\ \A i, j \in DOMAIN sci.out_put :
              sci.out_put[i].port \in KP!KnownPorts
                /\ sci.out_put[j].port \in KP!KnownPorts => i = j
         /\ \A i \in DOMAIN sci.out_put :
              /\ KP!Expected(kernel, sci.out_put[i])
              /\ sci.out_put[i].port \in KP!KnownPorts =>
                   sci.out_put[i].port \in {"processComplete", "processFork"}
<1> DEFINE q == sci.out_put
<1>1. ~ IsDue(Generator) /\ IsDue(SciM) /\ ~ IsDue(MemoryM)
  BY CallDue
<1>2. \A p \in Pids : ~ IsDue(WriteM(p)) /\ ~ IsDue(ReadM(p))
  BY CallDue
<1>3. OutputOf(SciM, child) = q
  BY OutputsOf
<1>4. /\ q \in Seq(CallSet)
      /\ \A i, j \in DOMAIN q :
           q[i].port # "IOApp" /\ q[j].port # "IOApp" => i = j
  BY DEF IInv, InvSci
<1>5. Bag(KernelM, child) = q
  BY <1>1, <1>2, <1>3, <1>4, KernelHears
<1>6. \A m \in CallSet :
        /\ m.value \in Pids
        /\ m.port \in {"WriteFunction", "ReadFunction", "IOApp",
                       "processComplete", "processFork"}
  BY DEF CallSet
<1>7. \A p : InQueue(q, "processComplete", p) <=> Exiting(p)
  BY DEF Exiting
<1>8. \A p \in Pids : Exiting(p) => kernel.table[p].state = KP!RUNNING
  BY ProcessesBefore, SameStates DEF ProcessOf, TokensOf, Call, State
<1> HIDE DEF q
<1>9. ASSUME NEW i \in DOMAIN q
      PROVE  /\ KP!Expected(kernel, q[i])
             /\ q[i].port \in KP!KnownPorts =>
                  q[i].port \in {"processComplete", "processFork"}
  <2>1. q[i] \in CallSet
    BY <1>4
  <2>2. /\ q[i].value \in Pids
        /\ q[i].port \in {"WriteFunction", "ReadFunction", "IOApp",
                          "processComplete", "processFork"}
    BY <1>6, <2>1
  <2>3. q[i].port = "processComplete" =>
          kernel.table[q[i].value].state = KP!RUNNING
    BY <1>7, <1>8, <2>2 DEF InQueue
  <2> QED BY <2>2, <2>3 DEF KP!Expected, KP!KnownPorts
<1>10. \A i, j \in DOMAIN q :
         q[i].port \in KP!KnownPorts /\ q[j].port \in KP!KnownPorts => i = j
  BY <1>4 DEF KP!KnownPorts
<1> QED BY <1>4, <1>5, <1>9, <1>10 DEF q

----------------------------------------------------------------------------

\* The kernel asks memory for the free process f, forked by another.
AsksFor(f) ==
  /\ KP!Consistent(kernel') /\ kernel'.armed
  /\ \A p \in Pids : /\ State(p)' = State(p)
                     /\ KindOf(p)' = IF p = f THEN PROGRAM_IO ELSE KindOf(p)
  /\ \E size : kernel'.out_put
                 = Append(kernel.out_put, KP!RequestMemory(f, size))

\* One call is on its way at most.
LEMMA OneCall ==
  ASSUME InvSci, NEW p, NEW q
  PROVE  /\ Exiting(p) => /\ ~ IoCalled(q) /\ ~ Forking(q)
                          /\ Exiting(q) => q = p
         /\ Forking(p) => ~ IoCalled(q)
<1> DEFINE put == sci.out_put
<1>1. \A i, j \in DOMAIN put :
        put[i].port # "IOApp" /\ put[j].port # "IOApp" => i = j
  BY DEF InvSci
<1>2. /\ \A n : Exiting(n) <=> InQueue(put, "processComplete", n)
      /\ \A n : Forking(n) <=> InQueue(put, "processFork", n)
      /\ \A n : IoCalled(n) <=> \/ InQueue(put, "ReadFunction", n)
                                \/ InQueue(put, "WriteFunction", n)
  BY DEF Exiting, Forking, IoCalled
<1> HIDE DEF put
<1> QED BY <1>1, <1>2 DEF InQueue

\* A fork is a request for a free PID, or nothing if there is none.
LEMMA ForkKernel ==
  ASSUME IInv, NEW m \in CallSet, m.port = "processFork",
         kernel' = KP!KernelReceive(kernel, m)
  PROVE  kernel' = kernel \/ \E f \in Pids : Free(f) /\ AsksFor(f)
<1>1. /\ m.value2 = PROGRAM_IO /\ m.value3 \in Int /\ m.value4 \in BlockSizes
  BY DEF CallSet
<1>2. m.value2 \in {PROGRAM_IO, PROGRAM_FORK}
  BY <1>1
<1>3. KP!Consistent(kernel)
  BY DEF IInv, InvKernel
<1>4. /\ KP!Consistent(kernel')
      /\ \/ kernel' = kernel
         \/ /\ \E f \in KP!FreePids(kernel) :
                 KP!Asks(kernel, kernel', f, PROGRAM_IO, m.value4)
            /\ kernel'.armed = TRUE
  <2> DEFINE size == m.value4
  <2>1. /\ KP!Consistent(KP!KernelReceive(kernel, m))
        /\ \/ KP!KernelReceive(kernel, m) = kernel
           \/ /\ \E f \in KP!FreePids(kernel) :
                   KP!Asks(kernel, KP!KernelReceive(kernel, m), f, m.value2,
                           m.value4)
              /\ KP!KernelReceive(kernel, m).armed = TRUE
    BY <1>1, <1>2, <1>3, KP!ForkEffect, Assumptions
  <2> QED BY <1>1, <2>1
<1>5. CASE /\ \E f \in KP!FreePids(kernel) :
                KP!Asks(kernel, kernel', f, PROGRAM_IO, m.value4)
           /\ kernel'.armed = TRUE
  <2>1. PICK f \in KP!FreePids(kernel) :
          KP!Asks(kernel, kernel', f, PROGRAM_IO, m.value4)
    BY <1>5
  <2>2. f \in Pids /\ Free(f)
    BY SameStates DEF Free, KP!FreePids, State
  <2>3. /\ \A p \in Pids : /\ kernel'.table[p].state = kernel.table[p].state
                           /\ kernel'.table[p].type =
                                IF p = f THEN PROGRAM_IO
                                ELSE kernel.table[p].type
        /\ kernel'.out_put =
             Append(kernel.out_put, KP!RequestMemory(f, m.value4))
    BY <2>1 DEF KP!Asks
  <2>4. \A p \in Pids : /\ State(p)' = State(p)
                        /\ KindOf(p)' = IF p = f THEN PROGRAM_IO ELSE KindOf(p)
    BY <2>3 DEF State, KindOf
  <2>5. AsksFor(f)
    BY <1>4, <1>5, <2>3, <2>4 DEF AsksFor
  <2> QED BY <2>2, <2>5
<1> QED BY <1>4, <1>5

\* The output of the kernel with the release of an exiting process.
ExitQueue(r) == Append(kernel.out_put, KP!ReleaseMemory(r))

\* What the kernel makes of a call: nothing, an exit or a fork.
LEMMA CallKernel ==
  ASSUME IInv, NEW child, NEW draw, Pass(child, draw), CallPass
  PROVE  \/ kernel' = kernel /\ \A p \in Pids : ~ Exiting(p)
         \/ \E r \in Pids : Exiting(r)
                            /\ Leaves(r, Ker!TERMINATED, ExitQueue(r))
         \/ \E r \in Pids : /\ Forking(r)
                            /\ \E f \in Pids : Free(f) /\ AsksFor(f)
<1> DEFINE q == sci.out_put
<1>0. Now # Infinity
  BY DEF Pass
<1>1. /\ Bag(KernelM, child) = q
      /\ q \in Seq(CallSet) /\ q # <<>>
      /\ \A i, j \in DOMAIN q :
           q[i].port \in KP!KnownPorts /\ q[j].port \in KP!KnownPorts => i = j
      /\ \A i \in DOMAIN q :
           /\ KP!Expected(kernel, q[i])
           /\ q[i].port \in KP!KnownPorts =>
                q[i].port \in {"processComplete", "processFork"}
  BY <1>0, CallBag DEF CallPass
<1>2. kernel' = KP!KernelExternal(kernel, q)
  BY <1>1, KernelMoves
<1>3. /\ \A p : Exiting(p) <=> InQueue(q, "processComplete", p)
      /\ \A p : Forking(p) <=> InQueue(q, "processFork", p)
  BY DEF Exiting, Forking
<1>4. InvSci
  BY DEF IInv
<1> HIDE DEF q
<1>5. /\ \A i \in DOMAIN q : q[i].port \in KP!KnownPorts =>
           kernel' = KP!KernelReceive(kernel, q[i])
      /\ (\A i \in DOMAIN q : q[i].port \notin KP!KnownPorts) =>
           kernel' = kernel
  BY <1>1, <1>2, KP!CallBagEffect, Assumptions
<1>6. "processComplete" \in KP!KnownPorts /\ "processFork" \in KP!KnownPorts
  BY DEF KP!KnownPorts
<1>7. \A i \in DOMAIN q : q[i] \in CallSet
  BY <1>1
<1>8. \A m \in CallSet : m.value \in Pids
  BY DEF CallSet
<1>9. ASSUME NEW i \in DOMAIN q, q[i].port = "processComplete"
      PROVE  \E r \in Pids : Exiting(r)
                             /\ Leaves(r, Ker!TERMINATED, ExitQueue(r))
  <2> DEFINE m == q[i]
             r == m.value
  <2>1. m \in CallSet /\ r \in Pids /\ Exiting(r)
    BY <1>3, <1>7, <1>8, <1>9 DEF InQueue
  <2>2. State(r) = Ker!RUNNING /\ kernel.table[r].state = KP!RUNNING
    BY <2>1, ProcessesBefore, SameStates
       DEF ProcessOf, TokensOf, Call, State
  <2>3. KP!Consistent(kernel)
    BY DEF IInv, InvKernel
  <2>4. kernel' = KP!KernelReceive(kernel, m) /\ m.port = "processComplete"
    BY <1>5, <1>6, <1>9
  <2> HIDE DEF m
  <2>5. /\ KP!Consistent(kernel')
        /\ KP!Leaving(kernel, kernel', r, Ker!TERMINATED, ExitQueue(r))
    BY <2>1, <2>2, <2>3, <2>4, KP!CompleteEffect, Assumptions, SameStates
       DEF ExitQueue
  <2>6. Leaves(r, Ker!TERMINATED, ExitQueue(r))
    <3> DEFINE put == ExitQueue(r)
    <3> HIDE DEF put
    <3>1. KP!Leaving(kernel, kernel', r, Ker!TERMINATED, put)
      BY <2>5 DEF put
    <3>2. Leaves(r, Ker!TERMINATED, put)
      BY <2>1, <2>2, <2>5, <3>1, LeavingFacts
    <3> QED BY <3>2 DEF put
  <2> QED BY <2>1, <2>6
<1>10. ASSUME NEW i \in DOMAIN q, q[i].port = "processFork"
       PROVE  \/ kernel' = kernel /\ \A p \in Pids : ~ Exiting(p)
              \/ \E r \in Pids : /\ Forking(r)
                                 /\ \E f \in Pids : Free(f) /\ AsksFor(f)
  <2>1. q[i] \in CallSet /\ q[i].value \in Pids /\ Forking(q[i].value)
    BY <1>3, <1>7, <1>8, <1>10 DEF InQueue
  <2>2. kernel' = KP!KernelReceive(kernel, q[i])
    BY <1>5, <1>6, <1>10
  <2>3. kernel' = kernel \/ \E f \in Pids : Free(f) /\ AsksFor(f)
    BY <1>10, <2>1, <2>2, ForkKernel
  <2>4. \A p : ~ Exiting(p)
    BY <1>4, <2>1, OneCall
  <2> QED BY <2>1, <2>3, <2>4
<1>11. CASE \A i \in DOMAIN q : q[i].port \notin KP!KnownPorts
  <2>1. \A p : ~ Exiting(p)
    BY <1>3, <1>6, <1>11 DEF InQueue
  <2> QED BY <1>5, <1>11, <2>1
<1>12. CASE \E i \in DOMAIN q : q[i].port \in KP!KnownPorts
  BY <1>1, <1>9, <1>10, <1>12
<1> QED BY <1>11, <1>12

----------------------------------------------------------------------------

\* A start that is not on the way prescribes no kind.
LEMMA NoStart ==
  ASSUME NEW q, NEW p, ~ InQueue(q, "ctrlApp", p)
  PROVE  \A t : StartsAre(q, p, t)
BY DEF StartsAre, InQueue

\* The calls leave the kernel as it is: an operation, a fork it has no place
\* for, nothing but reports of the end of an operation.
LEMMA SameKernelProcess ==
  ASSUME IInv, NEW child, NEW draw, Pass(child, draw), CallPass,
         kernel' = kernel, NEW p \in Pids, ~ Exiting(p)
  PROVE  ProcessOf(p)'
<1>1. CallRest(p)
  BY CallsRest
<1>2. ProcessOf(p)
  BY ProcessesBefore
<1>3. /\ State(p)' = State(p) /\ KindOf(p)' = KindOf(p)
      /\ Free(p)' <=> Free(p)
      /\ Alive(p)' <=> Alive(p)
      /\ Start(p)' <=> Start(p)
      /\ Asking(p)' <=> Asking(p)
      /\ Freeing(p)' <=> Freeing(p)
      /\ kernel'.out_put = kernel.out_put
  BY SameQueue DEF State, KindOf, Free, Alive
<1>4. Call(p) <=> IoCalled(p)
  BY DEF Call
<1>5. Start(p) => ~ Free(p) /\ State(p) = Ker!RUNNING
  BY <1>2, SameStates DEF ProcessOf, TokensOf, Free
<1>6. TokensOf(p)'
  <2>1. Comp(p)' /\ kernel'.out_put # <<>> => Fresh(p)'
    <3>1. CASE kernel.armed
      BY <1>1, <1>3, <3>1 DEF CallRest
    <3>2. CASE ~ kernel.armed /\ kernel.out_put # <<>>
      <4>1. ~ kernel.processing
        BY <3>2 DEF IInv, InvKernel
      <4>2. kernel.processing <=> KP!In(kernel, KP!RUNNING) # {}
        BY DEF IInv, InvKernel, KP!Consistent
      <4>3. State(p) # Ker!RUNNING
        BY <4>1, <4>2, RunningIn
      <4> QED BY <1>1, <1>2, <4>3 DEF CallRest, ProcessOf, TokensOf
    <3> QED BY <1>3, <3>1, <3>2
  <2> QED BY <1>1, <1>2, <1>3, <1>4, <2>1 DEF CallRest, ProcessOf, TokensOf
<1>7. KindsOf(p)'
  BY <1>1, <1>2, <1>3 DEF CallRest, ProcessOf, KindsOf
<1>8. CountsOf(p)'
  <2>1. 0 <= ForkCalls
    BY ProgramAssumption
  <2> QED BY <1>1, <1>2, <1>3, <1>5, <2>1 DEF CallRest, ProcessOf, CountsOf
<1>9. BlocksOf(p)'
  <2>1. Alive(p) => ~ Free(p)
    BY SameStates DEF Alive, Free
  <2> QED BY <1>1, <1>2, <1>3, <2>1 DEF CallRest, ProcessOf, BlocksOf
<1> QED BY <1>6, <1>7, <1>8, <1>9 DEF ProcessOf

\* The running process r completes.
LEMMA ExitBefore ==
  ASSUME IInv, Now # Infinity, CallPass, NEW r \in Pids, Exiting(r),
         NEW p \in Pids
  PROVE  /\ State(r) = Ker!RUNNING /\ (State(p) = Ker!RUNNING <=> p = r)
         /\ ~ Start(p) /\ ~ Comp(p)
         /\ ~ IoCalled(p) /\ ~ Forking(p)
         /\ Exiting(p) <=> p = r
<1>1. InvSci
  BY DEF IInv
<1>2. Call(r)
  BY DEF Call
<1>3. State(r) = Ker!RUNNING /\ ~ Start(r) /\ ~ Comp(r)
  BY <1>2, ProcessesBefore DEF ProcessOf, TokensOf
<1>4. State(p) = Ker!RUNNING <=> p = r
  BY <1>3, OneRuns
<1>5. ~ Start(p) /\ ~ Comp(p)
  BY <1>3, <1>4, ProcessesBefore DEF ProcessOf, TokensOf
<1> QED BY <1>1, <1>3, <1>4, <1>5, OneCall

\* When a process exits, what is said of any process is kept.
LEMMA ExitProcess ==
  ASSUME IInv, NEW child, NEW draw, Pass(child, draw), CallPass,
         NEW r \in Pids, Exiting(r), Leaves(r, Ker!TERMINATED, ExitQueue(r)),
         NEW p \in Pids
  PROVE  ProcessOf(p)' /\ ~ Asking(p)'
<1> DEFINE put == ExitQueue(r)
<1>0. Now # Infinity
  BY DEF Pass
<1>1. CallRest(p)
  BY CallsRest
<1>2. ProcessOf(p)
  BY ProcessesBefore
<1>3. /\ State(r) = Ker!RUNNING /\ (State(p) = Ker!RUNNING <=> p = r)
      /\ ~ Start(p) /\ ~ Comp(p)
      /\ ~ IoCalled(p) /\ ~ Forking(p)
      /\ Exiting(p) <=> p = r
  BY <1>0, ExitBefore
<1>4. /\ KindOf(p)' = KindOf(p)
      /\ State(p)' = Ker!WAITING <=> p # r /\ State(p) = Ker!WAITING
      /\ State(p)' = Ker!RUNNING =>
           p # r /\ State(p) = Ker!READY /\ ~ Free(p) /\ ~ Free(p)'
      /\ State(p)' \in {Ker!UNDEFINED, Ker!READY} =>
           p # r /\ State(p)' = State(p)
      /\ Free(p)' <=> Free(p) \/ p = r
      /\ Alive(p)' <=> Alive(p) /\ p # r
      /\ Alive(p) => ~ Free(p)
      /\ p = r => Alive(p) /\ ~ Free(p)
  <2> DEFINE s == Ker!TERMINATED
  <2>1. /\ s \in {Ker!WAITING, Ker!TERMINATED} /\ s # Ker!WAITING
        /\ Ker!RUNNING # Ker!WAITING
    BY SameStates
  <2>2. Leaves(r, s, put)
    OBVIOUS
  <2> HIDE DEF s, put
  <2>3. /\ KindOf(p)' = KindOf(p)
        /\ State(p)' = Ker!WAITING <=>
             IF p = r THEN s = Ker!WAITING ELSE State(p) = Ker!WAITING
        /\ State(p)' = Ker!RUNNING =>
             p # r /\ State(p) = Ker!READY /\ ~ Free(p) /\ ~ Free(p)'
        /\ State(p)' \in {Ker!UNDEFINED, Ker!READY} =>
             p # r /\ State(p)' = State(p)
        /\ Free(p)' <=> IF p = r THEN s = Ker!TERMINATED ELSE Free(p)
        /\ Alive(p)' <=> IF p = r THEN s = Ker!WAITING ELSE Alive(p)
        /\ Alive(p) => ~ Free(p)
        /\ p = r => Alive(p) /\ ~ Free(p)
    BY <1>3, <2>1, <2>2, LeavesStates
  <2>4. s = Ker!TERMINATED
    BY DEF s
  <2> QED BY <1>3, <2>1, <2>3, <2>4
<1>5. /\ put \in Seq(KP!OutputSet \cup {KP!ReleaseMemory(r)})
      /\ \A port : InQueue(put, port, p) <=>
           \/ InQueue(kernel.out_put, port, p)
           \/ port = "releaseMemory" /\ p = r
  <2> DEFINE msg == KP!ReleaseMemory(r)
             T == KP!OutputSet \cup {msg}
  <2>1. kernel.out_put \in Seq(KP!OutputSet)
    BY QueueKnown
  <2>2. msg.port = "releaseMemory" /\ msg.value = r
    BY DEF KP!ReleaseMemory
  <2> HIDE DEF msg
  <2>3. put = Append(kernel.out_put, msg)
    BY DEF ExitQueue, msg
  <2>4. kernel.out_put \in Seq(T) /\ put \in Seq(T)
    BY <2>1, <2>3
  <2>5. \A port : InQueue(put, port, p) <=>
          \/ InQueue(kernel.out_put, port, p)
          \/ msg.port = port /\ msg.value = p
    BY <2>1, <2>3, QueueAppend
  <2> QED BY <2>2, <2>4, <2>5 DEF msg
<1>6. ~ InQueue(put, "ctrlApp", p) /\ ~ InQueue(put, "requestMemory", p)
  BY <1>1, <1>3, <1>5 DEF CallRest, Start, Asking
<1> HIDE DEF put
<1>7. /\ Start(p)' <=> State(p)' = Ker!RUNNING
      /\ Asking(p)' <=> InQueue(put, "requestMemory", p)
      /\ Freeing(p)' <=> InQueue(put, "releaseMemory", p)
      /\ StartsAre(kernel'.out_put, p, KindOf(p)')
  <2>1. Leaves(r, Ker!TERMINATED, put)
    BY DEF put
  <2> QED BY <1>5, <1>6, <2>1, LeavesQueue, NoStart
<1>8. ~ Asking(p)' /\ (Freeing(p)' <=> Freeing(p) \/ p = r)
  BY <1>5, <1>6, <1>7 DEF Freeing
<1>9. TokensOf(p)'
  BY <1>1, <1>2, <1>3, <1>4, <1>7, SameStates
     DEF CallRest, ProcessOf, TokensOf
<1>10. KindsOf(p)'
  <2>1. \A i \in DOMAIN kernel'.out_put :
          kernel'.out_put[i].port = "ctrlApp" /\ kernel'.out_put[i].value = p
            => kernel'.out_put[i].value2 = KindOf(p)'
    BY <1>7 DEF StartsAre
  <2> QED BY <1>1, <1>2, <1>3, <1>4, <1>8, <2>1
          DEF CallRest, ProcessOf, KindsOf
<1>11. CountsOf(p)'
  BY <1>1, <1>2, <1>3, <1>4, <1>7, <1>8, SameStates
     DEF CallRest, ProcessOf, CountsOf
<1>12. BlocksOf(p)'
  BY <1>1, <1>2, <1>3, <1>4, <1>8 DEF CallRest, ProcessOf, BlocksOf
<1> QED BY <1>8, <1>9, <1>10, <1>11, <1>12 DEF ProcessOf

----------------------------------------------------------------------------

\* The queue after one more request, none being there before.
LEMMA AddedRequest ==
  ASSUME NEW T, NEW put \in Seq(T), NEW f \in Pids, NEW size,
         kernel'.out_put = Append(put, KP!RequestMemory(f, size))
  PROVE  /\ \A p : /\ Start(p)' <=> InQueue(put, "ctrlApp", p)
                   /\ Asking(p)' <=> InQueue(put, "requestMemory", p) \/ p = f
                   /\ Freeing(p)' <=> InQueue(put, "releaseMemory", p)
         /\ \A p, t : StartsAre(kernel'.out_put, p, t) <=> StartsAre(put, p, t)
         /\ (\A i \in DOMAIN put : put[i].port # "requestMemory") =>
              MP!Ordered(kernel'.out_put)
         /\ kernel'.out_put # <<>>
<1> DEFINE msg == KP!RequestMemory(f, size)
<1>1. msg.port = "requestMemory" /\ msg.value = f
  BY DEF KP!RequestMemory
<1> HIDE DEF msg
<1>2. kernel'.out_put = Append(put, msg)
  BY DEF msg
<1>3. /\ \A port, p : InQueue(kernel'.out_put, port, p)
           <=> InQueue(put, port, p) \/ (msg.port = port /\ msg.value = p)
      /\ \A p, t : StartsAre(kernel'.out_put, p, t)
           <=> /\ StartsAre(put, p, t)
               /\ (msg.port = "ctrlApp" /\ msg.value = p => msg.value2 = t)
      /\ kernel'.out_put # <<>>
      /\ (\A i \in DOMAIN put : put[i].port # "requestMemory") =>
           MP!Ordered(kernel'.out_put)
  BY <1>2, AppendEffect
<1>4. \A p : /\ Start(p)' <=> InQueue(kernel'.out_put, "ctrlApp", p)
             /\ Asking(p)' <=> InQueue(kernel'.out_put, "requestMemory", p)
             /\ Freeing(p)' <=> InQueue(kernel'.out_put, "releaseMemory", p)
  BY DEF Start, Asking, Freeing, InQueue
<1> QED BY <1>1, <1>3, <1>4

\* A fork adds its request to what is on its way.
LEMMA ForkQueue ==
  ASSUME IInv, NEW f \in Pids, AsksFor(f), \A p \in Pids : ~ Asking(p)
  PROVE  /\ \A p \in Pids : /\ Start(p)' <=> Start(p)
                            /\ Asking(p)' <=> p = f
                            /\ Freeing(p)' <=> Freeing(p)
         /\ \A p, t : StartsAre(kernel'.out_put, p, t)
                        <=> StartsAre(kernel.out_put, p, t)
         /\ MP!Ordered(kernel'.out_put)
<1>1. PICK size : kernel'.out_put
                    = Append(kernel.out_put, KP!RequestMemory(f, size))
  BY DEF AsksFor
<1>2. /\ kernel.out_put \in Seq(KP!OutputSet)
      /\ \A i \in DOMAIN kernel.out_put :
           kernel.out_put[i].port # "requestMemory"
  BY QueueKnown
<1>3. /\ \A p : /\ Start(p)' <=> InQueue(kernel.out_put, "ctrlApp", p)
                /\ Asking(p)' <=> InQueue(kernel.out_put, "requestMemory", p)
                                    \/ p = f
                /\ Freeing(p)' <=> InQueue(kernel.out_put, "releaseMemory", p)
      /\ \A p, t : StartsAre(kernel'.out_put, p, t)
                     <=> StartsAre(kernel.out_put, p, t)
      /\ MP!Ordered(kernel'.out_put)
  BY <1>1, <1>2, AddedRequest
<1>4. \A p \in Pids : ~ InQueue(kernel.out_put, "requestMemory", p)
  BY DEF Asking
<1> QED BY <1>3, <1>4 DEF Start, Freeing

\* The running process r forks, and the kernel asks memory for f.
LEMMA ForkProcess ==
  ASSUME IInv, NEW child, NEW draw, Pass(child, draw), CallPass,
         NEW r \in Pids, Forking(r), NEW f \in Pids, Free(f), AsksFor(f),
         NEW p \in Pids
  PROVE  ProcessOf(p)'
<1>0. Now # Infinity
  BY DEF Pass
<1>1. CallRest(p)
  BY CallsRest
<1>2. ProcessOf(p)
  BY ProcessesBefore
<1>3. InvSci
  BY DEF IInv
<1>4. ~ IoCalled(p) /\ ~ Exiting(p) /\ ~ Call(p)
  BY <1>3, OneCall DEF Call
<1>5. \A q \in Pids : ~ Asking(q)
  BY <1>0, CallDue
<1>6. /\ Start(p)' <=> Start(p)
      /\ Asking(p)' <=> p = f
      /\ Freeing(p)' <=> Freeing(p)
      /\ \A t : StartsAre(kernel'.out_put, p, t)
                  <=> StartsAre(kernel.out_put, p, t)
  BY <1>5, ForkQueue
<1>7. /\ State(p)' = State(p)
      /\ KindOf(p)' = IF p = f THEN PROGRAM_IO ELSE KindOf(p)
  BY DEF AsksFor
<1>8. (Free(p)' <=> Free(p)) /\ (Alive(p)' <=> Alive(p))
  BY <1>7 DEF Free, Alive
<1>9. /\ Free(p) => /\ State(p) # Ker!RUNNING /\ State(p) # Ker!WAITING
                    /\ ~ Alive(p)
      /\ Alive(p) => ~ Free(p)
  BY SameStates DEF Free, Alive
<1>10. PROGRAM_IO # PROGRAM_FORK /\ PROGRAM_IO # 0 /\ 0 <= ForkCalls
  BY ProgramAssumption DEF PROGRAM_IO, PROGRAM_FORK
<1>11. Free(p) => ~ Start(p) /\ ~ Comp(p) /\ ~ Active(p)
  BY <1>2, <1>9 DEF ProcessOf, TokensOf
<1>12. TokensOf(p)'
  <2>1. Comp(p)' => Fresh(p)'
    <3>1. State(r) = Ker!RUNNING /\ Fresh(r)
      BY ProcessesBefore DEF ProcessOf, TokensOf
    <3>2. Comp(p)' => State(p) = Ker!RUNNING
      BY <1>1, <1>2 DEF CallRest, ProcessOf, TokensOf
    <3>3. Comp(p)' => Fresh(p)
      BY <3>1, <3>2, OneRuns
    <3>4. Start(p) => kernel.armed /\ kernel.out_put # <<>>
      <4>1. Start(p) => kernel.armed
        BY QueueKnown
      <4>2. Start(p) => kernel.out_put # <<>>
        BY QueueEmpty DEF Start
      <4> QED BY <4>1, <4>2
    <3> QED BY <1>1, <3>3, <3>4 DEF CallRest
  <2> QED BY <1>1, <1>2, <1>4, <1>6, <1>7, <2>1
          DEF CallRest, ProcessOf, TokensOf
<1>13. KindsOf(p)'
  <2>1. StartsAre(kernel'.out_put, p, KindOf(p)')
    <3>1. CASE p = f
      BY <1>6, <1>11, <3>1, NoStart DEF Start
    <3>2. CASE p # f
      BY <1>2, <1>6, <1>7, <3>2 DEF ProcessOf, KindsOf, StartsAre
    <3> QED BY <3>1, <3>2
  <2>2. \A i \in DOMAIN kernel'.out_put :
          kernel'.out_put[i].port = "ctrlApp" /\ kernel'.out_put[i].value = p
            => kernel'.out_put[i].value2 = KindOf(p)'
    BY <2>1 DEF StartsAre
  <2>3. CASE p = f
    BY <1>1, <1>4, <1>7, <1>10, <1>11, <2>2, <2>3 DEF CallRest, KindsOf
  <2>4. CASE p # f
    BY <1>1, <1>2, <1>4, <1>6, <1>7, <1>8, <2>2, <2>4
       DEF CallRest, ProcessOf, KindsOf
  <2> QED BY <2>3, <2>4
<1>14. CountsOf(p)'
  <2>1. CASE p = f
    BY <1>1, <1>2, <1>7, <1>10, <2>1 DEF CallRest, ProcessOf, CountsOf
  <2>2. CASE p # f
    BY <1>1, <1>2, <1>6, <1>7, <1>8, <1>10, <2>2
       DEF CallRest, ProcessOf, CountsOf
  <2> QED BY <2>1, <2>2
<1>15. BlocksOf(p)'
  BY <1>1, <1>2, <1>6, <1>8, <1>9 DEF CallRest, ProcessOf, BlocksOf
<1> QED BY <1>12, <1>13, <1>14, <1>15 DEF ProcessOf

\* When calls reach the kernel, what remains is kept.
LEMMA CallNext ==
  ASSUME IInv, NEW child, NEW draw, Pass(child, draw), CallPass
  PROVE  Remaining'
<1>0. Now # Infinity
  BY DEF Pass
<1>1. /\ generator = <<>> /\ Now = 0
      /\ \A p \in Pids : ~ Asking(p)
  BY <1>0, CallDue
<1>2. /\ sci' = InitialInterface
      /\ \A p \in Pids : ~ InQueue(Sent, "requestMemory", p)
  BY <1>0, <1>1, SentNames, SciEffect DEF TimePass
<1>3. /\ kernel.out_put \in Seq(KP!OutputSet)
      /\ \A i \in DOMAIN kernel.out_put :
           kernel.out_put[i].port # "requestMemory"
  BY <1>1, QueueKnown
<1>4. CASE kernel' = kernel /\ \A p \in Pids : ~ Exiting(p)
  <2>1. \A p \in Pids : ProcessOf(p)'
    BY <1>4, SameKernelProcess
  <2>2. InvKernel' /\ MP!Ordered(kernel'.out_put)
    BY <1>4 DEF IInv, InvKernel, InvBlocks
  <2>3. \A p \in Pids : ~ Asking(p)'
    BY <1>1, <1>4, SameQueue
  <2>4. InvPhases'
    BY <1>1, <1>2, <2>3, LaterPhases
  <2> QED BY <2>1, <2>2, <2>4 DEF Remaining
<1>5. ASSUME NEW r \in Pids, Exiting(r),
             Leaves(r, Ker!TERMINATED, ExitQueue(r))
      PROVE  Remaining'
  <2>1. \A p \in Pids : ProcessOf(p)' /\ ~ Asking(p)'
    BY <1>5, ExitProcess
  <2>2. InvPhases'
    BY <1>1, <1>2, <2>1, LaterPhases
  <2>3. InvKernel' /\ MP!Ordered(kernel'.out_put)
    <3> DEFINE msg == KP!ReleaseMemory(r)
               T == KP!OutputSet \cup {msg}
               put == ExitQueue(r)
               old == kernel.out_put
    <3>1. msg.port # "requestMemory"
      BY DEF KP!ReleaseMemory
    <3>2. put = Append(old, msg) /\ Leaves(r, Ker!TERMINATED, put)
      BY <1>5 DEF ExitQueue
    <3>3. /\ old \in Seq(KP!OutputSet)
          /\ \A i \in DOMAIN old : old[i].port # "requestMemory"
      BY <1>3
    <3> HIDE DEF msg, put, old
    <3>4. put \in Seq(T) /\ \A i \in DOMAIN put : put[i].port # "requestMemory"
      BY <3>1, <3>2, <3>3
    <3> QED BY <3>2, <3>4, LeavesKernel
  <2> QED BY <2>1, <2>2, <2>3 DEF Remaining
<1>6. ASSUME NEW r \in Pids, Forking(r), NEW f \in Pids, Free(f), AsksFor(f)
      PROVE  Remaining'
  <2>1. \A p \in Pids : ProcessOf(p)'
    BY <1>6, ForkProcess
  <2>2. KP!Consistent(kernel') /\ kernel'.armed
    BY <1>6 DEF AsksFor
  <2>3. MP!Ordered(kernel'.out_put)
    BY <1>1, <1>6, ForkQueue
  <2>4. NoBegin'
    <3>1. InvSci
      BY DEF IInv
    <3>2. \A p \in Pids : ~ IoCalled(p)
      BY <1>6, <3>1, OneCall
    <3> QED BY <3>2, CallsRest DEF CallRest, NoBegin
  <2>5. InvPhases'
    BY <1>1, <1>2, <2>2, <2>4, LaterPhases
  <2> QED BY <2>1, <2>2, <2>3, <2>5 DEF Remaining, InvKernel
<1> QED BY <1>4, <1>5, <1>6, CallKernel

----------------------------------------------------------------------------
(* The pass in which the applications arrive.                              *)

\* What the kernel makes of the arrivals: a request for each.
ArrivedAre ==
  /\ KP!Consistent(kernel')
  /\ \A p \in Pids : State(p)' = Ker!UNDEFINED
  /\ \A p \in Pids : ~ Start(p)' /\ ~ Freeing(p)'
  /\ \A p \in Pids : Asking(p)' => KindOf(p)' # 0
  /\ \A p \in Pids : \A t : StartsAre(kernel'.out_put, p, t)
  /\ MP!Ordered(kernel'.out_put)

\* The kernel hears the arrivals of the input file, each PID once.
LEMMA ArrivalBagIs ==
  ASSUME IInv, Now # Infinity, ArrivalPass, NEW child
  PROVE  LET bag == Bag(KernelM, child) IN
         /\ bag \in Seq(ArrivalSet)
         /\ KP!ArrivalBag(kernel, bag)
         /\ \A i, j \in DOMAIN bag : bag[i].value = bag[j].value => i = j
<1> DEFINE q == Head(generator).arrivals
<1>1. /\ IsDue(Generator) /\ ~ IsDue(SciM) /\ memory.out_put = <<>>
      /\ generator # <<>>
      /\ \A p \in Pids : ~ IsDue(WriteM(p)) /\ ~ IsDue(ReadM(p))
      /\ \A p \in Pids : State(p) = Ker!UNDEFINED
  BY ArrivalDue DEF ArrivalPass, Pristine
<1>2. OutputOf(Generator, child) = q /\ OutputOf(MemoryM, child) = <<>>
  BY <1>1, OutputsOf
<1>3. generator \in OneInstant
  BY DEF IInv, InvPhases
<1>4. /\ q \in Seq(ArrivalSet)
      /\ \A i, j \in DOMAIN q : q[i].value = q[j].value => i = j
  BY <1>1, <1>3, OneBatch
<1>5. Bag(KernelM, child) = q
  <2>1. \A s \in {Generator, SciM, MemoryM} :
          s # Generator /\ IsDue(s) => OutputOf(s, child) = <<>>
    BY <1>1, <1>2
  <2> QED BY <1>1, <1>2, <1>4, <2>1, KernelHears
<1>6. \A m \in ArrivalSet :
        /\ m.port = "appIn" /\ m.value \in Pids
        /\ m.value2 \in {PROGRAM_IO, PROGRAM_FORK} /\ m.value3 \in Int
        /\ m.value4 \in BlockSizes
  BY DEF ArrivalSet
<1>7. \A p \in Pids : p \in KP!FreePids(kernel)
  BY <1>1, SameStates DEF KP!FreePids, State
<1> HIDE DEF q
<1>8. \A i \in DOMAIN q : q[i] \in ArrivalSet
  BY <1>4
<1>9. KP!ArrivalBag(kernel, q)
  BY <1>6, <1>7, <1>8 DEF KP!ArrivalBag
<1> QED BY <1>4, <1>5, <1>9

\* An output of one request for each arrival holds nothing else.
LEMMA RequestsOnly ==
  ASSUME NEW T, NEW bag \in Seq(T), kernel'.out_put \in Seq(KP!OutputSet),
         Len(kernel'.out_put) = Len(bag),
         \A i \in 1 .. Len(bag) :
           kernel'.out_put[i] = KP!RequestMemory(bag[i].value, bag[i].value4),
         \A i, j \in DOMAIN bag : bag[i].value = bag[j].value => i = j
  PROVE  /\ \A p : ~ Start(p)' /\ ~ Freeing(p)'
         /\ \A p : Asking(p)' => \E i \in DOMAIN bag : bag[i].value = p
         /\ \A p, t : StartsAre(kernel'.out_put, p, t)
         /\ MP!Ordered(kernel'.out_put)
<1> DEFINE put == kernel'.out_put
<1>1. DOMAIN put = DOMAIN bag
  OBVIOUS
<1>2. \A p, size : /\ KP!RequestMemory(p, size).port = "requestMemory"
                   /\ KP!RequestMemory(p, size).value = p
  BY DEF KP!RequestMemory
<1>3. \A i \in DOMAIN put : /\ put[i].port = "requestMemory"
                            /\ put[i].value = bag[i].value
  BY <1>1, <1>2
<1>4. DOMAIN bag \subseteq Int
  OBVIOUS
<1>5. \A p : /\ Start(p)' <=> InQueue(put, "ctrlApp", p)
             /\ Asking(p)' <=> InQueue(put, "requestMemory", p)
             /\ Freeing(p)' <=> InQueue(put, "releaseMemory", p)
  BY DEF Start, Asking, Freeing, InQueue
<1> HIDE DEF put
<1>6. MP!Ordered(put)
  BY <1>1, <1>3, <1>4 DEF MP!Ordered
<1>7. \A p, t : StartsAre(put, p, t)
  BY <1>3 DEF StartsAre
<1>8. /\ \A p : ~ Start(p)' /\ ~ Freeing(p)'
      /\ \A p : Asking(p)' => \E i \in DOMAIN bag : bag[i].value = p
  BY <1>1, <1>3, <1>5 DEF InQueue
<1> QED BY <1>6, <1>7, <1>8 DEF put

\* The kernel makes it.
LEMMA ArrivalKernel ==
  ASSUME IInv, NEW child, NEW draw, Pass(child, draw), ArrivalPass
  PROVE  ArrivedAre
<1> DEFINE bag == Bag(KernelM, child)
<1>0. Now # Infinity
  BY DEF Pass
<1>1. /\ bag \in Seq(ArrivalSet)
      /\ KP!ArrivalBag(kernel, bag)
      /\ \A i, j \in DOMAIN bag : bag[i].value = bag[j].value => i = j
  BY <1>0, ArrivalBagIs
<1>2. /\ kernel.out_put = <<>>
      /\ \A p \in Pids : State(p) = Ker!UNDEFINED /\ KindOf(p) = 0
  BY <1>0, ArrivalDue DEF Pristine
<1>3. KP!Consistent(kernel)
  BY DEF IInv, InvKernel
<1>4. kernel' =
        IF bag = <<>>
        THEN IF kernel.armed THEN Ker!KernelInternal(kernel) ELSE kernel
        ELSE KP!KernelExternal(kernel, bag)
  BY <1>1, KernelMoves
<1> HIDE DEF bag
<1>5. CASE bag = <<>>
  <2>1. /\ KP!Consistent(kernel') /\ kernel'.out_put = <<>>
        /\ kernel'.table = kernel.table
    BY <1>2, <1>3, <1>4, <1>5, KernelRests
  <2>2. \A p \in Pids : State(p)' = Ker!UNDEFINED
    BY <1>2, <2>1 DEF State
  <2> QED BY <2>1, <2>2, EmptyQueue DEF ArrivedAre
<1>6. CASE bag # <<>>
  <2>1. KP!Arrived(kernel, kernel', bag, Len(bag))
    BY <1>1, <1>2, <1>3, <1>4, <1>6, KP!ArrivalBagEffect, Assumptions
  <2>2. /\ KP!Consistent(kernel')
        /\ \A p \in Pids : kernel'.table[p].state = kernel.table[p].state
        /\ \A i \in 1 .. Len(bag) :
             kernel'.table[bag[i].value].type \in {PROGRAM_IO, PROGRAM_FORK}
        /\ Len(kernel'.out_put) = Len(bag)
        /\ \A i \in 1 .. Len(bag) :
             kernel'.out_put[i] = KP!RequestMemory(bag[i].value, bag[i].value4)
    BY <2>1 DEF KP!Arrived
  <2>3. kernel'.out_put \in Seq(KP!OutputSet)
    BY <2>2, KP!ConsistentParts, Assumptions
  <2>4. /\ \A p : ~ Start(p)' /\ ~ Freeing(p)'
        /\ \A p : Asking(p)' => \E i \in DOMAIN bag : bag[i].value = p
        /\ \A p, t : StartsAre(kernel'.out_put, p, t)
        /\ MP!Ordered(kernel'.out_put)
    BY <1>1, <2>2, <2>3, RequestsOnly
  <2>5. \A p \in Pids : State(p)' = Ker!UNDEFINED
    BY <1>2, <2>2 DEF State
  <2>6. \A p \in Pids : Asking(p)' => KindOf(p)' # 0
    <3>1. DOMAIN bag = 1 .. Len(bag)
      BY <1>1
    <3> QED BY <2>2, <2>4, <3>1 DEF KindOf, PROGRAM_IO, PROGRAM_FORK
  <2> QED BY <2>2, <2>4, <2>5, <2>6 DEF ArrivedAre
<1> QED BY <1>5, <1>6

----------------------------------------------------------------------------

\* When applications arrive, what is said of a process is kept,
LEMMA ArrivalProcess ==
  ASSUME IInv, NEW child, NEW draw, Pass(child, draw), ArrivalPass,
         NEW p \in Pids
  PROVE  /\ ProcessOf(p)'
         /\ ~ Comp(p)' /\ ~ Active(p)' /\ ~ Begin(p)'
<1>0. Now # Infinity
  BY DEF Pass
<1>1. /\ ~ IsDue(ProgramM(p)) /\ ~ IsDue(WriteM(p)) /\ ~ IsDue(ReadM(p))
      /\ Sent = <<>> /\ Passed = <<>>
      /\ ~ HasBlock(p)
      /\ program[p] = InitialProgram
      /\ write[p] = InitialFunction /\ read[p] = InitialFunction
  BY <1>0, ArrivalDue DEF Pristine
<1>2. ArrivedAre
  BY ArrivalKernel
<1>3. /\ program'[p] = InitialProgram
      /\ write'[p] = InitialFunction /\ read'[p] = InitialFunction
      /\ ~ Answer(p)' /\ ~ HasBlock(p)'
  BY <1>1, NothingElse
<1>4. ~ IoCalled(p)' /\ ~ Exiting(p)' /\ ~ Forking(p)' /\ ~ Call(p)'
  BY SciEffect, NoCallsNext DEF ArrivalPass, TimePass
<1>5. /\ ~ Comp(p)' /\ ~ Active(p)' /\ ~ Begin(p)'
      /\ program'[p].IO_count = 0 /\ program'[p].fork_count = 0
  BY <1>3, Bounds
     DEF Comp, Active, Begin, InitialProgram, InitialFunction
<1>6. /\ State(p)' = Ker!UNDEFINED
      /\ ~ Start(p)' /\ ~ Freeing(p)'
      /\ Asking(p)' => KindOf(p)' # 0
      /\ \A t : StartsAre(kernel'.out_put, p, t)
  BY <1>2 DEF ArrivedAre
<1>7. /\ State(p)' # Ker!RUNNING /\ State(p)' # Ker!WAITING
      /\ Free(p)' /\ ~ Alive(p)'
  BY <1>6, SameStates DEF Free, Alive
<1>8. TokensOf(p)'
  BY <1>4, <1>5, <1>6, <1>7 DEF TokensOf
<1>9. KindsOf(p)'
  <2>1. \A i \in DOMAIN kernel'.out_put :
          kernel'.out_put[i].port = "ctrlApp" /\ kernel'.out_put[i].value = p
            => kernel'.out_put[i].value2 = KindOf(p)'
    BY <1>6 DEF StartsAre
  <2> QED BY <1>3, <1>4, <1>5, <1>6, <1>7, <2>1 DEF KindsOf
<1>10. CountsOf(p)'
  BY <1>4, <1>5, <1>6 DEF CountsOf
<1>11. BlocksOf(p)'
  BY <1>3, <1>7 DEF BlocksOf
<1> QED BY <1>5, <1>8, <1>9, <1>10, <1>11 DEF ProcessOf

\* and so is what remains.
LEMMA ArrivalNext ==
  ASSUME IInv, NEW child, NEW draw, Pass(child, draw), ArrivalPass
  PROVE  Remaining'
<1>0. Now # Infinity
  BY DEF Pass
<1>1. ArrivedAre
  BY ArrivalKernel
<1>2. \A p \in Pids : /\ ProcessOf(p)'
                      /\ ~ Comp(p)' /\ ~ Active(p)' /\ ~ Begin(p)'
  BY ArrivalProcess
<1>3. InvKernel'
  <2>1. \A p \in Pids : State(p)' # Ker!RUNNING
    BY <1>1, SameStates DEF ArrivedAre
  <2>2. KP!In(kernel', KP!RUNNING) = {}
    BY <2>1, RunningIn
  <2> QED BY <1>1, <2>2 DEF ArrivedAre, InvKernel, KP!Consistent
<1>4. NoWork' /\ NoBegin'
  BY <1>2 DEF NoWork, NoBegin
<1>5. generator' = <<>> /\ generator' \in OneInstant
  BY GeneratorTimes DEF ArrivalPass
<1>6. sci'.out_put = <<>>
  BY SciEffect, NoCallsNext DEF ArrivalPass, TimePass
<1>7. memory'.out_put = <<>> /\ ~ memory'.armed
  <2>1. Sent = <<>>
    BY <1>0, ArrivalDue
  <2> QED BY <2>1, QueueEmpty, MemoryEffect, NoAnswers
<1>8. InvPhases'
  BY <1>4, <1>5, <1>6, <1>7 DEF InvPhases
<1> QED BY <1>1, <1>2, <1>3, <1>8 DEF Remaining, ArrivedAre

\* Every step keeps the invariant.
LEMMA StepNext == IInv /\ Step => IInv'
<1> SUFFICES ASSUME IInv, Step PROVE IInv'
  OBVIOUS
<1>1. PICK child, draw : Pass(child, draw)
  BY StepIsPass
<1>2. Remaining'
  BY <1>1, PassKinds, ArrivalNext, TimeNext, CallNext, AnswerNext, BeginNext,
     KernelOnlyNext
<1> QED BY <1>1, <1>2, Assembled

----------------------------------------------------------------------------
(* The start.                                                              *)

\* The kernel at the start,
LEMMA InitKernel ==
  ASSUME Init
  PROVE  /\ KP!Consistent(kernel) /\ InvKernel
         /\ kernel.out_put = <<>> /\ kernel.armed
         /\ \A p \in Pids : State(p) = Ker!UNDEFINED /\ KindOf(p) = 0
<1>1. PICK o \in Ker!SchedulerOptions : kernel = Ker!InitialKernel(o)
  BY DEF Init
<1>2. /\ kernel.out_put = <<>> /\ kernel.armed
      /\ \A p \in Pids : State(p) = Ker!UNDEFINED /\ KindOf(p) = 0
  BY <1>1 DEF Ker!InitialKernel, State, KindOf
<1>3. KP!Init
  BY <1>1 DEF KP!Init, Ker!InitialKernel, KP!InitialKernel,
              Ker!SchedulerOptions, KP!SchedulerOptions,
              Ker!UNDEFINED, KP!UNDEFINED,
              Ker!SCHEDULER_FCFS, KP!SCHEDULER_FCFS,
              Ker!SCHEDULER_PRIORITY, KP!SCHEDULER_PRIORITY
<1>4. KP!Consistent(kernel)
  BY <1>3, KP!InitKernel, Assumptions DEF KP!KernelInv
<1> QED BY <1>2, <1>4 DEF InvKernel

\* the memory,
LEMMA InitMemory ==
  ASSUME Init
  PROVE  /\ InvMemory /\ memory.out_put = <<>>
         /\ \A p \in Pids : ~ HasBlock(p)
<1>1. memory = Mem!InitialMemory
  BY DEF Init
<1>2. memory.out_put = <<>> /\ \A p \in Pids : ~ HasBlock(p)
  BY <1>1 DEF Mem!InitialMemory, HasBlock, Blocked
<1>3. MP!Init
  BY <1>1, SameMemory DEF MP!Init, MP!InitialMemory, Mem!InitialMemory
<1>4. memory \in MP!MemSet
  BY <1>3, MP!InitInv, MP!MemTyped, Assumptions DEF MP!MemoryInv
<1> QED BY <1>2, <1>4 DEF InvMemory

\* the times,
LEMMA InitTimes ==
  ASSUME Init, Workloads \subseteq OneInstant
  PROVE  InvTimes
<1>1. /\ left = [m \in Sim!Models |-> TimeAdvance(m)]
      /\ since = [m \in Timed |-> 0]
  BY DEF Init
<1>2. generator \in OneInstant
  BY DEF Init
<1>3. Wait(generator) \in Nat
  BY <1>2, OneBatch, Bounds DEF Wait
<1>4. ASSUME NEW p \in Pids
      PROVE  /\ program[p].next_internal = Infinity
             /\ write[p].next_internal = Infinity
             /\ read[p].next_internal = Infinity
  BY DEF Init, InitialProgram, InitialFunction
<1>5. /\ left[Generator] = Wait(generator)
      /\ left[KernelM] = Arming(kernel.armed)
      /\ left[SciM] = Arming(sci.armed)
      /\ left[MemoryM] = Arming(memory.armed)
      /\ \A p \in Pids : /\ left[ProgramM(p)] = program[p].next_internal
                         /\ left[WriteM(p)] = write[p].next_internal
                         /\ left[ReadM(p)] = read[p].next_internal
  BY <1>1, TimeAdvances, ModelKinds
<1>6. \A p \in Pids : /\ TimerOK(ProgramM(p), program[p].next_internal)
                      /\ TimerOK(WriteM(p), write[p].next_internal)
                      /\ TimerOK(ReadM(p), read[p].next_internal)
  BY <1>1, <1>4, <1>5, ModelKinds DEF TimerOK, TimerIs
<1>7. \A m \in Sim!Models : left[m] \in Nat
  <2>1. \A m \in Central : left[m] \in Nat
    BY <1>3, <1>5, Armings DEF Central
  <2>2. \A m \in Timed : left[m] \in Nat
    <3>1. \A p \in Pids : /\ left[ProgramM(p)] \in Nat
                          /\ left[WriteM(p)] \in Nat
                          /\ left[ReadM(p)] \in Nat
      BY <1>4, <1>5, Bounds
    <3> QED BY <3>1, Zenon DEF Timed
  <2> QED BY <2>1, <2>2, ModelKinds
<1>8. left \in [Sim!Models -> Nat] /\ since \in [Timed -> Nat]
  <2>1. left = [m \in Sim!Models |-> left[m]]
    BY <1>1
  <2> QED BY <1>1, <1>7, <2>1
<1> QED BY <1>5, <1>6, <1>8 DEF InvTimes

\* the programs and their operations,
LEMMA InitPrograms ==
  ASSUME Init
  PROVE  /\ InvPrograms
         /\ sci.out_put = <<>> /\ InvSci
         /\ \A p \in Pids : /\ program[p] = InitialProgram
                            /\ write[p] = InitialFunction
                            /\ read[p] = InitialFunction
                            /\ ~ Comp(p) /\ ~ Active(p) /\ ~ Begin(p)
<1>1. \A p \in Pids : /\ program[p] = InitialProgram
                      /\ write[p] = InitialFunction
                      /\ read[p] = InitialFunction
  BY DEF Init
<1>2. InitialProgram \in ProgramSet
  BY Bounds, ProgramAssumption DEF InitialProgram, ProgramSet
<1>3. \A p : FunctionOK(InitialFunction, p)
  BY Bounds DEF InitialFunction, FunctionOK, FunctionSet
<1>4. InitialFunction.next_internal = Infinity
  BY DEF InitialFunction
<1>5. InvPrograms
  BY <1>1, <1>2, <1>3, <1>4 DEF InvPrograms, Init
<1>6. \A p \in Pids : ~ Comp(p) /\ ~ Active(p) /\ ~ Begin(p)
  BY <1>1, Bounds DEF Comp, Active, Begin, InitialProgram, InitialFunction
<1>7. sci.out_put = <<>> /\ InvSci
  BY DEF Init, InitialInterface, InvSci
<1> QED BY <1>1, <1>5, <1>6, <1>7

\* and all of it together.
LEMMA InitInv ==
  ASSUME Init, Workloads \subseteq OneInstant
  PROVE  IInv
<1>1. /\ InvKernel /\ kernel.out_put = <<>> /\ kernel.armed
      /\ \A p \in Pids : State(p) = Ker!UNDEFINED /\ KindOf(p) = 0
  BY InitKernel
<1>2. InvMemory /\ memory.out_put = <<>> /\ \A p \in Pids : ~ HasBlock(p)
  BY InitMemory
<1>3. /\ InvPrograms /\ sci.out_put = <<>> /\ InvSci
      /\ \A p \in Pids : /\ program[p] = InitialProgram
                         /\ write[p] = InitialFunction
                         /\ read[p] = InitialFunction
                         /\ ~ Comp(p) /\ ~ Active(p) /\ ~ Begin(p)
  BY InitPrograms
<1>4. DOMAIN kernel.out_put = {} /\ DOMAIN memory.out_put = {}
  BY <1>1, <1>2
<1>5. MP!Ordered(kernel.out_put)
  BY <1>4 DEF MP!Ordered
<1>6. Pristine
  BY <1>1, <1>2, <1>3 DEF Pristine
<1>7. NoBegin /\ NoWork
  BY <1>3 DEF NoBegin, NoWork
<1>8. InvPhases
  <2>1. generator \in OneInstant
    BY DEF Init
  <2> QED BY <1>1, <1>2, <1>3, <1>6, <1>7, <2>1 DEF InvPhases
<1>9. ASSUME NEW p \in Pids PROVE ProcessOf(p)
  <2>1. ~ Start(p) /\ ~ Asking(p) /\ ~ Freeing(p) /\ ~ Answer(p)
    BY <1>1, <1>2, QueueEmpty DEF Start, Asking, Freeing, Answer
  <2>2. ~ IoCalled(p) /\ ~ Exiting(p) /\ ~ Forking(p) /\ ~ Call(p)
    BY <1>3, NoCalls
  <2>3. program[p].IO_count = 0 /\ program[p].fork_count = 0
    BY <1>3 DEF InitialProgram
  <2>4. /\ Free(p) /\ ~ Alive(p)
        /\ State(p) # Ker!RUNNING /\ State(p) # Ker!WAITING
    BY <1>1, SameStates DEF Free, Alive
  <2>5. TokensOf(p)
    BY <1>3, <2>1, <2>2, <2>4 DEF TokensOf
  <2>6. KindsOf(p)
    BY <1>3, <1>4, <2>1, <2>2, <2>4 DEF KindsOf
  <2>7. CountsOf(p)
    BY <1>3, <2>1, <2>3 DEF CountsOf
  <2>8. BlocksOf(p)
    BY <1>2, <2>1, <2>4 DEF BlocksOf
  <2> QED BY <2>5, <2>6, <2>7, <2>8 DEF ProcessOf
<1>10. InvTokens /\ InvKinds /\ InvCounts
  BY <1>9 DEF ProcessOf, InvTokens, InvKinds, InvCounts
<1>11. InvBlocks
  BY <1>4, <1>5, <1>9 DEF ProcessOf, InvBlocks
<1> QED BY <1>1, <1>2, <1>3, <1>8, <1>10, <1>11, InitTimes DEF IInv

----------------------------------------------------------------------------
(* What the inductive invariant implies: the properties of OSSim.          *)

\* The parts are of their types, and so are the times.
LEMMA TypesFollow == IInv => TypeOK
<1> SUFFICES ASSUME IInv PROVE TypeOK
  OBVIOUS
<1>1. Ker!TypeOK
  <2>1. KP!Consistent(kernel)
    BY DEF IInv, InvKernel
  <2>2. KP!TypeOK
    BY <2>1, KP!KernelProperties, Assumptions
  <2>3. Ker!PcbSet = KP!PcbSet /\ Ker!States = KP!States
    BY Zenon DEF Ker!PcbSet, KP!PcbSet, Ker!States, KP!States, Ker!READY,
       Ker!RUNNING, Ker!WAITING, Ker!TERMINATED, Ker!UNDEFINED, KP!READY,
       KP!RUNNING, KP!WAITING, KP!TERMINATED, KP!UNDEFINED
  <2>4. Ker!OutputSet = KP!OutputSet
    BY Zenon DEF Ker!OutputSet, KP!OutputSet
  <2>5. Ker!SchedulerOptions = KP!SchedulerOptions
    BY Zenon DEF Ker!SchedulerOptions, KP!SchedulerOptions,
       Ker!SCHEDULER_FCFS, Ker!SCHEDULER_PRIORITY, KP!SCHEDULER_FCFS,
       KP!SCHEDULER_PRIORITY
  <2> QED BY <2>2, <2>3, <2>4, <2>5, Zenon DEF Ker!TypeOK, KP!TypeOK
<1>2. Mem!TypeOK
  <2>1. MP!TypeOK
    BY MP!MemTyped, Assumptions DEF IInv, InvMemory
  <2>2. Mem!Cells = MP!Cells /\ Mem!NoBlock = MP!NoBlock
    BY SameMemory
  <2>3. Mem!MEMORY_OK = MP!MEMORY_OK /\ Mem!MEMORY_NOT_OK = MP!MEMORY_NOT_OK
    BY SameStates
  <2> QED BY <2>1, <2>2, <2>3, Zenon DEF Mem!TypeOK, MP!TypeOK
<1>3. sci.armed \in BOOLEAN
  BY DEF IInv, InvSci
<1>4. ASSUME NEW p \in Pids
      PROVE  /\ program[p].type \in {0, PROGRAM_IO, PROGRAM_FORK}
             /\ program[p].IO_count \in 0 .. IoCalls
             /\ program[p].fork_count \in 0 .. ForkCalls + 1
             /\ write[p].functionNumber \in {1, p}
             /\ read[p].functionNumber \in {1, p}
  <2>1. /\ program[p].type \in {0, PROGRAM_IO, PROGRAM_FORK}
        /\ program[p].IO_count \in 0 .. IoCalls
        /\ program[p].fork_count \in 0 .. ForkCalls + 1
    BY ProgramParts DEF IInv
  <2>2. write[p] \in FunctionSet(p) /\ read[p] \in FunctionSet(p)
    BY DEF IInv, InvPrograms, FunctionOK
  <2> QED BY <2>1, <2>2 DEF FunctionSet
<1>5. left \in [Sim!Models -> Nat] /\ since \in [Timed -> Nat]
  BY DEF IInv, InvTimes
<1> QED BY <1>1, <1>2, <1>3, <1>4, <1>5 DEF TypeOK

\* The processor is one because the kernel lets one process run, and whoever
\* computes is RUNNING.
LEMMA ComputingFollows == IInv => OnlyRunningComputes
<1> SUFFICES ASSUME IInv PROVE OnlyRunningComputes
  OBVIOUS
<1>1. \A p \in Computing : p \in Pids /\ State(p) = Ker!RUNNING
  BY DEF Computing, Comp, IInv, InvTokens, TokensOf
<1>2. \A p, q \in Computing : p = q
  BY <1>1, OneRuns
<1>3. \A p \in Computing : kernel.processing
  <2> SUFFICES ASSUME NEW p \in Computing PROVE kernel.processing
    OBVIOUS
  <2>1. p \in KP!In(kernel, KP!RUNNING)
    BY <1>1, RunningIn
  <2> QED BY <2>1 DEF IInv, InvKernel, KP!Consistent
<1> QED BY <1>1, <1>2, <1>3 DEF OnlyRunningComputes

\* The token of the running process is where RunningMakesProgress looks.
LEMMA ProgressFollows == IInv => RunningMakesProgress
<1> SUFFICES ASSUME IInv, NEW p \in Pids, State(p) = Ker!RUNNING
    PROVE \/ kernel.armed /\ InQueue(kernel.out_put, "ctrlApp", p)
          \/ program[p].next_internal # Infinity
          \/ sci.armed /\ \E port \in {"ReadFunction", "WriteFunction",
                                      "processComplete"} :
                            InQueue(sci.out_put, port, p)
          \/ write[p].next_internal = 0 \/ read[p].next_internal = 0
  BY DEF RunningMakesProgress
<1>1. Start(p) \/ Comp(p) \/ Call(p) \/ Begin(p)
  BY DEF IInv, InvTokens, TokensOf
<1>2. Start(p) => kernel.armed
  BY QueueKnown
<1>3. Call(p) => sci.armed
  <2>1. sci.out_put = <<>> => ~ Call(p)
    BY NoCalls
  <2> QED BY <2>1 DEF IInv, InvSci
<1> QED BY <1>1, <1>2, <1>3
        DEF Start, Comp, Call, IoCalled, Exiting, Begin

\* Of the two operations of a process one is at rest, and at rest is inactive.
LEMMA WaitingFollows == IInv => WaitingMeansIO
<1> SUFFICES ASSUME IInv, NEW p \in Pids
    PROVE (State(p) = Ker!WAITING) <=> (write[p].active # read[p].active)
  BY DEF WaitingMeansIO
<1>1. State(p) = Ker!WAITING <=> write[p].active \/ read[p].active
  BY DEF IInv, InvTokens, TokensOf, Active
<1>2. /\ FunctionOK(write[p], p) /\ FunctionOK(read[p], p)
      /\ write[p].next_internal = Infinity \/ read[p].next_internal = Infinity
  BY DEF IInv, InvPrograms
<1>3. ~ (write[p].active /\ read[p].active)
  BY <1>2 DEF FunctionOK
<1>4. write[p].active \in BOOLEAN /\ read[p].active \in BOOLEAN
  BY <1>2 DEF FunctionOK, FunctionSet
<1> QED BY <1>1, <1>3, <1>4

\* The agreement of table and memory is a part of the invariant.
LEMMA BlocksFollow == IInv => BlocksFollowProcesses
BY DEF IInv, InvBlocks, BlocksOf, HasBlock, Blocked, Answer, Freeing,
       BlocksFollowProcesses

\* A process that has terminated has left nothing behind.
LEMMA StartsOver == IInv => ProgramsStartOver
<1> SUFFICES ASSUME IInv, NEW p \in Pids,
                    State(p) \in {Ker!TERMINATED, Ker!UNDEFINED}
    PROVE program[p].next_internal = Infinity /\ program[p].IO_count = 0
  BY DEF ProgramsStartOver
<1>1. State(p) # Ker!RUNNING
  BY SameStates
<1>2. ~ Comp(p)
  BY <1>1 DEF IInv, InvTokens, TokensOf
<1>3. program[p].IO_count = 0
  BY DEF IInv, InvCounts, CountsOf, Free
<1> QED BY <1>2, <1>3 DEF Comp

----------------------------------------------------------------------------
(* What the kernel and the memory hear is what they count on.              *)

\* Every message finds the kernel, after those before it, expecting it.
Counted(bag) ==
  \A i \in DOMAIN bag :
    KP!Expected(KP!KernelExternal(kernel, SubSeq(bag, 1, i - 1)), bag[i])

\* No message, nothing to expect.
LEMMA CountedNone == Counted(<<>>)
BY DEF Counted

\* One message that the kernel expects.
LEMMA CountedOne ==
  ASSUME NEW msg, KP!Expected(kernel, msg)
  PROVE  Counted(<<msg>>)
<1> DEFINE bag == <<msg>>
<1>1. /\ bag \in Seq({msg}) /\ \A i, j \in DOMAIN bag : i = j
      /\ \A i \in DOMAIN bag : bag[i] = msg
  OBVIOUS
<1> HIDE DEF bag
<1>2. \A i \in DOMAIN bag :
        KP!Expected(KP!KernelExternal(kernel, SubSeq(bag, 1, i - 1)), bag[i])
  BY <1>1, KP!CallBagEffect, Assumptions, ZenonT(60)
<1> QED BY <1>2 DEF Counted, bag

\* Whatever the kernel hears, it counts on.
LEMMA KernelCounts ==
  ASSUME IInv, Now # Infinity, NEW child
  PROVE  /\ Counted(Bag(KernelM, child))
         /\ \E T : Bag(KernelM, child) \in Seq(T)
<1> DEFINE bag == Bag(KernelM, child)
<1>0. KP!Consistent(kernel)
  BY DEF IInv, InvKernel
<1>1. CASE ArrivalPass
  <2>1. bag \in Seq(ArrivalSet) /\ KP!ArrivalBag(kernel, bag)
    BY <1>1, ArrivalBagIs
  <2>2. kernel.out_put = <<>>
    BY <1>1, ArrivalDue DEF Pristine
  <2> HIDE DEF bag
  <2>3. Counted(bag)
    BY <1>0, <2>1, <2>2, KP!ArrivalBagEffect, Assumptions DEF Counted
  <2> QED BY <2>1, <2>3 DEF bag
<1>2. CASE TimePass
  <2>1. bag \in Seq({DoneIo(p) : p \in Pids}) /\ KP!WakeBag(kernel, bag)
    BY <1>2, TimeBag
  <2> HIDE DEF bag
  <2>2. Counted(bag)
    BY <1>0, <2>1, KP!WakeBagEffect, Assumptions DEF Counted
  <2> QED BY <2>1, <2>2 DEF bag
<1>3. CASE CallPass
  <2>1. /\ bag \in Seq(CallSet)
        /\ \A i, j \in DOMAIN bag : bag[i].port \in KP!KnownPorts
             /\ bag[j].port \in KP!KnownPorts => i = j
        /\ \A i \in DOMAIN bag : KP!Expected(kernel, bag[i])
    BY <1>3, CallBag
  <2> HIDE DEF bag
  <2>2. Counted(bag)
    BY <2>1, KP!CallBagEffect, Assumptions DEF Counted
  <2> QED BY <2>1, <2>2 DEF bag
<1>4. CASE AnswerPass
  <2>1. bag \in Seq(MP!RespSet) /\ KP!WakeBag(kernel, bag)
    BY <1>4, AnswerBag
  <2> HIDE DEF bag
  <2>2. Counted(bag)
    BY <1>0, <2>1, KP!WakeBagEffect, Assumptions DEF Counted
  <2> QED BY <2>1, <2>2 DEF bag
<1>5. CASE BeginPass
  <2>1. PICK r \in Pids : Begin(r)
    BY <1>5 DEF BeginPass
  <2>2. bag = <<StartIo(r)>>
    BY <2>1, BeginBag
  <2>3. kernel.table[r].state = KP!RUNNING
    BY <2>1, BeginDue, SameStates DEF State
  <2>4. KP!Expected(kernel, StartIo(r))
    BY <2>3 DEF KP!Expected, StartIo
  <2>5. Counted(<<StartIo(r)>>)
    BY <2>4, CountedOne
  <2>6. <<StartIo(r)>> \in Seq({StartIo(r)})
    OBVIOUS
  <2> QED BY <2>2, <2>5, <2>6
<1>6. CASE KernelOnly
  <2>1. /\ ~ IsDue(SciM) /\ ~ IsDue(Generator) /\ memory.out_put = <<>>
        /\ \A p \in Pids : ~ IsDue(WriteM(p)) /\ ~ IsDue(ReadM(p))
    BY <1>6, KernelDue DEF KernelOnly
  <2>2. \A s \in {Generator, SciM, MemoryM} :
          IsDue(s) => OutputOf(s, child) = <<>>
    BY <2>1, OutputsOf
  <2>3. bag = <<>>
    BY <2>1, <2>2, KernelSilence
  <2>4. <<>> \in Seq({})
    OBVIOUS
  <2> QED BY <2>3, <2>4, CountedNone
<1> QED BY <1>1, <1>2, <1>3, <1>4, <1>5, <1>6, PassKinds

\* The kernel of OSSim is the one the lemmas of Kernel_proofs are about.
LEMMA CountedExpected ==
  ASSUME NEW T, NEW bag \in Seq(T), Counted(bag), NEW i \in DOMAIN bag
  PROVE  Ker!Expected(Ker!KernelExternal(kernel, SubSeq(bag, 1, i - 1)),
                      bag[i])
<1>1. SubSeq(bag, 1, i - 1) \in Seq(T)
  <2>1. i \in 1 .. Len(bag) /\ Len(bag) \in Nat
    OBVIOUS
  <2> QED BY <2>1
<1>2. Ker!KernelExternal(kernel, SubSeq(bag, 1, i - 1))
        = KP!KernelExternal(kernel, SubSeq(bag, 1, i - 1))
  BY <1>1, SameKernelExternal
<1> QED BY <1>2, SameExpected DEF Counted

\* The inbox of the properties is the bag of a pass.
LEMMA NextInboxIs ==
  ASSUME NEW m
  PROVE  NextInbox(m) = IF Now = Infinity THEN <<>>
                        ELSE Bag(m, CHOOSE c \in Children : TRUE)
BY DEF NextInbox, Now, Bag

\* Every message the kernel handles is one that its handlers count on.
LEMMA InputsFollow == IInv => KernelInputsExpected
<1> SUFFICES ASSUME IInv, NEW i \in DOMAIN NextInbox(KernelM)
    PROVE Ker!Expected(Ker!KernelExternal(kernel,
                         SubSeq(NextInbox(KernelM), 1, i - 1)),
                       NextInbox(KernelM)[i])
  BY DEF KernelInputsExpected
<1> DEFINE bag == NextInbox(KernelM)
<1>1. Now # Infinity
  BY NextInboxIs
<1>2. bag = Bag(KernelM, CHOOSE c \in Children : TRUE)
  BY <1>1, NextInboxIs
<1>3. Counted(bag) /\ \E T : bag \in Seq(T)
  BY <1>1, <1>2, KernelCounts
<1>4. PICK T : bag \in Seq(T)
  BY <1>3
<1> HIDE DEF bag
<1>5. \A j \in DOMAIN bag :
        Ker!Expected(Ker!KernelExternal(kernel, SubSeq(bag, 1, j - 1)), bag[j])
  BY <1>3, <1>4, CountedExpected
<1> QED BY <1>5 DEF bag

\* The memory is never asked for a process that owns a block.
LEMMA RequestsFollow == IInv => OneBlockPerProcess
<1> SUFFICES ASSUME IInv, NEW i \in DOMAIN NextInbox(MemoryM),
                    NextInbox(MemoryM)[i].port = "requestMemory"
    PROVE Mem!MemoryExternal(memory, SubSeq(NextInbox(MemoryM), 1, i - 1))
            .memoryTable[NextInbox(MemoryM)[i].value] = Mem!NoBlock
  BY DEF OneBlockPerProcess
<1> DEFINE bag == NextInbox(MemoryM)
<1>1. Now # Infinity
  BY NextInboxIs
<1>2. bag = Sent
  BY <1>1, NextInboxIs, ThisBags
<1>3. Sent \in Seq(KP!OutputSet)
  BY <1>1, SentIs
<1>4. Sent # <<>>
  BY <1>2
<1>5. MP!ClientBag(memory, Sent) /\ memory.out_put = <<>>
  BY <1>1, <1>4, SentToMemory, Phases
<1>6. memory \in MP!MemSet
  BY DEF IInv, InvMemory
<1>7. SubSeq(bag, 1, i - 1) \in Seq(KP!OutputSet)
  <2>1. bag \in Seq(KP!OutputSet) /\ i \in DOMAIN bag
    BY <1>2, <1>3
  <2> HIDE DEF bag
  <2>2. i \in 1 .. Len(bag) /\ Len(bag) \in Nat
    BY <2>1
  <2> QED BY <2>1, <2>2
<1> HIDE DEF bag
<1>8. MP!MemoryExternal(memory, SubSeq(bag, 1, i - 1))
        .memoryTable[bag[i].value] = MP!NoBlock
  <2>1. \A j \in DOMAIN Sent : Sent[j].port = "requestMemory" =>
          MP!MemoryExternal(memory, SubSeq(Sent, 1, j - 1))
            .memoryTable[Sent[j].value] = MP!NoBlock
    BY <1>3, <1>5, <1>6, MP!ClientBagEffect, Assumptions
  <2> QED BY <1>2, <2>1 DEF bag
<1>9. Mem!MemoryExternal(memory, SubSeq(bag, 1, i - 1))
        = MP!MemoryExternal(memory, SubSeq(bag, 1, i - 1))
  BY <1>7, SameMemoryExternal
<1> QED BY <1>8, <1>9, SameMemory DEF bag

----------------------------------------------------------------------------
(* The invariant over a whole behaviour, and what follows from it.         *)

\* A message for another model takes the elapsed time off a program's timer,
\* and that time is none: the message comes in the instant of the start.
LEMMA TimerPasses ==
  ASSUME IInv, NEW child, NEW draw, Pass(child, draw), NEW p \in Pids,
         left[ProgramM(p)] \notin {Infinity, Now}, ~ Start(p)
  PROVE  left'[ProgramM(p)] = left[ProgramM(p)] - Now
<1> DEFINE m == ProgramM(p)
           s == program[p]
<1>1. Now # Infinity /\ Now \in Nat
  BY NowIsFinite DEF Pass, IInv
<1>2. ~ IsDue(m) /\ ~ Begun(p) /\ m \in Sim!Models
  BY <1>1, SentNames, ModelKinds DEF IsDue
<1>3. Bag(m, child) = Sent /\ ~ (Sim!Visits(m, Outputs(child)) > 1)
  BY <1>1, ThisBags
<1>4. left[m] \in Nat /\ left[m] # Infinity
  BY <1>2 DEF IInv, InvTimes
<1>5. left'[m] = IF Moves(m, child) THEN TimeAdvance(m)'
                 ELSE Minus(left[m], Now)
  BY <1>2, TimesPass
<1>6. CASE Sent = <<>>
  <2>1. ~ Moves(m, child)
    BY <1>2, <1>3, <1>6 DEF Moves
  <2>2. Minus(left[m], Now) = left[m] - Now
    BY <1>4 DEF Minus
  <2> QED BY <1>5, <2>1, <2>2
<1>7. CASE Sent # <<>>
  <2>1. Now = 0 /\ kernel.out_put # <<>>
    BY <1>1, <1>7, Phases
  <2>2. Comp(p)
    <3>1. TimerIs(left[m], since[m], s.next_internal)
      BY DEF IInv, InvTimes, TimerOK
    <3> QED BY <1>4, <3>1 DEF TimerIs, Comp
  <2>3. left[m] = s.next_internal /\ since[m] = 0
    BY <2>1, <2>2 DEF IInv, InvTokens, TokensOf, Fresh
  <2>4. program'[p] = ProgramExternal(s, p, Sent, since[m] + Now,
                                      Drawn(draw)[p])
    BY <1>3, <1>7, ProgramPass DEF Advanced
  <2>5. Starts(Sent, p) = {}
    BY <1>2 DEF Starts, Begun, InQueue
  <2>6. program'[p] = [s EXCEPT !.next_internal = Minus(@, since[m] + Now)]
    BY <2>4, <2>5 DEF ProgramExternal
  <2>7. s.next_internal \in Nat /\ s.next_internal # Infinity
    BY <1>4, <2>3
  <2>8. Minus(s.next_internal, since[m] + Now) = s.next_internal
    <3>1. since[m] + Now = 0
      BY <2>1, <2>3
    <3> QED BY <2>7, <3>1 DEF Minus
  <2>9. program'[p].next_internal = s.next_internal
    <3>1. s \in ProgramSet
      BY ProgramParts DEF IInv
    <3> HIDE DEF s
    <3> QED BY <2>6, <2>8, <3>1 DEF ProgramSet
  <2>10. TimeAdvance(m)' = program'[p].next_internal
    BY TimeAdvancesNext
  <2>11. Moves(m, child)
    BY <1>3, <1>7 DEF Moves
  <2> QED BY <1>4, <1>5, <2>1, <2>3, <2>9, <2>10, <2>11
<1> QED BY <1>6, <1>7

\* The action of TimersKept.
KeepsTimers ==
  \A p \in Pids :
    (/\ left[ProgramM(p)] \notin {Infinity, Sim!Soonest(left)}
     /\ left'[ProgramM(p)] # Infinity
     /\ ~ InQueue(kernel.out_put, "ctrlApp", p))
    => left'[ProgramM(p)] = left[ProgramM(p)] - Sim!Soonest(left)

\* Every step keeps the timers.
LEMMA StepKeepsTimers == IInv /\ Step => KeepsTimers
<1> SUFFICES ASSUME IInv, Step, NEW p \in Pids,
                    left[ProgramM(p)] \notin {Infinity, Now}, ~ Start(p)
    PROVE left'[ProgramM(p)] = left[ProgramM(p)] - Now
  BY DEF KeepsTimers, Now, Start
<1>1. PICK child, draw : Pass(child, draw)
  BY StepIsPass
<1> QED BY <1>1, TimerPasses

\* The end of the loop changes nothing.
LEMMA StutterNext == IInv /\ UNCHANGED vars => IInv'
<1> SUFFICES ASSUME IInv, UNCHANGED vars PROVE IInv'
  OBVIOUS
<1>1. /\ generator' = generator /\ kernel' = kernel /\ sci' = sci
      /\ memory' = memory /\ program' = program /\ write' = write
      /\ read' = read /\ left' = left /\ since' = since
  BY DEF vars
<1>2. InvKernel' /\ InvMemory'
  BY <1>1 DEF IInv, InvKernel, InvMemory
<1>3. InvSci'
  BY <1>1 DEF IInv, InvSci
<1>4. InvPrograms'
  BY <1>1 DEF IInv, InvPrograms
<1>5. InvTimes'
  BY <1>1 DEF IInv, InvTimes, TimerOK
<1>6. \A p \in Pids : /\ Start(p)' = Start(p) /\ Asking(p)' = Asking(p)
                      /\ Freeing(p)' = Freeing(p) /\ Answer(p)' = Answer(p)
                      /\ IoCalled(p)' = IoCalled(p)
                      /\ Exiting(p)' = Exiting(p) /\ Forking(p)' = Forking(p)
                      /\ Comp(p)' = Comp(p) /\ Begin(p)' = Begin(p)
                      /\ Active(p)' = Active(p) /\ HasBlock(p)' = HasBlock(p)
                      /\ State(p)' = State(p) /\ KindOf(p)' = KindOf(p)
                      /\ Fresh(p)' = Fresh(p)
  BY <1>1 DEF Start, Asking, Freeing, Answer, IoCalled, Exiting, Forking,
              Comp, Begin, Active, HasBlock, State, KindOf, Fresh
<1>7. InvTokens'
  BY <1>1, <1>6 DEF IInv, InvTokens, TokensOf, Call
<1>8. InvKinds'
  BY <1>1, <1>6 DEF IInv, InvKinds, KindsOf, Free
<1>9. InvCounts'
  BY <1>1, <1>6 DEF IInv, InvCounts, CountsOf, Free
<1>10. InvBlocks'
  BY <1>1, <1>6 DEF IInv, InvBlocks, BlocksOf, Free, Alive, HasBlock,
                    Blocked
<1>11. InvPhases'
  BY <1>1, <1>6 DEF IInv, InvPhases, Pristine, NoBegin, NoWork
<1> QED BY <1>2, <1>3, <1>4, <1>5, <1>7, <1>8, <1>9, <1>10, <1>11 DEF IInv

\* A pass keeps every cell of the memory with one owner or with none.
LEMMA CellsKept ==
  ASSUME IInv, NEW child, NEW draw, Pass(child, draw), MP!Whole(memory)
  PROVE  MP!Whole(memory')
<1>1. Now # Infinity
  BY DEF Pass
<1>2. memory' = IF Sent = <<>>
                THEN IF memory.armed THEN Mem!MemoryInternal(memory)
                     ELSE memory
                ELSE Mem!MemoryExternal(memory, Sent)
  <2>1. memory' = Advanced(MemoryM, child, memory, Mem!MemoryInternal(memory),
                           Mem!MemoryExternal(memory, Bag(MemoryM, child)))
    BY <1>1, ThisBags, MemoryPass
  <2>2. Bag(MemoryM, child) = Sent
    BY <1>1, ThisBags
  <2>3. IsDue(MemoryM) <=> memory.armed
    BY <1>1, DueFacts DEF IInv
  <2> QED BY <2>1, <2>2, <2>3 DEF Advanced
<1>3. memory \in MP!MemSet
  BY DEF IInv, InvMemory
<1>4. CASE Sent = <<>> /\ memory.armed
  <2> DEFINE n == Mem!MemoryInternal(memory)
  <2>1. n.memory = memory.memory /\ n.memoryTable = memory.memoryTable
    BY <1>3 DEF Mem!MemoryInternal, MP!MemSet
  <2>2. memory' = n
    BY <1>2, <1>4
  <2> HIDE DEF n
  <2>3. \A p : MP!OwnedIn(n, p) = MP!OwnedIn(memory, p)
    BY <2>1, Zenon DEF MP!OwnedIn
  <2>4. MP!Whole(n)
    BY <2>1, <2>3 DEF MP!Whole
  <2> QED BY <2>2, <2>4
<1>5. CASE Sent = <<>> /\ ~ memory.armed
  BY <1>2, <1>5
<1>6. CASE Sent # <<>>
  <2>1. /\ memory.out_put = <<>> /\ Sent \in Seq(KP!OutputSet)
        /\ MP!ClientBag(memory, Sent)
    BY <1>1, <1>6, Phases, SentIs, SentToMemory
  <2>2. memory' = MP!MemoryExternal(memory, Sent)
    BY <1>2, <1>6, <2>1, SameMemoryExternal
  <2>3. MP!Whole(MP!MemoryExternal(memory, Sent))
    BY <1>3, <2>1, Assumptions, MP!ClientBagEffect
  <2> QED BY <2>2, <2>3
<1> QED BY <1>4, <1>5, <1>6

\* The cells of the properties are those of the lemmas.
LEMMA CellsFollow ==
  MP!Whole(memory) => MemoryNoLeak /\ Mem!BlocksDisjoint
<1> SUFFICES ASSUME MP!Whole(memory)
             PROVE  MemoryNoLeak /\ Mem!BlocksDisjoint
  OBVIOUS
<1>1. \A j, size : Mem!Block(j, size) = MP!Block(j, size)
  BY DEF Mem!Block, MP!Block
<1>2. \A p : Mem!Owned(p) = MP!OwnedIn(memory, p)
  BY <1>1, SameMemory, Zenon DEF Mem!Owned, MP!OwnedIn
<1>3. Mem!BlocksDisjoint
  BY <1>2 DEF Mem!BlocksDisjoint, MP!Whole
<1>4. Mem!Marked = UNION {Mem!Owned(p) : p \in Pids}
  <2>1. \A c : c \in Mem!Marked
                 <=> \E p \in Pids : c \in MP!OwnedIn(memory, p)
    <3>1. Mem!Cells = MP!Cells
      BY SameMemory
    <3> QED BY <3>1 DEF Mem!Marked, MP!Whole
  <2> QED BY <1>2, <2>1
<1> QED BY <1>3, <1>4 DEF MemoryNoLeak, Mem!NoLeak

\* At the start no cell is taken.
LEMMA InitCells == Init => MP!Whole(memory)
<1> SUFFICES ASSUME Init PROVE MP!Whole(memory)
  OBVIOUS
<1>1. memory = Mem!InitialMemory
  BY DEF Init
<1>2. /\ \A p \in Pids : memory.memoryTable[p] = MP!NoBlock
      /\ \A c \in MP!Cells : memory.memory[c] = 0
  BY <1>1, SameMemory DEF Mem!InitialMemory
<1>3. \A p \in Pids : MP!OwnedIn(memory, p) = {}
  BY <1>2 DEF MP!OwnedIn
<1> QED BY <1>2, <1>3 DEF MP!Whole

\* Every step keeps the cells.
LEMMA NextCells ==
  IInv /\ MP!Whole(memory) /\ [Next]_vars => MP!Whole(memory')
<1> SUFFICES ASSUME IInv, MP!Whole(memory), [Next]_vars
             PROVE  MP!Whole(memory')
  OBVIOUS
<1>1. CASE Step
  <2>1. PICK child, draw : Pass(child, draw)
    BY <1>1, StepIsPass
  <2> QED BY <2>1, CellsKept
<1>2. CASE UNCHANGED vars
  <2>1. memory' = memory
    BY <1>2 DEF vars
  <2> QED BY <2>1
<1> QED BY <1>1, <1>2 DEF Next, Finished

\* Steps and stuttering keep the invariant,
LEMMA NextInv == IInv /\ [Next]_vars => IInv'
BY StepNext, StutterNext DEF Next, Finished

\* so it holds in every state.
LEMMA Invariance ==
  ASSUME Workloads \subseteq OneInstant
  PROVE  Spec => []IInv
<1>1. Init => IInv
  BY InitInv
<1>2. IInv /\ [Next]_vars => IInv'
  BY NextInv
<1> QED BY <1>1, <1>2, PTL DEF Spec

----------------------------------------------------------------------------
(* The theorems.  All of them are about input files whose processes arrive *)
(* together, none of them twice: the run ossim_late_arrival shows that the *)
(* program is not right for others.                                        *)

\* The parts of the composition and the coordinator's times are of their
\* types, whatever messages and times coincide.
THEOREM OSSimTypes ==
  ASSUME Workloads \subseteq OneInstant
  PROVE  Spec => []TypeOK
BY Invariance, TypesFollow, PTL

\* The kernel's handlers find each process in the state they count on, and
\* the memory is never asked for a process that owns a block: what the proofs
\* about the two components assume of their messages is true.
THEOREM OSSimInputs ==
  ASSUME Workloads \subseteq OneInstant
  PROVE  Spec => [](KernelInputsExpected /\ OneBlockPerProcess)
<1>1. IInv => KernelInputsExpected /\ OneBlockPerProcess
  BY InputsFollow, RequestsFollow
<1> QED BY <1>1, Invariance, PTL

\* One program computes at a time, that of the process the kernel holds to be
\* RUNNING, and that process is never forgotten; who WAITS has an operation
\* at work, just one.
THEOREM OSSimProcessor ==
  ASSUME Workloads \subseteq OneInstant
  PROVE  Spec => [](/\ OnlyRunningComputes /\ RunningMakesProgress
                    /\ WaitingMeansIO)
<1>1. IInv => OnlyRunningComputes /\ RunningMakesProgress /\ WaitingMeansIO
  BY ComputingFollows, ProgressFollows, WaitingFollows
<1> QED BY <1>1, Invariance, PTL

\* The process table and the memory agree on who lives, and a PID that can be
\* given out again has a program that starts over.
THEOREM OSSimProcesses ==
  ASSUME Workloads \subseteq OneInstant
  PROVE  Spec => [](BlocksFollowProcesses /\ ProgramsStartOver)
<1>1. IInv => BlocksFollowProcesses /\ ProgramsStartOver
  BY BlocksFollow, StartsOver
<1> QED BY <1>1, Invariance, PTL

\* The kernel asks for the memory and gives it back so that no cell is lost
\* and none is shared: the cells in use are those of the recorded blocks.
THEOREM OSSimMemory ==
  ASSUME Workloads \subseteq OneInstant
  PROVE  Spec => [](MemoryNoLeak /\ Mem!BlocksDisjoint)
<1> DEFINE Kept == MP!Whole(memory)
<1>1. Init => Kept
  BY InitCells
<1>2. IInv /\ Kept /\ [Next]_vars => Kept'
  BY NextCells
<1>3. Kept => MemoryNoLeak /\ Mem!BlocksDisjoint
  BY CellsFollow
<1> HIDE DEF Kept
<1> QED BY <1>1, <1>2, <1>3, Invariance, PTL DEF Spec

\* A computation takes the time drawn for it, whatever the program hears
\* meanwhile.
THEOREM OSSimTimers ==
  ASSUME Workloads \subseteq OneInstant
  PROVE  Spec => TimersKept
<1>1. IInv /\ [Next]_vars => [KeepsTimers]_vars
  BY StepKeepsTimers DEF Next, Finished
<1>2. Spec => []IInv /\ [][Next]_vars
  BY Invariance, PTL DEF Spec
<1>3. Spec => [][KeepsTimers]_vars
  BY <1>1, <1>2, PTL
<1> QED BY <1>3 DEF TimersKept, KeepsTimers
============================================================================
