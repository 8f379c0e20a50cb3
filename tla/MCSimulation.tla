--------------------------- MODULE MCSimulation ---------------------------
(* Instances of Simulation for TLC: small coupled models. *)
EXTENDS Simulation

Coupled(models, eic, ic, eoc) ==
  [models |-> models, eic |-> eic, ic |-> ic, eoc |-> eoc]

\* Jobs go through a shop, a coupled model; a counter of the finished ones is
\* asked from time to time.
Around(shop) ==
  Coupled(<<"jobs", shop, "asks", "count">>, <<>>,
          <<<<"jobs", shop>>, <<shop, "count">>, <<"asks", "count">>>>,
          <<shop, "count">>)

\* The shop has one machine.
OneMachine ==
  [TOP |-> Around("shop"),
   shop |-> Coupled(<<"first">>, <<"first">>, <<>>, <<"first">>)]

\* Two machines, one after the other.
Tandem ==
  [TOP |-> Around("shop"),
   shop |-> Coupled(<<"first", "second">>, <<"first">>,
                    <<<<"first", "second">>>>, <<"second">>)]

\* Two machines side by side; every job goes to both.
SideBySide ==
  [TOP |-> Around("shop"),
   shop |-> Coupled(<<"first", "second">>, <<"first", "second">>, <<>>,
                    <<"first", "second">>)]

\* Two shops of one machine, one after the other.
TwoShops ==
  [TOP |-> Coupled(<<"jobs", "shop", "store", "asks", "count">>, <<>>,
                   <<<<"jobs", "shop">>, <<"shop", "store">>,
                     <<"store", "count">>, <<"asks", "count">>>>,
                   <<"store", "count">>),
   shop |-> Coupled(<<"first">>, <<"first">>, <<>>, <<"first">>),
   store |-> Coupled(<<"second">>, <<"second">>, <<>>, <<"second">>)]

\* A shop inside a shop.
Deep ==
  [TOP |-> Around("plant"),
   plant |-> Coupled(<<"shop">>, <<"shop">>, <<>>, <<"shop">>),
   shop |-> Coupled(<<"first">>, <<"first">>, <<>>, <<"first">>)]

Parts(jobs, one, two, ask) ==
  [jobs |-> jobs, first |-> Processor(one), second |-> Processor(two),
   asks |-> Generator(ask, 0), count |-> Counter]

World(desc, parts) ==
  [desc |-> desc, model |-> [m \in Atoms(desc) |-> parts[m]]]

\* A file of jobs, two of them at once while the first is in work.
File == <<<<1, 1>>, <<2, 1>>, <<2, 1>>, <<5, 1>>>>

MCWorlds ==
  {World(desc, Parts(jobs, one, two, ask)) :
     desc \in {OneMachine, Tandem, SideBySide, TwoShops, Deep},
     jobs \in {Generator(p, 1) : p \in 1 .. 3} \cup {InputStream(File)},
     one \in {1, 2, 4}, two \in 1 .. 2, ask \in 2 .. 3}

MCQueues == {NULLQUEUE, FEL}

\* For the times of jobs in a shop of two machines, as the runner runs it.
MCTandems == {w \in MCWorlds : w.desc = Tandem}

MCPolling == {NULLQUEUE}
============================================================================
