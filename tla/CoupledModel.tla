--------------------------- MODULE CoupledModel ---------------------------
(***************************************************************************)
(* Coupled models (include/boost/simulation/pdevs/coupled.hpp).  A model   *)
(* is a name.  A description gives, for the name of each coupled model,    *)
(* its sub-models, those of them that its input and output are coupled to  *)
(* (eic and eoc), and the couplings among them (ic); every other name is   *)
(* that of an atomic model.                                                *)
(***************************************************************************)
EXTENDS Handling

TOP == "TOP"   \* the model that is simulated

Atomic(desc, m) == m \notin DOMAIN desc

\* All the models of a description.
Nodes(desc) ==
  DOMAIN desc \cup UNION {Range(desc[c].models) : c \in DOMAIN desc}

\* Those members of a sequence that are in S, in their order.
Those(seq, S) ==
  Flatten([i \in DOMAIN seq |-> IF seq[i] \in S THEN <<seq[i]>> ELSE <<>>])

Atoms(desc) == {m \in Nodes(desc) : Atomic(desc, m)}

\* Those of the sub-models that may be sent something.
Receivers(d) == Range(d.eic) \cup {coupling[2] : coupling \in Range(d.ic)}

\* The constructor of a coupled model: its couplings name its sub-models.
IsCoupled(d) ==
  LET ms == Range(d.models)
  IN /\ d.models \in Seq(ms) /\ IsInjective(d.models)
     /\ d.eic \in Seq(ms) /\ d.eoc \in Seq(ms) /\ d.ic \in Seq(ms \X ms)

\* The steps that lead from the top to each model.
Depths(desc) ==
  LET depth[n \in Nodes(desc)] ==
        IF n = TOP THEN 0
        ELSE 1 + depth[CHOOSE c \in DOMAIN desc : n \in Range(desc[c].models)]
  IN depth

\* Each model but the top one is a sub-model of one other, and steps lead to
\* it from the top.
IsTree(desc, depth, height) ==
  /\ TOP \in DOMAIN desc /\ height \in Nat
  /\ depth \in [Nodes(desc) -> 0 .. height]
  /\ \A n \in Nodes(desc) : depth[n] = 0 <=> n = TOP
  /\ \A n \in Nodes(desc) \ {TOP} :
       \E c \in DOMAIN desc : n \in Range(desc[c].models)
  /\ \A c \in DOMAIN desc : \A m \in Range(desc[c].models) :
       /\ depth[m] = depth[c] + 1
       /\ \A b \in DOMAIN desc : m \in Range(desc[b].models) => b = c

----------------------------------------------------------------------------
(* flattened_coupled: each coupled model among the sub-models gives way to *)
(* what is inside it.  A coupled model inside that one stays.              *)

\* The models in a list, a coupled one replaced by the part of it named.
Spread(desc, ms, part) ==
  Flatten([i \in DOMAIN ms |->
                IF Atomic(desc, ms[i]) THEN <<ms[i]>>
                ELSE desc[ms[i]][part]])

Pairs(ls, rs) ==
  Flatten([i \in DOMAIN ls |-> [j \in DOMAIN rs |-> <<ls[i], rs[j]>>]])

\* The couplings inside the sub-models, which are maintained.
InnerCouplings(desc, ms) ==
  Flatten([i \in DOMAIN ms |->
                IF Atomic(desc, ms[i]) THEN <<>> ELSE desc[ms[i]].ic])

\* Mutant: the receiver is entered where it sends.
Ends_ReceiverOutput(desc, coupling) ==
  Pairs(Spread(desc, <<coupling[1]>>, "eoc"),
        Spread(desc, <<coupling[2]>>, "eoc"))

\* A coupling between sub-models, as couplings between their ends.
Ends(desc, coupling) ==
  Pairs(Spread(desc, <<coupling[1]>>, "eoc"),
        Spread(desc, <<coupling[2]>>, "eic"))

FlattenedCoupled(desc, d) ==
  [models |-> Spread(desc, d.models, "models"),
   eic    |-> Spread(desc, d.eic, "eic"),
   eoc    |-> Spread(desc, d.eoc, "eoc"),
   ic     |-> InnerCouplings(desc, d.models)
                \o Flatten([i \in DOMAIN d.ic |-> Ends(desc, d.ic[i])])]

\* The description with the top model flattened.
Flattened(desc) ==
  [c \in DOMAIN desc \ Range(desc[TOP].models) |->
     IF c = TOP THEN FlattenedCoupled(desc, desc[TOP]) ELSE desc[c]]
============================================================================
