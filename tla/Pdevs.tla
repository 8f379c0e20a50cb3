------------------------------- MODULE Pdevs -------------------------------
(***************************************************************************)
(* What a simulation of coupled models promises, whatever its structure:   *)
(* at the soonest time that any atomic model is due, all the due models    *)
(* output, every model they are linked to receives their messages in one   *)
(* bag, and each model that is due or receives something makes one         *)
(* transition, told the time since its last one.  Nothing else moves.      *)
(* The order within a bag is open.                                         *)
(***************************************************************************)
EXTENDS SimTime, Handling

CONSTANTS
  Internal(_),         \* the four functions of the atomic models
  External(_, _, _),
  Confluence(_, _),
  Out(_),
  TimeAdvance(_)

VARIABLES
  links,    \* the pairs <<sender, receiver>> of atomic models
  exits,    \* the atomic models linked to the output of the whole
  state,    \* the states of the atomic models
  due,      \* when each of them is due
  output    \* the last output of the whole and its time

vars == <<links, exits, state, due, output>>

Models == DOMAIN state

Now == Min({due[m] : m \in Models})

DueModels == {m \in Models : due[m] = Now}

Senders(m) == {n \in DueModels : <<n, m>> \in links}

\* The outputs of a set of models, in any order of the models.
Bags(senders) ==
  {Flatten([i \in DOMAIN order |-> Out(state[order[i]])]) :
     order \in Bijection(1 .. Cardinality(senders), senders)}

\* The time since the last transition; what is left of the time advance is
\* the time until the model is due.
Elapsed(m) ==
  IF due[m] = Infinity THEN 0 ELSE TimeAdvance(state[m]) - (due[m] - Now)

Moves(m) == m \in DueModels \/ Senders(m) # {}

Transition(m, bag) ==
  IF bag = <<>> THEN Internal(state[m])
  ELSE IF m \in DueModels THEN Confluence(state[m], bag)
  ELSE External(state[m], bag, Elapsed(m))

Init ==
  /\ due = [m \in Models |-> TimeAdvance(state[m])]
  /\ output = [time |-> 0, bag |-> <<>>]

Step ==
  /\ Now # Infinity
  /\ DOMAIN state' = Models
  /\ \A m \in Models :
       IF Moves(m)
       THEN \E bag \in Bags(Senders(m)) : state'[m] = Transition(m, bag)
       ELSE state'[m] = state[m]
  /\ due' = [m \in Models |->
               IF ~ Moves(m) THEN due[m]
               ELSE IF TimeAdvance(state'[m]) = Infinity THEN Infinity
               ELSE Now + TimeAdvance(state'[m])]
  /\ \E bag \in Bags(DueModels \cap exits) :
       output' = [time |-> Now, bag |-> bag]
  /\ UNCHANGED <<links, exits>>

Spec == Init /\ [][Step]_vars
============================================================================
