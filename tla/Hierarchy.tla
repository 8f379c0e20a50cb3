---------------------------- MODULE Hierarchy ----------------------------
(***************************************************************************)
(* The tree of coordinators that simulates a coupled model                 *)
(* (include/boost/simulation/pdevs/coordinator.hpp), in both variants: the *)
(* one that polls its sub-models (nullqueue) and the one that keeps a      *)
(* future event list (FEL).  A node is a model with its coordinator, which *)
(* for an atomic model is a simulator.  The state s of the tree has        *)
(*   desc, queue   the description of the model, and the variant,          *)
(*   model         the states of the atomic models,                        *)
(*   last, next    _last and _next of every node,                          *)
(*   inbox         _inbox of every node,                                   *)
(*   fel, inminents  of every coordinator (empty with nullqueue),          *)
(* and three parts that record how the simulators are used:                *)
(*   called        the simulators called in this pass so far,              *)
(*   needless      whether one was ever called a second time in a pass, or *)
(*                 without being due and without input,                    *)
(*   asserted      whether every assert of the code held.                  *)
(***************************************************************************)
EXTENDS CoupledModel, BasicModels

NULLQUEUE == "nullqueue"
FEL       == "FEL"

\* Mutant: infinity is a number like the others.
Plus_NoInfinity(t, duration) == t + duration

Plus(t, duration) == IF duration = Infinity THEN Infinity ELSE t + duration

Earliest(times) == Min(times \cup {Infinity})

\* The sub-models that m sends to, in the order of the couplings.
InternalConnections(d, m) ==
  LET from == Those(d.ic, {coupling \in Range(d.ic) : coupling[1] = m})
  IN [i \in DOMAIN from |-> from[i][2]]

----------------------------------------------------------------------------
(* init.                                                                   *)

\* When each model is due first.
FirstTimes(desc, model) ==
  LET first[n \in Nodes(desc)] ==
        IF Atomic(desc, n) THEN advance(model[n])
        ELSE Earliest({first[m] : m \in Range(desc[n].models)})
  IN first

\* What init puts on the future event list of a coordinator.
Scheduled(next, models) ==
  LET ms == Those(models, {m \in Range(models) : next[m] # Infinity})
  IN [i \in DOMAIN ms |-> <<next[ms[i]], ms[i]>>]

\* The models of a list of events.
Models(events) == [i \in DOMAIN events |-> events[i][2]]

\* The simulation of description desc from time 0 on.
Started(desc, model, queue) ==
  LET nodes == Nodes(desc)
      next  == FirstTimes(desc, model)
      fel   == [c \in DOMAIN desc |->
                  IF queue = FEL THEN Scheduled(next, desc[c].models)
                  ELSE <<>>]
      now   == [c \in DOMAIN desc |->
                  {ev \in Range(fel[c]) : ev[1] = next[c]}]
  IN [desc |-> desc, queue |-> queue, model |-> model,
      last |-> [n \in nodes |-> 0], next |-> next,
      inbox |-> [n \in nodes |-> <<>>],
      fel |-> [c \in DOMAIN desc |->
                 Those(fel[c], Range(fel[c]) \ now[c])],
      inminents |-> [c \in DOMAIN desc |->
                       Models(Those(fel[c], now[c]))],
      called |-> {}, needless |-> FALSE, asserted |-> TRUE]

----------------------------------------------------------------------------
(* collectOutputs.                                                         *)

\* The sub-models with an internal event at the time c is due.
Inminents(s, c) ==
  IF s.queue = FEL THEN s.inminents[c]
  ELSE LET ms == s.desc[c].models
       IN Those(ms, {m \in Range(ms) : s.next[m] = s.next[c]})

ConnectedToOut(s, c, m) == m \in Range(s.desc[c].eoc)

Outputs(s, t) ==
  LET output[n \in Nodes(s.desc)] ==
        IF s.next[n] # t THEN <<>>
        ELSE IF Atomic(s.desc, n) THEN out(s.model[n])
        ELSE LET due == Inminents(s, n)
             IN Flatten([i \in DOMAIN due |->
                           IF ConnectedToOut(s, n, due[i])
                           THEN output[due[i]] ELSE <<>>])
  IN output

Output(s, n, t) == Outputs(s, t)[n]

----------------------------------------------------------------------------
(* advanceSimulation of a simulator.                                       *)

Transition(st, mb, due, elapsed) ==
  IF mb = <<>> THEN IF due THEN internal(st) ELSE st
  ELSE IF due THEN confluence(st, mb) ELSE external(st, mb, elapsed)

Asserts(s, n, t) == s.last[n] <= t /\ t <= s.next[n]

Simulate(s, m, t) ==
  LET due  == t = s.next[m]
      mb   == s.inbox[m]
      runs == due \/ mb # <<>>
      after == Transition(s.model[m], mb, due, t - s.last[m])
  IN [s EXCEPT !.model[m] = after,
               !.last[m]  = t,
               !.next[m]  = IF runs THEN Plus(t, advance(after)) ELSE @,
               !.inbox[m] = <<>>,
               !.called   = @ \cup {m},
               !.needless = @ \/ ~ runs \/ m \in s.called,
               !.asserted = /\ @ /\ Asserts(s, m, t)
                            /\ mb # <<>> => MayReceive(s.model[m])]

----------------------------------------------------------------------------
(* advanceSimulation of a coordinator.                                     *)

\* The messages to put into inboxes, each bag with its receiver: the input of
\* the coordinator, and the outputs of the sub-models that are due.
Mail(s, c, t) ==
  LET d   == s.desc[c]
      due == IF t = s.next[c] THEN Inminents(s, c) ELSE <<>>
      from(m) == LET to == InternalConnections(d, m)
                 IN [i \in DOMAIN to |-> <<to[i], Output(s, m, t)>>]
  IN [i \in DOMAIN d.eic |-> <<d.eic[i], s.inbox[c]>>]
       \o Flatten([i \in DOMAIN due |-> from(due[i])])

\* Mutant: every bag makes a visit of its own.
Deliver_EachBag(acc, receiver, bag, t) ==
  [s |-> [acc.s EXCEPT !.inbox[receiver] = @ \o bag],
   visit |-> IF acc.s.next[receiver] # t
             THEN Append(acc.visit, receiver) ELSE acc.visit]

\* Mutant: the inbox is looked at when the bag is in it already.
Deliver_InsertsFirst(acc, receiver, bag, t) ==
  [s |-> [acc.s EXCEPT !.inbox[receiver] = @ \o bag],
   visit |-> IF /\ acc.s.next[receiver] # t
                /\ acc.s.inbox[receiver] \o bag = <<>>
             THEN Append(acc.visit, receiver) ELSE acc.visit]

\* The bag joins the inbox of the receiver, which has to be visited if it is
\* not due and its inbox was empty, also by a bag that is empty itself.
Deliver(acc, receiver, bag, t) ==
  [s |-> [acc.s EXCEPT !.inbox[receiver] = @ \o bag],
   visit |-> IF acc.s.next[receiver] # t /\ acc.s.inbox[receiver] = <<>>
             THEN Append(acc.visit, receiver) ELSE acc.visit]

\* A sub-model that was advanced is entered in the future event list.
Emplace(s, c, m) ==
  IF s.queue = FEL /\ s.next[m] # Infinity
  THEN [s EXCEPT !.fel[c] = Append(@, <<s.next[m], m>>)] ELSE s

\* Mutant: replaced entries are not skipped.
Reschedule_Replaced(s, c) ==
  LET next == IF s.queue = FEL THEN Earliest({ev[1] : ev \in Range(s.fel[c])})
              ELSE Earliest({s.next[m] : m \in Range(s.desc[c].models)})
      now  == {ev \in Range(s.fel[c]) : ev[1] = next}
  IN [s EXCEPT !.next[c] = next,
               !.inbox[c] = <<>>,
               !.fel[c] = Those(@, {ev \in Range(@) : ev[1] > next}),
               !.inminents[c] = Models(Those(s.fel[c], now))]

\* _next is the time of the soonest sub-model.  The future event list finds
\* it at its first entry that is not replaced; those at that time are taken
\* out.  Entries of equal time come out in an order the queue leaves open,
\* and here in that of their entry.
Reschedule(s, c) ==
  LET events == s.fel[c]
      valid  == {ev \in Range(events) : ev[1] = s.next[ev[2]]}
      next   == IF s.queue = FEL THEN Earliest({ev[1] : ev \in valid})
                ELSE Earliest({s.next[m] : m \in Range(s.desc[c].models)})
      now    == {ev \in valid : ev[1] = next}
      later  == {ev \in Range(events) : ev[1] > next}
  IN [s EXCEPT !.next[c] = next,
               !.inbox[c] = <<>>,
               !.fel[c] = Those(events, later),
               !.inminents[c] = Models(Those(events, now))]

\* All the trees over a description.
Trees(desc) ==
  {s \in [desc : {desc}, queue : {NULLQUEUE, FEL},
          model : [Atoms(desc) -> AtomicStates(Infinity)],
          last : [Nodes(desc) -> Nat], next : [Nodes(desc) -> Nat],
          inbox : [Nodes(desc) -> Seq(Nat)],
          fel : [DOMAIN desc -> Seq(Nat \X Nodes(desc))],
          inminents : [DOMAIN desc -> Seq(Nodes(desc))],
          called : SUBSET Nodes(desc),
          needless : BOOLEAN, asserted : BOOLEAN] :
     \A c \in DOMAIN desc :
       Range(s.inminents[c]) \subseteq Range(desc[c].models)}

\* The bags are put into the inboxes one after the other.
PostAll(s, mail, t) ==
  LET posted[i \in 0 .. Len(mail)] ==
        IF i = 0 THEN [s |-> s, visit |-> <<>>]
        ELSE Deliver(posted[i - 1], mail[i][1], mail[i][2], t)
  IN posted[Len(mail)]

\* The sub-models are called one after the other; call[m] says what a call of
\* m makes of the tree.
CallAll(s, calls, c, call) ==
  LET called[i \in 0 .. Len(calls)] ==
        IF i = 0 THEN s
        ELSE Emplace(call[calls[i]][called[i - 1]], c, calls[i])
  IN called[Len(calls)]

Coordinate(s, c, t, call) ==
  LET due    == IF s.queue = FEL \/ t = s.next[c] THEN Inminents(s, c)
                ELSE <<>>
      start  == [s EXCEPT !.last[c] = t,
                          !.asserted = @ /\ Asserts(s, c, t)]
      posted == PostAll(start, Mail(s, c, t), t)
  IN Reschedule(CallAll(posted.s, due \o posted.visit, c, call), c)

\* What the call of each node makes of a tree.
Calls(desc, t) ==
  LET call[n \in Nodes(desc)] ==
        [s \in Trees(desc) |->
           IF Atomic(desc, n) THEN Simulate(s, n, t)
           ELSE Coordinate(s, n, t, call)]
  IN call

AdvanceSimulation(s, n, t) == Calls(s.desc, t)[n][s]
==========================================================================
