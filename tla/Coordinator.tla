--------------------------- MODULE Coordinator ---------------------------
(***************************************************************************)
(* The nullqueue coordinator of the PDEVS engine                           *)
(* (include/boost/simulation/pdevs/coordinator.hpp): one call of           *)
(* advanceSimulation on the top model, which collects the outputs of the   *)
(* models that are due, delivers them, and runs a transition of each model *)
(* that is due or received something.                                      *)
(*                                                                         *)
(* The models are touched in an order, but a transition changes only its   *)
(* own model and reads only its own inbox, which is complete before the    *)
(* first transition runs; the step is therefore a single one here.         *)
(*                                                                         *)
(* Times are relative to the present: left[m] is _next - now and since[m]  *)
(* is now - _last of the simulator of m.                                   *)
(***************************************************************************)
EXTENDS Handling, Functions

CONSTANTS
  ModelOrder,   \* the sub-models, in the order of the coordinator's list
  Couplings     \* the pairs <<sender, receiver>>

Models == Range(ModelOrder)

\* The time until the next transition of any model (next_coord).
Soonest(left) == Min({left[m] : m \in Models})

Due(left) == {m \in Models : left[m] = Soonest(left)}

\* Where in the list the due models are that send to m; out gives the output
\* of each due model.
SendersTo(m, out) ==
  {i \in DOMAIN ModelOrder :
     ModelOrder[i] \in DOMAIN out /\ <<ModelOrder[i], m>> \in Couplings}

\* The bag in the inbox of m once every output is collected, in the order of
\* the list.
Inbox(m, out) ==
  LET senders == SendersTo(m, out)
  IN Flatten([i \in 1 .. Max(senders \cup {0}) |->
                IF i \in senders THEN out[ModelOrder[i]] ELSE <<>>])

\* How often a model that is not due is put on the list inminents_external:
\* once for each sender that finds its inbox still empty, so also for
\* outputs that turn out to be empty.
Visits(m, out) ==
  LET senders == SendersTo(m, out)
  IN Cardinality({i \in senders :
                    \A j \in senders : j < i => out[ModelOrder[j]] = <<>>})

\* What each simulator finds when it is called: whether it is due, its inbox,
\* and the visits that a model which is not due gets.
Calls(out) ==
  [m \in Models |-> [due |-> m \in DOMAIN out, inbox |-> Inbox(m, out),
                     visits |-> Visits(m, out)]]

\* advanceSimulation of the simulator of a model in state s: internal, or
\* confluence (which is external in every model of this system), or external.
\* A visit with an empty inbox that is not due changes nothing but _last; one
\* that follows a visit which has just made the model due runs internal.
Advance(call, s, elapsed, internal(_), external(_, _, _), dueNow(_)) ==
  IF call.inbox = <<>>
  THEN IF call.due THEN internal(s) ELSE s
  ELSE LET after == external(s, call.inbox, elapsed)
       IN IF ~ call.due /\ call.visits > 1 /\ dueNow(after)
          THEN internal(after) ELSE after

\* Whether a transition runs, and whether the simulator is called at all.
Runs(call)   == call.due \/ call.inbox # <<>>
Called(call) == call.due \/ call.visits > 0
============================================================================
