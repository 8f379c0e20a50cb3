---------------------------- MODULE Simulation ----------------------------
(***************************************************************************)
(* The runner (include/boost/simulation/pdevs/runner.hpp) with a tree of   *)
(* coordinators: coupled models of the library's atomic models, simulated  *)
(* as they are or flattened, with either variant of the coordinator.       *)
(***************************************************************************)
EXTENDS Hierarchy

CONSTANTS
  Worlds,   \* the models simulated: [desc, model] of modules above
  Queues,   \* the variants of the coordinator
  End       \* the time that runUntil is given

\* The models the program may be given: trees whose top has no input, atomic
\* models in states they can be in, with durations that cannot reach infinity
\* before the end, and nothing is sent to those that must not receive.
IsWorld(w) ==
  /\ \A c \in DOMAIN w.desc : IsCoupled(w.desc[c])
  /\ IsTree(w.desc, Depths(w.desc), Cardinality(DOMAIN w.desc))
  /\ w.desc[TOP].eic = <<>>
  /\ w.model \in [Atoms(w.desc) -> AtomicStates(Infinity - End)]
  /\ \A c \in DOMAIN w.desc : \A m \in Receivers(w.desc[c]) :
       Atomic(w.desc, m) => MayReceive(w.model[m])

ASSUME SimulationAssumption ==
  /\ Queues \subseteq {NULLQUEUE, FEL}
  /\ End \in 1 .. Infinity
  /\ \A w \in Worlds : IsWorld(w)

VARIABLES
  world,    \* the model simulated
  sim,      \* the tree of coordinators
  output,   \* the output the runner processed last, and its time
  sent,     \* history: the messages each atomic model has sent
  passes    \* history: the passes of the loop at the present time

vars == <<world, sim, output, sent, passes>>

Init ==
  /\ world \in Worlds
  /\ \E desc \in {world.desc, Flattened(world.desc)}, queue \in Queues :
       sim = Started(desc, world.model, queue)
  /\ output = [time |-> 0, bag |-> <<>>]
  /\ sent = [m \in Atoms(world.desc) |-> <<>>]
  /\ passes = 0

\* One pass of the loop of runUntil.
Step ==
  \E t \in {sim.next[TOP]} :
    /\ t < End
    /\ output' = [time |-> t, bag |-> Output(sim, TOP, t)]
    /\ sim' = AdvanceSimulation([sim EXCEPT !.called = {}], TOP, t)
    /\ sent' = [m \in DOMAIN sent |-> sent[m] \o Output(sim, m, t)]
    /\ passes' = IF t = output.time THEN passes + 1 ELSE 1
    /\ UNCHANGED world

\* runUntil has returned.
Returned ==
  /\ sim.next[TOP] >= End
  /\ UNCHANGED vars

Next == Step \/ Returned

Spec == Init /\ [][Next]_vars

----------------------------------------------------------------------------
(* The couplings of the model as they were meant, whatever the tree.       *)

\* The atomic models on one side, "eic" or "eoc", of a model.
Side(m, part) ==
  LET side[n \in Nodes(world.desc)] ==
        IF Atomic(world.desc, n) THEN {n}
        ELSE UNION {side[k] : k \in Range(world.desc[n][part])}
  IN side[m]

Links ==
  UNION {Side(coupling[1], "eoc") \X Side(coupling[2], "eic") :
           coupling \in UNION {Range(world.desc[c].ic) :
                                 c \in DOMAIN world.desc}}

AtomDue == [m \in DOMAIN sim.model |-> sim.next[m]]

PDEVS == INSTANCE Pdevs WITH
  Internal <- internal, External <- external, Confluence <- confluence,
  Out <- out, TimeAdvance <- advance,
  links <- Links, exits <- Side(TOP, "eoc"), state <- sim.model,
  due <- AtomDue

----------------------------------------------------------------------------
(* Properties.                                                             *)

Flat == DOMAIN sim.desc = {TOP}

\* The simulation is one of PDEVS as long as every simulator is called once
\* and for a reason: no message is lost, doubled, late or sent to the wrong
\* model by either coordinator, whatever the tree.
ExactUnlessNeedless ==
  /\ PDEVS!Init
  /\ [][~ sim'.needless => PDEVS!Step]_vars

\* Flattening makes it exact: polling the models of a single level never
\* calls a simulator without a reason.
FlatNeverNeedless ==
  Flat /\ sim.queue = NULLQUEUE => ~ sim.needless

\* Every coordinator knows its soonest sub-model, although the entries of a
\* future event list are never removed when they are replaced; and the list
\* has handed out exactly the models due at that time.
NextIsSoonest ==
  \A c \in DOMAIN sim.desc :
    LET models == Range(sim.desc[c].models)
    IN /\ sim.next[c] = Earliest({sim.next[m] : m \in models})
       /\ sim.queue = FEL =>
            Range(sim.inminents[c]) =
              {m \in models : sim.next[m] = sim.next[c] /\
                              sim.next[m] # Infinity}

\* A pass leaves nothing for the next one to deliver late, and no assert of
\* advanceSimulation on its times fails.
PassesComplete ==
  /\ \A n \in DOMAIN sim.inbox : sim.inbox[n] = <<>>
  /\ sim.asserted

IsKind(m, kind) == sim.model[m].kind = kind

\* The jobs sent to a processor are waiting there or were sent on, each once,
\* also where simulators are called needlessly.
JobsAreKept ==
  sim.queue = NULLQUEUE =>
    \A m \in DOMAIN sent :
      IsKind(m, PROCESSOR) =>
        Len(sent[m]) + Len(sim.model[m].jobs) =
          SumFunction([n \in {n \in DOMAIN sent : <<n, m>> \in Links} |->
                         Len(sent[n])])

\* A job keeps the time at which it will be done, whatever else happens: all
\* jobs take the processing time of their processor.
JobsKeepTheirTime ==
  [][\A m \in DOMAIN sent :
       IsKind(m, PROCESSOR) /\ sim.model[m].jobs # <<>>
         /\ sim.next[m] > sim.next[TOP] => sim'.next[m] = sim.next[m]]_vars

\* runUntil returns: time never stands still.  After the pass in which the
\* clocked models are due, an instant has at most one more, for the answers
\* of the counters that were asked.
InstantsEnd == passes <= 2

TypeOK ==
  /\ sim.queue \in Queues
  /\ sim.last \in [Nodes(sim.desc) -> 0 .. End]
  /\ sim.next \in [Nodes(sim.desc) -> 0 .. Infinity]
  /\ \A c \in DOMAIN sim.desc :
       /\ \A i \in DOMAIN sim.fel[c] : sim.fel[c][i][1] > sim.next[c]
       /\ Range(sim.inminents[c]) \subseteq Range(sim.desc[c].models)
============================================================================
