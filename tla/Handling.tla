---------------------------- MODULE Handling ----------------------------
(***************************************************************************)
(* The loop over the bag of messages that begins every external transition *)
(* of atomics/*.hpp, and the loop that puts what several models say into   *)
(* one bag.  Both are the fold from the left that SequencesExt calls       *)
(* FoldLeft, from the modules that it is defined with.                     *)
(***************************************************************************)
EXTENDS Sequences, FiniteSetsExt

\* The state after handling the messages of the bag one after the other.  The
\* bound variable makes TLC compute the state before each message once.
HandleAll(handle(_, _), state, bag) ==
  MapThenFoldSet(
    LAMBDA msg, s : CHOOSE next \in {handle(v, msg) : v \in {s}} : TRUE,
    state, LAMBDA i : bag[i], Max, DOMAIN bag)

\* The messages of several bags, one bag after the other.
Flatten(bags) == HandleAll(\o, <<>>, bags)
============================================================================
