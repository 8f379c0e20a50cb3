----------------------------- MODULE SimTime -----------------------------
(***************************************************************************)
(* Simulated time, as BRITime (vendor/britime.hpp) gives it to the models: *)
(* numbers with an infinity that no subtraction brings nearer.             *)
(***************************************************************************)
EXTENDS Integers

CONSTANT Infinity   \* the time that never comes, beyond all the others

ASSUME TimeAssumption == Infinity \in Nat \ {0}

\* A duration less the time t that has passed of it.
Minus(duration, t) == IF duration = Infinity THEN Infinity ELSE duration - t
============================================================================
