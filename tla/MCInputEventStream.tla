------------------------ MODULE MCInputEventStream ------------------------
(* Instances of InputEventStream for TLC. *)
EXTENDS InputEventStream

MCMessages == {"a", "b"}

\* All files of up to five lines, the faulty ones included.
MCFiles ==
  UNION {[1 .. k -> {Blank} \cup ((0 .. 2) \X MCMessages)] : k \in 0 .. 5}
============================================================================
