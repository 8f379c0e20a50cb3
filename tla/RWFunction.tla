---------------------------- MODULE RWFunction ----------------------------
(***************************************************************************)
(* The RWFunction atomic model (atomics/rw_function.hpp): a read or a      *)
(* write of one process.  Called by the system interface, it reports       *)
(* startIO at once and doneIO after the time of the I/O operation.         *)
(***************************************************************************)
EXTENDS SimTime

CONSTANT
  IoTime      \* the duration of an I/O operation (10 in the code)

ASSUME FunctionAssumption == IoTime \in 1 .. Infinity - 1

InitialFunction ==
  [active |-> FALSE, functionNumber |-> 1, next_internal |-> Infinity]

\* Mutant: a finished operation is not ended.
FunctionInternal_StaysActive(s) ==
  [s EXCEPT !.active = TRUE,
            !.next_internal = IF s.active THEN Infinity ELSE IoTime]

FunctionInternal(s) ==
  [s EXCEPT !.active = ~ @,
            !.next_internal = IF s.active THEN Infinity ELSE IoTime]

FunctionOut(s) ==
  <<[port |-> IF s.active THEN "doneIO" ELSE "startIO",
     value |-> s.functionNumber]>>

\* external, and confluence, which only calls external.  name and number make
\* up the ID that the model compares with the port.
FunctionExternal(s, name, number, bag, t) ==
  IF \E i \in DOMAIN bag : bag[i].port = name /\ bag[i].value = number
  THEN [s EXCEPT !.next_internal = 0, !.functionNumber = number]
  ELSE [s EXCEPT !.next_internal = Minus(@, t)]
============================================================================
