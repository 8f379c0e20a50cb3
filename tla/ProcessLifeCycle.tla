------------------------- MODULE ProcessLifeCycle -------------------------
(***************************************************************************)
(* What the kernel promises about processes, without queue, flag, messages *)
(* or priorities: a process is absent, ready, running or waiting, there is *)
(* one processor, and whenever it is free it goes to a ready process, if   *)
(* there is one, in the very step that frees it or makes one ready.        *)
(***************************************************************************)
CONSTANT Pids

VARIABLE state

In(s, which) == {p \in Pids : s[p] = which}

Init == state = [p \in Pids |-> "absent"]

\* The states s once p is moved.
With(s, p, to) == [q \in Pids |-> IF q = p THEN to ELSE s[q]]

\* What may become of the states s when the processor is given away.
Dispatched(s) ==
  IF In(s, "running") # {} \/ In(s, "ready") = {} THEN {s}
  ELSE {With(s, p, "running") : p \in In(s, "ready")}

\* One process moves, and the processor is given away if it is free.
Move(p, from, to) ==
  /\ state[p] = from
  /\ state' \in Dispatched(With(state, p, to))

Admit(p)  == Move(p, "absent", "ready")
Block(p)  == Move(p, "running", "waiting")
Wake(p)   == Move(p, "waiting", "ready")
Exit(p)   == Move(p, "running", "absent")

Next == \E p \in Pids : Admit(p) \/ Block(p) \/ Wake(p) \/ Exit(p)

Spec == Init /\ [][Next]_state
============================================================================
