--------------------------- MODULE MCReadyQueue ---------------------------
(* Instances of ReadyQueue for TLC. *)
EXTENDS ReadyQueue

MCPCBs == [PID : 1..2, priority : {0, 1}]
============================================================================
