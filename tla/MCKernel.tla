----------------------------- MODULE MCKernel -----------------------------
(* Instances of Kernel for TLC. *)
EXTENDS Kernel

MCPids == 1..3
MCTypes == {PROGRAM_IO}
MCBothTypes == {PROGRAM_IO, PROGRAM_FORK}
MCPriorities == {0, 5}
MCBlockSizes == {1}
============================================================================
