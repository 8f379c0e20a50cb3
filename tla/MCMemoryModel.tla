-------------------------- MODULE MCMemoryModel --------------------------
(* Instances of MemoryModel for TLC. *)
EXTENDS MemoryModel

MCPids == 1..3
MCBlockSizes == 1..5
============================================================================
