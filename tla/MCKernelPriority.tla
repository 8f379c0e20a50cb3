------------------------- MODULE MCKernelPriority -------------------------
(* Instances of KernelPriority for TLC. *)
EXTENDS KernelPriority, MCKernel

MCSmallPriorities == {0, 5}
MCLargePriorities == {0, 128}
============================================================================
