------------------------------ MODULE MC_Psref ------------------------------
(* Three CPUs, with two references each, so that references can be copied.  *)
EXTENDS IfnetRefs

CONSTANTS cpu0, cpu1, cpu2, r1, r2
=============================================================================
