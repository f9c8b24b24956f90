--------------------------- MODULE MC_Pserialize ---------------------------
(* Two writers whose requests overlap, and three CPUs.                      *)
EXTENDS Pserialize

CONSTANTS o1, o2, cpu0, cpu1, cpu2
=============================================================================
