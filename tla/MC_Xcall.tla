------------------------------ MODULE MC_Xcall ------------------------------
(* Two callers contend for the box; one CPU may not be running.               *)
EXTENDS Xcall

CONSTANTS t1, t2, cpu0, cpu1, cpu2
=============================================================================
