----------------------------- MODULE MC_Callout -----------------------------
(* Two CPUs, a callout that may move between them and one bound to the      *)
(* first, and two threads.  No symmetry: the run checks a liveness property. *)
EXTENDS Callout

CONSTANTS m1, b1, t1, t2, cpu0, cpu1
=============================================================================
