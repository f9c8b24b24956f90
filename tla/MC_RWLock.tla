------------------------------ MODULE MC_RWLock ------------------------------
(* Four threads: a holder, another one, and a sleeper on each queue.  One of  *)
(* them upgrades; with more, a waiting writer may starve.                     *)
EXTENDS RWLock
=============================================================================
