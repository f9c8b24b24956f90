-------------------------- MODULE MC_AdaptiveMutex --------------------------
(* Three threads on two CPUs: an owner that is off its CPU, a sleeper, and *)
(* a third thread that takes the mutex in between.                         *)
EXTENDS AdaptiveMutex
=============================================================================
