---------------------------- MODULE MC_Condvar ----------------------------
(* A thread in cv_wait(), one in cv_timedwait() and one in                 *)
(* cv_timedwait_sig(); each of them also brings items.                     *)
EXTENDS Condvar

CONSTANTS l1, l2, l3
===========================================================================
