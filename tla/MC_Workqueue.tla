---------------------------- MODULE MC_Workqueue ----------------------------
(* Three items: one being called, one later in its batch and one pending. *)
EXTENDS Workqueue
=============================================================================
