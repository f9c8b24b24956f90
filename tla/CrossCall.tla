----------------------------- MODULE CrossCall -----------------------------
(***************************************************************************)
(* What xcall(9) promises to its callers, Localcount, Psref and Pserialize *)
(* among them: the function runs once on every CPU it was asked for, and   *)
(* xc_wait() returns after the last of these runs and not before.          *)
(***************************************************************************)
EXTENDS Naturals

CONSTANTS Callers, CPUs

VARIABLES todo,     \* where each caller's call has still to run
          status    \* of each call: "none", "posted" or "waited"

vars == <<todo, status>>

Init ==
    /\ todo = [t \in Callers |-> {}]
    /\ status = [t \in Callers |-> "none"]

\* xc_broadcast() or xc_unicast() takes effect.
Post(t, cpus) ==
    /\ status[t] = "none" /\ todo[t] = {}
    /\ todo' = [todo EXCEPT ![t] = cpus]
    /\ status' = [status EXCEPT ![t] = "posted"]

\* The function has run on a CPU.
Run(t, cpu) ==
    /\ cpu \in todo[t]
    /\ todo' = [todo EXCEPT ![t] = @ \ {cpu}]
    /\ UNCHANGED status

\* xc_wait() returns.
Return(t) ==
    /\ status[t] = "posted" /\ todo[t] = {}
    /\ status' = [status EXCEPT ![t] = "waited"]
    /\ UNCHANGED todo

\* The caller has no more interest in its call, whether it is over or not.
Forget(t) ==
    /\ status[t] # "none"
    /\ status' = [status EXCEPT ![t] = "none"]
    /\ UNCHANGED todo

Next ==
    \E t \in Callers :
        \/ \E cpus \in (SUBSET CPUs) \ {{}} : Post(t, cpus)
        \/ \E cpu \in CPUs : Run(t, cpu)
        \/ Return(t) \/ Forget(t)

\* Every CPU gets round to it.
Spec ==
    /\ Init /\ [][Next]_vars
    /\ \A t \in Callers, cpu \in CPUs : WF_vars(Run(t, cpu))
=============================================================================
