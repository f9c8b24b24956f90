------------------------------- MODULE Psref -------------------------------
(***************************************************************************)
(* Passive references (sys/kern/subr_psref.c) to one target.  A reference  *)
(* is an entry in a list that belongs to a CPU, changed by that CPU only,  *)
(* with interrupts blocked; the thread that holds it stays on that CPU.    *)
(* Whoever destroys the target asks all CPUs by a cross call whether they  *)
(* still have an entry, and asks again after a wakeup or a clock tick.     *)
(*                                                                         *)
(* Of the cross call only what Xcall.tla shows is used: each CPU runs the  *)
(* function once between xc_broadcast() and the return of xc_wait().       *)
(***************************************************************************)
EXTENDS Naturals, FiniteSets

CONSTANTS CPUs,
          Psrefs   \* the struct psrefs of the threads on each CPU

ASSUME PsrefAssumption == CPUs # {} /\ IsFiniteSet(CPUs)

VARIABLES pcpu_head,     \* the entries for the target in each CPU's list
          releasing,     \* the entries, with their CPUs, that psref_release()
                         \* has removed without having looked at prt_draining
          prt_draining,
          destroyer,     \* where psref_target_destroy() is
          asked,         \* the CPUs that have not run psreffed_p_xc() yet
          ret            \* P.ret: some CPU said yes

vars == <<pcpu_head, releasing, prt_draining, destroyer, asked, ret>>

\* psref_target_init()
Init ==
    /\ pcpu_head = [cpu \in CPUs |-> {}]
    /\ releasing = {}
    /\ prt_draining = FALSE
    /\ destroyer = "idle"
    /\ asked = {}
    /\ ret = FALSE

-----------------------------------------------------------------------------
(* Users *)

\* The struct psref is free, and no psref_release() of it is under way.
Unused(cpu, r) == r \notin pcpu_head[cpu] /\ <<cpu, r>> \notin releasing

\* A new entry for the target in this CPU's list
Record(cpu, r) ==
    /\ Unused(cpu, r)
    /\ pcpu_head' = [pcpu_head EXCEPT ![cpu] = @ \cup {r}]
    /\ UNCHANGED <<releasing, prt_draining, destroyer, asked, ret>>

\* psref_acquire(): only before the target is being destroyed, says its
\* contract.  IfnetRefs.tla shows how its callers keep it.
Acquire(cpu, r) == destroyer = "idle" /\ Record(cpu, r)

\* psref_copy(), also while the target is being destroyed
Copy(cpu, from, to) == from \in pcpu_head[cpu] /\ Record(cpu, to)

\* psref_release() removes the entry ...
ReleaseRemove(cpu, r) ==
    /\ r \in pcpu_head[cpu]
    /\ pcpu_head' = [pcpu_head EXCEPT ![cpu] = @ \ {r}]
    /\ releasing' = releasing \cup {<<cpu, r>>}
    /\ UNCHANGED <<prt_draining, destroyer, asked, ret>>

\* psreffed_p() begins: the question goes out to all CPUs.
Ask == destroyer' = "asking" /\ asked' = CPUs /\ ret' = FALSE

\* ... and, with interrupts and preemption enabled again, reads target->prt_draining and wakes
\* the destroyer if it is asleep.  prc_lock is not held.
ReleaseNotify(cpu, r) ==
    /\ <<cpu, r>> \in releasing
    /\ releasing' = releasing \ {<<cpu, r>>}
    /\ IF prt_draining /\ destroyer = "asleep" THEN Ask
       ELSE UNCHANGED <<destroyer, asked, ret>>
    /\ UNCHANGED <<pcpu_head, prt_draining>>

-----------------------------------------------------------------------------
(* psref_target_destroy() *)

DestroyStart ==
    /\ destroyer = "idle"
    /\ prt_draining' = TRUE
    /\ Ask
    /\ UNCHANGED <<pcpu_head, releasing>>

\* _psref_held(): this CPU has an entry.
PsrefHeld(cpu) == pcpu_head[cpu] # {}

\* Mutant of Verdict: P->ret = _psref_held(...), so that the CPU that answers
\* last has the say.
VerdictMut(cpu) == PsrefHeld(cpu)

\* P->ret after this CPU: "every write transitions from false to true"
Verdict(cpu) == ret \/ PsrefHeld(cpu)

\* psreffed_p_xc() on one CPU
Answer(cpu) ==
    /\ cpu \in asked
    /\ asked' = asked \ {cpu}
    /\ ret' = Verdict(cpu)
    /\ UNCHANGED <<pcpu_head, releasing, prt_draining, destroyer>>

\* xc_wait() has returned: done, or on to the timed wait.
Decide ==
    /\ destroyer = "asking" /\ asked = {}
    /\ destroyer' = IF ret THEN "sleep" ELSE "destroyed"
    /\ UNCHANGED <<pcpu_head, releasing, prt_draining, asked, ret>>

\* cv_timedwait(&class->prc_cv, &class->prc_lock, 1): a broadcast before this
\* step is lost.
Sleep ==
    /\ destroyer = "sleep"
    /\ destroyer' = "asleep"
    /\ UNCHANGED <<pcpu_head, releasing, prt_draining, asked, ret>>

\* Mutant of TimesOut: cv_wait() instead of cv_timedwait().
TimesOutMut == FALSE

TimesOut == destroyer = "asleep"

\* A tick has passed.
Timeout ==
    /\ TimesOut
    /\ Ask
    /\ UNCHANGED <<pcpu_head, releasing, prt_draining>>

\* The caller frees the target and initialises another one.
Renew ==
    /\ destroyer = "destroyed" /\ releasing = {}
    /\ destroyer' = "idle" /\ prt_draining' = FALSE
    /\ UNCHANGED <<pcpu_head, releasing, asked, ret>>

-----------------------------------------------------------------------------
Next ==
    \/ \E cpu \in CPUs :
         \/ \E r \in Psrefs :
              Acquire(cpu, r) \/ ReleaseRemove(cpu, r) \/ ReleaseNotify(cpu, r)
         \/ \E from, to \in Psrefs : Copy(cpu, from, to)
         \/ Answer(cpu)
    \/ DestroyStart \/ Decide \/ Sleep \/ Timeout \/ Renew

\* The destroyer and the cross call make progress, and the clock ticks.
Spec ==
    /\ Init /\ [][Next]_vars
    /\ WF_vars(Decide) /\ WF_vars(Sleep) /\ WF_vars(Timeout)
    /\ \A cpu \in CPUs : WF_vars(Answer(cpu))

-----------------------------------------------------------------------------
\* Every variable has its type.
TypeOK ==
    /\ pcpu_head \in [CPUs -> SUBSET Psrefs]
    /\ releasing \subseteq CPUs \X Psrefs
    /\ prt_draining \in BOOLEAN
    /\ destroyer \in {"idle", "asking", "sleep", "asleep", "destroyed"}
    /\ asked \subseteq CPUs
    /\ ret \in BOOLEAN

\* psref_target_destroy() "Waits for all existing references to drain": none is
\* left when it returns, although the CPUs answer one after the other and
\* references are copied meanwhile.
DestroyWaits == destroyer = "destroyed" => \A cpu \in CPUs : pcpu_head[cpu] = {}

\* A CPU that has answered no has no entries and gets none while the others
\* are asked: psref_acquire() is over, and psref_copy() needs an entry to copy.
AnsweredNoStaysNo ==
    destroyer = "asking" /\ ~ret => \A cpu \in CPUs \ asked : pcpu_head[cpu] = {}

\* The inductive invariant behind DestroyWaits.
Inv == TypeOK /\ AnsweredNoStaysNo /\ DestroyWaits

\* Once the references are gone psref_target_destroy() returns, although the
\* wakeup may come between its question and its sleep.
DestroyReturns ==
    prt_draining /\ (\A cpu \in CPUs : pcpu_head[cpu] = {}) ~> destroyer = "destroyed"
=============================================================================
