----------------------------- MODULE Localcount -----------------------------
(***************************************************************************)
(* CPU-local reference counts (sys/kern/subr_localcount.c).  A reference   *)
(* may be acquired on one CPU and released on another, so that a CPU's     *)
(* count alone means nothing and may be negative.  localcount_drain() has  *)
(* every CPU add its count to a total, by a cross call, and then waits for *)
(* the total to reach zero; releases go to the total from the moment they  *)
(* see that there is one.                                                  *)
(*                                                                         *)
(* A low priority cross call runs in a thread, so it cannot run on a CPU   *)
(* between kpreempt_disable() and kpreempt_enable().                       *)
(***************************************************************************)
EXTENDS Integers, FiniteSets, FiniteSetsExt

CONSTANTS CPUs,
          MaxRefs,  \* bound on the number of references
          MaxLocal  \* bound on a CPU's count, up and down

ASSUME LocalcountAssumption ==
    CPUs # {} /\ IsFiniteSet(CPUs) /\ {MaxRefs, MaxLocal} \subseteq Nat

VARIABLES lc_percpu,  \* each CPU's count
          lc_totalp,  \* "null", "total" or "dead" (the pointer 1)
          total,      \* localcount_drain()'s local variable
          refs,       \* history: how many references there are
          fast,       \* the CPUs on which a release has seen a null lc_totalp
                      \* and not yet changed the CPU's count
          slow,       \* how many releases have seen another lc_totalp and wait
                      \* for the interlock
          asked,      \* the CPUs that have not run localcount_xc() yet
          drainer     \* where localcount_drain() is

lcVars == <<lc_percpu, lc_totalp, total, refs, fast, slow, asked, drainer>>

\* localcount_init()
LcInit ==
    /\ lc_percpu = [cpu \in CPUs |-> 0]
    /\ lc_totalp = "null" /\ total = 0
    /\ refs = 0 /\ fast = {} /\ slow = 0
    /\ asked = {}
    /\ drainer = "idle"

\* localcount_adjust()
Adjust(cpu, delta) == lc_percpu' = [lc_percpu EXCEPT ![cpu] = @ + delta]

-----------------------------------------------------------------------------
\* localcount_acquire(), which must not meet a localcount_drain()
Acquire(cpu) ==
    /\ lc_totalp = "null"
    /\ refs < MaxRefs /\ lc_percpu[cpu] < MaxLocal
    /\ Adjust(cpu, 1)
    /\ refs' = refs + 1
    /\ UNCHANGED <<lc_totalp, total, fast, slow, asked, drainer>>

\* localcount_release() on some CPU: preemption is disabled and lc_totalp is
\* read.  Every reference is released once.
ReleaseTest(cpu) ==
    /\ refs > Cardinality(fast) + slow
    /\ cpu \notin fast
    /\ lc_percpu[cpu] > -MaxLocal
    /\ IF lc_totalp = "null" THEN fast' = fast \cup {cpu} /\ UNCHANGED slow
                             ELSE slow' = slow + 1 /\ UNCHANGED fast
    /\ UNCHANGED <<lc_percpu, lc_totalp, total, refs, asked, drainer>>

\* The CPU's own count goes down, and preemption is enabled again.
ReleaseFast(cpu) ==
    /\ cpu \in fast
    /\ Adjust(cpu, -1)
    /\ fast' = fast \ {cpu}
    /\ refs' = refs - 1
    /\ UNCHANGED <<lc_totalp, total, slow, asked, drainer>>

\* Mutant of LastReference: the value before the decrement is looked at.
LastReferenceMut == total = 0

\* --*lc->lc_totalp == 0
LastReference == total = 1

\* The total goes down, under the interlock; the last one wakes the drainer.
ReleaseSlow ==
    /\ slow > 0
    /\ total' = total - 1
    /\ drainer' = IF LastReference /\ drainer = "asleep" THEN "check" ELSE drainer
    /\ slow' = slow - 1
    /\ refs' = refs - 1
    /\ UNCHANGED <<lc_percpu, lc_totalp, fast, asked>>

-----------------------------------------------------------------------------
(* localcount_drain() *)

\* Mark it draining, drop the interlock and broadcast the cross call.
DrainStart ==
    /\ lc_totalp = "null"
    /\ lc_totalp' = "total" /\ total' = 0
    /\ asked' = CPUs
    /\ drainer' = "xc"
    /\ UNCHANGED <<lc_percpu, refs, fast, slow>>

\* Mutant of MayRun: localcount_release() does not disable preemption.
MayRunMut(cpu) == TRUE

\* The cross call thread gets the CPU.
MayRun(cpu) == cpu \notin fast

\* localcount_xc(), under the interlock
CountUp(cpu) ==
    /\ cpu \in asked
    /\ MayRun(cpu)
    /\ total' = total + lc_percpu[cpu]
    /\ lc_percpu' = [lc_percpu EXCEPT ![cpu] = 0]
    /\ asked' = asked \ {cpu}
    /\ UNCHANGED <<lc_totalp, refs, fast, slow, drainer>>

\* xc_wait() returns and the interlock is taken again.
DrainCounted ==
    /\ drainer = "xc" /\ asked = {}
    /\ drainer' = "check"
    /\ UNCHANGED <<lc_percpu, lc_totalp, total, refs, fast, slow, asked>>

\* Mutant of Remaining: the drainer does not wait for the last reference.
RemainingMut == total > 1

Remaining == total # 0

\* while (total != 0) cv_wait(cv, interlock)
DrainCheck ==
    /\ drainer = "check"
    /\ drainer' = IF Remaining THEN "asleep" ELSE "drained"
    /\ lc_totalp' = IF Remaining THEN lc_totalp ELSE "dead"
    /\ UNCHANGED <<lc_percpu, total, refs, fast, slow, asked>>

\* localcount_fini(), and localcount_init() of another one
Renew ==
    /\ drainer = "drained"
    /\ lc_percpu' = [cpu \in CPUs |-> 0]
    /\ lc_totalp' = "null" /\ total' = 0
    /\ drainer' = "idle"
    /\ UNCHANGED <<refs, fast, slow, asked>>

-----------------------------------------------------------------------------
LcNext ==
    \/ \E cpu \in CPUs :
         Acquire(cpu) \/ ReleaseTest(cpu) \/ ReleaseFast(cpu) \/ CountUp(cpu)
    \/ ReleaseSlow \/ DrainStart \/ DrainCounted \/ DrainCheck \/ Renew

\* References are released, releases and the cross call get on.
LcFairness ==
    /\ WF_lcVars(\E cpu \in CPUs : ReleaseTest(cpu))
    /\ WF_lcVars(ReleaseSlow) /\ WF_lcVars(DrainCounted) /\ WF_lcVars(DrainCheck)
    /\ \A cpu \in CPUs : WF_lcVars(ReleaseFast(cpu)) /\ WF_lcVars(CountUp(cpu))

LcSpec == LcInit /\ [][LcNext]_lcVars /\ LcFairness

-----------------------------------------------------------------------------
LocalSum == MapThenSumSet(LAMBDA cpu : lc_percpu[cpu], CPUs)

\* Wherever references are acquired and released, the CPUs' counts and the total
\* add up to the number of references; and once every CPU has counted, all of
\* them are in the total, which is then not negative (the KASSERTMSG).
CountsAddUp ==
    /\ total + LocalSum = refs
    /\ drainer \in {"check", "asleep"} => \A cpu \in CPUs : lc_percpu[cpu] = 0

\* localcount_drain() returns only when there are no references, and no release
\* that would still use lc_totalp, which pointed to its stack.
DrainWaits == drainer = "drained" => refs = 0 /\ fast = {} /\ slow = 0

\* localcount_drain() returns once its references are released.
DrainReturns == drainer = "xc" ~> drainer = "drained"
=============================================================================
