------------------------------- MODULE Xcall -------------------------------
(***************************************************************************)
(* Cross calls (sys/kern/subr_xcall.c): a thread has a function run on one *)
(* or on all CPUs and may wait until that has happened.  There is one      *)
(* state box for each of the two priorities, with room for one call;       *)
(* xc_headp counts the runs that were asked for and xc_donep those that    *)
(* are over, and the value of xc_headp is the caller's ticket.             *)
(*                                                                         *)
(* The two boxes do not interact.  This module is about one of them: the   *)
(* low priority one, served by a thread on each CPU, or the high priority  *)
(* one, served by a soft interrupt that an IPI requests.  A section under  *)
(* xc_lock is one step.                                                    *)
(***************************************************************************)
EXTENDS Naturals, FiniteSets

CONSTANTS Callers, CPUs,
          Running,    \* the CPUs with SPCF_RUNNING set
          None,
          MaxHead     \* bound: no new call once xc_headp has got here; no
                      \* property may rest on the calls coming to an end

ASSUME XcallAssumption ==
    /\ IsFiniteSet(CPUs) /\ Running \subseteq CPUs /\ Running # {}
    /\ None \notin Callers
    /\ MaxHead \in Nat

VARIABLES pri,        \* which box this is: "low" or "high"
          xc_headp, xc_donep,
          xc_func,    \* the box: whose call it holds
          xc_busy,    \* the callers that sleep on the condition variable
          pending,    \* the CPUs with cpu_xcall_pending
          serve,      \* [pc, func] of each CPU's thread or soft interrupt
          call,       \* [pc, cpus, where] of each caller
          todo        \* history: where each caller's call has still to run

vars == <<pri, xc_headp, xc_donep, xc_func, xc_busy, pending, serve, call, todo>>

HighPri == pri = "high"

\* A broadcast is for the running CPUs at low priority, for all ncpu at high.
Everyone == IF HighPri THEN CPUs ELSE Running
Targets == {Everyone} \cup {{cpu} : cpu \in Everyone}
Serve(label, f) == [pc |-> label, func |-> f]

\* xc_init(): the threads of the low priority box start at the top of their loop.
Init ==
    /\ pri \in {"low", "high"}
    /\ xc_headp = 0 /\ xc_donep = 0
    /\ xc_func = None /\ xc_busy = {}
    /\ pending = {}
    /\ serve = [cpu \in CPUs |-> Serve(IF HighPri THEN "none" ELSE "top", None)]
    /\ call = [t \in Callers |-> [pc |-> "idle", cpus |-> {}, where |-> 0]]
    /\ todo = [t \in Callers |-> {}]

-----------------------------------------------------------------------------
(* xc_broadcast() and xc_unicast() *)

StartCall(t, cpus) ==
    /\ call[t].pc = "idle"
    /\ xc_headp < MaxHead
    /\ call' = [call EXCEPT ![t] = [pc |-> "call", cpus |-> cpus, where |-> 0]]
    /\ UNCHANGED <<pri, xc_headp, xc_donep, xc_func, xc_busy, pending, serve, todo>>

\* Mutant of Busy: a call that waits for its last run is taken for done.
BusyMut == xc_headp > xc_donep + 1

\* xc->xc_headp != xc->xc_donep
Busy == xc_headp # xc_donep

\* Another call is in the box: cv_wait(&xc->xc_busy).
CallSleep(t) ==
    /\ call[t].pc = "call"
    /\ Busy
    /\ xc_busy' = xc_busy \cup {t}
    /\ call' = [call EXCEPT ![t].pc = "call_asleep"]
    /\ UNCHANGED <<pri, xc_headp, xc_donep, xc_func, pending, serve, todo>>

\* Fill the box, count the runs and take the ticket.  At low priority the
\* threads are told now (cv_signal), at high priority after the unlock.
CallPost(t) ==
    /\ call[t].pc = "call"
    /\ ~Busy
    /\ xc_func' = t
    /\ xc_headp' = xc_headp + Cardinality(call[t].cpus)
    /\ todo' = [todo EXCEPT ![t] = call[t].cpus]
    /\ call' = [call EXCEPT ![t].pc = IF HighPri THEN "send" ELSE "ticket",
                            ![t].where = xc_headp']
    /\ IF HighPri THEN UNCHANGED <<pending, serve>>
       ELSE /\ pending' = pending \cup call[t].cpus
            /\ serve' = [cpu \in CPUs |->
                 IF cpu \in call[t].cpus /\ serve[cpu].pc = "asleep"
                 THEN Serve("top", None) ELSE serve[cpu]]
    /\ UNCHANGED <<pri, xc_donep, xc_busy>>

\* xc_highpri() sends the IPIs, and handles the local CPU's share itself.
CallSend(t) ==
    /\ call[t].pc = "send"
    /\ serve' = [cpu \in CPUs |-> IF cpu \in call[t].cpus THEN Serve("ipi", None)
                                                          ELSE serve[cpu]]
    /\ call' = [call EXCEPT ![t].pc = "ticket"]
    /\ UNCHANGED <<pri, xc_headp, xc_donep, xc_func, xc_busy, pending, todo>>

\* A caller need not wait for its call.
DropTicket(t) ==
    /\ call[t].pc \in {"ticket", "waited"}
    /\ call' = [call EXCEPT ![t] = [pc |-> "idle", cpus |-> {}, where |-> 0]]
    /\ UNCHANGED <<pri, xc_headp, xc_donep, xc_func, xc_busy, pending, serve, todo>>

-----------------------------------------------------------------------------
(* xc_wait() *)

\* Mutant of Done: any progress since the call was posted will do.
DoneMut(t) == xc_donep + 1 >= call[t].where

\* xc->xc_donep >= where
Done(t) == xc_donep >= call[t].where

\* The fast path looks without the lock; if the call is not done ...
WaitFast(t) ==
    /\ call[t].pc = "ticket"
    /\ call' = [call EXCEPT ![t].pc = IF Done(t) THEN "waited" ELSE "wait"]
    /\ UNCHANGED <<pri, xc_headp, xc_donep, xc_func, xc_busy, pending, serve, todo>>

\* ... look under the lock, and sleep until it is.
WaitSlow(t) ==
    /\ call[t].pc = "wait"
    /\ call' = [call EXCEPT ![t].pc = IF Done(t) THEN "waited" ELSE "wait_asleep"]
    /\ xc_busy' = IF Done(t) THEN xc_busy ELSE xc_busy \cup {t}
    /\ UNCHANGED <<pri, xc_headp, xc_donep, xc_func, pending, serve, todo>>

-----------------------------------------------------------------------------
(* The CPUs' side *)

\* cv_broadcast(&xc->xc_busy): the sleepers go back to their loops.
BroadcastIf(cond) ==
    IF cond
    THEN /\ xc_busy' = {}
         /\ call' = [t \in Callers |->
              IF t \notin xc_busy THEN call[t]
              ELSE [call[t] EXCEPT !.pc = IF @ = "call_asleep" THEN "call" ELSE "wait"]]
    ELSE UNCHANGED <<xc_busy, call>>

\* Mutant of AllDone: the run that was just counted is forgotten.
AllDoneMut(donep) == xc_headp = donep - 1

\* xc->xc_headp == xc->xc_donep
AllDone(donep) == xc_headp = donep

\* xc_thread(): something to do.
ThreadTake(cpu) ==
    /\ serve[cpu].pc = "top"
    /\ cpu \in pending
    /\ pending' = pending \ {cpu}
    /\ serve' = [serve EXCEPT ![cpu] = Serve("run", xc_func)]
    /\ UNCHANGED <<pri, xc_headp, xc_donep, xc_func, xc_busy, call, todo>>

\* xc_thread(): nothing to do.  The call may be over: wake everybody, sleep.
ThreadSleep(cpu) ==
    /\ serve[cpu].pc = "top"
    /\ cpu \notin pending
    /\ BroadcastIf(AllDone(xc_donep))
    /\ serve' = [serve EXCEPT ![cpu] = Serve("asleep", None)]
    /\ UNCHANGED <<pri, xc_headp, xc_donep, xc_func, pending, todo>>

\* The function has run; the thread takes xc_lock, counts the run and goes on
\* to the top of its loop, all under the lock.
ThreadDone(cpu) ==
    /\ serve[cpu].pc = "run" /\ ~HighPri
    /\ xc_donep' = xc_donep + 1
    /\ todo' = [todo EXCEPT ![serve[cpu].func] = @ \ {cpu}]
    /\ IF cpu \in pending
         THEN /\ pending' = pending \ {cpu}
              /\ serve' = [serve EXCEPT ![cpu] = Serve("run", xc_func)]
              /\ UNCHANGED <<xc_busy, call>>
         ELSE /\ BroadcastIf(AllDone(xc_donep'))
              /\ serve' = [serve EXCEPT ![cpu] = Serve("asleep", None)]
              /\ UNCHANGED pending
    /\ UNCHANGED <<pri, xc_headp, xc_func>>

\* xc_ipi_handler() schedules the soft interrupt.
IpiHandler(cpu) ==
    /\ serve[cpu].pc = "ipi"
    /\ serve' = [serve EXCEPT ![cpu] = Serve("soft", None)]
    /\ UNCHANGED <<pri, xc_headp, xc_donep, xc_func, xc_busy, pending, call, todo>>

\* xc__highpri_intr() fetches the function without the lock and runs it.
IntrRun(cpu) ==
    /\ serve[cpu].pc = "soft"
    /\ serve' = [serve EXCEPT ![cpu] = Serve("run", xc_func)]
    /\ UNCHANGED <<pri, xc_headp, xc_donep, xc_func, xc_busy, pending, call, todo>>

\* ++xc->xc_donep == xc->xc_headp
LastRun == xc_donep + 1 = xc_headp

\* ... counts it, and the last one wakes everybody.
IntrDone(cpu) ==
    /\ serve[cpu].pc = "run" /\ HighPri
    /\ xc_donep' = xc_donep + 1
    /\ todo' = [todo EXCEPT ![serve[cpu].func] = @ \ {cpu}]
    /\ BroadcastIf(LastRun)
    /\ serve' = [serve EXCEPT ![cpu] = Serve("none", None)]
    /\ UNCHANGED <<pri, xc_headp, xc_func, pending>>

-----------------------------------------------------------------------------
CallerStep(t) == CallSleep(t) \/ CallPost(t) \/ CallSend(t) \/ WaitSlow(t)
CpuStep(cpu) ==
    \/ ThreadTake(cpu) \/ ThreadSleep(cpu) \/ ThreadDone(cpu)
    \/ IpiHandler(cpu) \/ IntrRun(cpu) \/ IntrDone(cpu)

Next ==
    \/ \E t \in Callers :
         \/ \E cpus \in Targets : StartCall(t, cpus)
         \/ DropTicket(t) \/ WaitFast(t) \/ CallerStep(t)
    \/ \E cpu \in CPUs : CpuStep(cpu)

\* Threads and interrupts run, and the functions they call return.
Spec == /\ Init /\ [][Next]_vars
        /\ \A t \in Callers : WF_vars(CallerStep(t))
        /\ \A cpu \in CPUs : WF_vars(CpuStep(cpu))

-----------------------------------------------------------------------------
\* The CPUs that have still to run the call in the box
Outstanding ==
    {cpu \in CPUs : \/ cpu \in pending
                    \/ serve[cpu].pc \in {"ipi", "soft", "run"}
                    \/ \E t \in Callers : call[t].pc = "send" /\ cpu \in call[t].cpus}

\* The two counters are exactly as far apart as there are runs outstanding, all
\* of them runs of the call in the box: no CPU misses a call, runs one twice
\* or fetches the next caller's function ("Safe since it cannot change at this
\* point"), and the counters never pass each other (KASSERT donep < headp).
BoxAccounted ==
    /\ xc_headp - xc_donep = Cardinality(Outstanding)
    /\ \A t \in Callers : todo[t] = IF t = xc_func THEN Outstanding ELSE {}
    /\ \A cpu \in CPUs : serve[cpu].pc = "run" => serve[cpu].func = xc_func

\* A call is posted when it is in the box, and waited for when xc_wait() is left.
CallStatus(t) ==
    CASE call[t].pc \in {"idle", "call", "call_asleep"} -> "none"
      [] call[t].pc \in {"send", "ticket", "wait", "wait_asleep"} -> "posted"
      [] call[t].pc = "waited" -> "waited"

Abstract == INSTANCE CrossCall WITH status <- [t \in Callers |-> CallStatus(t)]

\* The box, its two counters and the tickets implement cross calls: each call
\* runs once on each CPU it is for, although the box is used again as soon as the
\* counters meet and xc_wait() looks at the counters alone, without the lock or
\* after a wakeup meant for somebody else; and every run takes place.
ImplementsCrossCall == Abstract!Spec

WaitsForBox(t) == call[t].pc \in {"call", "call_asleep"}

\* The box does not stand empty while callers wait for it: there are always
\* times when none waits, or the box is filled again and again.  The code does
\* not promise a given caller its turn, since one that is woken may find that
\* another has filled the box, every time.  And xc_wait() returns: a ticket that
\* is done stays done, whoever uses the box next.
CallsComplete ==
    /\ \/ []<>(\A t \in Callers : ~WaitsForBox(t))
       \/ []<><<\E t \in Callers : CallPost(t)>>_vars
    /\ \A t \in Callers : call[t].pc = "wait" ~> call[t].pc = "waited"
=============================================================================
