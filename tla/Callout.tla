------------------------------ MODULE Callout ------------------------------
(***************************************************************************)
(* Scheduling, calling, stopping and halting callouts on several CPUs      *)
(* (sys/kern/kern_timeout.c).  When a callout is due is CalloutWheel.tla's *)
(* business: here a CPU has one queue, the worklist and the wheels         *)
(* together, and any callout on it may be due.  A section under the CPU's  *)
(* cc_lock is one step.                                                    *)
(*                                                                         *)
(* Every callout function takes a lock, the interlock that a thread may    *)
(* hand to callout_halt().  The kernel lock, which the soft interrupt takes *)
(* around a function that is not MPSAFE, delays such a call: a CPU has to  *)
(* take a step of its own to get it.  A thread that holds it releases it   *)
(* before it sleeps, so nobody here can keep it for ever.                  *)
(***************************************************************************)
EXTENDS Naturals, FiniteSets

CONSTANTS Callouts, Threads, CPUs,
          CPU0,        \* the boot CPU, with callout_cpu0
          Mpsafe,      \* the callouts initialised with CALLOUT_MPSAFE
          None         \* no callout, nobody

ASSUME CalloutAssumption ==
    /\ CPU0 \in CPUs
    /\ Mpsafe \subseteq Callouts
    /\ None \notin Callouts \cup Threads \cup CPUs
    /\ Threads \cap CPUs = {}

VARIABLES c_cpu,        \* the CPU that each callout belongs to
          c_flags,      \* the set of its flags PENDING and FIRED; INVOKING is
                        \* read by callout_invoking() alone and left out
          cc_queue,     \* the callouts on each CPU's cc_todo and cc_wheel
          cc_active,    \* the callout each CPU's soft interrupt is calling
          cc_nwait,     \* how many threads it has to wake afterwards
          cc_sleepq,    \* the threads that sleep on the CPU's channel
          func,         \* where each CPU's soft interrupt is in that call
          th,           \* [pc, c, interlock, relock] of each thread
          interlock,    \* who holds the interlock
          revived,      \* history: callouts that their functions have
                        \* scheduled again while a thread halts them
          moved         \* history: MPSAFE callouts that have gone to another
                        \* CPU while in flight, and still are in flight

vars == <<c_cpu, c_flags, cc_queue, cc_active, cc_nwait, cc_sleepq, func, th,
          interlock, revived, moved>>
histVars == <<revived, moved>>
callVars == <<cc_active, cc_nwait, cc_sleepq, func>>

Idle == [pc |-> "idle", c |-> None, interlock |-> FALSE, relock |-> FALSE]
Halting(c) == \E t \in Threads : th[t].c = c
InFlight(c) == \E cpu \in CPUs : cc_active[cpu] = c
Bound(c) == c \notin Mpsafe

\* callout_init(): an MPSAFE callout belongs to the CPU it was initialised on
\* and may move; any other is CALLOUT_BOUND to the boot CPU.
Init ==
    /\ c_cpu \in {f \in [Callouts -> CPUs] : \A c \in Callouts : Bound(c) => f[c] = CPU0}
    /\ c_flags = [c \in Callouts |-> {}]
    /\ cc_queue = [cpu \in CPUs |-> {}]
    /\ cc_active = [cpu \in CPUs |-> None]
    /\ cc_nwait = [cpu \in CPUs |-> 0]
    /\ cc_sleepq = [cpu \in CPUs |-> {}]
    /\ func = [cpu \in CPUs |-> "none"]
    /\ th = [t \in Threads |-> Idle]
    /\ interlock = None
    /\ revived = {} /\ moved = {}

-----------------------------------------------------------------------------
(* callout_schedule() and callout_reset() *)

\* A callout may go to the scheduling CPU (if that CPU's lock is free) ...
Movable(c, curcpu) == ~Bound(c) /\ curcpu # c_cpu[c]

\* Mutant of NewCpus: a pending callout moves as well.
NewCpusMut(c, curcpu) ==
    IF Movable(c, curcpu) THEN {c_cpu[c], curcpu} ELSE {c_cpu[c]}

\* ... unless it is pending.  mutex_tryenter() may always fail.
NewCpus(c, curcpu) ==
    IF "PENDING" \notin c_flags[c] /\ Movable(c, curcpu)
    THEN {c_cpu[c], curcpu} ELSE {c_cpu[c]}

\* callout_schedule_locked()
Schedule(c, curcpu) ==
    /\ \E cpu \in NewCpus(c, curcpu) :
         /\ c_cpu' = [c_cpu EXCEPT ![c] = cpu]
         /\ moved' = IF cpu # c_cpu[c] /\ InFlight(c) /\ ~Bound(c)
                     THEN moved \cup {c} ELSE moved
         /\ cc_queue' = [cc_queue EXCEPT ![cpu] = @ \cup {c}]
    /\ c_flags' = [c_flags EXCEPT ![c] = (@ \ {"FIRED"}) \cup {"PENDING"}]

\* A thread schedules a callout.  While a thread halts it the others leave it
\* alone: nobody could say what halting it would mean.
ThreadSchedule(t, c, curcpu) ==
    /\ th[t].pc = "idle"
    /\ ~Halting(c)
    /\ Schedule(c, curcpu)
    /\ UNCHANGED <<callVars, interlock, th, revived>>

\* The function schedules its own callout.
FuncSchedule(cpu) ==
    /\ func[cpu] = "body"
    /\ Schedule(cc_active[cpu], cpu)
    /\ revived' = IF Halting(cc_active[cpu]) THEN revived \cup {cc_active[cpu]} ELSE revived
    /\ UNCHANGED <<callVars, interlock, th>>

-----------------------------------------------------------------------------
(* callout_stop() and callout_halt() *)

\* Mutant of Cancel: it is not taken off its queue.
CancelMut(c) ==
    /\ c_flags' = [c_flags EXCEPT ![c] = @ \ {"PENDING", "FIRED"}]
    /\ UNCHANGED cc_queue

\* What both begin with.
Cancel(c) ==
    /\ cc_queue' = IF "PENDING" \in c_flags[c]
                   THEN [cc_queue EXCEPT ![c_cpu[c]] = @ \ {c}] ELSE cc_queue
    /\ c_flags' = [c_flags EXCEPT ![c] = @ \ {"PENDING", "FIRED"}]

\* callout_stop(), by a thread.  cc_cancel, which it sets if the callout is
\* active, is read nowhere.
ThreadStop(t, c) ==
    /\ th[t].pc = "idle"
    /\ Cancel(c)
    /\ UNCHANGED <<c_cpu, callVars, interlock, th, histVars>>

\* The function stops its own callout with callout_stop().
FuncStop(cpu) ==
    /\ func[cpu] = "body"
    /\ Cancel(cc_active[cpu])
    /\ UNCHANGED <<c_cpu, callVars, interlock, th, histVars>>

\* callout_halt(c, interlock) or callout_halt(c, NULL) is entered, the caller
\* holding the interlock in the first case; up to the loop.
HaltStart(t, c, withInterlock) ==
    /\ th[t].pc = "idle"
    /\ withInterlock => interlock = None
    /\ interlock' = IF withInterlock THEN t ELSE interlock
    /\ Cancel(c)
    /\ th' = [th EXCEPT ![t] =
               [pc |-> "check", c |-> c, interlock |-> withInterlock, relock |-> FALSE]]
    /\ UNCHANGED <<c_cpu, callVars, histVars>>

\* Mutant of MustWait: the boot CPU is looked at instead of the callout's.
MustWaitMut(c) == cc_active[CPU0] = c

\* The callout is being called by its CPU, and not by us.
MustWait(c) == cc_active[c_cpu[c]] = c

\* The loop is left; an interlock that was dropped is to be taken again.
HaltLeave(t) ==
    /\ th[t].pc = "check"
    /\ ~MustWait(th[t].c)
    /\ th' = [th EXCEPT ![t].pc = IF th[t].relock THEN "relock" ELSE "halted"]
    /\ UNCHANGED <<c_cpu, c_flags, cc_queue, callVars, interlock, histVars>>

DropsInterlock(t) == th[t].interlock

\* The interlock is dropped, and then everything is looked at again.
HaltDropInterlock(t) ==
    /\ th[t].pc = "check"
    /\ MustWait(th[t].c)
    /\ DropsInterlock(t)
    /\ interlock' = None
    /\ th' = [th EXCEPT ![t].interlock = FALSE, ![t].relock = TRUE]
    /\ UNCHANGED <<c_cpu, c_flags, cc_queue, callVars, histVars>>

\* The thread sleeps on the CPU's channel; cc_lock is the sleep queue's lock.
HaltSleep(t) ==
    /\ th[t].pc = "check"
    /\ MustWait(th[t].c)
    /\ ~DropsInterlock(t)
    /\ LET cpu == c_cpu[th[t].c]
       IN  /\ cc_nwait' = [cc_nwait EXCEPT ![cpu] = @ + 1]
           /\ cc_sleepq' = [cc_sleepq EXCEPT ![cpu] = @ \cup {t}]
    /\ th' = [th EXCEPT ![t].pc = "asleep"]
    /\ UNCHANGED <<c_cpu, c_flags, cc_queue, cc_active, func, interlock, histVars>>

\* mutex_enter(relock)
HaltRelock(t) ==
    /\ th[t].pc = "relock"
    /\ interlock = None
    /\ interlock' = t
    /\ th' = [th EXCEPT ![t].pc = "halted", ![t].interlock = TRUE, ![t].relock = FALSE]
    /\ UNCHANGED <<c_cpu, c_flags, cc_queue, callVars, histVars>>

\* callout_halt() has returned and its caller goes on.
HaltReturn(t) ==
    /\ th[t].pc = "halted"
    /\ interlock' = IF th[t].interlock THEN None ELSE interlock
    /\ th' = [th EXCEPT ![t] = Idle]
    /\ revived' = IF \E k \in Threads \ {t} : th[k].c = th[t].c
                  THEN revived ELSE revived \ {th[t].c}
    /\ UNCHANGED <<c_cpu, c_flags, cc_queue, callVars, moved>>

-----------------------------------------------------------------------------
(* callout_softclock() *)

\* A due callout is taken off the worklist and becomes the active one.
SoftClockTake(cpu, c) ==
    /\ cc_active[cpu] = None
    /\ c \in cc_queue[cpu]
    /\ cc_queue' = [cc_queue EXCEPT ![cpu] = @ \ {c}]
    /\ c_flags' = [c_flags EXCEPT ![c] = (@ \ {"PENDING"}) \cup {"FIRED"}]
    /\ cc_active' = [cc_active EXCEPT ![cpu] = c]
    /\ func' = [func EXCEPT ![cpu] = IF c \in Mpsafe THEN "called" ELSE "biglock"]
    /\ UNCHANGED <<c_cpu, cc_nwait, cc_sleepq, interlock, th, histVars>>

\* KERNEL_LOCK(1, NULL), and the function is called.
SoftClockBigLock(cpu) ==
    /\ func[cpu] = "biglock"
    /\ func' = [func EXCEPT ![cpu] = "called"]
    /\ UNCHANGED <<c_cpu, c_flags, cc_queue, cc_active, cc_nwait, cc_sleepq,
                   th, interlock, histVars>>

\* The function takes its lock ...
FuncEnter(cpu) ==
    /\ func[cpu] = "called"
    /\ interlock = None
    /\ interlock' = cpu
    /\ func' = [func EXCEPT ![cpu] = "body"]
    /\ UNCHANGED <<c_cpu, c_flags, cc_queue, cc_active, cc_nwait, cc_sleepq,
                   th, histVars>>

\* ... releases it and returns, and KERNEL_UNLOCK_ONE().
FuncReturn(cpu) ==
    /\ func[cpu] = "body"
    /\ interlock' = None
    /\ func' = [func EXCEPT ![cpu] = "returned"]
    /\ UNCHANGED <<c_cpu, c_flags, cc_queue, cc_active, cc_nwait, cc_sleepq, th, histVars>>

\* Mutant of WakeCount: sleepq_wake() is always told to wake one.
WakeCountMut(cpu) == 1

\* How many sleepers sleepq_wake() is told to wake.
WakeCount(cpu) == cc_nwait[cpu]

\* Back under cc_lock: nothing is active, and the waiting threads are woken.
SoftClockDone(cpu) ==
    /\ func[cpu] = "returned"
    /\ cc_active' = [cc_active EXCEPT ![cpu] = None]
    /\ func' = [func EXCEPT ![cpu] = "none"]
    /\ cc_nwait' = [cc_nwait EXCEPT ![cpu] = 0]
    /\ \E woken \in SUBSET cc_sleepq[cpu] :
         /\ Cardinality(woken) = IF cc_nwait[cpu] = 0 THEN 0 ELSE WakeCount(cpu)
         /\ cc_sleepq' = [cc_sleepq EXCEPT ![cpu] = @ \ woken]
         /\ th' = [t \in Threads |-> IF t \in woken THEN [th[t] EXCEPT !.pc = "check"]
                                                    ELSE th[t]]
    /\ moved' = IF \E k \in CPUs \ {cpu} : cc_active[k] = cc_active[cpu]
                THEN moved ELSE moved \ {cc_active[cpu]}
    /\ UNCHANGED <<c_cpu, c_flags, cc_queue, interlock, revived>>

-----------------------------------------------------------------------------
ThreadNext(t) ==
    \/ \E c \in Callouts :
         \/ ThreadStop(t, c)
         \/ \E curcpu \in CPUs : ThreadSchedule(t, c, curcpu)
         \/ \E withInterlock \in BOOLEAN : HaltStart(t, c, withInterlock)
    \/ HaltLeave(t) \/ HaltDropInterlock(t) \/ HaltSleep(t)
    \/ HaltRelock(t) \/ HaltReturn(t)

SoftInt(cpu) ==
    \/ \E c \in Callouts : SoftClockTake(cpu, c)
    \/ SoftClockBigLock(cpu) \/ FuncEnter(cpu) \/ FuncSchedule(cpu)
    \/ FuncStop(cpu) \/ FuncReturn(cpu) \/ SoftClockDone(cpu)

Next == (\E t \in Threads : ThreadNext(t)) \/ (\E cpu \in CPUs : SoftInt(cpu))

\* The soft interrupt gets on with a call, the function comes to an end, threads
\* leave their critical sections, and the two locks do not starve anybody.
Spec ==
    /\ Init /\ [][Next]_vars
    /\ \A cpu \in CPUs :
         /\ WF_vars(SoftClockBigLock(cpu)) /\ SF_vars(FuncEnter(cpu))
         /\ WF_vars(FuncReturn(cpu)) /\ WF_vars(SoftClockDone(cpu))
    /\ \A t \in Threads :
         /\ WF_vars(HaltLeave(t) \/ HaltDropInterlock(t) \/ HaltSleep(t))
         /\ SF_vars(HaltRelock(t))
         /\ WF_vars(HaltReturn(t))

-----------------------------------------------------------------------------
\* A CPU's queue holds the callouts that are pending on it: callout_softclock()
\* asserts that what it finds there is PENDING, not FIRED, and its own, and
\* CIRCQ_REMOVE() relies on PENDING saying whether there is a list to leave.
QueuesAgree ==
    \A c \in Callouts, cpu \in CPUs :
        /\ c \in cc_queue[cpu] <=> "PENDING" \in c_flags[c] /\ c_cpu[c] = cpu
        /\ c \in cc_queue[cpu] => "FIRED" \notin c_flags[c]

\* In this step callout_halt() leaves its loop.
LeavesLoop(t) == th[t].pc = "check" /\ th'[t].pc \in {"relock", "halted"}

\* When callout_halt() leaves its loop no CPU is calling the callout, if it was
\* not moved while it was called.
HaltWaits ==
    [][\A t \in Threads : LeavesLoop(t) => th[t].c \in moved \/ ~InFlight(th[t].c)]_vars

\* "If in-flight, block until it completes", as the comment on callout_halt()
\* says of every callout.  It does not hold: the loop looks at c->c_cpu alone,
\* and callout_schedule() on another CPU moves a callout that is in flight.
HaltBlocks ==
    [][\A t \in Threads : LeavesLoop(t) => ~InFlight(th[t].c)]_vars

\* "Cancel a pending callout": from then on the callout is not pending and not
\* in flight, as callout_destroy() asserts, if its function has not scheduled it
\* again while callout_halt() was waiting.
HaltCancels ==
    \A t \in Threads :
        th[t].pc \in {"relock", "halted"} /\ th[t].c \notin revived \cup moved =>
            "PENDING" \notin c_flags[th[t].c] /\ ~InFlight(th[t].c)

\* callout_halt() returns: no wakeup is lost, and dropping the interlock keeps
\* the thread and the function from waiting for each other.
HaltReturns ==
    \A t \in Threads :
        th[t].pc = "check" ~> th[t].pc = "halted" \/ th[t].c \in revived
=============================================================================
