--------------------------- MODULE AdaptiveMutex ---------------------------
(***************************************************************************)
(* The adaptive mutex of sys/kern/kern_mutex.c on a multiprocessor, with   *)
(* the scheduler it depends on.  mutex_exit() releases an uncontended      *)
(* mutex by a test and a plain store, which can wipe out a waiters bit set *)
(* between the two; mutex_vector_enter() therefore sets the bit, then asks *)
(* again whether the owner is on a CPU, then asks again whether the bit is *)
(* still there, and sleeps only after both.                                *)
(*                                                                         *)
(* The turnstile of the mutex (kern_turnstile.c) appears as its chain lock *)
(* and the set of threads asleep on its writer queue.                      *)
(***************************************************************************)
EXTENDS Naturals, FiniteSets

CONSTANTS Lwps,       \* the threads that use the mutex
          NoLwp,      \* the zero owner field
          NCPU        \* how many CPUs the machine has

ASSUME MutexAssumption == NoLwp \notin Lwps /\ NCPU \in Nat \ {0}

VARIABLES mtx_owner,  \* the lock word: [lwp, waiters (MUTEX_BIT_WAITERS)]
          tc_mutex,   \* the holder of the turnstile chain lock
          sleepers,   \* the threads on the turnstile's TS_WRITER_Q
          pc,         \* where each thread is in mutex_enter() or mutex_exit()
          owner,      \* mutex_vector_enter()'s local copy of the lock word
          cpu         \* [Lwps -> "off", "on" or "biglock"]

vars == <<mtx_owner, tc_mutex, sleepers, pc, owner, cpu>>

Words == [lwp : Lwps \cup {NoLwp}, waiters : BOOLEAN]
Unowned == [lwp |-> NoLwp, waiters |-> FALSE]

Init ==
    /\ mtx_owner = Unowned
    /\ tc_mutex = NoLwp
    /\ sleepers = {}
    /\ pc = [l \in Lwps |-> "idle"]
    /\ owner = [l \in Lwps |-> Unowned]
    /\ cpu = [l \in Lwps |-> "off"]

\* Thread l, running on a CPU, is at this label.
At(l, label) == pc[l] = label /\ cpu[l] = "on"

Goto(l, label) == pc' = [pc EXCEPT ![l] = label]

\* owner = mtx->mtx_owner, and round the loop again
Reload(l) == owner' = [owner EXCEPT ![l] = mtx_owner] /\ Goto(l, "loop")

\* Mutant of mutex_oncpu: the recheck sees an owner waiting for the big lock
\* and every other owner as off its CPU.
mutex_oncpuMut(w) == FALSE

\* mutex_oncpu(): is the owner in word w running, and not merely spinning for
\* kernel_lock?
mutex_oncpu(w) == w.lwp # NoLwp /\ cpu[w.lwp] = "on"

\* Mutant of MUTEX_ACQUIRE: it trusts the local copy of the lock word.
MUTEX_ACQUIREMut(l) == owner[l].lwp = NoLwp

\* MUTEX_ACQUIRE(): the compare and swap of zero with curlwp succeeds.
MUTEX_ACQUIRE(l) == mtx_owner = Unowned

-----------------------------------------------------------------------------
(* mutex_enter(): mutex_vector_enter(), the whole loop *)

\* Entry: the first load of the lock word, preemption disabled.
Enter(l) ==
    /\ At(l, "idle")
    /\ Reload(l)
    /\ UNCHANGED <<mtx_owner, tc_mutex, sleepers, cpu>>

\* mutex_tryenter(): one MUTEX_ACQUIRE; if it fails, nothing has changed.
TryEnter(l) ==
    /\ At(l, "idle")
    /\ MUTEX_ACQUIRE(l)
    /\ mtx_owner' = [lwp |-> l, waiters |-> FALSE]
    /\ Goto(l, "held")
    /\ UNCHANGED <<tc_mutex, sleepers, owner, cpu>>

\* The copy says the mutex is free: compare and swap zero with curlwp.
Acquire(l) ==
    /\ At(l, "loop")
    /\ owner[l].lwp = NoLwp
    /\ IF MUTEX_ACQUIRE(l)
         THEN /\ mtx_owner' = [lwp |-> l, waiters |-> FALSE]
              /\ Goto(l, "held")
              /\ UNCHANGED owner
         ELSE Reload(l) /\ UNCHANGED mtx_owner
    /\ UNCHANGED <<tc_mutex, sleepers, cpu>>

\* The copy says it is owned: spin while the owner is on a CPU, else take the
\* turnstile chain lock.
CheckOwner(l) ==
    /\ At(l, "loop")
    /\ owner[l].lwp # NoLwp
    /\ Goto(l, IF mutex_oncpu(owner[l]) THEN "spin" ELSE "lookup")
    /\ UNCHANGED <<mtx_owner, tc_mutex, sleepers, owner, cpu>>

\* One round of SPINLOCK_BACKOFF() with preemption enabled, then reload.
Spin(l) ==
    /\ At(l, "spin")
    /\ Reload(l)
    /\ UNCHANGED <<mtx_owner, tc_mutex, sleepers, cpu>>

\* ts = turnstile_lookup(mtx)
Lookup(l) ==
    /\ At(l, "lookup")
    /\ tc_mutex = NoLwp
    /\ tc_mutex' = l
    /\ Goto(l, "set_waiters")
    /\ UNCHANGED <<mtx_owner, sleepers, owner, cpu>>

\* MUTEX_SET_WAITERS(): compare and swap against the copy.  If it fails,
\* turnstile_exit() and start again.
SetWaiters(l) ==
    /\ At(l, "set_waiters")
    /\ IF mtx_owner = owner[l]
         THEN /\ mtx_owner' = [mtx_owner EXCEPT !.waiters = TRUE]
              /\ Goto(l, "check_oncpu")
              /\ UNCHANGED <<tc_mutex, owner>>
         ELSE /\ tc_mutex' = NoLwp
              /\ Reload(l)
              /\ UNCHANGED mtx_owner
    /\ UNCHANGED <<sleepers, cpu>>

\* The owner runs again: the waiters bit cannot be trusted; start again.
CheckOncpu(l) ==
    /\ At(l, "check_oncpu")
    /\ IF mutex_oncpu(owner[l])
         THEN tc_mutex' = NoLwp /\ Reload(l)
         ELSE Goto(l, "check_waiters") /\ UNCHANGED <<tc_mutex, owner>>
    /\ UNCHANGED <<mtx_owner, sleepers, cpu>>

\* MUTEX_HAS_WAITERS(): is the bit still in the lock word?
HasWaiters == mtx_owner.waiters

CheckWaiters(l) ==
    /\ At(l, "check_waiters")
    /\ IF HasWaiters
         THEN Goto(l, "block") /\ UNCHANGED <<tc_mutex, owner>>
         ELSE tc_mutex' = NoLwp /\ Reload(l)
    /\ UNCHANGED <<mtx_owner, sleepers, cpu>>

\* turnstile_block(): onto the sleep queue, off the CPU, chain lock dropped.
Block(l) ==
    /\ At(l, "block")
    /\ sleepers' = sleepers \cup {l}
    /\ tc_mutex' = NoLwp
    /\ cpu' = [cpu EXCEPT ![l] = "off"]
    /\ Goto(l, "asleep")
    /\ UNCHANGED <<mtx_owner, owner>>

\* turnstile_block() returned: reload the lock word.
Resume(l) ==
    /\ At(l, "woken")
    /\ Reload(l)
    /\ UNCHANGED <<mtx_owner, tc_mutex, sleepers, cpu>>

-----------------------------------------------------------------------------
(* mutex_exit() *)

\* The fast path tests for waiters ...
ExitTest(l) ==
    /\ At(l, "held")
    /\ Goto(l, IF mtx_owner.waiters THEN "exit_lookup" ELSE "exit_store")
    /\ UNCHANGED <<mtx_owner, tc_mutex, sleepers, owner, cpu>>

\* ... and stores zero without an interlocked instruction, whatever the lock
\* word holds by then.
ExitStore(l) ==
    /\ At(l, "exit_store")
    /\ mtx_owner' = Unowned
    /\ Goto(l, "idle")
    /\ UNCHANGED <<tc_mutex, sleepers, owner, cpu>>

\* mutex_vector_exit(): turnstile_lookup() takes the chain lock.
ExitLookup(l) ==
    /\ At(l, "exit_lookup")
    /\ tc_mutex = NoLwp
    /\ tc_mutex' = l
    /\ Goto(l, "exit_release")
    /\ UNCHANGED <<mtx_owner, sleepers, owner, cpu>>

\* MUTEX_RELEASE(); with no turnstile there is nobody to wake.
ExitRelease(l) ==
    /\ At(l, "exit_release")
    /\ mtx_owner' = Unowned
    /\ IF sleepers = {}
         THEN tc_mutex' = NoLwp /\ Goto(l, "idle")
         ELSE Goto(l, "exit_wakeup") /\ UNCHANGED tc_mutex
    /\ UNCHANGED <<sleepers, owner, cpu>>

\* Mutant of WakeSet: one waiter is woken, the others wait for a later exit.
WakeSetMut == {CHOOSE s \in sleepers : TRUE}

\* TS_WAITERS(ts, TS_WRITER_Q): all of them
WakeSet == sleepers

\* turnstile_wakeup() of every waiter, and the chain lock is dropped.
ExitWakeup(l) ==
    /\ At(l, "exit_wakeup")
    /\ sleepers' = sleepers \ WakeSet
    /\ pc' = [k \in Lwps |-> IF k = l THEN "idle"
                             ELSE IF k \in WakeSet THEN "woken" ELSE pc[k]]
    /\ tc_mutex' = NoLwp
    /\ UNCHANGED <<mtx_owner, owner, cpu>>

-----------------------------------------------------------------------------
(* The scheduler and the big lock *)

\* Where a thread may lose its CPU.  mutex_vector_enter() runs with
\* preemption disabled except in its backoff loop, the chain lock is a spin
\* mutex, and the test and the store of the fast exit are one atomic
\* sequence as far as the local CPU goes.
Preemptible == {"idle", "held", "spin", "exit_lookup"}

\* mi_switch() to l on a free CPU
Dispatch(l) ==
    /\ cpu[l] = "off"
    /\ pc[l] # "asleep"
    /\ Cardinality({k \in Lwps : cpu[k] # "off"}) < NCPU
    /\ cpu' = [cpu EXCEPT ![l] = "on"]
    /\ UNCHANGED <<mtx_owner, tc_mutex, sleepers, pc, owner>>

\* preempt(), kpreempt() or a voluntary sleep outside the mutex code
Preempt(l) ==
    /\ cpu[l] = "on"
    /\ pc[l] \in Preemptible
    /\ cpu' = [cpu EXCEPT ![l] = "off"]
    /\ UNCHANGED <<mtx_owner, tc_mutex, sleepers, pc, owner>>

\* _kernel_lock() finds the big lock taken: ci_biglock_wanted = l
BigLockWanted(l) ==
    /\ At(l, "held")
    /\ cpu' = [cpu EXCEPT ![l] = "biglock"]
    /\ UNCHANGED <<mtx_owner, tc_mutex, sleepers, pc, owner>>

\* ... and gets it: ci_biglock_wanted is reset.
BigLockTaken(l) ==
    /\ cpu[l] = "biglock"
    /\ cpu' = [cpu EXCEPT ![l] = "on"]
    /\ UNCHANGED <<mtx_owner, tc_mutex, sleepers, pc, owner>>

-----------------------------------------------------------------------------
\* A step of the mutex code, one that the thread is bound to take.
MutexStep(l) ==
    \/ Acquire(l) \/ CheckOwner(l) \/ Spin(l) \/ Lookup(l) \/ SetWaiters(l)
    \/ CheckOncpu(l) \/ CheckWaiters(l) \/ Block(l) \/ Resume(l)
    \/ ExitTest(l) \/ ExitStore(l) \/ ExitLookup(l) \/ ExitRelease(l)
    \/ ExitWakeup(l)

Next ==
    \E l \in Lwps :
        \/ Enter(l) \/ TryEnter(l) \/ MutexStep(l)
        \/ Dispatch(l) \/ Preempt(l) \/ BigLockWanted(l) \/ BigLockTaken(l)

\* A dispatched thread executes its code before it is preempted again for
\* ever (SF), the scheduler gives every runnable thread a CPU (SF), the clock
\* ends every time slice and kernel_lock is released some day (WF).
Fairness ==
    \A l \in Lwps : /\ SF_vars(MutexStep(l))
                    /\ SF_vars(Dispatch(l))
                    /\ WF_vars(Preempt(l))
                    /\ WF_vars(BigLockTaken(l))

Spec == Init /\ [][Next]_vars /\ Fairness

-----------------------------------------------------------------------------
Labels == {"idle", "loop", "spin", "lookup", "set_waiters", "check_oncpu",
           "check_waiters", "block", "asleep", "woken", "held", "exit_store",
           "exit_lookup", "exit_release", "exit_wakeup"}

\* Every variable has its type.
TypeOK ==
    /\ mtx_owner \in Words
    /\ tc_mutex \in Lwps \cup {NoLwp}
    /\ sleepers \subseteq Lwps
    /\ pc \in [Lwps -> Labels]
    /\ owner \in [Lwps -> Words]
    /\ cpu \in [Lwps -> {"off", "on", "biglock"}]

Holding == {"held", "exit_store", "exit_lookup", "exit_release"}
InChain == {"set_waiters", "check_oncpu", "check_waiters", "block",
            "exit_release", "exit_wakeup"}

\* At most one thread holds the mutex, and it is the one the lock word names:
\* nobody is in the critical section while another thread's compare and swap
\* can succeed.
MutualExclusion == \A l \in Lwps : pc[l] \in Holding <=> mtx_owner.lwp = l

\* The chain lock is held exactly between turnstile_lookup() and
\* turnstile_exit(), turnstile_block() or turnstile_wakeup().
ChainLock == \A l \in Lwps : pc[l] \in InChain <=> tc_mutex = l

\* No lost wakeup: whenever a thread is asleep on the mutex, either the
\* mutex is owned, its waiters bit is set and the owner has not already
\* decided to release it the fast way; or the releaser is about to wake the
\* queue.  kern_mutex.c: "If the waiters bit is not set it's unsafe to go
\* asleep, as we might never be awoken."
NoLostWakeup ==
    sleepers # {} =>
        \/ /\ mtx_owner.lwp # NoLwp
           /\ mtx_owner.waiters
           /\ pc[mtx_owner.lwp] # "exit_store"
        \/ \E l \in Lwps : pc[l] = "exit_wakeup"

\* What the thread that holds the chain lock on its way to sleep knows: from
\* the compare and swap on, a waiters bit that is still set is on the word of
\* the owner it was set for; from the second on-CPU check on, that owner has
\* not passed the test of its fast exit.
WaiterKnows ==
    \A l \in Lwps :
        /\ pc[l] \in {"lookup", "spin", "set_waiters", "check_oncpu"} =>
             owner[l].lwp # NoLwp
        /\ pc[l] = "check_oncpu" /\ mtx_owner.waiters =>
             mtx_owner.lwp = owner[l].lwp
        /\ pc[l] \in {"check_waiters", "block"} /\ mtx_owner.waiters =>
             pc[mtx_owner.lwp] # "exit_store"
        /\ pc[l] = "block" => mtx_owner.waiters

\* Who may be off a CPU, and who is on the sleep queue.
Scheduling ==
    \A l \in Lwps :
        /\ pc[l] = "exit_store" => cpu[l] = "on"
        /\ pc[l] = "asleep" <=> l \in sleepers

\* A free mutex has no waiters bit: release clears the whole lock word.
NoStrayBit == mtx_owner.lwp = NoLwp => ~mtx_owner.waiters

\* The inductive invariant behind NoLostWakeup.
Inv ==
    /\ TypeOK /\ MutualExclusion /\ ChainLock /\ NoLostWakeup
    /\ WaiterKnows /\ Scheduling /\ NoStrayBit

\* Every sleeper is woken: no thread stays on the turnstile for ever.
SleepersWake == \A l \in Lwps : pc[l] = "asleep" ~> pc[l] = "woken"
=============================================================================
