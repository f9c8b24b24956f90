------------------------------ MODULE Condvar ------------------------------
(***************************************************************************)
(* Condition variables (sys/kern/kern_condvar.c) on their sleep queues     *)
(* (sys/kern/kern_sleepq.c), with the timeouts and the signals that end a  *)
(* sleep from outside.  The threads use one condition variable the way the *)
(* kernel does: whoever wants an item waits, in a loop and under mtx, until *)
(* there is one; whoever brings items wakes one or all of the waiters.     *)
(*                                                                         *)
(* The sleep queue is sorted by priority.  Priorities are not modelled:    *)
(* any waiter may be the first, and may move when its priority changes.    *)
(***************************************************************************)
EXTENDS Naturals, FiniteSets

CONSTANTS Lwps, NoLwp,
          Timed,      \* the threads that wait with a timeout (timo != 0)
          Catching,   \* the threads that wait interruptibly (catch_p)
          MaxItems    \* bound: nobody brings more items than this

ASSUME CondvarAssumption ==
    /\ NoLwp \notin Lwps /\ IsFiniteSet(Lwps)
    /\ Timed \subseteq Lwps /\ Catching \subseteq Lwps
    /\ MaxItems \in Nat \ {0}

VARIABLES mtx,          \* the holder of the interlocking mutex
          mp,           \* the holder of the sleep queue lock
          sleepq,       \* CV_SLEEPQ(cv)
          moving,       \* the LWP that sleepq_reinsert() has off the queue
          callout,      \* l_timeout_ch: "idle", "pending", "running", "fired"
          pendsig,      \* the LWPs with LW_PENDSIG and a signal to take
          cancelled,    \* the LWPs with LW_CANCELLED
          error,        \* sleepq_block()'s result: did it fail?
          items,        \* what the waiters wait for
          pc

vars == <<mtx, mp, sleepq, moving, callout, pendsig, cancelled, error, items, pc>>

Init ==
    /\ mtx = NoLwp /\ mp = NoLwp
    /\ sleepq = {} /\ moving = NoLwp
    /\ callout = [l \in Lwps |-> "idle"]
    /\ pendsig = {} /\ cancelled = {}
    /\ error = [l \in Lwps |-> FALSE]
    /\ items = 0
    /\ pc = [l \in Lwps |-> "idle"]

Goto(l, label) == pc' = [pc EXCEPT ![l] = label]

\* The sleep queue lock can be taken.
QueueUnlocked == mp = NoLwp /\ moving = NoLwp

\* sleepq_enqueue(): onto the queue, as one that sleeps
Enqueue(l) == sleepq' = sleepq \cup {l} /\ error' = [error EXCEPT ![l] = FALSE]

\* sleepq_remove() of these LWPs: off the queue, and runnable
Remove(woken) ==
    /\ sleepq' = sleepq \ woken
    /\ pc' = [l \in Lwps |-> IF l \in woken THEN "woken" ELSE pc[l]]

-----------------------------------------------------------------------------
(* The users of the condition variable *)

GetStart(l) ==
    /\ pc[l] = "idle" /\ mtx = NoLwp
    /\ mtx' = l
    /\ Goto(l, "get")
    /\ UNCHANGED <<mp, sleepq, moving, callout, pendsig, cancelled, error, items>>

Take(l) ==
    /\ pc[l] = "get" /\ items > 0
    /\ items' = items - 1
    /\ Goto(l, "leave")
    /\ UNCHANGED <<mtx, mp, sleepq, moving, callout, pendsig, cancelled, error>>

\* Bring one item and call cv_signal(), or several and call cv_broadcast().
Put(l, wake) ==
    /\ pc[l] = "idle" /\ mtx = NoLwp
    /\ items < MaxItems
    /\ mtx' = l
    /\ items' = IF wake = "signal" THEN items + 1 ELSE MaxItems
    /\ Goto(l, wake)
    /\ UNCHANGED <<mp, sleepq, moving, callout, pendsig, cancelled, error>>

\* mutex_exit(mtx); a wait that failed is given up.
Leave(l) ==
    /\ pc[l] = "leave"
    /\ mtx' = NoLwp
    /\ error' = [error EXCEPT ![l] = FALSE]
    /\ Goto(l, "idle")
    /\ UNCHANGED <<mp, sleepq, moving, callout, pendsig, cancelled, items>>

-----------------------------------------------------------------------------
(* cv_wait(), cv_timedwait(), cv_wait_sig(), cv_timedwait_sig() *)

\* cv_enter(): onto the queue, under the queue lock ...
CvEnter(l) ==
    /\ pc[l] = "get" /\ items = 0
    /\ QueueUnlocked
    /\ mp' = l
    /\ Enqueue(l)
    /\ Goto(l, "enqueued")
    /\ UNCHANGED <<mtx, moving, callout, pendsig, cancelled, items>>

\* ... and mutex_exit(mtx), with the queue still locked.
CvUnlock(l) ==
    /\ pc[l] = "enqueued"
    /\ mtx' = NoLwp
    /\ Goto(l, "block")
    /\ UNCHANGED <<mp, sleepq, moving, callout, pendsig, cancelled, error, items>>

\* Mutant of Interrupted: signals are looked for after the sleep only.
InterruptedMut(l) == l \in Catching /\ l \in cancelled

\* sleepq_block(), before the switch: there is a reason not to sleep.
Interrupted(l) == l \in Catching /\ l \in cancelled \cup pendsig

\* ... lwp_unsleep(), and LW_CANCELLED has done its work.
BlockEarly(l) ==
    /\ pc[l] = "block"
    /\ Interrupted(l)
    /\ sleepq' = sleepq \ {l}
    /\ mp' = NoLwp
    /\ error' = [error EXCEPT ![l] = l \in cancelled]
    /\ cancelled' = cancelled \ {l}
    /\ Goto(l, "check")
    /\ UNCHANGED <<mtx, moving, callout, pendsig, items>>

\* ... or arm the timeout and mi_switch(), which drops the queue lock.
BlockSwitch(l) ==
    /\ pc[l] = "block"
    /\ ~Interrupted(l)
    /\ mp' = NoLwp
    /\ callout' = [callout EXCEPT ![l] = IF l \in Timed THEN "pending" ELSE @]
    /\ Goto(l, "asleep")
    /\ UNCHANGED <<mtx, sleepq, moving, pendsig, cancelled, error, items>>

\* Mutant of Halted: callout_stop(), which does not wait for the function.
HaltedMut(l) == TRUE

\* callout_halt() returns when the callout's function does not run.
Halted(l) == callout[l] # "running"

\* mi_switch() has returned.  If the callout is found to have fired the wait
\* has timed out, even if somebody else did the wakeup.
Halt(l) ==
    /\ pc[l] = "woken"
    /\ l \in Timed => Halted(l)
    /\ error' = [error EXCEPT ![l] = callout[l] \in {"running", "fired"}]
    /\ callout' = [callout EXCEPT ![l] = IF @ = "running" THEN @ ELSE "idle"]
    /\ Goto(l, "check")
    /\ UNCHANGED <<mtx, mp, sleepq, moving, pendsig, cancelled, items>>

\* sleepq_block(), after the switch: has a signal come, or a _lwp_wakeup()?
Caught(l) == l \in Catching /\ l \in cancelled \cup pendsig

\* They make the wait fail, if it has not failed already.  LW_CANCELLED is not
\* cleared here.
CheckSignals(l) ==
    /\ pc[l] = "check"
    /\ error' = [error EXCEPT ![l] = @ \/ Caught(l)]
    /\ Goto(l, "reenter")
    /\ UNCHANGED <<mtx, mp, sleepq, moving, callout, pendsig, cancelled, items>>

\* Mutant of PassOn: a thread that gives up keeps the wakeup.
PassOnMut(l) == FALSE

\* cv_exit(): error != 0
PassOn(l) == error[l]

\* mutex_enter(mtx), and cv_exit() calls cv_signal() if the wait failed.
Reenter(l) ==
    /\ pc[l] = "reenter" /\ mtx = NoLwp
    /\ mtx' = l
    /\ Goto(l, IF PassOn(l) THEN "signal" ELSE IF error[l] THEN "leave" ELSE "get")
    /\ UNCHANGED <<mp, sleepq, moving, callout, pendsig, cancelled, error, items>>

-----------------------------------------------------------------------------
(* cv_signal() and cv_broadcast() *)

\* Is the queue empty?  Asked without the queue lock.
WakeTest(l) ==
    /\ pc[l] \in {"signal", "broadcast"}
    /\ Goto(l, IF sleepq = {} THEN "leave"
               ELSE IF pc[l] = "signal" THEN "wakeup_one" ELSE "wakeup_all")
    /\ UNCHANGED <<mtx, mp, sleepq, moving, callout, pendsig, cancelled, error, items>>

\* cv_wakeup_one(): the first waiter, if there still is one
WakeupOne(l) ==
    /\ pc[l] = "wakeup_one"
    /\ QueueUnlocked
    /\ \E woken \in SUBSET sleepq :
         /\ Cardinality(woken) = IF sleepq = {} THEN 0 ELSE 1
         /\ sleepq' = sleepq \ woken
         /\ pc' = [k \in Lwps |-> IF k = l THEN "leave"
                                  ELSE IF k \in woken THEN "woken" ELSE pc[k]]
    /\ UNCHANGED <<mtx, mp, moving, callout, pendsig, cancelled, error, items>>

\* cv_wakeup_all()
WakeupAll(l) ==
    /\ pc[l] = "wakeup_all"
    /\ QueueUnlocked
    /\ sleepq' = {}
    /\ pc' = [k \in Lwps |-> IF k = l THEN "leave"
                             ELSE IF k \in sleepq THEN "woken" ELSE pc[k]]
    /\ UNCHANGED <<mtx, mp, moving, callout, pendsig, cancelled, error, items>>

-----------------------------------------------------------------------------
(* What else can happen to a sleeping thread *)

\* Mutant of SoleWaiter: it leaves the queue like any other.
SoleWaiterMut(l) == FALSE

SoleWaiter(l) == sleepq = {l}

\* sleepq_changepri() and sleepq_lendpri(): under the queue lock the thread is
\* taken off the queue, unless it is alone on it, ...
ReinsertRemove(l) ==
    /\ QueueUnlocked
    /\ l \in sleepq
    /\ ~SoleWaiter(l)
    /\ sleepq' = sleepq \ {l}
    /\ moving' = l
    /\ UNCHANGED <<mtx, mp, callout, pendsig, cancelled, error, items, pc>>

\* ... and put into its new place.
ReinsertInsert ==
    /\ moving # NoLwp
    /\ sleepq' = sleepq \cup {moving}
    /\ moving' = NoLwp
    /\ UNCHANGED <<mtx, mp, callout, pendsig, cancelled, error, items, pc>>

\* The clock has come to the timeout: callout_softclock() calls sleepq_timeout()
CalloutFire(l) ==
    /\ callout[l] = "pending"
    /\ callout' = [callout EXCEPT ![l] = "running"]
    /\ UNCHANGED <<mtx, mp, sleepq, moving, pendsig, cancelled, error, items, pc>>

\* The LWP's lock is the sleep queue's while the LWP is on it, and when it is not
\* it is a lock that this module does not need.
LwpUnlocked(l) == (l \in sleepq \/ l = moving) => QueueUnlocked

\* sleepq_timeout(): if the LWP still sleeps, lwp_unsleep().
SleepqTimeout(l) ==
    /\ callout[l] = "running"
    /\ LwpUnlocked(l)
    /\ callout' = [callout EXCEPT ![l] = "fired"]
    /\ Remove(sleepq \cap {l})
    /\ UNCHANGED <<mtx, mp, moving, pendsig, cancelled, error, items>>

\* LW_SINTR of a sleeping thread: lwp_unsleep().
Interrupt(l) == Remove(sleepq \cap Catching \cap {l})

\* sigpost() of a signal that is not masked
SigPost(l) ==
    /\ l \in Catching \ pendsig
    /\ LwpUnlocked(l)
    /\ pendsig' = pendsig \cup {l}
    /\ Interrupt(l)
    /\ UNCHANGED <<mtx, mp, moving, callout, cancelled, error, items>>

\* The signal is taken: by the thread on its way back to user mode, or by
\* another thread of its process.
SigTaken(l) ==
    /\ l \in pendsig
    /\ pendsig' = pendsig \ {l}
    /\ UNCHANGED <<mtx, mp, sleepq, moving, callout, cancelled, error, items, pc>>

\* sys__lwp_wakeup()
LwpWakeup(l) ==
    /\ l \in Catching \ cancelled
    /\ LwpUnlocked(l)
    /\ cancelled' = cancelled \cup {l}
    /\ Interrupt(l)
    /\ UNCHANGED <<mtx, mp, moving, callout, pendsig, error, items>>

-----------------------------------------------------------------------------
\* Steps that a thread inside the code above is bound to take
Step(l) ==
    \/ Take(l) \/ Leave(l) \/ CvEnter(l) \/ CvUnlock(l) \/ BlockEarly(l)
    \/ BlockSwitch(l) \/ Halt(l) \/ CheckSignals(l) \/ WakeTest(l)
    \/ WakeupOne(l) \/ WakeupAll(l)

Next ==
    \/ \E l \in Lwps :
         \/ GetStart(l) \/ \E wake \in {"signal", "broadcast"} : Put(l, wake)
         \/ Step(l) \/ Reenter(l)
         \/ ReinsertRemove(l) \/ CalloutFire(l) \/ SleepqTimeout(l)
         \/ SigPost(l) \/ SigTaken(l) \/ LwpWakeup(l)
    \/ ReinsertInsert

\* Threads go on, although the queue lock may be taken again and again by others
\* (SF), and so does sleepq_timeout(); a thread that waits for mtx gets it some
\* day (SF, as AdaptiveMutex has it for its sleepers); the clock ticks.
Fairness ==
    /\ \A l \in Lwps :
         /\ SF_vars(Step(l)) /\ SF_vars(Reenter(l))
         /\ WF_vars(CalloutFire(l)) /\ SF_vars(SleepqTimeout(l))
    /\ WF_vars(ReinsertInsert)

Spec == Init /\ [][Next]_vars /\ Fairness

-----------------------------------------------------------------------------
Labels == {"idle", "get", "enqueued", "block", "asleep", "woken", "check",
           "reenter", "signal", "broadcast", "wakeup_one", "wakeup_all", "leave"}

\* Every variable has its type.
TypeOK ==
    /\ mtx \in Lwps \cup {NoLwp} /\ mp \in Lwps \cup {NoLwp}
    /\ sleepq \subseteq Lwps /\ moving \in Lwps \cup {NoLwp}
    /\ callout \in [Lwps -> {"idle", "pending", "running", "fired"}]
    /\ pendsig \subseteq Catching /\ cancelled \subseteq Catching
    /\ error \in [Lwps -> BOOLEAN]
    /\ items \in 0..MaxItems
    /\ pc \in [Lwps -> Labels]

\* The threads that are on the condition variable, on its queue or moving
Waiting == sleepq \cup ({moving} \ {NoLwp})

\* The threads that have been given a wakeup and not used it, or are about to
\* give one.
OnTheWay ==
    {l \in Lwps : pc[l] \in {"woken", "check", "reenter", "get", "signal",
                             "wakeup_one"}}

\* Somebody is about to wake all of them.
BroadcastComing == \E l \in Lwps : pc[l] \in {"broadcast", "wakeup_all"}

\* No wakeup is lost: while threads wait there are at least as many on their way
\* to an item, or to wake somebody for it, as there are items.  A thread that was
\* woken and then finds that it has timed out, or that a signal has come, passes
\* its wakeup on; and the test for waiters without the queue lock misses nobody.
WakeupsCoverItems ==
    Waiting # {} => BroadcastComing \/ Cardinality(OnTheWay) >= items

\* A timeout ends no other sleep than the one it was set for: when a thread has
\* left sleepq_block() its callout is neither pending nor running.  "Even if the
\* callout appears to have fired, we need to stop it in order to synchronise with
\* other CPUs."
NoStaleTimeout ==
    \A l \in Lwps :
        callout[l] \in {"pending", "running"} => pc[l] \in {"asleep", "woken"}

\* No signal and no _lwp_wakeup() is slept through: one that comes before
\* sleepq_block() looks is found by it, a later one finds the thread asleep.
SignalNotMissed ==
    \A l \in Catching : pc[l] = "asleep" => l \notin pendsig \cup cancelled

\* cv_timedwait() returns, with the mutex, whatever others do; and no thread
\* sleeps for ever next to an item nobody takes.
WaitersReturn ==
    /\ \A l \in Timed : pc[l] = "asleep" ~> mtx = l
    /\ items > 0 /\ Waiting # {} ~> items = 0 \/ Waiting = {}
=============================================================================
