----------------------------- MODULE Workqueue -----------------------------
(***************************************************************************)
(* One queue of sys/kern/subr_workqueue.c: threads enqueue work items, one *)
(* worker thread takes the whole pending list at once and calls the work   *)
(* function on each item without the lock, one thread may wait for an item *)
(* and one may destroy the queue.  All of them sleep on the same q_cv and  *)
(* are woken by cv_signal(), which wakes one sleeper.                      *)
(*                                                                         *)
(* The lists are linked through the items themselves, and an item may be   *)
(* enqueued again once its function has been called, so the links are      *)
(* modelled as memory (wk_entry).  batch and called are history variables: *)
(* the items the worker took, and how many of them it has called.  Every   *)
(* critical section of q_mutex is one step.                                *)
(***************************************************************************)
EXTENDS Naturals, Sequences, FiniteSets

CONSTANTS Works,      \* the work items
          Wqe,        \* the item workqueue_finiqueue() makes on its stack
          Nil         \* the null pointer

ASSUME WorkAssumption ==
    Wqe \notin Works /\ Nil \notin Works \cup {Wqe} /\ IsFiniteSet(Works)

Items == Works \cup {Wqe}

VARIABLES pending,    \* q_queue_pending, a sequence of items
          running,    \* q_queue_running.sqh_first
          wk_entry,   \* the link field of every item
          q_cv,       \* who sleeps on q_cv: "worker", "waiter", "destroyer"
          q_waiter,   \* the item workqueue_q_wait() waits for
          worker,     \* [pc, wk, next] of the worker thread
          waiter,     \* [pc, target] of the thread in workqueue_wait()
          destroyer,  \* where the thread in workqueue_destroy() is
          batch,      \* history: the items of the running list
          called      \* history: how many of them have been called

wqVars == <<pending, running, wk_entry, q_cv, q_waiter, worker, waiter,
          destroyer, batch, called>>

Elements(s) == {s[i] : i \in DOMAIN s}
Worker(pc, wk, next) == [pc |-> pc, wk |-> wk, next |-> next]
NotCalled == {batch[i] : i \in {j \in DOMAIN batch : j > called}}

\* workqueue_initqueue(): empty lists, and a worker at the top of its loop.
WqInit ==
    /\ pending = << >> /\ running = Nil
    /\ wk_entry = [w \in Items |-> Nil]
    /\ q_cv = {} /\ q_waiter = Nil
    /\ worker = Worker("top", Nil, Nil)
    /\ waiter = [pc |-> "idle", target |-> Nil]
    /\ destroyer = "idle"
    /\ batch = << >> /\ called = 0

\* cv_signal(&q->q_cv) wakes one of the sleepers; the wakers do not choose.
CvSignal == IF q_cv = {} THEN {{}} ELSE {{s} : s \in q_cv}

\* The sleepers in `woken' go back to the loops around their cv_wait().
WakeWaiter(woken) ==
    waiter' = IF "waiter" \in woken THEN [waiter EXCEPT !.pc = "look"]
                                    ELSE waiter
WakeWorker(woken) ==
    worker' = IF "worker" \in woken THEN Worker("top", Nil, Nil) ELSE worker

\* SIMPLEQ_INSERT_TAIL(&q->q_queue_pending, wk, wk_entry)
InsertTail(w) ==
    /\ pending' = Append(pending, w)
    /\ wk_entry' = [k \in Items |->
                     IF k = w THEN Nil
                     ELSE IF pending # << >> /\ k = pending[Len(pending)] THEN w
                     ELSE wk_entry[k]]

-----------------------------------------------------------------------------
(* workqueue_enqueue() *)

\* Mutant of MayEnqueue: only the check of a DEBUG kernel, which overlooks an
\* item that the worker has taken and not yet called.
MayEnqueueMut(w) == w \notin Elements(pending)

\* The caller's side of the contract: an item is not enqueued while it is
\* queued, that is until its function has been called.
MayEnqueue(w) == w \notin Elements(pending) \cup NotCalled

\* Nothing is enqueued while a thread waits (KASSERT(q->q_waiter == NULL)) or
\* once the queue is being destroyed.
Enqueue(w) ==
    /\ MayEnqueue(w)
    /\ waiter.pc = "idle"
    /\ destroyer = "idle"
    /\ InsertTail(w)
    /\ \E woken \in CvSignal :
         q_cv' = q_cv \ woken /\ WakeWorker(woken) /\ WakeWaiter(woken)
    /\ UNCHANGED <<running, q_waiter, destroyer, batch, called>>

-----------------------------------------------------------------------------
(* workqueue_worker() *)

\* Nothing pending: cv_wait().
WorkerSleep ==
    /\ worker.pc = "top"
    /\ pending = << >>
    /\ worker' = Worker("asleep", Nil, Nil)
    /\ q_cv' = q_cv \cup {"worker"}
    /\ UNCHANGED <<pending, running, wk_entry, q_waiter, waiter, destroyer,
                   batch, called>>

\* The pending list becomes the running list; its first item is next.
WorkerGrab ==
    /\ worker.pc = "top"
    /\ pending # << >>
    /\ running' = Head(pending)
    /\ pending' = << >>
    /\ worker' = Worker("iterate", Head(pending), Nil)
    /\ batch' = pending /\ called' = 0
    /\ UNCHANGED <<wk_entry, q_cv, q_waiter, waiter, destroyer>>

\* workqueue_runlist(): next = SIMPLEQ_NEXT(wk, wk_entry), and the function is
\* called on the item ...
WorkerCall ==
    /\ worker.pc = "iterate"
    /\ worker.wk # Nil
    /\ worker' = Worker("call", worker.wk, wk_entry[worker.wk])
    /\ called' = called + 1
    /\ UNCHANGED <<pending, running, wk_entry, q_cv, q_waiter, waiter,
                   destroyer, batch>>

\* Mutant of NextWork: the link is read after the function has run, when the
\* item may have been enqueued again.
NextWorkMut == wk_entry[worker.wk]

\* wk = next
NextWork == worker.next

\* ... and when it returns, the loop goes on with the link saved before.
WorkerReturn ==
    /\ worker.pc = "call"
    /\ destroyer = "idle"
    /\ worker' = Worker("iterate", NextWork, Nil)
    /\ UNCHANGED <<pending, running, wk_entry, q_cv, q_waiter, waiter,
                   destroyer, batch, called>>

\* Mutant of MustSignal: the worker believes q_cv has only itself on it.
MustSignalMut == FALSE

\* if (q->q_waiter != NULL)
MustSignal == q_waiter # Nil

\* The list is done: forget it, and wake workqueue_wait().
WorkerFinish ==
    /\ worker.pc = "iterate"
    /\ worker.wk = Nil
    /\ running' = Nil
    /\ batch' = << >> /\ called' = 0
    /\ \E woken \in IF MustSignal THEN CvSignal ELSE {{}} :
         q_cv' = q_cv \ woken /\ WakeWaiter(woken)
    /\ worker' = Worker("top", Nil, Nil)
    /\ UNCHANGED <<pending, wk_entry, q_waiter, destroyer>>

-----------------------------------------------------------------------------
(* workqueue_wait() *)

StartWait(w) ==
    /\ waiter.pc = "idle"
    /\ destroyer = "idle"
    /\ waiter' = [pc |-> "look", target |-> w]
    /\ UNCHANGED <<pending, running, wk_entry, q_cv, q_waiter, worker,
                   destroyer, batch, called>>

\* The items SIMPLEQ_FOREACH meets from `first' on, following the links.
Walk(first) ==
    LET step[n \in 0..Cardinality(Items)] ==
            IF n = 0 THEN first
            ELSE IF step[n - 1] = Nil THEN Nil ELSE wk_entry[step[n - 1]]
    IN  {step[n] : n \in 0..Cardinality(Items)} \ {Nil}

\* Mutant of Found: only the pending list is searched.
FoundMut == waiter.target \in Elements(pending)

\* The target is met on the pending or on the running list.
Found == waiter.target \in Elements(pending) \cup Walk(running)

\* One turn of the loop of workqueue_q_wait().  Its KASSERT is the property
\* RegistersOnce below, which does not hold: the step is that of a kernel
\* without DIAGNOSTIC, which goes on.
WaitLook ==
    /\ waiter.pc = "look"
    /\ IF Found
         THEN /\ q_waiter' = waiter.target
              /\ q_cv' = q_cv \cup {"waiter"}
              /\ waiter' = [waiter EXCEPT !.pc = "asleep"]
         ELSE /\ q_waiter' = Nil
              /\ waiter' = [pc |-> "idle", target |-> Nil]
              /\ UNCHANGED q_cv
    /\ UNCHANGED <<pending, running, wk_entry, worker, destroyer, batch, called>>

-----------------------------------------------------------------------------
(* workqueue_destroy() *)

\* wq_func = workqueue_exit, with no lock held.  The caller must know that all
\* work is done; the worker may still be on its way to the top of its loop.
DestroySetFunc ==
    /\ destroyer = "idle"
    /\ waiter.pc = "idle"
    /\ pending = << >>
    /\ NotCalled = {} /\ worker.pc # "call"
    /\ destroyer' = "fini"
    /\ UNCHANGED <<pending, running, wk_entry, q_cv, q_waiter, worker, waiter,
                   batch, called>>

\* workqueue_finiqueue(): enqueue an item for workqueue_exit(), signal, and
\* sleep until the worker is gone.
DestroyFini ==
    /\ destroyer = "fini"
    /\ InsertTail(Wqe)
    /\ destroyer' = "asleep"
    /\ \E woken \in CvSignal :
         q_cv' = (q_cv \ woken) \cup {"destroyer"} /\ WakeWorker(woken)
    /\ UNCHANGED <<running, q_waiter, waiter, batch, called>>

\* workqueue_exit(), called on the item: q_worker = NULL, and a signal.
WorkerExit ==
    /\ worker.pc = "call"
    /\ destroyer \in {"fini", "asleep"}
    /\ worker' = Worker("gone", worker.wk, Nil)
    /\ \E woken \in CvSignal :
         /\ q_cv' = q_cv \ woken
         /\ destroyer' = IF "destroyer" \in woken THEN "look" ELSE destroyer
    /\ UNCHANGED <<pending, running, wk_entry, q_waiter, waiter, batch, called>>

\* q_worker is NULL: the queue is freed.
DestroyDone ==
    /\ destroyer = "look"
    /\ destroyer' = "done"
    /\ UNCHANGED <<pending, running, wk_entry, q_cv, q_waiter, worker, waiter,
                   batch, called>>

\* workqueue_create() of a new queue in fresh memory
Create ==
    /\ destroyer = "done"
    /\ pending' = << >> /\ running' = Nil
    /\ wk_entry' = [w \in Items |-> Nil]
    /\ q_cv' = {} /\ q_waiter' = Nil
    /\ worker' = Worker("top", Nil, Nil)
    /\ waiter' = [pc |-> "idle", target |-> Nil]
    /\ destroyer' = "idle"
    /\ batch' = << >> /\ called' = 0

-----------------------------------------------------------------------------
WorkerStep ==
    \/ WorkerSleep \/ WorkerGrab \/ WorkerCall \/ WorkerReturn \/ WorkerFinish
    \/ WorkerExit

WqNext ==
    \/ \E w \in Works : Enqueue(w) \/ StartWait(w)
    \/ WorkerStep \/ WaitLook
    \/ DestroySetFunc \/ DestroyFini \/ DestroyDone \/ Create

\* The worker runs and its functions return; threads inside a call go on.
WqFairness ==
    WF_wqVars(WorkerStep) /\ WF_wqVars(WaitLook)
    /\ WF_wqVars(DestroyFini) /\ WF_wqVars(DestroyDone)

WqSpec == WqInit /\ [][WqNext]_wqVars /\ WqFairness

-----------------------------------------------------------------------------
\* The worker calls the function on exactly the items it took, each once and
\* in order, although it follows links that Enqueue may rewrite meanwhile.
RunsWhatItTook ==
    /\ worker.pc = "call" => called \in DOMAIN batch /\ worker.wk = batch[called]
    /\ worker.pc = "iterate" =>
         worker.wk = IF called < Len(batch) THEN batch[called + 1] ELSE Nil

\* The item is queued, or its function is running.
WorkInFlight(w) ==
    \/ w \in Elements(pending) \cup NotCalled
    \/ worker.pc = "call" /\ worker.wk = w

\* An item of the running batch has been enqueued again, so that the running
\* list's links now lead into the pending list.
Relinked == Elements(batch) \cap Elements(pending) # {}

\* workqueue_wait() "Wait for a specified work to finish": it does not return
\* while the item is queued or its function is running.  That needs the links
\* of the running list to be intact.
WaitsUntilFinished ==
    waiter.pc = "look" /\ WorkInFlight(waiter.target) /\ ~Relinked => Found

\* Every enqueued item is called.
EveryWorkIsCalled ==
    \A w \in Works :
        w \in Elements(pending) ~> worker.pc = "call" /\ worker.wk = w

\* workqueue_q_wait() is about to register and find a registration: its own,
\* left by the turn before, as there is one waiter at a time.
MeetsItself == waiter.pc = "look" /\ Found /\ q_waiter # Nil

\* KASSERT(q->q_waiter == NULL) before q->q_waiter = wk, in workqueue_q_wait().
\* It fails: the end of a batch wakes the waiter whatever it waits for, and if
\* its item is in the next batch it finds the q_waiter it has set itself.
RegistersOnce == ~MeetsItself

\* workqueue_wait() returns, unless it comes to the assertion that stops a
\* DIAGNOSTIC kernel, and workqueue_destroy() returns: the one signal of
\* each step that they wait for does not go to somebody else.
CallersReturn ==
    /\ waiter.pc = "look" ~> waiter.pc = "idle" \/ MeetsItself
    /\ destroyer = "fini" ~> destroyer = "done"
=============================================================================
