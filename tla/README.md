# Synchronisation primitives of the NetBSD kernel in TLA+

This directory holds TLA+ models of the kernel's own synchronisation and
deferred-execution machinery (`src/sys/kern`) and of one of its users
(`src/sys/net/if.c`), the TLC configurations that check
them on small instances, and TLAPS proofs of what matters most for every size.
`PROJECT.json` lists, for every definition, the lines of code it models.

## Inventory

The repository is the NetBSD kernel source tree with some user programs: mostly
drivers, machine-dependent code, file systems and network protocols. All of it
rests on a small core in `sys/kern` that lets threads, interrupts and CPUs work
together. That core is short, subtle, lock-free in places and hardly testable,
and it is what this project models.

| Component | State | Operations | What is hard | What makes it correct |
|---|---|---|---|---|
| RUN_ONCE (`subr_once.c`, `once.h`) | status and result per object; one mutex and one condition variable for all | `RUN_ONCE`, `_run_once` | unlocked fast path; mutex dropped around the function; shared wakeup | one run, everybody gets its result, nobody sleeps for ever |
| adaptive mutex (`kern_mutex.c`) | lock word, turnstile | enter, tryenter, exit | release that is a test and a plain store; owner preempted in between | exclusion, no lost wakeup |
| reader/writer lock (`kern_rwlock.c`) | lock word, two sleep queues | enter, tryenter, exit, downgrade, tryupgrade | direct handoff to sleepers; waiter bits decided on a stale word | exact word, somebody is always left to wake a sleeper |
| workqueue (`subr_workqueue.c`) | pending and running list linked through the items | create, enqueue, worker, wait, destroy | items enqueued again while their batch runs; one condition variable with `cv_signal` for three threads | items called once and in order, signals reach the right thread, wait waits |
| callouts (`kern_timeout.c`) | four wheels per CPU, flags, the active callout | schedule, reset, stop, halt, ack, hardclock, softclock | wheel edges, wraparound, migration between CPUs, functions that reschedule themselves, interlock | called when due, halt cancels and waits |
| pcq (`subr_pcq.c`) | two indices in one word, ring | put, get | slot claimed before it is filled; consumer and producers swap the same word | a bounded FIFO queue |
| cross calls (`subr_xcall.c`) | a box with two counters, per-CPU pending flags | broadcast, unicast, wait, per-CPU thread, IPI and soft interrupt | box reused; lock-free fetch of the function and of the counter | each CPU runs each call once, wait covers the call |
| localcount (`subr_localcount.c`) | per-CPU counts, pointer to the total | acquire, release, drain | counts of one CPU mean nothing; releases race with the counting | drain waits for all references and for the last user of its stack |
| psref (`subr_psref.c`) | per-CPU lists | acquire, copy, release, target_destroy | CPUs are asked one after the other; unlocked wakeup | none left when destroy returns; destroy returns |
| pserialize (`subr_pserialize.c`) | three queues, CPU sets, unlocked counter | perform, read sections, switchpoint | overlapping requests at different stages; CPUs that come up meanwhile | no reader has the old version when perform returns |
| condition variables (`kern_condvar.c`, `kern_sleepq.c`) | sleep queue, the timeout callout and the flags of each thread | wait (timed, interruptible), signal, broadcast, timeout, signal delivery, `_lwp_wakeup` | a wakeup, a timeout and a signal compete for one sleeper; waiters are looked for without the lock | no wakeup, signal or timeout is lost or hits the wrong sleep |
| interface table (`net/if.c`) | two tables, read sections, references | lookup, attach, detach | a lookup has found what detach is about to destroy, and takes no lock | nobody acquires a reference once its target is being destroyed |

They interact by calls: locks use turnstiles, turnstiles use sleep queues;
workqueue, RUN_ONCE, xcall and psref sleep on condition variables, which use
callouts for their timeouts; localcount, psref and pserialize use cross calls;
interfaces use psref and pserialize together; callouts use the kernel lock and wake
sleepers through a sleep queue.

Not modelled: see the last section.

## Modules

A module `M` holds state, actions, specification and properties; `MC_M` extends
it for TLC; `M_Proofs` extends it with theorems. `MC_Lockless` covers Pcq, Localcount
and RunOnce, which share nothing: its variable `part` says, from the start, which of the
three a behaviour is about, and the other two keep their initial state. Some proof modules cover several
components: `Psref_Proofs` Psref and IfnetRefs, `Lockless_Proofs` Pcq, RunOnce and
Localcount, `Deferred_Proofs` Callout, Workqueue and CalloutWheel (whose definitions
`WqInit`, `LcNext`, `WheelSpec` and so on have names of their own for that reason). An operator `XMut` next to an
operator `X` is a plausible bug in `X`; every property is shown to fail for at
least one of them.

**RunOnce** - one action per step of `_run_once` between two accesses that other
threads can see. `o_status`, `o_error`, `oncemtx`, `oncecv` are the variables of
the code; `pc`, `o`, `rv` are each thread's place, argument and result.

**AdaptiveMutex** - `mutex_vector_enter` step by step (load, compare and swap,
owner on CPU, chain lock, set bit, look again, block) and the exit in its fast
and slow forms. `cpu` says whether a thread runs, is off its CPU, or spins for
the kernel lock, which is what `mutex_oncpu` asks. The fast exit is in assembly
on most ports; it is modelled from the comment in `mutex_vector_enter` and from
the `LOCKDEBUG` path of `mutex_vector_exit`: it cannot be preempted between test
and store, but other CPUs can set the bit there.

**RWLock** - the lock word as a record (writer, count, two bits). A load followed
by a compare and swap of the whole word is one step, except where the code does
something in between: then the local copy `owner` is kept. A downgrade and an
exit under the chain lock look at the queues and hand the lock over in one step.

**Workqueue** - the list links are modelled as memory (`wk_entry`), because an
item's link is rewritten while the running list is still being walked. `batch`
and `called` are history variables. A section under `q_mutex` is one step. The
contract of the callers (an item is not enqueued twice, nothing is enqueued while
somebody waits, all work is done before the queue is destroyed) is in the guards.
A per-CPU workqueue is a loop over such queues. A worker that waits for its own
item returns at once and is left out. `MeetsItself` is the state in which the
assertion of `workqueue_q_wait` fails: a waiter that has been woken, is about to
register, and is still registered. The steps go on from there as in a kernel without
DIAGNOSTIC; `RegistersOnce` is the assertion. `Relinked` says that an item of the batch
being run has been enqueued again, and thereby links elsewhere.

**CalloutWheel** - one callout on one CPU: which wheel and bucket, which buckets
`callout_hardclock` empties, and the test of `callout_softclock`, with integers
that wrap around. The number of buckets is a parameter, `WheelSize`; an int has
four digits of that base, as the kernel's has 32 bits. The history variable `placed` says how a
callout came into its bucket.

**Callout** - several callouts, CPUs and threads. Timing is left to CalloutWheel:
a callout on a queue may be due at any moment. Every section under `cc_lock` is
one step. Functions may schedule their own callout or stop it with `callout_stop`;
threads may schedule, stop and halt at any time, except that nobody schedules a
callout while another thread halts it. A function that calls `callout_halt` on its own
callout is not modelled; it does what `callout_stop` does, unless the callout has been
moved to a CPU that is calling it too, for which it would wait. Two history variables name the situations in which `callout_halt` does not do
what its comment says: `revived` (the function scheduled its callout again while
a thread was halting it) and `moved` (an MPSAFE callout was scheduled on another
CPU while in flight).

**Pcq** and **BoundedQueue** - one step per access to shared memory of `pcq_put`
and `pcq_get`; BoundedQueue is what the two promise. The refinement mapping turns
the claimed slots into the abstract queue: an item is in it from the moment its
slot is claimed, and leaves it when the consumer advances. The notification that
callers send is part of the model, because a consumer that finds a claimed and
empty slot must come back.

**Xcall** and **CrossCall** - one of the two boxes. `todo` is history: where a
call has still to run. `pri`, chosen at the start, selects threads or IPI and soft
interrupt. CrossCall is what xcall(9) promises: each call runs once on every CPU
it is for and `xc_wait` returns after the last run. The mapping (`CallStatus`)
forgets the box, its two counters and the threads: a call is posted when its
ticket is drawn and waited for when its caller has compared the counter with it.

**Localcount**, **Psref** - use of the cross call only what CrossCall says: every
CPU runs the function once before `xc_wait` returns. In Localcount a cross call
does not run on a CPU on which preemption is disabled.

**IfnetRefs** - extends Psref by the code around it in `if.c`. In Psref the
contract of `psref_acquire` ("no new references will be acquired once it calls
psref_target_destroy") is the guard of `Acquire`; here the guard is gone, lookups
acquire in a read section whatever they have found, and `if_detach` removes the
interface from two tables, waits for the read sections and destroys.
`ImplementsPsref` says that every step is one that Psref allows. Of
`pserialize_perform` only what Pserialize shows is used.

**Pserialize** - each object is one `pserialize_t` with a writer; `stale` says
which readers may have the old version; `asked` and `passes` are history. `pserialize_perform` copies the set of running CPUs
without the lock (`PerformStart`) and puts the request on the first queue under it
(`PerformInsert`); CPUs may come up and pass in between. `PassAfter` is the order of
the scan: the second queue before the first. CPUs
come up at any time (`CpuStart`), since `mp_online` is set before the secondary
processors are started.

**Condvar** - threads that wait for items, with and without a timeout,
interruptibly or not, and threads that bring items and call `cv_signal` or
`cv_broadcast`. `sleepq_block` is modelled step by step: the check before the
sleep, the switch, `callout_halt`, the check after it. Outside events are a
callout that fires, a signal, `_lwp_wakeup`, and `sleepq_reinsert`, which takes a
sleeper off the queue for a moment under the queue lock. The lock of a sleeping
thread is the queue's lock (`LwpUnlocked`). The queue is a set: priorities decide
who is first and anybody may be. The loop around the wait is the callers', so the
items and the four actions that handle them are marked external.

### Memory model

The models are sequentially consistent: the steps are the accesses in the order
that the barriers of the code enforce (`membar_*`, interlocked operations, locks).
Two places rely on weaker ordering and are noted here: RUN_ONCE reads `o_error`
after `o_status` without a barrier, and `psref_release` reads `prt_draining`
without a lock (the timed wait makes up for it, see below).

## Runs

| Run | Module, configuration | Instance | Shows |
|---|---|---|---|
| lockless | MC_Lockless | pcq: 2 producers, 3 slots; localcount: 3 CPUs, 4 references; RUN_ONCE: 3 threads, 2 objects | refinement of BoundedQueue, nothing overwritten, every item got; counts add up, drain waits and returns; one run, stable result, no lost wakeup, calls return |
| mutex | MC_AdaptiveMutex | 3 threads, 2 CPUs | exclusion, no lost wakeup, sleepers wake |
| rwlock | MC_RWLock | 4 threads, one upgrades | exact lock word, sleepers remembered, assertions of the handover; all sleeping readers are woken, and some writer while writers sleep |
| workqueue | MC_Workqueue | 3 items | worker runs what it took although links change; every item is called; wait waits; callers return |
| workqueue_assert | MC_Workqueue, MC_WorkqueueAssert | as workqueue | expected violation: the assertion `q_waiter == NULL` fails |
| callout_wheel | MC_CalloutWheel | 4 wheels of 4 buckets, ints of 4 such digits, all ticks and delays | worklist in time, down the wheels in time |
| callout | MC_Callout | 2 callouts, 2 threads, 2 CPUs | queues and flags, halt cancels, waits and returns |
| callout_moved | MC_Callout, MC_CalloutHalt | as callout | expected violation: `callout_halt` returns while a moved callout is in flight |
| xcall | MC_Xcall | 2 callers, 3 CPUs of which 2 run, both priorities, 4 runs | refinement of CrossCall, the box is accounted for and does not stand idle while callers want it, `xc_wait` returns |
| psref | MC_Psref (IfnetRefs) | 3 CPUs, 2 references each, one interface in two tables | refinement of Psref; destroy waits and returns |
| pserialize | MC_Pserialize | 3 CPUs of which 2 come up later, 2 writers | old version unused, two passes of every CPU, perform returns |
| condvar | MC_Condvar | 3 threads that differ in timeout and interruptibility, up to 2 items | wakeups cover the items, no stale timeout, no missed signal, waiters return |

### Bounds and why they are enough

Threads, CPUs and objects are interchangeable in the code, and its cases tell
apart at most an actor, a second one that interferes and a third that is already
there (a sleeper, another waiter). RWLock has four threads so that readers and
writers can sleep at the same time behind a holder. Three work items make a first,
a middle and a last element of a batch. Four buckets per wheel keep the difference
between the first, the last and an inner bucket on each of the four wheels; the
kernel's 256 buckets and 2^32 ints become 4 and 4^4. A ring of three slots has the
states empty, partly filled, full (two items) and wrapped around. `MaxHead` bounds
the cross calls: the counters only matter by their difference, and no property rests
on the calls coming to an end. In particular a single caller may starve in the code: it
sleeps until the box is free, and each time it wakes the box may have been
filled again. The bound would hide that, so `CallsComplete` does not promise a
caller its turn. It promises that the box is not left
unused for ever while somebody waits for it, and that every `xc_wait` returns. With the counters reduced to their difference, so that calls never end,
the property holds as well. `MaxRefs` and
`MaxLocal` bound localcount's references and each CPU's count.
`MaxItems` is two in condvar, so that one wakeup can be used while another is still
on its way; its three threads make a waiter, one that gives up and one that brings
items or waits behind them.
xcall does not check for deadlock, because the system stops when `MaxHead` is
reached.

### Fairness

Weak fairness stands for a thread or interrupt that is scheduled and goes on with
code it is bound to execute. Nobody is made to start an operation. Strong fairness
is used where something is available again and again: the chain lock in
AdaptiveMutex and the callouts' interlock (they are released between attempts),
dispatching and execution in AdaptiveMutex (round robin time slices), a holder
of the reader/writer lock that may downgrade and upgrade in between, and the
switchpoint in Pserialize, because the loop in `pserialize_perform` sends a
cross call after every tick, which makes every CPU switch. In Condvar a
thread that wants the queue lock or the mutex gets it some day (strong), as
AdaptiveMutex shows for its sleepers, and the clock ticks. In IfnetRefs a pending
soft interrupt runs when a read section ends (strong). Callout functions,
work functions and the functions of cross calls are assumed to return, read
sections to end and references to be released.

In rwlock one thread upgrades. With several threads that downgrade and
upgrade in turn TLC finds a behaviour in which a waiting writer starves: the lock
never becomes free. A single writer may also be passed over for ever by others,
because the sleep queue is kept by priority; `SleepersWake` therefore promises
that some writer is woken. The code makes no promise for these cases.

## Where the code and its comments differ

Two statements of the code are runs of their own, which TLC must find violated:

* `RegistersOnce` (run workqueue_assert): `workqueue_q_wait` asserts
  `q_waiter == NULL` on every turn of its loop (`subr_workqueue.c:304`, with
  DIAGNOSTIC), but resets it only afterwards. TLC's trace: the worker takes a first
  item, a second is enqueued and waited for, the end of the first batch wakes the
  waiter, and its item is now to be found in the next batch: it meets its own
  registration. Without DIAGNOSTIC it registers again and is woken in the end, but a
  kernel with it panics; `CallersReturn` therefore promises a waiter's return only up
  to `MeetsItself`.
* `HaltBlocks` (run callout_moved): the comment of `callout_halt` says "If
  in-flight, block until it completes" (`kern_timeout.c:458`). A callout in flight
  that is scheduled on another CPU belongs to that CPU from then on
  (`kern_timeout.c:368`), where `callout_halt` does not see it running and leaves at
  once (`kern_timeout.c:489`). `HaltWaits` is the same statement for callouts that
  were not `moved`.

The other properties carry the condition under which they hold, and the model
contains the behaviour that the condition excludes:

* `WaitsUntilFinished` (`~Relinked`): the running list is walked through links
  that `workqueue_enqueue` rewrites, so that items behind a re-enqueued one are
  not found and `workqueue_wait` returns early.
* `HaltCancels` (`revived`): `callout_halt` clears CALLOUT_PENDING before it
  sleeps and does not look again, so that a function that schedules its own
  callout meanwhile leaves it pending.
* `NeverOvertaken` (`placed`): `callout_softclock` compares `c->c_time > ticks`,
  although the header comment of the file calls comparing these times dangerous
  and asks for the difference. Around the point where the tick count passes from
  the largest to the smallest int, a callout due after it is called at once, and
  one that was due before and has not been called yet goes back into a bucket.
* `PerformReturns` (no CPU comes up): the switchpoint wants `psz_pass` and
  `psz_target` to be equal. A CPU that starts while a request waits, and passes,
  sets a bit that is not in the target, and the request never returns, whereas
  the comment calls the wait "short term".

These are visible in the actions and not stated as properties:

* `cc_cancel` is written by `callout_stop` and read nowhere.
* `psref_release` reads `prt_draining` of a target after its entry is off the
  list, when the target may already have been destroyed.
* `sleepq_block` clears LW_CANCELLED when it finds it before the sleep and not
  when it finds it afterwards, so that one `_lwp_wakeup` can end two waits.
* `if_getindex` frees the old index table as soon as it has grown it, without
  waiting for the read sections of lookups by index. The table's memory is not
  part of the model.

Whether callers ever do what is needed for these is another matter.

## Theorems

All are proved for every value of the constants that satisfies the assumptions
named in the modules: distinct null values, at least one CPU, finite sets where
something is counted or summed up, a ring of at least two slots, an even number of
buckets in a wheel, bounds that are numbers. `MaxHead`, `MaxItems`, `MaxRefs` and
`MaxLocal` are constants of the model, so the theorems hold for runs of any length. Fairness is used nowhere.

Each proof has the same shape: an inductive invariant `Inv` that contains the type
invariant, one lemma per action or group of similar actions, and the properties as
corollaries. The properties are seldom inductive; what `Inv` adds to them is the
argument why the code is right:

* **AdaptiveMutex_Proofs**: `MutexInv`, and from it `MutexMutualExclusion` and
  `MutexNoLostWakeup`. No lost wakeup is not inductive: one has to know what a
  thread that is about to sleep has learned (`WaiterKnows`): from the compare and
  swap on, a bit that is still set is on the word of the owner it was set for;
  after the second look at the CPU, that owner has not passed the test of its
  fast exit, since a thread between test and store is on a CPU (`Scheduling`).
  The chain lock keeps a second waiter and the waker away, and a free mutex has
  no bit (`NoStrayBit`).
* **RWLock_Proofs**: `RWLockInv`, `RWLockExclusion`, `RWLockSleepers` and
  `RWLockHandover`. Exclusion survives a handover only if nobody has changed the
  word since the leaving thread looked at it, which is what the code asserts. That
  rests on the two bits being exact in both directions. `BitsPresent`: a thread that
  sleeps, or is about to, has its bits in the word. `BitsJustified`: RW_HAS_WAITERS
  is set for somebody, and a lock without a writer that has waiters also has
  RW_WRITE_WANTED, which stops new readers; so the last holder, once it has seen
  waiters, is alone with the word (`ThreadsKnow`). The count of readers is a
  cardinality and is treated with the library's theorems.
* **Psref_Proofs**: `PsrefInv` and `PsrefDestroyWaits`. The CPUs answer one after
  the other; `AnsweredNoStaysNo` says that an answer is still true when the last
  one is in, because only a copy could add an entry and it needs one to copy.
  Its second half is about IfnetRefs: `IfnetInv`, `IfnetImplementsPsref` and
  `IfnetDestroyWaits`. A lookup that has the interface in its hands found it
  while it was in a table, so it is in a read section that `pserialize_perform`
  waits for (`FoundHoldsPerform`); hence no acquire comes after the destroy has
  begun, every step is one of Psref, and Psref's invariant carries over.
* **Pserialize_Proofs**: `PserializeInv`, `PserializeOldVersionUnused`,
  `PserializeTwoPasses` and `PserializeWorkTodoExact`. `StaleReaderBlocks`: a
  reader with the old version has not been through the switchpoint since the
  update and keeps the request on the first queue; a CPU that comes up later
  has no reader with the old version. `TwoPasses`, over the CPUs that ran when the
  request was made, is part of the invariant; it needs that a request on the second
  queue has one pass of every CPU behind it and counts each again, which the order of
  the scan provides. The counter `psz_work_todo` is proved with the
  cardinality theorems of the library.
* **Xcall_Proofs**: `XcallInv`, `XcallBoxAccounted` and `XcallImplements`. The
  counters differ by the number of CPUs that have still to run (`BoxAccounted`).
  `CpuPlaces` says that a CPU with a run pending is not running, so that no run is
  asked for twice, and that before the IPIs are sent no CPU has begun; `Tickets`
  says that the ticket of the call in the box is the end of the box. From these,
  `xc_donep >= where` in `xc_wait` means that the call's own runs are over,
  however often the box has been used since; this is the step of CrossCall that
  is hard to see in the code. The theorem is CrossCall's initial condition and
  next-state relation; its fairness part is checked by TLC (`ImplementsCrossCall`).
* **Condvar_Proofs**: `CondvarInv`, `CondvarWakeups`, `CondvarNoStaleTimeout` and
  `CondvarSignals`. Besides the three properties the invariant says who holds
  the mutex and the queue lock (`Places`), that a queue from which a sleeper
  is taken for a moment is locked and not empty (so `cv_signal`'s unlocked look at it
  is right), and that only threads with a timeout have a callout. The items
  covered are counted with the cardinality of the threads on their way.
* **Deferred_Proofs**, Callout: `CalloutInv`, `CalloutQueuesAgree`, `CalloutHaltCancels`, the
  action property `CalloutHaltWaits`, and `CalloutSleepersCounted`. `Calls`: a
  callout in flight runs on the CPU it belongs to unless it was moved meanwhile,
  so the `cc_active` that `callout_halt` looks at is the right one. `Halts`: what a
  thread in `callout_halt` has cancelled stays cancelled unless its function
  revives it. `SleepersCounted` is a result of its own: whoever sleeps in
  `callout_halt` is on the channel of one CPU, that CPU is in a call, and its
  `cc_nwait` is the number of its sleepers, so the wakeup at the end of the
  call is neither skipped nor short.
* **Deferred_Proofs**, Workqueue: `WorkqueueInv`, `WorkqueueRunsWhatItTook`,
  `WorkqueueRunningList` and `WorkqueueWaitsUntilFinished`. The
  worker reads a link before it calls an item, and afterwards the item may be
  enqueued again and its link rewritten. `Links`: an item on the pending list,
  or on the part of the running list still to be called, is there once and links
  to the item behind it; `SIMPLEQ_INSERT_TAIL` writes only the links of the new item
  and of the last pending one, and neither is one the worker has yet to follow.
  `WorkerKnows` is about the link that it holds in a local variable, and
  `Destroying` says that the item of `workqueue_finiqueue` goes on an empty list.
  `workqueue_wait` walks both lists from the first item on. `RunningList`: until an
  item of the batch is enqueued again, the running list is the whole batch, those
  already called included. `WalkMeetsAll` says that following the links of such a list
  meets all its items; the walk is a recursive function of the number of steps, and
  `BatchFits` says that the steps suffice.
* **Deferred_Proofs**, CalloutWheel: `WheelInductive`, `WheelNeverOvertaken` and the
  action property `WheelLeavesBucketInTime`. A callout that is scheduled again for a
  later time stays in its bucket, so the bucket is not that of its own time any more.
  `PlacedInTime` therefore speaks of a time `c`, not after the callout's, whose bucket
  it is in, and says that the clock is before the beginning of that bucket's span.
  `MovedAtStart`: at that tick all lower digits are zero and `callout_hardclock` moves
  the bucket; so the clock cannot pass it (`HardClockInv`). `RightWheel`: the wheel
  that `BUCKET` picks by the distance is one whose span begins in the future, with
  `rel` equal to a power of the wheel size on the lower wheel. `LessThanSpan` is
  needed for the action property: the tick that empties a bucket is a multiple of the
  span, and less than a turn away, so it begins the callout's own span and not the
  same bucket's one turn earlier. `DiffTick`, `DiffDelay` and `DiffOfDiffs` are the
  arithmetic of ints that wrap around.
* **Lockless_Proofs**, Pcq: `PcqInv`, `PcqSlotsAccounted` and `PcqImplementsQueue`. `Used`
  replaces the arithmetic modulo the size of the ring, and the lemmas
  `AdvanceProducer` and `AdvanceConsumer` say that an advance puts one slot into use
  and takes one out. `ConsumerKnows`: nobody else moves the consumer's
  index, so the slot it emptied is the one it frees although its compare and swap
  may fail many times. For the refinement, `Located` says where the i-th item of
  the queue is: in its slot, with the one producer that has claimed it, or with the
  consumer. A successful compare and swap then appends to the queue or removes
  its head, and every other step only moves an item between those places.
* **Lockless_Proofs**, RunOnce: `RunOnceInv`, `RunOnceRunsOnce`, `RunOnceSleepers` and
  the action property `RunOnceResultStable`. Needed besides: what a thread's place
  says about its object (`PlaceMatchesStatus`).
* **Lockless_Proofs**, Localcount: `LcInductive`, `LcCountsAddUp` and `LcDrainWaits`. That
  the counts and the total add up is inductive only together with what makes each
  decrement hit a count that still matters. `Counted`: a CPU that has run
  `localcount_xc` has a count of zero and no release between its look at `lc_totalp`
  and its decrement, since a cross call does not run there while preemption is
  disabled. `Held`: every release under way has a reference of its own, so the total
  that a slow release decrements is still there. The sum over the CPUs is the
  community modules' `MapThenSumSet`; `TableExists`, `TableLaws` and `SumUpdate` show
  that it is defined for every finite set, does not depend on the order, and changes
  by as much as the count that is changed.

The library's induction theorems have an operator as a parameter and cannot be used
here. Where a proof needs induction it takes a smallest counterexample instead: the
natural numbers and the subsets of a finite set are well founded, which the library
states for sets (`LeastNat`, `SmallestSet`).

The inductive invariants were checked by TLC on the runs' instances before they were
proved; their conjuncts that matter to users of the code are properties of the runs.

Only model-checked:

* all liveness properties, and the fairness part of `ImplementsCrossCall`: the
  prover does not handle fairness.

Every invariant and every other action property of the passing runs is a theorem.

## Plan

Done: the twelve components above, three refinements (Pcq, Xcall, IfnetRefs) and
proofs about all of them. What is left, in this order:

1. Turnstiles (`kern_turnstile.c`): threads that lend and take back their
   turnstiles, priority inheritance along chains of owners.
2. Soft interrupts and `ipi(9)`; the kernel lock with its recursion count;
   spin mutexes and `mutex_destroy`.

## Not modelled

Memory allocation, file systems, drivers, machine-dependent code,
compatibility layers and boot code, and networking beyond the interface table: too large, pure I/O, or with specifications of
their own; each is listed in `PROJECT.json` with the reason. Inside the modelled
files: spin mutexes, `mutex_destroy`, LOCKDEBUG and LOCKSTAT code, statistics,
panics on misuse, queries that change nothing, the order of sleep queues by
priority and the lending of turnstiles and priorities, stopped processes,
`cv_timedwaitbt` (arithmetic around `cv_timedwait`), `tsleep` and `wakeup`, `callout_setfunc`, `callout_halt` called by
the callout's own function, `callout_ack`
(CALLOUT_INVOKING is read by `callout_invoking` alone), the early
boot path in which no other CPU runs, the choice of an index and the growth of the
index table in `if_getindex`, and everything that `if_detach` purges and tears down
besides the two tables and the references.
