----------------------------- MODULE Pserialize -----------------------------
(***************************************************************************)
(* Passive serialization (sys/kern/subr_pserialize.c).  Readers take no    *)
(* lock; they only do not switch context.  A writer makes its update       *)
(* visible, calls pserialize_perform(), and may free what it replaced once *)
(* every CPU has switched context twice.  Each object of the model is one  *)
(* pserialize_t with its writer.  CPUs come up meanwhile: mp_online is set *)
(* before the secondary processors are started.                            *)
(***************************************************************************)
EXTENDS Naturals, FiniteSets

CONSTANTS Objects, CPUs,
          BootCpu     \* the CPU that runs from the start

ASSUME PszAssumption == BootCpu \in CPUs /\ IsFiniteSet(Objects)

VARIABLES kcpuset_running,
          psz_work_todo,
          psz_queue,   \* which of the three queues each object is on, or "none"
          psz_target,
          psz_pass,
          writer,      \* where each object's writer is
          cpu_pc,      \* "run", "read" (in a read section) or "switch"
          stale,       \* per CPU: the objects of which its reader may have
                       \* picked up the old version
          asked,       \* history: the CPUs that ran when the request was made
          passes       \* history: context switches of each CPU since then,
                       \* counted up to two

vars == <<kcpuset_running, psz_work_todo, psz_queue, psz_target, psz_pass, writer, cpu_pc,
          stale, asked, passes>>
pszVars == <<psz_work_todo, psz_queue, psz_target, psz_pass>>

\* mi_cpu_init(), pserialize_init() and pserialize_create()
Init ==
    /\ kcpuset_running = {BootCpu}
    /\ asked = [o \in Objects |-> {}]
    /\ psz_work_todo = 0
    /\ psz_queue = [o \in Objects |-> "none"]
    /\ psz_target = [o \in Objects |-> {}]
    /\ psz_pass = [o \in Objects |-> {}]
    /\ writer = [o \in Objects |-> "idle"]
    /\ cpu_pc = [cpu \in CPUs |-> "run"]
    /\ stale = [cpu \in CPUs |-> {}]
    /\ passes = [o \in Objects |-> [cpu \in CPUs |-> 0]]

-----------------------------------------------------------------------------
(* The writer *)

\* The update: from now on readers find the new version.  Those that are in a
\* read section may have the old one.
Publish(o) ==
    /\ writer[o] = "idle"
    /\ writer' = [writer EXCEPT ![o] = "published"]
    /\ stale' = [cpu \in CPUs |-> IF cpu_pc[cpu] = "read" THEN stale[cpu] \cup {o}
                                                          ELSE stale[cpu]]
    /\ UNCHANGED <<pszVars, cpu_pc, asked, passes, kcpuset_running>>

\* pserialize_perform() sets up the object, without the lock: the CPUs to wait
\* for are those that run now ...
PerformStart(o) ==
    /\ writer[o] = "published"
    /\ psz_target' = [psz_target EXCEPT ![o] = kcpuset_running]
    /\ asked' = [asked EXCEPT ![o] = kcpuset_running]
    /\ psz_pass' = [psz_pass EXCEPT ![o] = {}]
    /\ passes' = [passes EXCEPT ![o] = [cpu \in CPUs |-> 0]]
    /\ writer' = [writer EXCEPT ![o] = "copied"]
    /\ UNCHANGED <<psz_work_todo, psz_queue, cpu_pc, stale, kcpuset_running>>

\* ... and puts it onto the first queue, under psz_lock.
PerformInsert(o) ==
    /\ writer[o] = "copied"
    /\ psz_queue' = [psz_queue EXCEPT ![o] = "q0"]
    /\ psz_work_todo' = psz_work_todo + 1
    /\ writer' = [writer EXCEPT ![o] = "waiting"]
    /\ UNCHANGED <<psz_target, psz_pass, cpu_pc, stale, asked, passes,
                   kcpuset_running>>

\* The loop is left when psz_target is empty.  (The cross call in the loop is
\* there to make the CPUs switch; see Spec.)
PerformReturn(o) ==
    /\ writer[o] = "waiting"
    /\ psz_target[o] = {}
    /\ writer' = [writer EXCEPT ![o] = "free"]
    /\ UNCHANGED <<pszVars, cpu_pc, stale, asked, passes, kcpuset_running>>

\* The writer frees the old version.
Free(o) ==
    /\ writer[o] = "free"
    /\ writer' = [writer EXCEPT ![o] = "idle"]
    /\ asked' = [asked EXCEPT ![o] = {}]
    /\ passes' = [passes EXCEPT ![o] = [cpu \in CPUs |-> 0]]
    /\ UNCHANGED <<pszVars, cpu_pc, stale, kcpuset_running>>

-----------------------------------------------------------------------------
\* idle_loop() on a CPU that comes up
CpuStart(cpu) ==
    /\ cpu \notin kcpuset_running
    /\ kcpuset_running' = kcpuset_running \cup {cpu}
    /\ UNCHANGED <<pszVars, writer, cpu_pc, stale, asked, passes>>

-----------------------------------------------------------------------------
(* Readers: pserialize_read_enter() blocks soft interrupts, and with them      *)
(* preemption, until pserialize_read_exit().                                   *)

ReadEnter(cpu) ==
    /\ cpu \in kcpuset_running
    /\ cpu_pc[cpu] = "run"
    /\ cpu_pc' = [cpu_pc EXCEPT ![cpu] = "read"]
    /\ UNCHANGED <<pszVars, writer, stale, asked, passes, kcpuset_running>>

ReadExit(cpu) ==
    /\ cpu_pc[cpu] = "read"
    /\ cpu_pc' = [cpu_pc EXCEPT ![cpu] = "run"]
    /\ stale' = [stale EXCEPT ![cpu] = {}]
    /\ UNCHANGED <<pszVars, writer, asked, passes, kcpuset_running>>

-----------------------------------------------------------------------------
(* pserialize_switchpoint() *)

\* The test of psz_work_todo, without the lock
SwitchTest(cpu) ==
    /\ cpu \in kcpuset_running
    /\ cpu_pc[cpu] = "run"
    /\ psz_work_todo # 0
    /\ cpu_pc' = [cpu_pc EXCEPT ![cpu] = "switch"]
    /\ UNCHANGED <<pszVars, writer, stale, asked, passes, kcpuset_running>>

\* Mutant of Passed: not every CPU is waited for.
PassedMut(o, cpu) == TRUE

\* kcpuset_match(psz->psz_pass, psz->psz_target), with this CPU's bit set: the
\* two are equal, so that a bit that is not in the target is in the way for ever
Passed(o, cpu) == psz_pass[o] \cup {cpu} = psz_target[o]

\* Where the scan of the second, the first and then the third queue leaves o.
NextQueue(o, cpu) ==
    IF Passed(o, cpu) THEN IF psz_queue[o] = "q0" THEN "q1" ELSE "none"
                      ELSE psz_queue[o]

\* Mutant of PassAfter: the first queue is scanned before the second, so that a
\* request moved to the second is met again at the same switchpoint.
PassAfterMut(o, cpu) ==
    IF ~Passed(o, cpu) THEN psz_pass[o] \cup {cpu}
    ELSE IF psz_queue[o] = "q0" THEN {cpu} ELSE {}

\* psz_pass of a request that the scan has met: kcpuset_zero() if all passed
PassAfter(o, cpu) == IF Passed(o, cpu) THEN {} ELSE psz_pass[o] \cup {cpu}

\* Mutant of WorkLeft: one finished request resets the count.
WorkLeftMut(done) == IF done = {} THEN psz_work_todo ELSE 0

\* psz_work_todo-- for each finished request
WorkLeft(done) == psz_work_todo - Cardinality(done)

Queued == {o \in Objects : psz_queue[o] # "none"}

\* What reaches the third queue is taken off it at once: the request is done.
Finished(cpu) == {o \in Queued : NextQueue(o, cpu) = "none"}

\* The scan, under psz_lock
SwitchScan(cpu) ==
    /\ cpu_pc[cpu] = "switch"
    /\ psz_queue' = [o \in Objects |-> NextQueue(o, cpu)]
    /\ psz_pass' = [o \in Objects |->
          IF o \in Queued THEN PassAfter(o, cpu) ELSE psz_pass[o]]
    /\ psz_target' = [o \in Objects |->
          IF o \in Finished(cpu) THEN {} ELSE psz_target[o]]
    /\ psz_work_todo' = WorkLeft(Finished(cpu))
    /\ passes' = [o \in Objects |->
          IF o \in Queued /\ cpu \in asked[o] /\ passes[o][cpu] < 2
          THEN [passes[o] EXCEPT ![cpu] = @ + 1] ELSE passes[o]]
    /\ cpu_pc' = [cpu_pc EXCEPT ![cpu] = "run"]
    /\ UNCHANGED <<writer, stale, asked, kcpuset_running>>

-----------------------------------------------------------------------------
Next ==
    \/ \E o \in Objects :
         \/ Publish(o) \/ PerformStart(o) \/ PerformInsert(o)
         \/ PerformReturn(o) \/ Free(o)
    \/ \E cpu \in CPUs :
         CpuStart(cpu) \/ ReadEnter(cpu) \/ ReadExit(cpu) \/ SwitchTest(cpu) \/ SwitchScan(cpu)

\* The loop in pserialize_perform() broadcasts a cross call until it is done, so
\* every CPU keeps switching, also between read sections (SF); read sections
\* end.
Spec ==
    /\ Init /\ [][Next]_vars
    /\ \A o \in Objects :
         WF_vars(PerformStart(o)) /\ WF_vars(PerformInsert(o)) /\ WF_vars(PerformReturn(o))
    /\ \A cpu \in CPUs :
         WF_vars(ReadExit(cpu)) /\ SF_vars(SwitchTest(cpu)) /\ WF_vars(SwitchScan(cpu))

-----------------------------------------------------------------------------
\* Every variable has its type.
TypeOK ==
    /\ kcpuset_running \subseteq CPUs
    /\ psz_work_todo \in Nat
    /\ psz_queue \in [Objects -> {"none", "q0", "q1"}]
    /\ psz_target \in [Objects -> SUBSET CPUs]
    /\ psz_pass \in [Objects -> SUBSET CPUs]
    /\ writer \in [Objects -> {"idle", "published", "copied", "waiting", "free"}]
    /\ cpu_pc \in [CPUs -> {"run", "read", "switch"}]
    /\ stale \in [CPUs -> SUBSET Objects]
    /\ asked \in [Objects -> SUBSET CPUs]
    /\ passes \in [Objects -> [CPUs -> 0..2]]

\* When pserialize_perform() has returned no reader has the old version, not on
\* a CPU that came up after the request was made either.
OldVersionUnused ==
    \A o \in Objects, cpu \in CPUs : writer[o] = "free" => o \notin stale[cpu]

\* "We wait until every processor in the system has made at least two passes
\* through cpu_switchto()": every one that ran when the request was made.
TwoPasses ==
    \A o \in Objects : writer[o] = "free" => \A cpu \in asked[o] : passes[o][cpu] = 2

\* psz_work_todo, which switchpoints read without the lock, is the number of
\* requests on the queues: it is zero only when there is nothing to do.
WorkTodoExact ==
    /\ psz_work_todo = Cardinality(Queued)
    /\ \A o \in Objects :
         writer[o] # "copied" => (psz_queue[o] # "none" <=> psz_target[o] # {})

\* Readers are on CPUs that run.  A request on a queue is its writer's, and
\* waits for the CPUs that ran when it was made.
QueuedIsWaiting ==
    /\ kcpuset_running # {}
    /\ \A cpu \in CPUs : cpu_pc[cpu] = "read" => cpu \in kcpuset_running
    /\ \A o \in Objects :
        /\ psz_queue[o] # "none" => writer[o] = "waiting" /\ psz_target[o] = asked[o]
        /\ writer[o] = "copied" =>
             psz_target[o] = asked[o] /\ asked[o] # {} /\ psz_pass[o] = {}

\* A reader with the old version has been in its read section since the update,
\* so its CPU is one of those to wait for, has not been through the switchpoint
\* and holds the request on the first queue.
StaleReaderBlocks ==
    \A o \in Objects, cpu \in CPUs : o \in stale[cpu] =>
        /\ cpu_pc[cpu] = "read"
        /\ \/ writer[o] = "published"
           \/ writer[o] = "copied" /\ cpu \in asked[o]
           \/ psz_queue[o] = "q0" /\ cpu \in asked[o] \ psz_pass[o]

\* What psz_pass and the queue say about the passes made so far.
PassesRecorded ==
    \A o \in Objects : \A cpu \in asked[o] :
        /\ psz_queue[o] = "q0" /\ cpu \in psz_pass[o] => passes[o][cpu] >= 1
        /\ psz_queue[o] = "q1" =>
             passes[o][cpu] >= (IF cpu \in psz_pass[o] THEN 2 ELSE 1)
        /\ psz_queue[o] = "none" /\ writer[o] = "waiting" => passes[o][cpu] = 2

\* The inductive invariant of Pserialize_Proofs.
Inv ==
    /\ TypeOK /\ WorkTodoExact /\ QueuedIsWaiting
    /\ StaleReaderBlocks /\ PassesRecorded /\ TwoPasses

\* pserialize_perform() returns, whatever other requests are on the queues, if no
\* CPU comes up while it waits.
PerformReturns ==
    \A o \in Objects :
        writer[o] = "published" ~>
            writer[o] = "free" \/ (writer[o] = "waiting" /\ asked[o] # kcpuset_running)
=============================================================================
