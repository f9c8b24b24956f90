-------------------------- MODULE Deferred_Proofs --------------------------
(***************************************************************************)
(* Proofs about the two ways to have a function called later, and about    *)
(* the timing wheel that tells when.                                       *)
(*                                                                         *)
(* Callout, for any callouts, threads and CPUs: the queues hold what is    *)
(* pending, callout_halt() cancels and waits, and a thread that waits in   *)
(* it is counted by a CPU that is in a call.  Workqueue, for any items:    *)
(* the worker calls what it took from the queue, although the items may be *)
(* enqueued again meanwhile and their links rewritten, and a thread that   *)
(* waits for an item does not miss it.  CalloutWheel, for any even number  *)
(* of buckets in a wheel: the clock never overtakes a callout in a bucket. *)
(***************************************************************************)
EXTENDS Callout, Workqueue, CalloutWheel, FiniteSetTheorems, SequenceTheorems,
        WellFoundedInduction, TLAPS

FuncLabels == {"none", "biglock", "called", "body", "returned"}
HaltLabels == {"idle", "check", "asleep", "relock", "halted"}
HaltRecords == [pc : HaltLabels, c : Callouts \cup {None},
                interlock : BOOLEAN, relock : BOOLEAN]

\* Every variable has its type.
TypeOK ==
    /\ c_cpu \in [Callouts -> CPUs]
    /\ c_flags \in [Callouts -> SUBSET {"PENDING", "FIRED"}]
    /\ cc_queue \in [CPUs -> SUBSET Callouts]
    /\ cc_active \in [CPUs -> Callouts \cup {None}]
    /\ cc_nwait \in [CPUs -> Nat]
    /\ cc_sleepq \in [CPUs -> SUBSET Threads]
    /\ func \in [CPUs -> FuncLabels]
    /\ th \in [Threads -> HaltRecords]
    /\ interlock \in Threads \cup CPUs \cup {None}
    /\ revived \subseteq Callouts /\ moved \subseteq Callouts

\* A callout is called by the CPU it belongs to, if it was not moved meanwhile.
Calls ==
    /\ \A cpu \in CPUs : func[cpu] = "none" <=> cc_active[cpu] = None
    /\ \A cpu \in CPUs, c \in Callouts :
         cc_active[cpu] = c => c_cpu[c] = cpu \/ c \in moved

\* A callout that a thread halts stays cancelled, and once the thread has left the
\* loop it stays out of flight.
Halts ==
    \A t \in Threads :
        /\ th[t].pc = "idle" <=> th[t].c = None
        /\ th[t].pc # "idle" /\ th[t].c \notin revived => "PENDING" \notin c_flags[th[t].c]
        /\ th[t].pc \in {"relock", "halted"} /\ th[t].c \notin revived \cup moved =>
             ~InFlight(th[t].c)

\* No wakeup can be lost in callout_halt(): every thread that sleeps there does so
\* on the channel of one CPU, which is in a call and has counted it.
SleepersCounted ==
    /\ \A cpu \in CPUs :
         /\ IsFiniteSet(cc_sleepq[cpu])
         /\ cc_nwait[cpu] = Cardinality(cc_sleepq[cpu])
         /\ cc_sleepq[cpu] # {} => cc_active[cpu] # None
    /\ \A t \in Threads : th[t].pc = "asleep" <=> \E cpu \in CPUs : t \in cc_sleepq[cpu]
    /\ \A cpu, other \in CPUs : cpu # other => cc_sleepq[cpu] \cap cc_sleepq[other] = {}

Inv == TypeOK /\ QueuesAgree /\ Calls /\ Halts /\ SleepersCounted
-----------------------------------------------------------------------------
\* Initially nothing is pending and nobody halts anything.
LEMMA InitInv == Init => Inv
<1> SUFFICES ASSUME Init PROVE Inv
  OBVIOUS
<1>1. TypeOK
  BY DEF Init, TypeOK, FuncLabels, HaltLabels, HaltRecords, Idle
<1>2. QueuesAgree /\ Calls
  BY CalloutAssumption DEF Init, QueuesAgree, Calls
<1>3. Halts
  BY DEF Init, Halts, Idle
<1>4. SleepersCounted
  BY FS_EmptySet DEF Init, SleepersCounted, Idle
<1> QED
  BY <1>1, <1>2, <1>3, <1>4 DEF Inv

\* callout_schedule_locked() puts a callout on one queue, and moves it only when
\* it is on none.
LEMMA ScheduleKeeps ==
    ASSUME Inv, NEW c \in Callouts, NEW curcpu \in CPUs, Schedule(c, curcpu),
           UNCHANGED <<callVars, interlock, th>>,
           Halting(c) => c \in revived', revived \subseteq revived', revived' \subseteq Callouts
    PROVE  Inv'
<1> USE DEF Inv
<1>1. PICK cpu \in NewCpus(c, curcpu) :
         /\ c_cpu' = [c_cpu EXCEPT ![c] = cpu]
         /\ moved' = IF cpu # c_cpu[c] /\ InFlight(c) /\ ~Bound(c)
                     THEN moved \cup {c} ELSE moved
         /\ cc_queue' = [cc_queue EXCEPT ![cpu] = @ \cup {c}]
  BY DEF Schedule
<1>2. /\ cpu \in CPUs
      /\ cpu # c_cpu[c] => "PENDING" \notin c_flags[c] /\ ~Bound(c)
  BY DEF NewCpus, Movable, TypeOK
<1>3. /\ c_flags' = [c_flags EXCEPT ![c] = (@ \ {"FIRED"}) \cup {"PENDING"}]
      /\ UNCHANGED <<cc_active, cc_nwait, cc_sleepq, func, interlock, th>>
  BY DEF Schedule, callVars
<1>4. /\ moved \subseteq moved' /\ moved' \subseteq Callouts
      /\ cpu # c_cpu[c] /\ InFlight(c) => c \in moved'
  BY <1>1, <1>2 DEF TypeOK
<1>5. TypeOK'
  <2>1. c_cpu' \in [Callouts -> CPUs] /\ cc_queue' \in [CPUs -> SUBSET Callouts]
    BY <1>1, <1>2 DEF TypeOK
  <2>2. c_flags' \in [Callouts -> SUBSET {"PENDING", "FIRED"}]
    BY <1>3 DEF TypeOK
  <2> QED
    BY <1>3, <1>4, <2>1, <2>2 DEF TypeOK
<1>6. QueuesAgree'
  BY <1>1, <1>2, <1>3 DEF QueuesAgree, TypeOK
<1>7. Calls'
  BY <1>1, <1>2, <1>3, <1>4 DEF Calls, InFlight, TypeOK
<1>8. Halts'
  BY <1>3, <1>4 DEF Halts, Halting, InFlight, TypeOK
<1>9. SleepersCounted'
  BY <1>3 DEF SleepersCounted
<1> QED
  BY <1>5, <1>6, <1>7, <1>8, <1>9

\* What callout_stop() and callout_halt() begin with takes the callout off its queue.
LEMMA CancelKeeps ==
    ASSUME Inv, NEW c \in Callouts, Cancel(c), UNCHANGED c_cpu
    PROVE  /\ cc_queue' \in [CPUs -> SUBSET Callouts]
           /\ c_flags' \in [Callouts -> SUBSET {"PENDING", "FIRED"}]
           /\ "PENDING" \notin c_flags'[c]
           /\ \A k \in Callouts \ {c} : c_flags'[k] = c_flags[k]
           /\ QueuesAgree'
<1> USE DEF Inv
<1>1. /\ c_flags' = [c_flags EXCEPT ![c] = @ \ {"PENDING", "FIRED"}]
      /\ "PENDING" \in c_flags[c] => cc_queue' = [cc_queue EXCEPT ![c_cpu[c]] = @ \ {c}]
      /\ "PENDING" \notin c_flags[c] => cc_queue' = cc_queue
  BY DEF Cancel
<1>2. /\ c_flags' \in [Callouts -> SUBSET {"PENDING", "FIRED"}]
      /\ "PENDING" \notin c_flags'[c] /\ "FIRED" \notin c_flags'[c]
      /\ \A k \in Callouts \ {c} : c_flags'[k] = c_flags[k]
  BY <1>1 DEF TypeOK
<1>3. cc_queue' \in [CPUs -> SUBSET Callouts]
  BY <1>1 DEF TypeOK
<1>4. QueuesAgree'
  BY <1>1, <1>2 DEF QueuesAgree, TypeOK
<1> QED
  BY <1>2, <1>3, <1>4

\* A callout is stopped, by a thread or by its function.
LEMMA StopInv ==
    ASSUME Inv, NEW c \in Callouts, Cancel(c),
           UNCHANGED <<c_cpu, callVars, interlock, th, histVars>>
    PROVE  Inv'
<1> USE DEF Inv
<1>1. UNCHANGED <<c_cpu, cc_active, cc_nwait, cc_sleepq, func, interlock, th, revived, moved>>
  BY DEF callVars, histVars
<1>2. TypeOK'
  BY <1>1, CancelKeeps DEF TypeOK
<1>3. Calls' /\ SleepersCounted'
  BY <1>1 DEF Calls, SleepersCounted
<1>4. Halts'
  BY <1>1, CancelKeeps DEF Halts, InFlight, TypeOK, HaltRecords
<1> QED
  BY <1>1, <1>2, <1>3, <1>4, CancelKeeps

\* callout_halt() begins: from now on the callout is cancelled.
LEMMA HaltStartInv ==
    ASSUME Inv, NEW t \in Threads, NEW c \in Callouts, NEW withInterlock \in BOOLEAN,
           HaltStart(t, c, withInterlock)
    PROVE  Inv'
<1> USE DEF Inv
<1>1. /\ UNCHANGED <<c_cpu, cc_active, cc_nwait, cc_sleepq, func, revived, moved>>
      /\ Cancel(c) /\ th[t].pc = "idle"
      /\ interlock' \in Threads \cup CPUs \cup {None}
  BY DEF HaltStart, callVars, histVars, TypeOK
<1>2. /\ th' \in [Threads -> HaltRecords]
      /\ th'[t].pc = "check" /\ th'[t].c = c
      /\ \A k \in Threads \ {t} : th'[k] = th[k]
  BY DEF HaltStart, TypeOK, HaltRecords, HaltLabels
<1>3. TypeOK'
  BY <1>1, <1>2, CancelKeeps DEF TypeOK
<1>4. Calls'
  BY <1>1 DEF Calls
<1>5. Halts'
  BY <1>1, <1>2, CancelKeeps, CalloutAssumption, SMTT(30) DEF Halts, InFlight, TypeOK, HaltRecords
<1>6. SleepersCounted'
  BY <1>1, <1>2 DEF SleepersCounted
<1> QED
  BY <1>1, <1>3, <1>4, <1>5, <1>6, CancelKeeps

\* The loop is left when the callout's CPU does not call it, and so nobody does.
LEMMA LeaveSafe ==
    ASSUME Inv, NEW t \in Threads, HaltLeave(t)
    PROVE  th[t].c \in Callouts /\ (th[t].c \in moved \/ ~InFlight(th[t].c))
<1>1. th[t].c \in Callouts
  BY DEF Inv, HaltLeave, Halts, TypeOK, HaltRecords
<1> QED
  BY <1>1 DEF Inv, HaltLeave, MustWait, Calls, InFlight

\* The steps of callout_halt() from there, apart from going to sleep
LEMMA HaltStepInv ==
    ASSUME Inv, NEW t \in Threads, HaltLeave(t) \/ HaltDropInterlock(t) \/ HaltRelock(t)
    PROVE  Inv'
<1> USE DEF Inv
<1>1. UNCHANGED <<c_cpu, c_flags, cc_queue, cc_active, cc_nwait, cc_sleepq, func,
                  revived, moved>>
  BY DEF HaltLeave, HaltDropInterlock, HaltRelock, callVars, histVars
<1>2. /\ interlock' \in Threads \cup CPUs \cup {None}
      /\ th' \in [Threads -> HaltRecords]
      /\ \A k \in Threads \ {t} : th'[k] = th[k]
      /\ th'[t].c = th[t].c
      /\ \/ th[t].pc = "check" /\ th'[t].pc = "check"
         \/ HaltLeave(t) /\ th[t].pc = "check" /\ th'[t].pc \in {"relock", "halted"}
         \/ th[t].pc = "relock" /\ th'[t].pc = "halted"
  <2>1. CASE HaltLeave(t)
    <3>1. PICK label \in {"relock", "halted"} : th' = [th EXCEPT ![t].pc = label]
      BY <2>1 DEF HaltLeave
    <3> QED
      BY <2>1, <3>1 DEF HaltLeave, TypeOK, HaltRecords, HaltLabels
  <2>2. CASE HaltDropInterlock(t)
    <3>1. /\ th[t].pc = "check" /\ interlock' = None
          /\ th' = [th EXCEPT ![t].interlock = FALSE, ![t].relock = TRUE]
      BY <2>2 DEF HaltDropInterlock
    <3>2. PICK r : r = [th[t] EXCEPT !.interlock = FALSE, !.relock = TRUE]
      OBVIOUS
    <3>3. r \in HaltRecords /\ r.pc = "check" /\ r.c = th[t].c
      BY <3>1, <3>2 DEF TypeOK, HaltRecords
    <3>4. th' = [th EXCEPT ![t] = r]
      BY <3>1, <3>2
    <3>5. /\ th' \in [Threads -> HaltRecords] /\ th'[t] = r
          /\ \A k \in Threads \ {t} : th'[k] = th[k]
      BY <3>3, <3>4 DEF TypeOK
    <3> QED
      BY <3>1, <3>3, <3>5
  <2>3. CASE HaltRelock(t)
    <3>1. /\ th[t].pc = "relock" /\ interlock' = t
          /\ th' = [th EXCEPT ![t].pc = "halted", ![t].interlock = TRUE, ![t].relock = FALSE]
      BY <2>3 DEF HaltRelock
    <3>2. th'[t].pc = "halted" /\ th'[t].c = th[t].c
      BY <3>1 DEF TypeOK, HaltRecords
    <3>3. th' \in [Threads -> HaltRecords]
      <4>1. PICK r : r = [th[t] EXCEPT !.pc = "halted", !.interlock = TRUE, !.relock = FALSE]
        OBVIOUS
      <4>2. r \in HaltRecords
        BY <4>1 DEF TypeOK, HaltRecords, HaltLabels
      <4>3. th' = [th EXCEPT ![t] = r]
        BY <3>1, <4>1
      <4> QED
        BY <4>2, <4>3 DEF TypeOK
    <3> QED
      BY <3>1, <3>2, <3>3 DEF TypeOK
  <2> QED
    BY <2>1, <2>2, <2>3
<1>3. TypeOK'
  BY <1>1, <1>2 DEF TypeOK
<1>4. QueuesAgree' /\ Calls'
  BY <1>1 DEF QueuesAgree, Calls
<1>5. Halts'
  BY <1>1, <1>2, LeaveSafe DEF Halts, InFlight
<1>6. SleepersCounted'
  BY <1>1, <1>2 DEF SleepersCounted
<1> QED
  BY <1>3, <1>4, <1>5, <1>6

\* A thread sleeps, and is counted, on a CPU that is in a call.
LEMMA HaltSleepInv == ASSUME Inv, NEW t \in Threads, HaltSleep(t) PROVE Inv'
<1> USE DEF Inv
<1> DEFINE cpu == c_cpu[th[t].c]
<1>1. /\ UNCHANGED <<c_cpu, c_flags, cc_queue, cc_active, func, interlock, revived, moved>>
      /\ cc_nwait' = [cc_nwait EXCEPT ![cpu] = @ + 1]
      /\ cc_sleepq' = [cc_sleepq EXCEPT ![cpu] = @ \cup {t}]
      /\ th[t].pc = "check" /\ cc_active[cpu] = th[t].c
      /\ th' = [th EXCEPT ![t].pc = "asleep"]
  BY DEF HaltSleep, histVars, MustWait
<1>2. th[t].c \in Callouts /\ cpu \in CPUs
  BY <1>1 DEF Halts, TypeOK, HaltRecords
<1>3. /\ th' \in [Threads -> HaltRecords]
      /\ \A k \in Threads \ {t} : th'[k] = th[k]
      /\ th'[t].c = th[t].c /\ th'[t].pc = "asleep"
  BY <1>1 DEF TypeOK, HaltRecords, HaltLabels
<1>4. /\ cc_nwait' \in [CPUs -> Nat] /\ cc_sleepq' \in [CPUs -> SUBSET Threads]
      /\ cc_nwait'[cpu] = cc_nwait[cpu] + 1 /\ cc_sleepq'[cpu] = cc_sleepq[cpu] \cup {t}
      /\ \A k \in CPUs \ {cpu} : cc_nwait'[k] = cc_nwait[k] /\ cc_sleepq'[k] = cc_sleepq[k]
  BY <1>1, <1>2 DEF TypeOK
<1>5. TypeOK'
  BY <1>1, <1>3, <1>4 DEF TypeOK
<1>6. QueuesAgree' /\ Calls'
  BY <1>1 DEF QueuesAgree, Calls
<1>7. Halts'
  BY <1>1, <1>3 DEF Halts, InFlight
<1>8. SleepersCounted'
  <2>1. \A k \in CPUs : t \notin cc_sleepq[k]
    BY <1>1 DEF SleepersCounted
  <2>2. /\ IsFiniteSet(cc_sleepq'[cpu])
        /\ cc_nwait'[cpu] = Cardinality(cc_sleepq'[cpu])
    <3>1. /\ IsFiniteSet(cc_sleepq[cpu]) /\ cc_nwait[cpu] = Cardinality(cc_sleepq[cpu])
          /\ t \notin cc_sleepq[cpu]
      BY <1>2, <2>1 DEF SleepersCounted
    <3>2. /\ IsFiniteSet(cc_sleepq[cpu] \cup {t})
          /\ Cardinality(cc_sleepq[cpu] \cup {t}) = Cardinality(cc_sleepq[cpu]) + 1
      BY <3>1, FS_AddElement
    <3> QED
      BY <1>4, <3>1, <3>2
  <2>3. cc_active'[cpu] # None
    BY <1>1, <1>2, CalloutAssumption
  <2>4. \A k \in CPUs : /\ IsFiniteSet(cc_sleepq'[k])
                        /\ cc_nwait'[k] = Cardinality(cc_sleepq'[k])
                        /\ cc_sleepq'[k] # {} => cc_active'[k] # None
    BY <1>1, <1>4, <2>2, <2>3 DEF SleepersCounted
  <2>5. \A k \in Threads : th'[k].pc = "asleep" <=> \E m \in CPUs : k \in cc_sleepq'[m]
    BY <1>2, <1>3, <1>4 DEF SleepersCounted
  <2>6. \A k, m \in CPUs : k # m => cc_sleepq'[k] \cap cc_sleepq'[m] = {}
    BY <1>2, <1>4, <2>1 DEF SleepersCounted
  <2> QED
    BY <2>4, <2>5, <2>6 DEF SleepersCounted
<1> QED
  BY <1>5, <1>6, <1>7, <1>8

\* callout_halt() returns; the callout may be revived for another thread still.
LEMMA HaltReturnInv == ASSUME Inv, NEW t \in Threads, HaltReturn(t) PROVE Inv'
<1> USE DEF Inv
<1>1. /\ UNCHANGED <<c_cpu, c_flags, cc_queue, cc_active, cc_nwait, cc_sleepq, func, moved>>
      /\ th[t].pc = "halted" /\ th' = [th EXCEPT ![t] = Idle]
      /\ interlock' \in Threads \cup CPUs \cup {None}
      /\ \/ revived' = revived
         \/ /\ revived' = revived \ {th[t].c}
            /\ \A k \in Threads \ {t} : th[k].c # th[t].c
  BY DEF HaltReturn, callVars, TypeOK
<1>2. /\ th' \in [Threads -> HaltRecords]
      /\ \A k \in Threads \ {t} : th'[k] = th[k]
      /\ th'[t].pc = "idle" /\ th'[t].c = None
  BY <1>1 DEF TypeOK, HaltRecords, HaltLabels, Idle
<1>3. TypeOK'
  <2>1. revived' \subseteq Callouts
    BY <1>1 DEF TypeOK
  <2>2. /\ UNCHANGED <<c_cpu, c_flags, cc_queue, cc_active, cc_nwait, cc_sleepq, func, moved>>
        /\ interlock' \in Threads \cup CPUs \cup {None}
    BY <1>1
  <2> QED
    BY <1>2, <2>1, <2>2 DEF TypeOK
<1>4. QueuesAgree' /\ Calls'
  BY <1>1 DEF QueuesAgree, Calls
<1>5. Halts'
  BY <1>1, <1>2 DEF Halts, InFlight
<1>6. SleepersCounted'
  BY <1>1, <1>2 DEF SleepersCounted
<1> QED
  BY <1>3, <1>4, <1>5, <1>6

\* A callout that is taken from the queue was pending there, so no thread that has
\* halted it is still to return, unless its function had revived it.
LEMMA SoftClockTakeInv ==
    ASSUME Inv, NEW cpu \in CPUs, NEW c \in Callouts, SoftClockTake(cpu, c)
    PROVE  Inv'
<1> USE DEF Inv
<1>1. /\ UNCHANGED <<c_cpu, cc_nwait, cc_sleepq, interlock, th, revived, moved>>
      /\ cc_active[cpu] = None /\ c \in cc_queue[cpu]
      /\ cc_queue' = [cc_queue EXCEPT ![cpu] = @ \ {c}]
      /\ c_flags' = [c_flags EXCEPT ![c] = (@ \ {"PENDING"}) \cup {"FIRED"}]
      /\ cc_active' = [cc_active EXCEPT ![cpu] = c]
  BY DEF SoftClockTake, histVars
<1>2. /\ func' \in [CPUs -> FuncLabels] /\ func'[cpu] # "none"
      /\ \A k \in CPUs \ {cpu} : func'[k] = func[k]
  <2>1. PICK label \in {"called", "biglock"} : func' = [func EXCEPT ![cpu] = label]
    BY DEF SoftClockTake
  <2> QED
    BY <2>1 DEF TypeOK, FuncLabels
<1>3. "PENDING" \in c_flags[c] /\ c_cpu[c] = cpu
  BY <1>1 DEF QueuesAgree
<1>4. TypeOK'
  <2>1. /\ cc_queue' \in [CPUs -> SUBSET Callouts]
        /\ c_flags' \in [Callouts -> SUBSET {"PENDING", "FIRED"}]
        /\ cc_active' \in [CPUs -> Callouts \cup {None}]
    BY <1>1 DEF TypeOK
  <2> QED
    BY <1>1, <1>2, <2>1 DEF TypeOK
<1>5. QueuesAgree'
  BY <1>1, <1>3 DEF QueuesAgree, TypeOK
<1>6. Calls'
  <2>1. c # None
    BY CalloutAssumption
  <2> QED
    BY <1>1, <1>2, <1>3, <2>1 DEF Calls, TypeOK
<1>7. Halts'
  <2>1. \A t \in Threads : th[t].c = c => c \in revived
    BY <1>3, CalloutAssumption DEF Halts
  <2>2. \A k \in Callouts \ {c} : InFlight(k)' => InFlight(k)
    BY <1>1 DEF InFlight, TypeOK
  <2>3. \A k \in Callouts : "PENDING" \in c_flags'[k] => "PENDING" \in c_flags[k]
    BY <1>1 DEF TypeOK
  <2>4. \A t \in Threads : th[t].pc # "idle" => th[t].c \in Callouts
    BY DEF Halts, TypeOK, HaltRecords
  <2> QED
    BY <1>1, <2>1, <2>2, <2>3, <2>4 DEF Halts
<1>8. SleepersCounted'
  <2>1. c # None
    BY CalloutAssumption
  <2> QED
    BY <1>1, <2>1 DEF SleepersCounted, TypeOK
<1> QED
  BY <1>4, <1>5, <1>6, <1>7, <1>8

\* The function is called and returns.
LEMMA FuncInv ==
    ASSUME Inv, NEW cpu \in CPUs,
           SoftClockBigLock(cpu) \/ FuncEnter(cpu) \/ FuncReturn(cpu)
    PROVE  Inv'
<1> USE DEF Inv
<1>1. /\ UNCHANGED <<c_cpu, c_flags, cc_queue, cc_active, cc_nwait, cc_sleepq, th,
                     revived, moved>>
      /\ interlock' \in Threads \cup CPUs \cup {None}
      /\ func' \in [CPUs -> FuncLabels] /\ func[cpu] # "none" /\ func'[cpu] # "none"
      /\ \A k \in CPUs \ {cpu} : func'[k] = func[k]
  BY DEF SoftClockBigLock, FuncEnter, FuncReturn, histVars, TypeOK, FuncLabels
<1>2. TypeOK'
  BY <1>1 DEF TypeOK
<1>3. QueuesAgree' /\ Calls' /\ Halts' /\ SleepersCounted'
  BY <1>1 DEF QueuesAgree, Calls, Halts, InFlight, SleepersCounted
<1> QED
  BY <1>2, <1>3

\* Back from the function everybody is woken who sleeps on this CPU's channel:
\* sleepq_wake() is told their number.
LEMMA DoneWakesAll ==
    ASSUME Inv, NEW cpu \in CPUs, SoftClockDone(cpu)
    PROVE  /\ cc_sleepq' = [cc_sleepq EXCEPT ![cpu] = {}]
           /\ th' = [t \in Threads |-> IF t \in cc_sleepq[cpu]
                                       THEN [th[t] EXCEPT !.pc = "check"] ELSE th[t]]
<1>1. PICK woken \in SUBSET cc_sleepq[cpu] :
        /\ Cardinality(woken) = IF cc_nwait[cpu] = 0 THEN 0 ELSE WakeCount(cpu)
        /\ cc_sleepq' = [cc_sleepq EXCEPT ![cpu] = @ \ woken]
        /\ th' = [t \in Threads |-> IF t \in woken THEN [th[t] EXCEPT !.pc = "check"]
                                                   ELSE th[t]]
  BY DEF SoftClockDone
<1>2. IsFiniteSet(cc_sleepq[cpu]) /\ Cardinality(woken) = Cardinality(cc_sleepq[cpu])
  BY <1>1 DEF Inv, SleepersCounted, WakeCount
<1>3. woken = cc_sleepq[cpu]
  BY <1>2, FS_Subset
<1>4. cc_sleepq[cpu] \ woken = {}
  BY <1>3
<1> QED
  BY <1>1, <1>3, <1>4

\* The call is over.
LEMMA SoftClockDoneInv == ASSUME Inv, NEW cpu \in CPUs, SoftClockDone(cpu) PROVE Inv'
<1> USE DEF Inv
<1>1. /\ UNCHANGED <<c_cpu, c_flags, cc_queue, interlock, revived>>
      /\ cc_active' = [cc_active EXCEPT ![cpu] = None]
      /\ func' = [func EXCEPT ![cpu] = "none"]
      /\ cc_nwait' = [cc_nwait EXCEPT ![cpu] = 0]
  BY DEF SoftClockDone
<1>2. /\ th' \in [Threads -> HaltRecords]
      /\ \A t \in Threads :
           /\ th'[t].c = th[t].c
           /\ t \in cc_sleepq[cpu] => th'[t].pc = "check"
           /\ t \notin cc_sleepq[cpu] => th'[t].pc = th[t].pc
  BY DoneWakesAll, SMTT(30) DEF TypeOK, HaltRecords, HaltLabels
<1>3. /\ cc_sleepq' \in [CPUs -> SUBSET Threads] /\ cc_sleepq'[cpu] = {}
      /\ \A k \in CPUs \ {cpu} : cc_sleepq'[k] = cc_sleepq[k]
  BY DoneWakesAll DEF TypeOK
<1>4. /\ cc_active' \in [CPUs -> Callouts \cup {None}] /\ cc_active'[cpu] = None
      /\ func' \in [CPUs -> FuncLabels] /\ func'[cpu] = "none"
      /\ cc_nwait' \in [CPUs -> Nat] /\ cc_nwait'[cpu] = 0
      /\ \A k \in CPUs \ {cpu} : /\ cc_active'[k] = cc_active[k]
                                 /\ func'[k] = func[k] /\ cc_nwait'[k] = cc_nwait[k]
  BY <1>1 DEF TypeOK, FuncLabels
<1>5. /\ moved' \subseteq moved
      /\ \A c \in moved \ moved' : \A k \in CPUs : cc_active'[k] # c
  <2>1. CASE \E k \in CPUs \ {cpu} : cc_active[k] = cc_active[cpu]
    BY <2>1 DEF SoftClockDone
  <2>2. CASE ~\E k \in CPUs \ {cpu} : cc_active[k] = cc_active[cpu]
    <3>1. moved' = moved \ {cc_active[cpu]}
      BY <2>2 DEF SoftClockDone
    <3>2. \A c \in moved : c # None
      BY CalloutAssumption DEF TypeOK
    <3> QED
      BY <1>4, <2>2, <3>1, <3>2
  <2> QED
    BY <2>1, <2>2
<1>6. TypeOK'
  <2>1. moved' \subseteq Callouts
    BY <1>5 DEF TypeOK
  <2> QED
    BY <1>1, <1>2, <1>3, <1>4, <2>1 DEF TypeOK
<1>7. QueuesAgree'
  BY <1>1 DEF QueuesAgree
<1>8. Calls'
  <2>1. \A c \in Callouts : c # None
    BY CalloutAssumption
  <2> QED
    BY <1>1, <1>4, <1>5, <2>1 DEF Calls
<1>9. Halts'
  <2>1. \A c \in Callouts : InFlight(c)' => InFlight(c) /\ (c \in moved => c \in moved')
    <3>1. \A c \in Callouts : c # None
      BY CalloutAssumption
    <3> QED
      BY <1>4, <1>5, <3>1 DEF InFlight
  <2>2. \A t \in Threads : /\ th[t].pc = "idle" <=> th'[t].pc = "idle"
                           /\ th'[t].pc \in {"relock", "halted"} => th'[t].pc = th[t].pc
    <3>1. \A t \in cc_sleepq[cpu] : t \in Threads /\ th[t].pc = "asleep"
      BY DEF SleepersCounted, TypeOK
    <3> QED
      BY <1>2, <3>1
  <2>3. \A t \in Threads : th[t].pc # "idle" => th[t].c \in Callouts
    BY DEF Halts, TypeOK, HaltRecords
  <2> QED
    BY <1>1, <1>2, <2>1, <2>2, <2>3 DEF Halts
<1>10. SleepersCounted'
  <2>1. \A k \in CPUs : /\ IsFiniteSet(cc_sleepq'[k])
                        /\ cc_nwait'[k] = Cardinality(cc_sleepq'[k])
                        /\ cc_sleepq'[k] # {} => cc_active'[k] # None
    <3>1. /\ IsFiniteSet(cc_sleepq'[cpu]) /\ Cardinality(cc_sleepq'[cpu]) = 0
      BY <1>3, FS_EmptySet
    <3> QED
      BY <1>3, <1>4, <3>1 DEF SleepersCounted
  <2>2. \A t \in Threads : th'[t].pc = "asleep" <=> \E k \in CPUs : t \in cc_sleepq'[k]
    BY <1>2, <1>3 DEF SleepersCounted
  <2>3. \A k, m \in CPUs : k # m => cc_sleepq'[k] \cap cc_sleepq'[m] = {}
    BY <1>3 DEF SleepersCounted
  <2> QED
    BY <2>1, <2>2, <2>3 DEF SleepersCounted
<1> QED
  BY <1>6, <1>7, <1>8, <1>9, <1>10

\* Every step keeps the invariant.
LEMMA NextInv == ASSUME Inv, [Next]_vars PROVE Inv'
<1>1. ASSUME NEW t \in Threads, NEW c \in Callouts, ThreadStop(t, c) PROVE Inv'
  BY <1>1, StopInv DEF ThreadStop
<1>2. ASSUME NEW t \in Threads, NEW c \in Callouts, NEW curcpu \in CPUs,
             ThreadSchedule(t, c, curcpu)
      PROVE  Inv'
  <2>1. UNCHANGED <<callVars, interlock, th, revived>> /\ ~Halting(c) /\ Schedule(c, curcpu)
    BY <1>2 DEF ThreadSchedule
  <2>2. revived \subseteq revived' /\ revived' \subseteq Callouts
    BY <2>1 DEF Inv, TypeOK
  <2> QED
    BY <2>1, <2>2, ScheduleKeeps
<1>3. ASSUME NEW t \in Threads, ThreadNext(t) PROVE Inv'
  BY <1>1, <1>2, <1>3, HaltStartInv, HaltStepInv, HaltSleepInv, HaltReturnInv DEF ThreadNext
<1>4. ASSUME NEW cpu \in CPUs, func[cpu] = "body" PROVE cc_active[cpu] \in Callouts
  BY <1>4 DEF Inv, Calls, TypeOK
<1>5. ASSUME NEW cpu \in CPUs, FuncStop(cpu) PROVE Inv'
  BY <1>4, <1>5, StopInv DEF FuncStop
<1>6. ASSUME NEW cpu \in CPUs, FuncSchedule(cpu) PROVE Inv'
  <2> DEFINE c == cc_active[cpu]
  <2>1. /\ UNCHANGED <<callVars, interlock, th>> /\ Schedule(c, cpu)
        /\ func[cpu] = "body"
        /\ revived' = IF Halting(c) THEN revived \cup {c} ELSE revived
    BY <1>6 DEF FuncSchedule
  <2>2. c \in Callouts
    BY <1>4, <2>1
  <2>3. /\ Halting(c) => c \in revived'
        /\ revived \subseteq revived' /\ revived' \subseteq Callouts
    BY <2>1, <2>2 DEF Inv, TypeOK
  <2> HIDE DEF c
  <2> QED
    BY <2>1, <2>2, <2>3, ScheduleKeeps
<1>7. ASSUME NEW cpu \in CPUs, SoftInt(cpu) PROVE Inv'
  BY <1>5, <1>6, <1>7, SoftClockTakeInv, FuncInv, SoftClockDoneInv DEF SoftInt
<1>8. CASE UNCHANGED vars
  BY <1>8 DEF vars, Inv, TypeOK, QueuesAgree, Calls, Halts, InFlight, SleepersCounted
<1> QED
  BY <1>3, <1>7, <1>8 DEF Next

\* The inductive invariant holds in every state.
THEOREM CalloutInv == Spec => []Inv
<1> QED
  BY InitInv, NextInv, PTL DEF Spec

\* What callout_softclock() asserts of the callouts it finds on its queue holds, and
\* CIRCQ_REMOVE() is called for a callout that is on the queue of its CPU.
THEOREM CalloutQueuesAgree == Spec => []QueuesAgree
<1>1. Inv => QueuesAgree
  BY DEF Inv
<1> QED
  BY <1>1, CalloutInv, PTL

\* When callout_halt() has left its loop the callout is neither pending nor in
\* flight, unless its function scheduled it again or it was moved while it ran.
THEOREM CalloutHaltCancels == Spec => []HaltCancels
<1>1. Inv => HaltCancels
  BY DEF Inv, Halts, HaltCancels
<1> QED
  BY <1>1, CalloutInv, PTL

\* callout_halt() does not leave its loop while the callout is in flight, unless it
\* was moved to another CPU while it ran.
THEOREM CalloutHaltWaits == Spec => HaltWaits
<1> DEFINE Waits == \A t \in Threads :
             LeavesLoop(t) => th[t].c \in moved \/ ~InFlight(th[t].c)
<1>1. ASSUME Inv, [Next]_vars PROVE [Waits]_vars
  <2> SUFFICES ASSUME Next, NEW t \in Threads, th[t].pc = "check",
                      th'[t].pc \in {"relock", "halted"}
               PROVE  th[t].c \in moved \/ ~InFlight(th[t].c)
    BY <1>1 DEF LeavesLoop
  <2>1. CASE HaltLeave(t)
    BY <1>1, <2>1, LeaveSafe
  <2>2. ASSUME NEW k \in Threads, ThreadNext(k) PROVE HaltLeave(t)
    <3>1. CASE k = t
      BY <1>1, <2>2, <3>1 DEF ThreadNext, ThreadStop, ThreadSchedule, HaltStart,
         HaltDropInterlock, HaltSleep, HaltRelock, HaltReturn, Inv, TypeOK, HaltRecords
    <3>2. CASE k # t
      <4>1. th'[t] = th[t]
        BY <1>1, <2>2, <3>2 DEF ThreadNext, ThreadStop, ThreadSchedule, HaltStart, HaltLeave,
           HaltDropInterlock, HaltSleep, HaltRelock, HaltReturn, Inv, TypeOK
      <4> QED
        BY <4>1
    <3> QED
      BY <3>1, <3>2
  <2>3. ASSUME NEW cpu \in CPUs, SoftInt(cpu) PROVE FALSE
    <3>1. th'[t].pc \in {th[t].pc, "check"}
      <4>1. CASE SoftClockDone(cpu)
        BY <1>1, <4>1, DoneWakesAll DEF Inv, TypeOK, HaltRecords
      <4>2. CASE ~SoftClockDone(cpu)
        BY <2>3, <4>2 DEF SoftInt, SoftClockTake, SoftClockBigLock, FuncEnter, FuncSchedule,
           FuncStop, FuncReturn
      <4> QED
        BY <4>1, <4>2
    <3> QED
      BY <3>1
  <2> QED
    BY <2>1, <2>2, <2>3 DEF Next
<1> QED
  BY <1>1, CalloutInv, PTL DEF Spec, HaltWaits

\* Every thread that sleeps in callout_halt() is counted in the cc_nwait of one CPU
\* that is in a call, so the end of that call wakes it.
THEOREM CalloutSleepersCounted == Spec => []SleepersCounted
<1>1. Inv => SleepersCounted
  BY DEF Inv
<1> QED
  BY <1>1, CalloutInv, PTL
-----------------------------------------------------------------------------
(* The workqueue *)

WorkerRecords == [pc : {"top", "asleep", "iterate", "call", "gone"},
                  wk : Items \cup {Nil}, next : Items \cup {Nil}]
WaiterRecords == [pc : {"idle", "look", "asleep"}, target : Works \cup {Nil}]

\* Every variable has its type.
WqTypeOK ==
    /\ pending \in Seq(Items) /\ batch \in Seq(Items)
    /\ called \in Nat /\ called <= Len(batch)
    /\ running \in Items \cup {Nil} /\ q_waiter \in Items \cup {Nil}
    /\ wk_entry \in [Items -> Items \cup {Nil}]
    /\ q_cv \subseteq {"worker", "waiter", "destroyer"}
    /\ worker \in WorkerRecords /\ waiter \in WaiterRecords
    /\ destroyer \in {"idle", "fini", "asleep", "look", "done"}

\* What follows the i-th item of s
After(s, i) == IF i < Len(s) THEN s[i + 1] ELSE Nil

\* An item that is queued is queued once, and links to the item behind it: on the
\* pending list, and on the part of the running list that is still to be called.
Links ==
    /\ \A i \in 1..Len(pending) : wk_entry[pending[i]] = After(pending, i)
    /\ \A i, j \in 1..Len(pending) : pending[i] = pending[j] => i = j
    /\ \A i \in 1..Len(batch) : i > called =>
         /\ wk_entry[batch[i]] = After(batch, i)
         /\ \A j \in 1..Len(pending) : batch[i] # pending[j]

\* The link that the worker saved is the one of the list it took; between two lists
\* it has nothing, and only then does it sleep.
WorkerKnows ==
    /\ worker.pc = "call" => worker.next = After(batch, called)
    /\ worker.pc \in {"top", "asleep"} => batch = << >> /\ called = 0
    /\ "worker" \in q_cv => worker.pc = "asleep"

\* workqueue_destroy() has begun with all work done, and nobody brings any more.
Destroying == destroyer = "fini" => pending = << >> /\ called = Len(batch)

WqInv == WqTypeOK /\ Links /\ WorkerKnows /\ Destroying /\ RunsWhatItTook

\* What a worker is when it is made with Worker().
LEMMA WorkerFields ==
    ASSUME NEW label \in {"top", "asleep", "iterate", "call", "gone"},
           NEW wk \in Items \cup {Nil}, NEW next \in Items \cup {Nil}
    PROVE  /\ Worker(label, wk, next) \in WorkerRecords
           /\ Worker(label, wk, next).pc = label
           /\ Worker(label, wk, next).wk = wk /\ Worker(label, wk, next).next = next
  BY DEF Worker, WorkerRecords

\* workqueue_create() makes a queue with nothing on it.
LEMMA FreshInv ==
    ASSUME pending = << >>, running = Nil, wk_entry = [w \in Items |-> Nil], q_cv = {},
           q_waiter = Nil, worker = Worker("top", Nil, Nil),
           waiter = [pc |-> "idle", target |-> Nil], destroyer = "idle",
           batch = << >>, called = 0
    PROVE  WqInv
<1>1. worker \in WorkerRecords /\ worker.pc = "top" /\ waiter \in WaiterRecords
  BY DEF Worker, WorkerRecords, WaiterRecords
<1>2. /\ pending \in Seq(Items) /\ Len(pending) = 0
      /\ batch \in Seq(Items) /\ Len(batch) = 0
  BY EmptySeq
<1>3. WqTypeOK
  BY <1>1, <1>2 DEF WqTypeOK
<1>4. Links
  BY <1>2 DEF Links
<1> QED
  BY <1>1, <1>3, <1>4 DEF WqInv, WorkerKnows, Destroying, RunsWhatItTook

\* The items still to be called, and those that are pending, by their places
LEMMA Places ==
    ASSUME WqTypeOK
    PROVE  /\ \A i \in 1..Len(pending) : pending[i] \in Elements(pending)
           /\ \A i \in 1..Len(batch) : i > called => batch[i] \in NotCalled
           /\ NotCalled = {} => called = Len(batch)
<1>1. /\ DOMAIN pending = 1..Len(pending) /\ DOMAIN batch = 1..Len(batch)
      /\ Len(batch) \in Nat /\ called \in Nat /\ called <= Len(batch)
  BY LenProperties DEF WqTypeOK
<1>2. \A i \in 1..Len(batch) : i > called => batch[i] \in NotCalled
  BY <1>1 DEF NotCalled
<1>3. ASSUME NotCalled = {} PROVE called = Len(batch)
  <2>1. ASSUME called < Len(batch) PROVE FALSE
    <3>1. Len(batch) \in 1..Len(batch) /\ Len(batch) > called
      BY <1>1, <2>1
    <3> QED
      BY <1>2, <1>3, <3>1
  <2>2. \A m, n \in Nat : m <= n /\ ~(m < n) => m = n
    OBVIOUS
  <2> QED
    BY <1>1, <2>1, <2>2
<1> QED
  BY <1>1, <1>2, <1>3 DEF Elements

\* SIMPLEQ_INSERT_TAIL() writes the link of the new item and of the last pending
\* one, and neither is one that the worker has still to follow.
LEMMA InsertLinks ==
    ASSUME WqInv, NEW w \in Items, w \notin Elements(pending), w \notin NotCalled,
           InsertTail(w), UNCHANGED <<batch, called>>
    PROVE  /\ pending' \in Seq(Items) /\ wk_entry' \in [Items -> Items \cup {Nil}]
           /\ Links'
<1> USE DEF WqInv, WqTypeOK
<1> DEFINE n == Len(pending)
<1>1. /\ n \in Nat /\ \A i \in 1..n : pending[i] \in Items
      /\ \A i \in 1..Len(batch) : batch[i] \in Items
  BY LenProperties, ElementOfSeq
<1>2. /\ pending' \in Seq(Items) /\ Len(pending') = n + 1
      /\ \A i \in 1..n : pending'[i] = pending[i]
      /\ pending'[n + 1] = w
  BY AppendProperties DEF InsertTail
<1>3. /\ \A i \in 1..n : pending[i] # w
      /\ \A i \in 1..Len(batch) : i > called => batch[i] # w
  BY Places
<1>4. pending # << >> <=> n # 0
  BY EmptySeq
<1>5. /\ wk_entry' \in [Items -> Items \cup {Nil}]
      /\ wk_entry'[w] = Nil
      /\ n # 0 => wk_entry'[pending[n]] = w
      /\ \A k \in Items : k # w /\ (n # 0 => k # pending[n]) => wk_entry'[k] = wk_entry[k]
  <2>1. wk_entry' = [k \in Items |-> IF k = w THEN Nil
                                     ELSE IF pending # << >> /\ k = pending[n] THEN w
                                     ELSE wk_entry[k]]
    BY DEF InsertTail
  <2>2. n # 0 => n \in 1..n
    BY <1>1
  <2> QED
    BY <1>1, <1>3, <1>4, <2>1, <2>2
<1>6. \A i \in 1..(n + 1) : wk_entry'[pending'[i]] = After(pending', i)
  <2> SUFFICES ASSUME NEW i \in 1..(n + 1)
               PROVE  wk_entry'[pending'[i]] = After(pending', i)
    OBVIOUS
  <2>1. CASE i = n + 1
    BY <1>1, <1>2, <1>5, <2>1 DEF After
  <2>2. CASE i = n
    <3>1. i \in 1..n /\ n # 0 /\ pending'[i] = pending[n]
      BY <1>1, <1>2, <2>2
    <3>2. After(pending', i) = w
      BY <1>1, <1>2, <2>2 DEF After
    <3> QED
      BY <1>5, <3>1, <3>2
  <2>3. CASE i < n
    <3>1. i \in 1..n /\ n \in 1..n /\ i + 1 \in 1..n /\ i # n
      BY <1>1, <2>3
    <3>2. pending[i] # pending[n]
      BY <3>1 DEF Links
    <3>3. wk_entry'[pending[i]] = wk_entry[pending[i]]
      BY <1>1, <1>3, <1>5, <3>1, <3>2
    <3>4. wk_entry[pending[i]] = pending[i + 1]
      BY <2>3, <3>1 DEF Links, After
    <3>5. After(pending', i) = pending[i + 1]
      BY <1>1, <1>2, <2>3, <3>1 DEF After
    <3> QED
      BY <1>2, <3>1, <3>3, <3>4, <3>5
  <2> QED
    BY <1>1, <2>1, <2>2, <2>3
<1>7. \A i, j \in 1..(n + 1) : pending'[i] = pending'[j] => i = j
  <2>1. \A i \in 1..(n + 1) : i \in 1..n \/ i = n + 1
    BY <1>1
  <2>2. \A i, j \in 1..n : pending'[i] = pending'[j] => i = j
    BY <1>2 DEF Links
  <2>3. \A i \in 1..n : pending'[i] # pending'[n + 1]
    BY <1>2, <1>3
  <2> QED
    BY <2>1, <2>2, <2>3
<1>8. ASSUME NEW i \in 1..Len(batch), i > called
      PROVE  /\ wk_entry'[batch[i]] = After(batch, i)
             /\ \A j \in 1..(n + 1) : batch[i] # pending'[j]
  <2>1. \A j \in 1..n : batch[i] # pending[j]
    BY <1>8 DEF Links
  <2>2. n # 0 => n \in 1..n
    BY <1>1
  <2>3. wk_entry'[batch[i]] = wk_entry[batch[i]]
    BY <1>1, <1>3, <1>5, <1>8, <2>1, <2>2
  <2>4. wk_entry[batch[i]] = After(batch, i)
    BY <1>8 DEF Links
  <2>5. \A j \in 1..(n + 1) : j \in 1..n \/ j = n + 1
    BY <1>1
  <2> QED
    BY <1>2, <1>3, <1>8, <2>1, <2>3, <2>4, <2>5
<1>9. Links'
  BY <1>2, <1>6, <1>7, <1>8 DEF Links, After
<1> QED
  BY <1>2, <1>5, <1>9

\* cv_signal() may wake the worker, if it sleeps; it looks at the list again.
LEMMA WakeFacts ==
    ASSUME WqInv, NEW woken \in CvSignal, WakeWorker(woken)
    PROVE  /\ woken \subseteq q_cv
           /\ worker' \in WorkerRecords
           /\ worker' = worker \/ (worker.pc = "asleep" /\ worker'.pc = "top")
           /\ "worker" \in q_cv \ woken => worker'.pc = "asleep"
<1>1. woken \subseteq q_cv
  BY DEF CvSignal
<1>2. Worker("top", Nil, Nil) \in WorkerRecords /\ Worker("top", Nil, Nil).pc = "top"
  BY WorkerFields
<1>3. "worker" \in q_cv => worker.pc = "asleep"
  BY DEF WqInv, WorkerKnows
<1>4. worker \in WorkerRecords
  BY DEF WqInv, WqTypeOK
<1> QED
  BY <1>1, <1>2, <1>3, <1>4 DEF WakeWorker

\* A sleeping waiter that is woken looks again.
LEMMA WaiterType ==
    ASSUME WqTypeOK, NEW woken, WakeWaiter(woken) PROVE waiter' \in WaiterRecords
  BY DEF WakeWaiter, WqTypeOK, WaiterRecords

\* A step that leaves the batch alone, and at most wakes the worker, leaves the worker
\* where it was in it.
LEMMA WorkerStays ==
    ASSUME WqInv, UNCHANGED <<batch, called>>,
           worker' = worker \/ (worker.pc = "asleep" /\ worker'.pc = "top"),
           "worker" \in q_cv' => worker'.pc = "asleep"
    PROVE  WorkerKnows' /\ RunsWhatItTook'
<1>1. CASE worker' = worker
  BY <1>1 DEF WqInv, WorkerKnows, RunsWhatItTook, After
<1>2. CASE worker.pc = "asleep" /\ worker'.pc = "top"
  BY <1>2 DEF WqInv, WorkerKnows, RunsWhatItTook
<1> QED
  BY <1>1, <1>2

\* workqueue_enqueue() takes an item that is not queued.
LEMMA EnqueueInv == ASSUME WqInv, NEW w \in Works, Enqueue(w) PROVE WqInv'
<1>1. w \in Items /\ w \notin Elements(pending) /\ w \notin NotCalled
  BY DEF Items, Enqueue, MayEnqueue
<1>2. /\ InsertTail(w) /\ destroyer = "idle"
      /\ UNCHANGED <<running, q_waiter, destroyer, batch, called>>
  BY DEF Enqueue
<1>3. PICK woken \in CvSignal :
        q_cv' = q_cv \ woken /\ WakeWorker(woken) /\ WakeWaiter(woken)
  BY DEF Enqueue
<1>4. /\ pending' \in Seq(Items) /\ wk_entry' \in [Items -> Items \cup {Nil}] /\ Links'
  BY <1>1, <1>2, InsertLinks
<1>5. waiter' \in WaiterRecords
  BY <1>3, WaiterType DEF WqInv
<1>6. WqTypeOK'
  BY <1>2, <1>3, <1>4, <1>5, WakeFacts DEF WqInv, WqTypeOK
<1>7. WorkerKnows' /\ RunsWhatItTook'
  BY <1>2, <1>3, WakeFacts, WorkerStays
<1> QED
  BY <1>2, <1>4, <1>6, <1>7 DEF WqInv, Destroying

\* The item that workqueue_finiqueue() brings goes on an empty list.
LEMMA DestroyFiniInv == ASSUME WqInv, DestroyFini PROVE WqInv'
<1>1. /\ pending = << >> /\ called = Len(batch)
      /\ InsertTail(Wqe) /\ destroyer' = "asleep"
      /\ UNCHANGED <<running, q_waiter, waiter, batch, called>>
  BY DEF DestroyFini, WqInv, Destroying
<1>2. PICK woken \in CvSignal : q_cv' = (q_cv \ woken) \cup {"destroyer"} /\ WakeWorker(woken)
  BY DEF DestroyFini
<1>3. Wqe \in Items /\ Wqe \notin Elements(pending) /\ Wqe \notin NotCalled
  <2>1. DOMAIN pending = {}
    BY <1>1
  <2>2. DOMAIN batch = 1..Len(batch) /\ Len(batch) \in Nat
    BY LenProperties DEF WqInv, WqTypeOK
  <2> QED
    BY <1>1, <2>1, <2>2 DEF Items, Elements, NotCalled
<1>4. /\ pending' \in Seq(Items) /\ wk_entry' \in [Items -> Items \cup {Nil}] /\ Links'
  BY <1>1, <1>3, InsertLinks
<1>5. WqTypeOK'
  BY <1>1, <1>2, <1>4, WakeFacts DEF WqInv, WqTypeOK
<1>6. WorkerKnows' /\ RunsWhatItTook'
  BY <1>1, <1>2, WakeFacts, WorkerStays
<1> QED
  BY <1>1, <1>4, <1>5, <1>6 DEF WqInv, Destroying

\* The worker, at the top of its loop, takes the pending list or sleeps.
LEMMA TopInv == ASSUME WqInv, WorkerSleep \/ WorkerGrab PROVE WqInv'
<1> USE DEF WqInv
<1>1. CASE WorkerSleep
  <2>1. /\ worker.pc = "top" /\ worker' = Worker("asleep", Nil, Nil)
        /\ q_cv' = q_cv \cup {"worker"}
        /\ UNCHANGED <<pending, running, wk_entry, q_waiter, waiter, destroyer, batch, called>>
    BY <1>1 DEF WorkerSleep
  <2>2. worker' \in WorkerRecords /\ worker'.pc = "asleep"
    BY <2>1, WorkerFields
  <2>3. WqTypeOK'
    BY <2>1, <2>2 DEF WqTypeOK
  <2>4. Links' /\ Destroying'
    BY <2>1 DEF Links, Destroying, After
  <2>5. WorkerKnows' /\ RunsWhatItTook'
    BY <2>1, <2>2 DEF WorkerKnows, RunsWhatItTook
  <2> QED
    BY <2>3, <2>4, <2>5
<1>2. CASE WorkerGrab
  <2>1. /\ worker.pc = "top" /\ pending # << >>
        /\ running' = Head(pending) /\ pending' = << >>
        /\ worker' = Worker("iterate", Head(pending), Nil)
        /\ batch' = pending /\ called' = 0
        /\ UNCHANGED <<wk_entry, q_cv, q_waiter, waiter, destroyer>>
    BY <1>2 DEF WorkerGrab
  <2>2. /\ Len(pending) \in Nat /\ Len(pending) > 0 /\ Head(pending) = pending[1]
        /\ Head(pending) \in Items /\ pending \in Seq(Items)
    BY <2>1, LenProperties, EmptySeq, HeadTailProperties DEF WqTypeOK
  <2>3. /\ worker' \in WorkerRecords /\ worker'.pc = "iterate" /\ worker'.wk = pending[1]
    BY <2>1, <2>2, WorkerFields
  <2>4. pending' \in Seq(Items) /\ Len(pending') = 0
    BY <2>1, EmptySeq
  <2>5. WqTypeOK'
    BY <2>1, <2>2, <2>3, <2>4 DEF WqTypeOK
  <2>6. Links'
    <3>1. \A i \in 1..Len(batch') : i > 0 =>
            /\ wk_entry'[batch'[i]] = After(batch', i)
            /\ \A j \in 1..Len(pending') : batch'[i] # pending'[j]
      BY <2>1, <2>4 DEF Links
    <3> QED
      BY <2>1, <2>4, <3>1 DEF Links, After
  <2>7. WorkerKnows' /\ RunsWhatItTook'
    BY <2>1, <2>2, <2>3 DEF WorkerKnows, RunsWhatItTook
  <2>8. Destroying'
    BY <2>1 DEF Destroying
  <2> QED
    BY <2>5, <2>6, <2>7, <2>8
<1> QED
  BY <1>1, <1>2

\* The worker calls the next item: its link is still that of the list.
LEMMA CallInv == ASSUME WqInv, WorkerCall PROVE WqInv'
<1> USE DEF WqInv
<1>1. /\ worker.pc = "iterate" /\ worker.wk # Nil /\ called' = called + 1
      /\ worker' = Worker("call", worker.wk, wk_entry[worker.wk])
      /\ UNCHANGED <<pending, running, wk_entry, q_cv, q_waiter, waiter, destroyer, batch>>
  BY DEF WorkerCall
<1>2. /\ called < Len(batch) /\ worker.wk = batch[called + 1]
      /\ called \in Nat /\ Len(batch) \in Nat
  BY <1>1, LenProperties DEF RunsWhatItTook, WqTypeOK
<1>3. PICK i \in 1..Len(batch) : i = called + 1
  BY <1>2
<1>4. wk_entry[batch[i]] = After(batch, i) /\ batch[i] \in Items
  BY <1>2, <1>3, ElementOfSeq DEF Links, WqTypeOK
<1>5. /\ worker' \in WorkerRecords /\ worker'.pc = "call" /\ worker'.wk = batch[i]
      /\ worker'.next = After(batch, i)
  <2>1. worker.wk \in Items /\ wk_entry[worker.wk] \in Items \cup {Nil}
    BY <1>2, <1>3, <1>4 DEF WqTypeOK
  <2> QED
    BY <1>1, <1>2, <1>3, <1>4, <2>1, WorkerFields
<1>6. WqTypeOK'
  BY <1>1, <1>2, <1>5 DEF WqTypeOK
<1>7. Links'
  <2>1. \A k \in 1..Len(batch) : k > called' => k > called
    BY <1>1, <1>2
  <2>2. pending' = pending /\ wk_entry' = wk_entry /\ batch' = batch
    BY <1>1
  <2> QED
    BY <2>1, <2>2 DEF Links, After
<1>8. WorkerKnows' /\ RunsWhatItTook'
  <2>1. DOMAIN batch = 1..Len(batch)
    BY LenProperties DEF WqTypeOK
  <2>2. worker'.next = After(batch', called') /\ called' \in DOMAIN batch'
        /\ worker'.wk = batch'[called']
    BY <1>1, <1>3, <1>5, <2>1
  <2> QED
    BY <1>1, <1>5, <2>2 DEF WorkerKnows, RunsWhatItTook
<1>9. Destroying'
  BY <1>1, <1>2 DEF Destroying
<1> QED
  BY <1>6, <1>7, <1>8, <1>9

\* The function returns, and the worker follows the link that it saved.
LEMMA ReturnInv == ASSUME WqInv, WorkerReturn PROVE WqInv'
<1> USE DEF WqInv
<1>1. /\ worker.pc = "call" /\ worker' = Worker("iterate", worker.next, Nil)
      /\ UNCHANGED <<pending, running, wk_entry, q_cv, q_waiter, waiter, destroyer, batch, called>>
  BY DEF WorkerReturn, NextWork
<1>2. /\ worker' \in WorkerRecords /\ worker'.pc = "iterate" /\ worker'.wk = worker.next
  BY <1>1, WorkerFields DEF WqTypeOK, WorkerRecords
<1>3. WqTypeOK'
  BY <1>1, <1>2 DEF WqTypeOK
<1>4. Links' /\ Destroying'
  BY <1>1 DEF Links, Destroying, After
<1>5. WorkerKnows' /\ RunsWhatItTook'
  BY <1>1, <1>2 DEF WorkerKnows, RunsWhatItTook, After
<1> QED
  BY <1>3, <1>4, <1>5

\* The list is done.
LEMMA FinishInv == ASSUME WqInv, WorkerFinish PROVE WqInv'
<1> USE DEF WqInv
<1>1. /\ worker.pc = "iterate" /\ worker.wk = Nil
      /\ running' = Nil /\ batch' = << >> /\ called' = 0
      /\ worker' = Worker("top", Nil, Nil)
      /\ UNCHANGED <<pending, wk_entry, q_waiter, destroyer>>
  BY DEF WorkerFinish
<1>2. PICK woken : q_cv' = q_cv \ woken /\ WakeWaiter(woken)
  BY DEF WorkerFinish
<1>3. waiter' \in WaiterRecords /\ worker' \in WorkerRecords /\ worker'.pc = "top"
  BY <1>1, <1>2, WaiterType, WorkerFields
<1>4. batch' \in Seq(Items) /\ Len(batch') = 0
  BY <1>1, EmptySeq
<1>5. WqTypeOK'
  <2>1. called' \in Nat /\ called' <= Len(batch')
    BY <1>1, <1>4
  <2>2. q_cv' \subseteq {"worker", "waiter", "destroyer"}
    BY <1>2 DEF WqTypeOK
  <2>3. /\ running' = Nil
        /\ UNCHANGED <<pending, wk_entry, q_waiter, destroyer>>
    BY <1>1
  <2> QED
    BY <1>3, <1>4, <2>1, <2>2, <2>3 DEF WqTypeOK
<1>6. Links' /\ Destroying'
  BY <1>1, <1>4 DEF Links, Destroying, After
<1>7. WorkerKnows' /\ RunsWhatItTook'
  BY <1>1, <1>2, <1>3 DEF WorkerKnows, RunsWhatItTook
<1> QED
  BY <1>5, <1>6, <1>7

\* workqueue_exit() ends the worker.
LEMMA ExitInv == ASSUME WqInv, WorkerExit PROVE WqInv'
<1> USE DEF WqInv
<1>1. /\ worker.pc = "call" /\ worker' = Worker("gone", worker.wk, Nil)
      /\ UNCHANGED <<pending, running, wk_entry, q_waiter, waiter, batch, called>>
  BY DEF WorkerExit
<1>2. PICK woken \in CvSignal :
        /\ q_cv' = q_cv \ woken
        /\ destroyer' = IF "destroyer" \in woken THEN "look" ELSE destroyer
  BY DEF WorkerExit
<1>3. worker' \in WorkerRecords /\ worker'.pc = "gone"
  BY <1>1, WorkerFields DEF WqTypeOK, WorkerRecords
<1>4. WqTypeOK'
  <2>1. /\ q_cv' \subseteq {"worker", "waiter", "destroyer"}
        /\ destroyer' \in {"idle", "fini", "asleep", "look", "done"}
    BY <1>2 DEF WqTypeOK
  <2> QED
    BY <1>1, <1>3, <2>1 DEF WqTypeOK
<1>5. Links' /\ Destroying'
  BY <1>1, <1>2 DEF Links, Destroying, After
<1>6. WorkerKnows' /\ RunsWhatItTook'
  BY <1>1, <1>2, <1>3 DEF WorkerKnows, RunsWhatItTook
<1> QED
  BY <1>4, <1>5, <1>6

\* The steps of a thread that waits or destroys and touches no list
LEMMA CallerInv ==
    ASSUME WqInv,
           \/ \E w \in Works : StartWait(w)
           \/ WaitLook \/ DestroySetFunc \/ DestroyDone
    PROVE  WqInv'
<1> USE DEF WqInv
<1>1. /\ UNCHANGED <<pending, running, wk_entry, worker, batch, called>>
      /\ q_waiter' \in Items \cup {Nil}
      /\ q_cv' \subseteq q_cv \cup {"waiter"}
  BY DEF StartWait, WaitLook, DestroySetFunc, DestroyDone, WqTypeOK, WaiterRecords, Items
<1>2. waiter' \in WaiterRecords
  BY DEF StartWait, WaitLook, DestroySetFunc, DestroyDone, WqTypeOK, WaiterRecords
<1>3. /\ destroyer' \in {"idle", "fini", "asleep", "look", "done"}
      /\ destroyer' = "fini" => pending = << >> /\ called = Len(batch)
  <2>1. CASE DestroySetFunc
    BY <2>1, Places DEF DestroySetFunc
  <2>2. CASE ~DestroySetFunc
    BY <2>2 DEF StartWait, WaitLook, DestroyDone, WqTypeOK, Destroying
  <2> QED
    BY <2>1, <2>2
<1>4. WqTypeOK'
  BY <1>1, <1>2, <1>3 DEF WqTypeOK
<1>5. Links' /\ Destroying'
  BY <1>1, <1>3 DEF Links, Destroying, After
<1>6. WorkerKnows' /\ RunsWhatItTook'
  BY <1>1 DEF WorkerKnows, RunsWhatItTook, After
<1> QED
  BY <1>4, <1>5, <1>6

\* A new queue is in the state of the first one.
LEMMA CreateInv == ASSUME Create PROVE WqInv'
<1>1. worker' \in WorkerRecords /\ worker'.pc = "top" /\ waiter' \in WaiterRecords
  BY DEF Create, Worker, WorkerRecords, WaiterRecords
<1>2. /\ pending' \in Seq(Items) /\ Len(pending') = 0
      /\ batch' \in Seq(Items) /\ Len(batch') = 0
  BY EmptySeq DEF Create
<1>3. WqTypeOK'
  BY <1>1, <1>2 DEF WqTypeOK, Create
<1>4. Links'
  BY <1>2 DEF Links
<1>5. WorkerKnows' /\ Destroying' /\ RunsWhatItTook'
  BY <1>1 DEF WorkerKnows, Destroying, RunsWhatItTook, Create
<1> QED
  BY <1>3, <1>4, <1>5 DEF WqInv

\* The inductive invariant of the workqueue.
THEOREM WorkqueueInv == WqSpec => []WqInv
<1>1. WqInit => WqInv
  BY FreshInv DEF WqInit
<1>2. WqInv /\ [WqNext]_wqVars => WqInv'
  <2> SUFFICES ASSUME WqInv, [WqNext]_wqVars PROVE WqInv'
    OBVIOUS
  <2>1. ASSUME NEW w \in Works, Enqueue(w) \/ StartWait(w) PROVE WqInv'
    BY <2>1, EnqueueInv, CallerInv
  <2>2. CASE WorkerStep
    BY <2>2, TopInv, CallInv, ReturnInv, FinishInv, ExitInv DEF WorkerStep
  <2>3. CASE WaitLook \/ DestroySetFunc \/ DestroyDone
    BY <2>3, CallerInv
  <2>4. CASE DestroyFini \/ Create
    BY <2>4, DestroyFiniInv, CreateInv
  <2>5. CASE UNCHANGED wqVars
    BY <2>5 DEF wqVars, WqInv, WqTypeOK, Links, WorkerKnows, Destroying, RunsWhatItTook, After
  <2> QED
    BY <2>1, <2>2, <2>3, <2>4, <2>5 DEF WqNext
<1> QED
  BY <1>1, <1>2, PTL DEF WqSpec

\* The worker calls the items of the list it took, each once and in order, although
\* workqueue_enqueue() rewrites links of items that have already been called.
THEOREM WorkqueueRunsWhatItTook == WqSpec => []RunsWhatItTook
<1>1. WqInv => RunsWhatItTook
  BY DEF WqInv
<1> QED
  BY <1>1, WorkqueueInv, PTL

\* A set of natural numbers that is not empty has a least member: induction, for
\* provers that cannot apply an induction theorem.
LEMMA LeastNat ==
    ASSUME NEW T \in SUBSET Nat, T # {}
    PROVE  \E n \in T : \A m \in T : n <= m
<1> DEFINE R == OpToRel(<, Nat)
<1>1. IsWellFoundedOn(R, Nat)
  BY NatLessThanWellFounded
<1>2. PICK n \in T : \A m \in T : ~ (<<m, n>> \in R)
  <2> HIDE DEF R
  <2> QED
    BY <1>1, WFMin
<1>3. ASSUME NEW m \in T PROVE n <= m
  <2>1. m \in Nat /\ n \in Nat
    OBVIOUS
  <2>2. ~(m < n)
    BY <1>2, <2>1 DEF OpToRel
  <2> QED
    BY <2>1, <2>2
<1> QED
  BY <1>3

\* The running list has no item twice and starts at q_queue_running.  Until one of
\* its items is enqueued again, all of its links are as they were.
RunningList ==
    /\ \A i, j \in 1..Len(batch) : batch[i] = batch[j] => i = j
    /\ running = After(batch, 0)
    /\ ~Relinked => \A i \in 1..Len(batch) : wk_entry[batch[i]] = After(batch, i)

\* A sequence without repetitions is not longer than there are items.
LEMMA BatchFits ==
    ASSUME WqTypeOK, RunningList
    PROVE  Cardinality(Items) \in Nat /\ Len(batch) <= Cardinality(Items)
<1> DEFINE f == [i \in 1..Len(batch) |-> batch[i]]
<1>1. IsFiniteSet(Items)
  BY WorkAssumption, FS_AddElement DEF Items
<1>2. Len(batch) \in Nat /\ \A i \in 1..Len(batch) : batch[i] \in Items
  BY LenProperties, ElementOfSeq DEF WqTypeOK
<1>3. f \in Injection(1..Len(batch), Items)
  BY <1>2 DEF RunningList, Injection, IsInjective
<1>4. Cardinality(1..Len(batch)) = Len(batch)
  <2>1. 1 \in Int /\ Len(batch) \in Int
    BY <1>2
  <2>2. Cardinality(1..Len(batch)) = IF 1 > Len(batch) THEN 0 ELSE Len(batch) - 1 + 1
    BY <2>1, FS_Interval
  <2> QED
    BY <1>2, <2>2
<1>5. Cardinality(1..Len(batch)) <= Cardinality(Items)
  <2> HIDE DEF f
  <2> QED
    BY <1>1, <1>3, FS_Injection
<1> QED
  BY <1>1, <1>4, <1>5, FS_CardinalityType

\* SIMPLEQ_FOREACH meets every item of the running list, as long as its links are
\* intact.
LEMMA WalkMeetsAll ==
    ASSUME WqTypeOK, RunningList, ~Relinked, NEW i \in 1..Len(batch)
    PROVE  batch[i] \in Walk(running)
<1> DEFINE N == Cardinality(Items)
           Follow(f) == [n \in 0..N |-> IF n = 0 THEN running
                            ELSE IF f[n - 1] = Nil THEN Nil ELSE wk_entry[f[n - 1]]]
           step == CHOOSE f : f = Follow(f)
           g == [n \in 0..N |-> After(batch, n)]
<1>1. N \in Nat /\ Len(batch) \in Nat /\ Len(batch) <= N
  BY BatchFits, LenProperties DEF WqTypeOK
<1>2. /\ \A j \in 1..Len(batch) : batch[j] \in Items /\ batch[j] # Nil
      /\ \A j \in 1..Len(batch) : wk_entry[batch[j]] = After(batch, j)
      /\ running = After(batch, 0)
  BY ElementOfSeq, WorkAssumption DEF WqTypeOK, RunningList, Items
<1> HIDE DEF N
<1>3. ASSUME NEW n \in 0..N, n # 0
      PROVE  After(batch, n) = IF After(batch, n - 1) = Nil THEN Nil
                               ELSE wk_entry[After(batch, n - 1)]
  <2>1. CASE n - 1 < Len(batch)
    BY <1>1, <1>2, <1>3, <2>1 DEF After
  <2>2. CASE ~(n - 1 < Len(batch))
    BY <1>1, <1>3, <2>2 DEF After
  <2> QED
    BY <2>1, <2>2
<1>4. g = Follow(g)
  BY <1>1, <1>2, <1>3
<1>5. step = Follow(step)
  <2>1. \E f : f = Follow(f)
    BY <1>4
  <2> QED
    BY <2>1
<1> HIDE DEF step
<1>6. ASSUME NEW n \in 0..N, step[n] # After(batch, n) PROVE FALSE
  <2> DEFINE T == {m \in 0..N : step[m] # After(batch, m)}
  <2>1. T \in SUBSET Nat /\ T # {}
    BY <1>1, <1>6
  <2>2. PICK m \in T : \A k \in T : m <= k
    <3> HIDE DEF T
    <3> QED
      BY <2>1, LeastNat
  <2>3. m # 0
    BY <1>1, <1>2, <1>5
  <2>4. m - 1 \in 0..N /\ m \in 0..N /\ ~(m <= m - 1)
    BY <1>1, <2>3
  <2>5. step[m - 1] = After(batch, m - 1)
    BY <2>2, <2>4
  <2>6. step[m] = IF step[m - 1] = Nil THEN Nil ELSE wk_entry[step[m - 1]]
    BY <1>5, <2>3, <2>4
  <2> QED
    BY <1>3, <2>3, <2>4, <2>5, <2>6
<1>7. i - 1 \in 0..N /\ batch[i] = After(batch, i - 1)
  BY <1>1 DEF After
<1>8. Walk(running) = {step[n] : n \in 0..N} \ {Nil}
  BY DEF Walk, step, N
<1> QED
  BY <1>2, <1>6, <1>7, <1>8

\* Relinked, by the places in the lists
LEMMA RelinkedPlaces ==
    ASSUME WqTypeOK
    PROVE  Relinked <=> \E i \in 1..Len(batch), j \in 1..Len(pending) : batch[i] = pending[j]
<1>1. DOMAIN pending = 1..Len(pending) /\ DOMAIN batch = 1..Len(batch)
  BY LenProperties DEF WqTypeOK
<1> QED
  BY <1>1 DEF Relinked, Elements

\* Enqueuing an item leaves the running list alone, or makes it Relinked.
LEMMA InsertRunning ==
    ASSUME WqInv, WqInv', RunningList, NEW w \in Items, InsertTail(w),
           UNCHANGED <<running, batch, called>>
    PROVE  RunningList'
<1> USE DEF WqInv
<1> DEFINE n == Len(pending)
<1>1. /\ n \in Nat /\ Len(pending') = n + 1
      /\ \A i \in 1..n : pending'[i] = pending[i]
      /\ pending'[n + 1] = w
  BY LenProperties, AppendProperties DEF InsertTail, WqTypeOK
<1>2. pending # << >> => n \in 1..n
  BY <1>1, EmptySeq DEF WqTypeOK
<1>3. Relinked' <=> \E i \in 1..Len(batch), j \in 1..(n + 1) : batch[i] = pending'[j]
  <2>1. pending' \in Seq(Items) /\ batch' \in Seq(Items)
    BY DEF WqTypeOK
  <2>2. DOMAIN pending' = 1..Len(pending') /\ DOMAIN batch' = 1..Len(batch')
    BY <2>1, LenProperties
  <2> QED
    BY <1>1, <2>2 DEF Relinked, Elements
<1>4. ASSUME ~Relinked', NEW i \in 1..Len(batch)
      PROVE  wk_entry'[batch[i]] = After(batch, i)
  <2>1. n + 1 \in 1..(n + 1) /\ \A j \in 1..n : j \in 1..(n + 1)
    BY <1>1
  <2>2. batch[i] # w /\ \A j \in 1..n : batch[i] # pending[j]
    BY <1>1, <1>3, <1>4, <2>1
  <2>3. ~Relinked
    BY <1>1, <1>3, <1>4, <2>1, RelinkedPlaces
  <2>4. batch[i] \in Items
    BY ElementOfSeq DEF WqTypeOK
  <2>5. wk_entry'[batch[i]] = wk_entry[batch[i]]
    BY <1>2, <2>2, <2>4 DEF InsertTail
  <2> QED
    BY <2>3, <2>5 DEF RunningList
<1> QED
  BY <1>4 DEF RunningList, After

\* The list that the worker takes is the pending one, whose links are intact.
LEMMA GrabRunning == ASSUME WqInv, WorkerGrab PROVE RunningList'
<1> USE DEF WqInv
<1>1. /\ pending # << >> /\ running' = Head(pending) /\ batch' = pending
      /\ wk_entry' = wk_entry
  BY DEF WorkerGrab
<1>2. Len(pending) \in Nat /\ Len(pending) > 0 /\ Head(pending) = pending[1]
  BY <1>1, LenProperties, EmptySeq, HeadTailProperties DEF WqTypeOK
<1>3. After(batch', 0) = running'
  BY <1>1, <1>2 DEF After
<1>4. /\ \A i, j \in 1..Len(batch') : batch'[i] = batch'[j] => i = j
      /\ \A i \in 1..Len(batch') : wk_entry'[batch'[i]] = After(batch', i)
  BY <1>1 DEF Links
<1> QED
  BY <1>3, <1>4 DEF RunningList, After

\* An empty running list
LEMMA EmptyRunning == ASSUME batch' = << >>, running' = Nil PROVE RunningList'
<1>1. Len(batch') = 0
  BY EmptySeq
<1> QED
  BY <1>1 DEF RunningList, After

\* No other step touches the running list.
LEMMA RunningStep ==
    ASSUME WqInv, WqInv', RunningList, [WqNext]_wqVars PROVE RunningList'
<1>1. CASE UNCHANGED <<pending, running, wk_entry, batch>>
  <2>1. Relinked' = Relinked
    BY <1>1 DEF Relinked, Elements
  <2>2. \A i : After(batch, i)' = After(batch, i)
    BY <1>1 DEF After
  <2> QED
    BY <1>1, <2>1, <2>2 DEF RunningList
<1>2. CASE \E w \in Works : Enqueue(w)
  BY <1>2, InsertRunning DEF Enqueue, Items
<1>3. CASE DestroyFini
  BY <1>3, InsertRunning DEF DestroyFini, Items
<1>4. CASE WorkerGrab
  BY <1>4, GrabRunning
<1>5. CASE WorkerFinish \/ Create
  BY <1>5, EmptyRunning DEF WorkerFinish, Create
<1> QED
  BY <1>1, <1>2, <1>3, <1>4, <1>5 DEF WqNext, WorkerStep, StartWait, WorkerSleep, WorkerCall,
     WorkerReturn, WorkerExit, WaitLook, DestroySetFunc, DestroyDone, wqVars

\* The running list, from q_queue_running along the links, is what the worker took
\* until one of its items is enqueued again.
THEOREM WorkqueueRunningList == WqSpec => []RunningList
<1>1. WqInit => RunningList
  <2> SUFFICES ASSUME WqInit PROVE RunningList
    OBVIOUS
  <2>1. Len(batch) = 0
    BY EmptySeq DEF WqInit
  <2> QED
    BY <2>1 DEF WqInit, RunningList, After
<1>2. WqInv /\ WqInv' /\ RunningList /\ [WqNext]_wqVars => RunningList'
  BY RunningStep
<1> QED
  BY <1>1, <1>2, WorkqueueInv, PTL DEF WqSpec

\* workqueue_wait() finds an item that is queued or whose function is running, by
\* walking the two lists, unless an item of the running list was enqueued again.
THEOREM WorkqueueWaitsUntilFinished == WqSpec => []WaitsUntilFinished
<1>1. WqInv /\ RunningList => WaitsUntilFinished
  <2> SUFFICES ASSUME WqInv, RunningList, WorkInFlight(waiter.target), ~Relinked
               PROVE  Found
    BY DEF WaitsUntilFinished
  <2> USE DEF WqInv
  <2>1. CASE waiter.target \in Elements(pending)
    BY <2>1 DEF Found
  <2>2. CASE waiter.target \notin Elements(pending)
    <3>1. \E i \in 1..Len(batch) : waiter.target = batch[i]
      <4>1. DOMAIN batch = 1..Len(batch)
        BY LenProperties DEF WqTypeOK
      <4> QED
        BY <2>2, <4>1 DEF WorkInFlight, NotCalled, RunsWhatItTook
    <3> QED
      BY <3>1, WalkMeetsAll DEF Found
  <2> QED
    BY <2>1, <2>2
<1> QED
  BY <1>1, WorkqueueInv, WorkqueueRunningList, PTL
-----------------------------------------------------------------------------
\* Dividing what was multiplied.
LEMMA Quotient ==
    ASSUME NEW n \in Nat \ {0}, NEW q \in Int, NEW r \in 0 .. n - 1
    PROVE  (q * n + r) % n = r /\ (q * n + r) \div n = q
  OBVIOUS

\* The quotient and the remainder are the only ones that fit.
LEMMA Remainder ==
    ASSUME NEW n \in Nat \ {0}, NEW x \in Int, NEW q \in Int, NEW r \in 0 .. n - 1,
           x = q * n + r
    PROVE  x % n = r /\ x \div n = q
  BY Quotient

\* A number is made of its quotient and its remainder.
LEMMA Division ==
    ASSUME NEW n \in Nat \ {0}, NEW x \in Nat
    PROVE  /\ x \div n \in Nat /\ x % n \in 0 .. n - 1
           /\ x = (x \div n) * n + (x % n)
  OBVIOUS

\* A number without remainder is a multiple.
LEMMA Divisible ==
    ASSUME NEW n \in Nat \ {0}, NEW x \in Nat, x % n = 0
    PROVE  \E q \in Nat : x = q * n
<1>1. PICK q \in Nat : x = q * n + (x % n)  BY Division
<1>2. q * n \in Nat  OBVIOUS
<1> QED  BY <1>1, <1>2

\* What one wraparound, in either direction, does to a number.
LEMMA Wrap ==
    ASSUME NEW n \in Nat \ {0}, NEW x \in Int, -n <= x, x < 2 * n
    PROVE  x % n = IF x < 0 THEN x + n ELSE IF x < n THEN x ELSE x - n
<1>1. CASE x < 0
  <2>1. PICK r \in 0 .. n - 1 : x = (-1) * n + r  BY <1>1
  <2>2. -1 \in Int  OBVIOUS
  <2>3. x % n = r  BY <2>1, <2>2, Remainder
  <2> QED  BY <1>1, <2>1, <2>3
<1>2. CASE 0 <= x /\ x < n
  <2>1. PICK r \in 0 .. n - 1 : x = 0 * n + r  BY <1>2
  <2>2. x % n = r  BY <2>1, Remainder
  <2> QED  BY <1>2, <2>1, <2>2
<1>3. CASE n <= x
  <2>1. PICK r \in 0 .. n - 1 : x = 1 * n + r  BY <1>3
  <2>2. x % n = r  BY <2>1, Remainder
  <2> QED  BY <1>3, <2>1, <2>2
<1> QED  BY <1>1, <1>2, <1>3

\* The spans and the number of ints; half of the ints are not negative.
LEMMA Sizes ==
    /\ \A w \in 0..3 : Span(w) \in Nat \ {0}
    /\ WheelSize \in Nat \ {0}
    /\ IntSize = Span(3) * WheelSize
    /\ \E h \in Nat \ {0} : IntSize = 2 * h /\ IntMax = h - 1
<1>1. WheelSize \in Nat \ {0}  BY WheelAssumption
<1>2. \A a, b \in Nat \ {0} : a * b \in Nat \ {0}  OBVIOUS
<1>3. \A w \in 0..3 : Span(w) \in Nat \ {0}
  <2>1. WheelSize * WheelSize \in Nat \ {0}  BY <1>1, <1>2
  <2>2. WheelSize * WheelSize * WheelSize \in Nat \ {0}  BY <1>1, <1>2, <2>1
  <2>3. \A w \in 0..3 : w = 0 \/ w = 1 \/ w = 2 \/ w = 3  OBVIOUS
  <2>4. Span(0) = 1 /\ Span(1) = WheelSize /\ Span(2) = WheelSize * WheelSize
        /\ Span(3) = WheelSize * WheelSize * WheelSize
    BY DEF Span
  <2> QED  BY <1>1, <2>1, <2>2, <2>3, <2>4
<1>4. PICK k \in Nat \ {0} : WheelSize = 2 * k
  <2>1. WheelSize \div 2 \in Nat /\ WheelSize = (WheelSize \div 2) * 2 + (WheelSize % 2)
    BY WheelAssumption, Division
  <2>2. WheelSize = 2 * (WheelSize \div 2) /\ WheelSize \div 2 # 0
    BY <2>1, WheelAssumption
  <2> QED  BY <2>1, <2>2
<1>5. PICK h : h = Span(3) * k  OBVIOUS
<1>6. h \in Nat \ {0}  BY <1>2, <1>3, <1>5
<1>7. IntSize = 2 * h
  <2>1. \A a \in Nat : a * (2 * k) = 2 * (a * k)  OBVIOUS
  <2> QED  BY <1>3, <1>4, <1>5, <2>1 DEF IntSize
<1>8. (2 * h) \div 2 = h  BY <1>6
<1>9. IntMax = h - 1  BY <1>7, <1>8 DEF IntMax
<1> QED  BY <1>1, <1>3, <1>6, <1>7, <1>9 DEF IntSize

\* What an int can hold, read as an unsigned number.
Times == 0 .. IntSize - 1

\* The difference of two times, as the int the kernel computes.
LEMMA DiffIs ==
    ASSUME NEW x \in Times, NEW y \in Times, NEW h \in Nat \ {0},
           IntSize = 2 * h, IntMax = h - 1
    PROVE  Diff(x, y) = IF x - y >= h THEN x - y - 2 * h
                        ELSE IF x - y < -h THEN x - y + 2 * h ELSE x - y
<1>1. Trunc(x - y) = IF x >= y THEN x - y ELSE x - y + 2 * h
  <2>1. PICK n \in Nat \ {0} : n = 2 * h  OBVIOUS
  <2>2. x \in Int /\ y \in Int /\ 0 <= x /\ x < n /\ 0 <= y /\ y < n  BY <2>1 DEF Times
  <2>3. PICK z \in Int : z = x - y  BY <2>2
  <2>4. -n <= z /\ z < 2 * n /\ z < n  BY <2>2, <2>3
  <2>5. z % n = IF z < 0 THEN z + n ELSE IF z < n THEN z ELSE z - n  BY <2>4, Wrap
  <2>6. z % n = IF x >= y THEN x - y ELSE x - y + 2 * h
    BY <2>1, <2>2, <2>3, <2>4, <2>5
  <2> QED  BY <2>1, <2>3, <2>6 DEF Trunc
<1> QED  BY <1>1 DEF Diff, ToInt, Times

\* Ints stay ints.
LEMMA TruncTimes == ASSUME NEW x \in Int PROVE Trunc(x) \in Times
<1>1. IntSize \in Nat \ {0}  BY Sizes
<1>2. \A n \in Nat \ {0} : x % n \in 0 .. n - 1  OBVIOUS
<1> QED  BY <1>1, <1>2 DEF Trunc, Times

\* Adding a delay wraps around at most once.
LEMMA TruncSmall ==
    ASSUME NEW x \in Times, NEW k \in 0 .. IntMax + 1
    PROVE  Trunc(x + k) = IF x + k < IntSize THEN x + k ELSE x + k - IntSize
<1>1. PICK h \in Nat \ {0} : IntSize = 2 * h /\ IntMax = h - 1  BY Sizes
<1>2. PICK n \in Nat \ {0} : n = IntSize  BY <1>1
<1>3. PICK z \in Int : z = x + k  BY <1>1 DEF Times
<1>4. -n <= z /\ z < 2 * n /\ 0 <= z  BY <1>1, <1>2, <1>3 DEF Times
<1>5. z % n = IF z < 0 THEN z + n ELSE IF z < n THEN z ELSE z - n  BY <1>4, Wrap
<1>6. x \in Int /\ k \in Int  BY <1>1 DEF Times
<1>7. z % n = IF z < n THEN z ELSE z - n  BY <1>4, <1>5
<1> QED  BY <1>2, <1>3, <1>6, <1>7 DEF Trunc

\* The clock ticks: a time that is ahead is one tick less ahead.
LEMMA DiffTick ==
    ASSUME NEW x \in Times, NEW t \in Times, Diff(x, t) > 0
    PROVE  Trunc(t + 1) \in Times /\ Diff(x, Trunc(t + 1)) = Diff(x, t) - 1
<1>1. PICK h \in Nat \ {0} : IntSize = 2 * h /\ IntMax = h - 1  BY Sizes
<1>2. PICK u : u = Trunc(t + 1)  OBVIOUS
<1>3. u = IF t + 1 < 2 * h THEN t + 1 ELSE t + 1 - 2 * h
  <2>1. 1 \in 0 .. IntMax + 1  BY <1>1
  <2> QED  BY <1>1, <1>2, <2>1, TruncSmall
<1>4. u \in Times /\ x \in Int /\ t \in Int  BY <1>1, <1>3 DEF Times
<1>5. /\ Diff(x, t) = IF x - t >= h THEN x - t - 2 * h
                      ELSE IF x - t < -h THEN x - t + 2 * h ELSE x - t
      /\ Diff(x, u) = IF x - u >= h THEN x - u - 2 * h
                      ELSE IF x - u < -h THEN x - u + 2 * h ELSE x - u
  BY <1>1, <1>4, DiffIs
<1> QED  BY <1>1, <1>2, <1>3, <1>4, <1>5 DEF Times

\* What callout_schedule_locked() sets
LEMMA DiffDelay ==
    ASSUME NEW t \in Times, NEW k \in 0 .. IntMax
    PROVE  Trunc(t + k) \in Times /\ Diff(Trunc(t + k), t) = k
<1>1. PICK h \in Nat \ {0} : IntSize = 2 * h /\ IntMax = h - 1  BY Sizes
<1>2. PICK u : u = Trunc(t + k)  OBVIOUS
<1>3. u = IF t + k < 2 * h THEN t + k ELSE t + k - 2 * h
  <2>1. k \in 0 .. IntMax + 1  BY <1>1
  <2> QED  BY <1>1, <1>2, <2>1, TruncSmall
<1>4. u \in Times /\ t \in Int /\ k \in Int  BY <1>1, <1>3 DEF Times
<1>5. Diff(u, t) = IF u - t >= h THEN u - t - 2 * h
                   ELSE IF u - t < -h THEN u - t + 2 * h ELSE u - t
  BY <1>1, <1>4, DiffIs
<1> QED  BY <1>1, <1>2, <1>3, <1>4, <1>5 DEF Times

\* Comparing two times that are both ahead
LEMMA DiffOfDiffs ==
    ASSUME NEW x \in Times, NEW y \in Times, NEW t \in Times,
           Diff(x, t) >= 0, Diff(y, t) >= 0
    PROVE  Diff(x, y) = Diff(x, t) - Diff(y, t)
<1>1. PICK h \in Nat \ {0} : IntSize = 2 * h /\ IntMax = h - 1  BY Sizes
<1>2. /\ Diff(x, t) = IF x - t >= h THEN x - t - 2 * h
                      ELSE IF x - t < -h THEN x - t + 2 * h ELSE x - t
      /\ Diff(y, t) = IF y - t >= h THEN y - t - 2 * h
                      ELSE IF y - t < -h THEN y - t + 2 * h ELSE y - t
      /\ Diff(x, y) = IF x - y >= h THEN x - y - 2 * h
                      ELSE IF x - y < -h THEN x - y + 2 * h ELSE x - y
  BY <1>1, DiffIs
<1> QED  BY <1>1, <1>2 DEF Times

\* A multiple of the span of a wheel has zeros in the digits below it, and the digit
\* of the wheel is that of every time in the bucket.
LEMMA LowerDigits ==
    ASSUME NEW w \in 0..3, NEW q \in Nat, NEW u \in 0..3, u < w
    PROVE  MaskWheel(u, q * Span(w)) = 0
<1> DEFINE W == WheelSize
<1>1. W \in Nat \ {0} /\ \A v \in 0..3 : Span(v) \in Nat \ {0}  BY Sizes
<1>2. PICK k \in Nat : q * Span(w) = (k * W) * Span(u)
  <2>1. Span(0) = 1 /\ Span(1) = W /\ Span(2) = W * W /\ Span(3) = W * W * W
    BY DEF Span
  <2>2. \A a, b \in Nat : a * b \in Nat  OBVIOUS
  <2>3. CASE u = w - 1
    <3>1. Span(w) = W * Span(u)
      <4>1. (w = 1 /\ u = 0) \/ (w = 2 /\ u = 1) \/ (w = 3 /\ u = 2)  BY <2>3
      <4>2. W * W * W = W * (W * W) /\ W = W * 1  BY <1>1
      <4> QED  BY <2>1, <4>1, <4>2
    <3>2. \A s \in Nat : q * (W * s) = (q * W) * s  BY <1>1
    <3> QED  BY <1>1, <3>1, <3>2
  <2>4. CASE u = w - 2
    <3>1. Span(w) = W * (W * Span(u))
      <4>1. (w = 2 /\ u = 0) \/ (w = 3 /\ u = 1)  BY <2>4
      <4>2. W * W * W = W * (W * W) /\ W * W = W * (W * 1)  BY <1>1
      <4> QED  BY <2>1, <4>1, <4>2
    <3>2. \A s \in Nat : q * (W * (W * s)) = ((q * W) * W) * s  BY <1>1
    <3>3. q * W \in Nat  BY <1>1, <2>2
    <3> QED  BY <1>1, <3>1, <3>2, <3>3
  <2>5. CASE u = w - 3
    <3>1. Span(w) = W * W * W /\ Span(u) = 1
      BY <2>1, <2>5
    <3>2. q * (W * W * W) = (((q * W) * W) * W) * 1  BY <1>1
    <3>3. (q * W) * W \in Nat  BY <1>1, <2>2
    <3> QED  BY <3>1, <3>2, <3>3
  <2> QED  BY <2>3, <2>4, <2>5
<1>3. PICK a \in Nat : a = k * W  BY <1>1
<1>4. PICK x \in Int : x = a * Span(u)  BY <1>1
<1>5. 0 \in 0 .. Span(u) - 1 /\ x = a * Span(u) + 0  BY <1>1, <1>4
<1>6. x \div Span(u) = a  BY <1>1, <1>5, Remainder
<1>7. 0 \in 0 .. W - 1 /\ a = k * W + 0  BY <1>1, <1>3
<1>8. a % W = 0  BY <1>1, <1>7, Remainder
<1> QED  BY <1>2, <1>3, <1>4, <1>6, <1>8 DEF MaskWheel

\* The bucket of a time is moved when the clock reaches the beginning of its span.
LEMMA MovedAtStart ==
    ASSUME NEW w \in 0..3, NEW c \in Nat
    PROVE  Bucket(w, MaskWheel(w, c)) \in MovedBuckets(c - (c % Span(w)))
<1>1. PICK s \in Nat \ {0} : s = Span(w)  BY Sizes
<1>2. PICK q \in Nat, r \in 0 .. s - 1 : q = c \div s /\ r = c % s /\ c = q * s + r
  BY Division
<1>3. PICK t \in Int : t = q * s  BY <1>1, <1>2
<1>4. c - (c % Span(w)) = t
  <2>1. c = t + r  BY <1>2, <1>3
  <2>2. c - r = t  BY <2>1
  <2> QED  BY <1>1, <1>2, <2>2
<1>5. 0 \in 0 .. s - 1 /\ t = q * s + 0 /\ q \in Int  BY <1>1, <1>3
<1>6. t \div s = q  BY <1>5, Remainder
<1>7. MaskWheel(w, t) = MaskWheel(w, c)  BY <1>1, <1>2, <1>6 DEF MaskWheel
<1>8. \A u \in 0..3 : u < w => MaskWheel(u, t) = 0  BY <1>1, <1>3, LowerDigits
<1> QED  BY <1>4, <1>7, <1>8 DEF MovedBuckets

\* The other way round: a time with zeros in the lower digits begins a span.
LEMMA ZeroDigits ==
    ASSUME NEW w \in 0..3, NEW x \in Nat, \A u \in 0..3 : u < w => MaskWheel(u, x) = 0
    PROVE  \E q \in Nat : x = q * Span(w)
<1> DEFINE W == WheelSize
<1>1. W \in Nat \ {0}  BY Sizes
<1>2. Span(0) = 1 /\ Span(1) = W /\ Span(2) = W * W /\ Span(3) = W * W * W
  BY DEF Span
<1> HIDE DEF W
<1>3. w = 0 \/ w = 1 \/ w = 2 \/ w = 3  OBVIOUS
<1>4. x = x * 1  OBVIOUS
<1>5. ASSUME w > 0 PROVE \E q \in Nat : x = q * W
  <2>1. MaskWheel(0, x) = 0  BY <1>5
  <2>2. x \div 1 = x  OBVIOUS
  <2>3. x % W = 0  BY <1>2, <2>1, <2>2 DEF MaskWheel, W
  <2> QED  BY <1>1, <2>3, Divisible
<1>6. ASSUME w > 1 PROVE \E q \in Nat : x = q * (W * W)
  <2>1. PICK p \in Nat : x = p * W  BY <1>5, <1>6
  <2>2. x \div W = p
    <3>1. 0 \in 0 .. W - 1 /\ x = p * W + 0  BY <1>1, <2>1
    <3> QED  BY <1>1, <3>1, Remainder
  <2>3. MaskWheel(1, x) = 0  BY <1>6
  <2>4. p % W = 0  BY <1>2, <2>2, <2>3 DEF MaskWheel, W
  <2>5. PICK q \in Nat : p = q * W  BY <1>1, <2>4, Divisible
  <2>6. (q * W) * W = q * (W * W)  BY <1>1
  <2> QED  BY <2>1, <2>5, <2>6
<1>7. ASSUME w > 2 PROVE \E q \in Nat : x = q * (W * W * W)
  <2>1. PICK p \in Nat : x = p * (W * W)  BY <1>6, <1>7
  <2>2. PICK s \in Nat \ {0} : s = W * W  BY <1>1
  <2>3. x \div s = p
    <3>1. 0 \in 0 .. s - 1 /\ x = p * s + 0  BY <2>1, <2>2
    <3> QED  BY <3>1, Remainder
  <2>4. MaskWheel(2, x) = 0  BY <1>7
  <2>5. p % W = 0  BY <1>2, <2>2, <2>3, <2>4 DEF MaskWheel, W
  <2>6. PICK q \in Nat : p = q * W  BY <1>1, <2>5, Divisible
  <2>7. (q * W) * (W * W) = q * (W * W * W)  BY <1>1
  <2> QED  BY <2>1, <2>6, <2>7
<1> QED  BY <1>2, <1>3, <1>4, <1>5, <1>6, <1>7

\* A bucket is moved at the beginning of its span, and so the time in it that is
\* less than a turn of the wheel ahead is less than a span ahead.
LEMMA LessThanSpan ==
    ASSUME NEW w \in 0..3, NEW c \in Times, NEW t \in Times,
           Bucket(w, MaskWheel(w, c)) \in MovedBuckets(t),
           Diff(c, t) \in 0 .. Span(w) * WheelSize - 1
    PROVE  Diff(c, t) \in 0 .. Span(w) - 1
<1>1. PICK s \in Nat \ {0}, W \in Nat \ {0} : s = Span(w) /\ W = WheelSize  BY Sizes
<1>2. t \in Nat /\ c \in Nat  BY DEF Times
<1>3. PICK v \in 0..3 : /\ Bucket(w, MaskWheel(w, c)) = Bucket(v, MaskWheel(v, t))
                        /\ \A u \in 0..3 : u < v => MaskWheel(u, t) = 0
  BY DEF MovedBuckets
<1>4. v = w /\ MaskWheel(w, c) = MaskWheel(w, t)  BY <1>3 DEF Bucket
<1>5. PICK p \in Nat : t = p * s  BY <1>1, <1>2, <1>3, <1>4, ZeroDigits
<1>6. t \div s = p
  <2>1. 0 \in 0 .. s - 1 /\ t = p * s + 0 /\ t \in Int  BY <1>2, <1>5
  <2> QED  BY <2>1, Remainder
<1>7. PICK q \in Nat, r \in 0 .. s - 1 : q = c \div s /\ c = q * s + r
  BY <1>2, Division
<1>8. q % W = p % W  BY <1>1, <1>4, <1>6, <1>7 DEF MaskWheel
<1>9. PICK m \in Int : q - p = m * W
  <2>1. PICK a \in Nat, b \in Nat, e \in Nat : q = a * W + e /\ p = b * W + e
    <3>1. PICK a \in Nat : q = a * W + (q % W)  BY Division
    <3>2. PICK b \in Nat : p = b * W + (p % W)  BY Division
    <3>3. q % W \in Nat  OBVIOUS
    <3> QED  BY <1>8, <3>1, <3>2, <3>3
  <2>2. q - p = (a - b) * W /\ a - b \in Int  BY <2>1
  <2> QED  BY <2>2
<1>10. PICK k \in Int : IntSize = (k * W) * s
  <2>1. Span(0) = 1 /\ Span(1) = W /\ Span(2) = W * W /\ Span(3) = W * W * W
    BY <1>1 DEF Span
  <2>2. IntSize = W * W * W * W  BY <1>1, <2>1 DEF IntSize
  <2>3. w = 0 \/ w = 1 \/ w = 2 \/ w = 3  OBVIOUS
  <2>4. /\ W * W * W * W = ((W * W * W) * W) * 1
        /\ W * W * W * W = ((W * W) * W) * W
        /\ W * W * W * W = (W * W) * (W * W)
        /\ W * W * W * W = (1 * W) * (W * W * W)
    OBVIOUS
  <2>5. W * W * W \in Int /\ W * W \in Int /\ W \in Int /\ 1 \in Int  OBVIOUS
  <2> QED  BY <1>1, <2>1, <2>2, <2>3, <2>4, <2>5
<1>11. PICK d \in Int : d = Diff(c, t)  OBVIOUS
<1>12. d = c - t \/ d = c - t + IntSize \/ d = c - t - IntSize
  <2>1. PICK h \in Nat \ {0} : IntSize = 2 * h /\ IntMax = h - 1  BY Sizes
  <2> QED  BY <1>11, <2>1, DiffIs
<1>13. PICK j \in Int : d = (j * W) * s + r
  <2>1. c - t = (q - p) * s + r  BY <1>5, <1>7
  <2>2. c - t = (m * W) * s + r  BY <1>9, <2>1
  <2>3. /\ (m * W) * s + r + (k * W) * s = ((m + k) * W) * s + r
        /\ (m * W) * s + r - (k * W) * s = ((m - k) * W) * s + r
    OBVIOUS
  <2>4. m + k \in Int /\ m - k \in Int  OBVIOUS
  <2>5. CASE d = c - t  BY <2>2, <2>5
  <2>6. CASE d = c - t + IntSize
    <3>1. d = ((m + k) * W) * s + r  BY <1>10, <2>2, <2>3, <2>6
    <3> QED  BY <2>4, <3>1
  <2>7. CASE d = c - t - IntSize
    <3>1. d = ((m - k) * W) * s + r  BY <1>10, <2>2, <2>3, <2>7
    <3> QED  BY <2>4, <3>1
  <2> QED  BY <1>12, <2>5, <2>6, <2>7
<1>14. d = r
  <2>1. PICK z \in Nat \ {0} : z = W * s  OBVIOUS
  <2>2. d = j * z + r  BY <1>13, <2>1
  <2>3. 0 <= d /\ d < z
    <3>1. Span(w) * WheelSize = z  BY <1>1, <2>1
    <3> QED  BY <1>11, <2>1, <3>1
  <2>4. r < z /\ 0 <= r
    <3>1. s <= z  BY <2>1
    <3> QED  BY <3>1
  <2>5. ASSUME j > 0 PROVE FALSE
    <3>1. j * z >= z  BY <2>1, <2>5
    <3> QED  BY <2>2, <2>3, <2>4, <3>1
  <2>6. ASSUME j < 0 PROVE FALSE
    <3>1. j * z <= -z  BY <2>1, <2>6
    <3> QED  BY <2>2, <2>3, <2>4, <3>1
  <2>7. j = 0  BY <2>5, <2>6
  <2> QED  BY <2>2, <2>7
<1> QED  BY <1>1, <1>11, <1>14

\* A time that is as far ahead as it is into its span: the clock is at the beginning.
LEMMA StartReached ==
    ASSUME NEW c \in Times, NEW t \in Times, NEW r \in 0 .. c, Diff(c, t) = r
    PROVE  t = c - r
<1>1. PICK h \in Nat \ {0} : IntSize = 2 * h /\ IntMax = h - 1  BY Sizes
<1>2. Diff(c, t) = IF c - t >= h THEN c - t - 2 * h
                   ELSE IF c - t < -h THEN c - t + 2 * h ELSE c - t
  BY <1>1, DiffIs
<1> QED  BY <1>1, <1>2 DEF Times

\* The offset of a time in its span
LEMMA Offset ==
    ASSUME NEW w \in 0..3, NEW c \in Times
    PROVE  /\ Span(w) \in Nat \ {0} /\ c \in Nat
           /\ c % Span(w) \in 0 .. Span(w) - 1 /\ c % Span(w) \in 0 .. c
<1>1. PICK s \in Nat \ {0} : s = Span(w)  BY Sizes
<1>2. c \in Nat  BY DEF Times
<1>3. PICK q \in Nat, r \in 0 .. s - 1 : r = c % s /\ c = q * s + r  BY <1>2, Division
<1>4. q * s \in Nat  OBVIOUS
<1>5. r <= c  BY <1>2, <1>3, <1>4
<1> QED  BY <1>1, <1>2, <1>3, <1>5

\* The difference of two times is an int.
LEMMA DiffInt == ASSUME NEW x \in Times, NEW y \in Times
                 PROVE  Diff(x, y) \in Int /\ Diff(x, y) < IntSize
<1>1. PICK h \in Nat \ {0} : IntSize = 2 * h /\ IntMax = h - 1  BY Sizes
<1> QED  BY <1>1, DiffIs DEF Times

\* Every variable has its type.
WheelTypeOK ==
    /\ cc_ticks \in Times /\ c_time \in Times
    /\ place \in {OffWheel, Todo} \cup ((0..3) \X (0 .. WheelSize - 1))
    /\ placed \in {"no", "right", "later", "wrong"}

\* The callout is in the bucket of a time c that is not after its own, and the clock
\* has not reached the beginning of the bucket's span.
Within(w, c) ==
    /\ place = Bucket(w, MaskWheel(w, c))
    /\ Diff(c, cc_ticks) > c % Span(w)
    /\ Diff(c, cc_ticks) <= Diff(c_time, cc_ticks)
    /\ placed = "right" => c = c_time /\ Diff(c, cc_ticks) <= Span(w) * WheelSize

\* A callout in a bucket was put there in time, for its own expiry time or for one
\* that callout_schedule_locked() has since moved later.
PlacedInTime ==
    InWheel /\ placed # "wrong" => \E w \in 0..3, c \in Times : Within(w, c)

\* The inductive invariant.
WheelInv == WheelTypeOK /\ PlacedInTime

\* BUCKET() is one of the wheels' buckets.
LEMMA BucketType ==
    ASSUME NEW w \in 0..3, NEW c \in Times
    PROVE  Bucket(w, MaskWheel(w, c)) \in (0..3) \X (0 .. WheelSize - 1)
<1>1. Span(w) \in Nat \ {0} /\ WheelSize \in Nat \ {0} /\ c \in Nat  BY Sizes DEF Times
<1>2. PICK q \in Nat : q = c \div Span(w)  BY <1>1, Division
<1>3. q % WheelSize \in 0 .. WheelSize - 1  BY <1>1, Division
<1> QED  BY <1>2, <1>3 DEF Bucket, MaskWheel

\* A callout that is left in its bucket, although it is to be called later, is taken
\* out no later than it would have been.
LEMMA ScheduleInv ==
    ASSUME WheelInv, NEW k \in 0 .. IntMax, ScheduleLocked(k) PROVE WheelInv'
<1> USE DEF WheelInv, WheelTypeOK
<1>1. /\ c_time' = Trunc(cc_ticks + k) /\ cc_ticks' = cc_ticks
      /\ place' = Todo \/ (place' = place /\ Diff(c_time', c_time) >= 0)
      /\ placed' \in {"no", "later", placed}
      /\ (placed' = "right" => FALSE)
      /\ (place' # Todo => placed' = IF placed = "right" THEN "later" ELSE placed)
  <2>1. PICK n : n = Trunc(cc_ticks + k)  OBVIOUS
  <2>2. n \in Times  BY <2>1, DiffDelay
  <2>3. Diff(n, c_time) \in Int  BY <2>2, DiffInt
  <2>4. c_time' = n  BY <2>1 DEF ScheduleLocked
  <2>5. place' = IF place = OffWheel \/ Diff(n, c_time) < 0 THEN Todo ELSE place
    BY <2>4 DEF ScheduleLocked, MovedEarlier
  <2>6. place' = Todo \/ (place' = place /\ Diff(n, c_time) >= 0)
    BY <2>3, <2>5
  <2> QED  BY <2>1, <2>4, <2>6 DEF ScheduleLocked
<1>2. /\ Trunc(cc_ticks + k) \in Times
      /\ Diff(Trunc(cc_ticks + k), cc_ticks) = k
  BY DiffDelay
<1>3. WheelTypeOK'
  BY <1>1, <1>2
<1>4. ASSUME InWheel', placed' # "wrong" PROVE \E w \in 0..3, c \in Times : Within(w, c)'
  <2>1. place' # Todo /\ place' = place /\ InWheel
    BY <1>1, <1>4 DEF InWheel
  <2>2. placed # "wrong"
    BY <1>1, <1>4, <2>1
  <2>3. PICK w \in 0..3, c \in Times : Within(w, c)
    BY <2>1, <2>2 DEF PlacedInTime
  <2>4. Diff(c, cc_ticks) > c % Span(w) /\ Diff(c, cc_ticks) <= Diff(c_time, cc_ticks)
        /\ place = Bucket(w, MaskWheel(w, c))
    BY <2>3 DEF Within
  <2>5. Diff(c, cc_ticks) \in Int /\ Diff(c_time, cc_ticks) \in Int /\ c % Span(w) \in Nat
    BY DiffInt, Offset
  <2>6. Diff(c_time, cc_ticks) >= 0
    BY <2>4, <2>5
  <2>7. Diff(c_time', c_time) = k - Diff(c_time, cc_ticks)
    BY <1>1, <1>2, <2>6, DiffOfDiffs
  <2>8. Diff(c, cc_ticks) <= k
    BY <1>1, <2>1, <2>4, <2>5, <2>7
  <2>9. Within(w, c)'
    BY <1>1, <1>2, <2>1, <2>4, <2>8 DEF Within
  <2> QED  BY <2>9
<1> QED  BY <1>3, <1>4 DEF PlacedInTime

\* A callout that is stopped or called is on no wheel.
LEMMA OffWheelInv ==
    ASSUME WheelInv, Stop \/ SoftClockFire PROVE WheelInv'
<1>1. /\ place' = OffWheel /\ placed' = "no" /\ c_time' = 0 /\ cc_ticks' = cc_ticks
  BY DEF Stop, SoftClockFire
<1>2. 0 \in Times  BY Sizes DEF Times
<1> QED  BY <1>1, <1>2 DEF WheelInv, WheelTypeOK, PlacedInTime, InWheel

\* One tick brings the clock nearer to the span, at most to its beginning.
LEMMA TickWithin ==
    ASSUME WheelInv, HardClock, NEW w \in 0..3, NEW c \in Times, Within(w, c)
    PROVE  /\ cc_ticks' \in Times
           /\ Diff(c, cc_ticks') = Diff(c, cc_ticks) - 1
           /\ Diff(c_time, cc_ticks') = Diff(c_time, cc_ticks) - 1
           /\ Diff(c, cc_ticks') >= c % Span(w)
<1>1. cc_ticks \in Times /\ c_time \in Times /\ cc_ticks' = Trunc(cc_ticks + 1)
  BY DEF WheelInv, WheelTypeOK, HardClock
<1>2. Diff(c, cc_ticks) > c % Span(w) /\ Diff(c, cc_ticks) <= Diff(c_time, cc_ticks)
  BY DEF Within
<1>3. Diff(c, cc_ticks) \in Int /\ Diff(c_time, cc_ticks) \in Int /\ c % Span(w) \in Nat
  BY <1>1, DiffInt, Offset
<1>4. Diff(c, cc_ticks) > 0 /\ Diff(c_time, cc_ticks) > 0
  BY <1>2, <1>3
<1>5. /\ Trunc(cc_ticks + 1) \in Times
      /\ Diff(c, Trunc(cc_ticks + 1)) = Diff(c, cc_ticks) - 1
      /\ Diff(c_time, Trunc(cc_ticks + 1)) = Diff(c_time, cc_ticks) - 1
  BY <1>1, <1>4, DiffTick
<1> QED  BY <1>1, <1>2, <1>3, <1>5

\* callout_hardclock(): the tick at which the span of a bucket begins moves the
\* bucket, so that a callout that is still in it is ahead of the clock.
LEMMA HardClockInv == ASSUME WheelInv, HardClock PROVE WheelInv'
<1> USE DEF WheelInv, WheelTypeOK
<1>1. /\ c_time' = c_time /\ cc_ticks' = Trunc(cc_ticks + 1)
      /\ place' = IF place \in MovedBuckets(cc_ticks') THEN Todo ELSE place
      /\ placed' = IF place' = Todo THEN "no" ELSE placed
  BY DEF HardClock
<1>2. WheelTypeOK'
  <2>1. cc_ticks' \in Times  BY <1>1, TruncTimes DEF Times
  <2> QED  BY <1>1, <2>1
<1>3. ASSUME InWheel', placed' # "wrong" PROVE \E w \in 0..3, c \in Times : Within(w, c)'
  <2>1. place' = place /\ placed' = placed /\ place \notin MovedBuckets(cc_ticks') /\ InWheel
    BY <1>1, <1>3 DEF InWheel
  <2>2. PICK w \in 0..3, c \in Times : Within(w, c)
    BY <1>3, <2>1 DEF PlacedInTime
  <2>3. /\ cc_ticks' \in Times
        /\ Diff(c, cc_ticks') = Diff(c, cc_ticks) - 1
        /\ Diff(c_time, cc_ticks') = Diff(c_time, cc_ticks) - 1
        /\ Diff(c, cc_ticks') >= c % Span(w)
    BY <2>2, TickWithin
  <2>4. Diff(c, cc_ticks') # c % Span(w)
    <3>1. SUFFICES ASSUME Diff(c, cc_ticks') = c % Span(w) PROVE FALSE
      OBVIOUS
    <3>2. cc_ticks' = c - (c % Span(w))
      BY <2>3, <3>1, StartReached, Offset
    <3>3. place = Bucket(w, MaskWheel(w, c))  BY <2>2 DEF Within
    <3> QED  BY <2>1, <3>2, <3>3, MovedAtStart, Offset
  <2>5. /\ Diff(c, cc_ticks) \in Int /\ Diff(c_time, cc_ticks) \in Int
        /\ c % Span(w) \in Nat /\ Span(w) * WheelSize \in Int
    BY DiffInt, Offset, Sizes
  <2>6. /\ Diff(c, cc_ticks') > c % Span(w)
        /\ Diff(c, cc_ticks') <= Diff(c_time, cc_ticks')
        /\ placed = "right" =>
             c = c_time /\ Diff(c, cc_ticks') <= Span(w) * WheelSize
    BY <2>2, <2>3, <2>4, <2>5 DEF Within
  <2>7. Within(w, c)'
    BY <1>1, <2>1, <2>2, <2>6 DEF Within
  <2> QED  BY <2>7
<1> QED  BY <1>2, <1>3 DEF PlacedInTime

\* BUCKET() picks a wheel on which the time is at least a span ahead (a tick, on the
\* first), and at most a turn.
LEMMA RightWheel ==
    ASSUME NEW d \in Int, d > 0, d < IntSize
    PROVE  /\ WheelFor(d) \in 0..3
           /\ d <= Span(WheelFor(d)) * WheelSize
           /\ WheelFor(d) # 0 => d > Span(WheelFor(d))
<1>1. PICK W \in Nat \ {0} : W = WheelSize  BY Sizes
<1>2. Span(0) = 1 /\ Span(1) = W /\ Span(2) = W * W /\ Span(3) = W * W * W
  BY <1>1 DEF Span
<1>3. W * W \in Nat /\ W * W * W \in Nat /\ 1 * W = W  OBVIOUS
<1>4. IntSize = Span(3) * W  BY <1>1 DEF IntSize
<1>5. CASE d <= Span(1)
  BY <1>1, <1>2, <1>3, <1>5 DEF WheelFor
<1>6. CASE ~(d <= Span(1)) /\ d <= Span(2)
  BY <1>1, <1>2, <1>3, <1>6 DEF WheelFor
<1>7. CASE ~(d <= Span(1)) /\ ~(d <= Span(2)) /\ d <= Span(3)
  BY <1>1, <1>2, <1>3, <1>7 DEF WheelFor
<1>8. CASE ~(d <= Span(1)) /\ ~(d <= Span(2)) /\ ~(d <= Span(3))
  <2>1. WheelFor(d) = 3  BY <1>8 DEF WheelFor
  <2>2. d > Span(3)  BY <1>2, <1>3, <1>8
  <2>3. Span(3) * W \in Nat  BY <1>2, <1>3
  <2> QED  BY <1>1, <1>4, <2>1, <2>2, <2>3
<1> QED  BY <1>5, <1>6, <1>7, <1>8

\* callout_softclock() picks a bucket whose span the clock has not reached.
LEMMA RequeueInv == ASSUME WheelInv, SoftClockRequeue PROVE WheelInv'
<1> USE DEF WheelInv, WheelTypeOK
<1>1. PICK d \in Int : d = Diff(c_time, cc_ticks) /\ d < IntSize  BY DiffInt
<1>2. PICK w : w = WheelFor(d)  OBVIOUS
<1>3. /\ place' = Bucket(w, MaskWheel(w, c_time))
      /\ placed' = (IF d > 0 THEN "right" ELSE "wrong")
      /\ UNCHANGED <<cc_ticks, c_time>>
  BY <1>1, <1>2 DEF SoftClockRequeue
<1>4. w \in 0..3  BY <1>2 DEF WheelFor
<1>5. WheelTypeOK'
  BY <1>3, <1>4, BucketType
<1>6. ASSUME placed' # "wrong" PROVE Within(w, c_time)'
  <2>1. d > 0 /\ placed' = "right"  BY <1>3, <1>6
  <2>2. d <= Span(w) * WheelSize /\ (w # 0 => d > Span(w))
    BY <1>1, <1>2, <2>1, RightWheel
  <2>3. c_time % Span(w) \in 0 .. Span(w) - 1 /\ Span(w) \in Nat /\ Span(0) = 1
    BY <1>4, Offset DEF Span
  <2>4. d > c_time % Span(w)
    BY <2>1, <2>2, <2>3
  <2> QED  BY <1>1, <1>3, <2>1, <2>2, <2>4 DEF Within
<1>7. ASSUME placed' # "wrong" PROVE \E v \in 0..3, c \in Times : Within(v, c)'
  <2>1. PICK c \in Times : c = c_time /\ c = c_time'  BY <1>3
  <2>2. Within(w, c)'  BY <1>6, <1>7, <2>1 DEF Within
  <2> QED  BY <1>4, <2>2
<1> QED  BY <1>5, <1>7 DEF PlacedInTime

\* The invariant of the wheel holds for every number of buckets: a callout in a
\* bucket is ahead of the tick at which callout_hardclock() empties the bucket.
THEOREM WheelInductive == WheelSpec => []WheelInv
<1>1. WheelInit => WheelInv
  <2>1. 0 \in Times  BY Sizes DEF Times
  <2> QED  BY <2>1 DEF WheelInit, WheelInv, WheelTypeOK, PlacedInTime, InWheel
<1>2. WheelInv /\ [WheelNext]_wheelVars => WheelInv'
  <2> SUFFICES ASSUME WheelInv, [WheelNext]_wheelVars PROVE WheelInv'
    OBVIOUS
  <2>1. CASE UNCHANGED wheelVars
    BY <2>1 DEF wheelVars, WheelInv, WheelTypeOK, PlacedInTime, InWheel, Within
  <2>2. CASE \E to_ticks \in 0..IntMax : ScheduleLocked(to_ticks)
    BY <2>2, ScheduleInv
  <2>3. CASE Stop \/ HardClock \/ SoftClockRequeue \/ SoftClockFire
    BY <2>3, OffWheelInv, HardClockInv, RequeueInv
  <2> QED  BY <2>1, <2>2, <2>3 DEF WheelNext
<1> QED  BY <1>1, <1>2, PTL DEF WheelSpec

\* No callout is overtaken by the clock, whatever the number of buckets, and
\* however late callout_softclock() runs or often the callout is scheduled again.
THEOREM WheelNeverOvertaken == WheelSpec => []NeverOvertaken
<1>1. WheelInv => NeverOvertaken
  <2> SUFFICES ASSUME WheelInv, InWheel, placed # "wrong" PROVE Diff(c_time, cc_ticks) > 0
    BY DEF NeverOvertaken
  <2>1. PICK w \in 0..3, c \in Times : Within(w, c)
    BY DEF WheelInv, PlacedInTime
  <2>2. Diff(c, cc_ticks) > c % Span(w) /\ Diff(c, cc_ticks) <= Diff(c_time, cc_ticks)
    BY <2>1 DEF Within
  <2>3. Diff(c, cc_ticks) \in Int /\ Diff(c_time, cc_ticks) \in Int /\ c % Span(w) \in Nat
    BY DiffInt, Offset DEF WheelInv, WheelTypeOK
  <2> QED  BY <2>2, <2>3
<1> QED  BY <1>1, WheelInductive, PTL

\* A callout leaves a bucket when there is less than the bucket's span to go,
\* from wheel 0 exactly when it is due: the tick that makes all lower digits zero
\* begins a span, and a turn of the wheel is never mistaken for the next.
THEOREM WheelLeavesBucketInTime == WheelSpec => LeavesBucketInTime
<1> DEFINE Leaves == InWheel /\ placed = "right" /\ place' = Todo /\ cc_ticks' # cc_ticks
                       => Diff(c_time, cc_ticks') \in 0 .. Span(place[1]) - 1
<1>1. ASSUME WheelInv, [WheelNext]_wheelVars, InWheel, placed = "right", place' = Todo,
             cc_ticks' # cc_ticks
      PROVE  Diff(c_time, cc_ticks') \in 0 .. Span(place[1]) - 1
  <2>1. HardClock
    BY <1>1 DEF WheelNext, wheelVars, ScheduleLocked, Stop, SoftClockRequeue, SoftClockFire
  <2>2. place \in MovedBuckets(cc_ticks')
    BY <1>1, <2>1 DEF HardClock, InWheel
  <2>3. PICK w \in 0..3, c \in Times : Within(w, c)
    BY <1>1 DEF WheelInv, PlacedInTime
  <2>4. /\ c = c_time /\ Diff(c, cc_ticks) <= Span(w) * WheelSize
        /\ place = Bucket(w, MaskWheel(w, c))
    BY <1>1, <2>3 DEF Within
  <2>5. /\ cc_ticks' \in Times
        /\ Diff(c, cc_ticks') = Diff(c, cc_ticks) - 1
        /\ Diff(c, cc_ticks') >= c % Span(w)
    BY <1>1, <2>1, <2>3, TickWithin
  <2>6. /\ Diff(c, cc_ticks) \in Int /\ c % Span(w) \in Nat /\ Span(w) * WheelSize \in Int
    BY <1>1, DiffInt, Offset, Sizes DEF WheelInv, WheelTypeOK
  <2>7. Diff(c, cc_ticks') \in 0 .. Span(w) * WheelSize - 1
    BY <2>4, <2>5, <2>6
  <2>8. Diff(c, cc_ticks') \in 0 .. Span(w) - 1
    BY <2>2, <2>4, <2>5, <2>7, LessThanSpan
  <2>9. place[1] = w  BY <2>4 DEF Bucket
  <2> QED  BY <2>4, <2>8, <2>9
<1>2. WheelInv /\ [WheelNext]_wheelVars => [Leaves]_wheelVars
  BY <1>1
<1> QED  BY <1>2, WheelInductive, PTL DEF WheelSpec, LeavesBucketInTime
=============================================================================
