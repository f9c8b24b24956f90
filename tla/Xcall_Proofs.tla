---------------------------- MODULE Xcall_Proofs ----------------------------
(***************************************************************************)
(* Proofs about Xcall, for any callers, CPUs and length of run: the box is *)
(* accounted for, and the box with its counters and tickets implements     *)
(* CrossCall (its safety part; that every run takes place is for TLC).     *)
(***************************************************************************)
EXTENDS Xcall, FiniteSetTheorems, TLAPS

ServeLabels == {"none", "ipi", "soft", "top", "asleep", "run"}
CallLabels  == {"idle", "call", "call_asleep", "send", "ticket", "wait",
                "wait_asleep", "waited"}

\* Every variable has its type.
TypeOK ==
    /\ pri \in {"low", "high"}
    /\ xc_headp \in Nat /\ xc_donep \in Nat
    /\ xc_func \in Callers \cup {None}
    /\ xc_busy \subseteq Callers
    /\ pending \subseteq CPUs
    /\ serve \in [CPUs -> [pc : ServeLabels, func : Callers \cup {None}]]
    /\ call \in [Callers -> [pc : CallLabels, cpus : SUBSET CPUs, where : Nat]]
    /\ todo \in [Callers -> SUBSET CPUs]

\* Which CPUs can be where.  A CPU that has a run pending does not run the
\* function, so no run is asked for twice; and before the IPIs are sent no CPU
\* has begun.
CpuPlaces ==
    /\ HighPri => /\ pending = {}
                  /\ \A cpu \in CPUs : serve[cpu].pc \in {"none", "ipi", "soft", "run"}
    /\ ~HighPri => /\ \A t \in Callers : call[t].pc # "send"
                   /\ \A cpu \in CPUs : serve[cpu].pc \in {"top", "asleep", "run"}
    /\ \A cpu \in pending : serve[cpu].pc = "top"
    /\ \A t \in Callers : call[t].pc = "send" =>
         xc_func = t /\ \A cpu \in CPUs : serve[cpu].pc = "none"
    /\ xc_func = None => Outstanding = {}

Posted == {"send", "ticket", "wait", "wait_asleep"}

\* The ticket of the call in the box is the end of the box.
Tickets ==
    \A t \in Callers :
        /\ call[t].pc \in {"call", "call_asleep", "send"} => call[t].cpus # {}
        /\ call[t].pc \in Posted /\ xc_func = t => call[t].where = xc_headp
        /\ t \in xc_busy => call[t].pc \in {"call_asleep", "wait_asleep"}

Inv == TypeOK /\ CpuPlaces /\ Tickets /\ BoxAccounted
-----------------------------------------------------------------------------
\* A call is posted from CallPost to the end of xc_wait() or DropTicket.
LEMMA StatusOf ==
    ASSUME TypeOK, NEW t \in Callers
    PROVE  /\ CallStatus(t) \in {"none", "posted", "waited"}
           /\ CallStatus(t) = "none" <=> call[t].pc \in {"idle", "call", "call_asleep"}
           /\ CallStatus(t) = "posted" <=> call[t].pc \in Posted
           /\ CallStatus(t) = "waited" <=> call[t].pc = "waited"
  BY DEF TypeOK, CallStatus, CallLabels, Posted

\* The runs outstanding are a finite set of CPUs; when the counters meet there
\* are none, and nothing is left to do for any call.
LEMMA OutstandingFacts ==
    ASSUME Inv
    PROVE  /\ Outstanding \subseteq CPUs /\ IsFiniteSet(Outstanding)
           /\ Cardinality(Outstanding) \in Nat
           /\ xc_headp = xc_donep + Cardinality(Outstanding)
           /\ xc_headp = xc_donep <=> Outstanding = {}
           /\ xc_headp = xc_donep => \A t \in Callers : todo[t] = {}
<1>1. Outstanding \subseteq CPUs /\ IsFiniteSet(Outstanding)
  BY XcallAssumption, FS_Subset DEF Outstanding
<1>2. /\ Cardinality(Outstanding) \in Nat
      /\ Cardinality(Outstanding) = 0 <=> Outstanding = {}
  BY <1>1, FS_CardinalityType, FS_EmptySet
<1>3. xc_headp = xc_donep + Cardinality(Outstanding)
  BY <1>2 DEF Inv, TypeOK, BoxAccounted
<1>4. xc_headp = xc_donep <=> Outstanding = {}
  BY <1>2, <1>3 DEF Inv, TypeOK
<1> QED
  BY <1>1, <1>2, <1>3, <1>4 DEF Inv, BoxAccounted

\* xc_init() establishes the invariant.
LEMMA InitInv == Init => Inv
<1> SUFFICES ASSUME Init PROVE Inv
  OBVIOUS
<1>1. TypeOK
  BY DEF Init, TypeOK, ServeLabels, CallLabels, Serve
<1>2. Outstanding = {}
  BY DEF Init, Outstanding, Serve
<1>3. CpuPlaces
  BY <1>2, XcallAssumption DEF Init, CpuPlaces, Serve, HighPri
<1>4. Tickets
  BY XcallAssumption DEF Init, Tickets
<1>5. BoxAccounted
  BY <1>2, FS_EmptySet DEF Init, BoxAccounted, Serve
<1> QED
  BY <1>1, <1>3, <1>4, <1>5 DEF Inv

\* A step that changes only what the callers are doing keeps the box.
LEMMA SameBox ==
    ASSUME BoxAccounted, UNCHANGED <<xc_headp, xc_donep, xc_func, todo>>,
           Outstanding' = Outstanding,
           \A cpu \in CPUs : serve'[cpu].pc = "run" =>
              serve'[cpu].func = serve[cpu].func /\ serve[cpu].pc = "run"
    PROVE  BoxAccounted'
  BY DEF BoxAccounted

\* A call is for some CPU.
LEMMA TargetsFacts == \A cpus \in Targets : cpus \subseteq CPUs /\ cpus # {}
<1>1. Everyone \subseteq CPUs /\ Everyone # {}
  BY XcallAssumption DEF Everyone
<1> QED
  BY <1>1 DEF Targets

\* Steps of a caller that neither fill the box nor send IPIs
LEMMA CallerInv ==
    ASSUME Inv, NEW t \in Callers,
           \/ \E cpus \in Targets : StartCall(t, cpus)
           \/ CallSleep(t) \/ DropTicket(t) \/ WaitFast(t) \/ WaitSlow(t)
    PROVE  Inv'
<1>1. /\ UNCHANGED <<pri, xc_headp, xc_donep, xc_func, pending, serve, todo>>
      /\ call[t].pc # "send" /\ call'[t].pc # "send"
      /\ xc_busy' \subseteq xc_busy \cup {t}
      /\ t \in xc_busy' => call'[t].pc \in {"call_asleep", "wait_asleep"}
      /\ call' \in [Callers -> [pc : CallLabels, cpus : SUBSET CPUs, where : Nat]]
      /\ \A k \in Callers \ {t} : call'[k] = call[k]
      /\ call'[t].pc \in {"ticket", "wait", "wait_asleep"} =>
           call[t].pc \in {"ticket", "wait", "wait_asleep"} /\ call'[t].where = call[t].where
      /\ call'[t].pc \in {"call", "call_asleep"} => call'[t].cpus # {}
  <2> USE DEF Inv, TypeOK, CallLabels, Tickets
  <2>1. CASE \E cpus \in Targets : StartCall(t, cpus)
    <3>1. PICK cpus \in Targets : StartCall(t, cpus)
      BY <2>1
    <3> QED
      BY <3>1, TargetsFacts DEF StartCall
  <2>2. CASE CallSleep(t)
    BY <2>2 DEF CallSleep
  <2>3. CASE DropTicket(t)
    BY <2>3 DEF DropTicket
  <2>4. CASE WaitFast(t)
    BY <2>4 DEF WaitFast
  <2>5. CASE WaitSlow(t)
    BY <2>5 DEF WaitSlow
  <2> QED
    BY <2>1, <2>2, <2>3, <2>4, <2>5
<1>2. Outstanding' = Outstanding
  BY <1>1 DEF Outstanding
<1>3. TypeOK'
  BY <1>1 DEF Inv, TypeOK
<1>4. CpuPlaces'
  BY <1>1, <1>2 DEF Inv, CpuPlaces, HighPri
<1>5. Tickets'
  BY <1>1 DEF Inv, Tickets, Posted
<1>6. BoxAccounted'
  BY <1>1, <1>2, SameBox DEF Inv
<1> QED
  BY <1>3, <1>4, <1>5, <1>6 DEF Inv

\* A call is put into an empty box: all runs of it are outstanding.
LEMMA CallPostInv == ASSUME Inv, NEW t \in Callers, CallPost(t) PROVE Inv'
<1> DEFINE cpus == call[t].cpus
<1> USE DEF Inv
<1>1. Outstanding = {} /\ xc_headp = xc_donep /\ \A k \in Callers : todo[k] = {}
  BY OutstandingFacts DEF CallPost, Busy
<1>2. /\ call[t].pc = "call" /\ cpus \subseteq CPUs /\ cpus # {}
      /\ IsFiniteSet(cpus) /\ Cardinality(cpus) \in Nat
  BY XcallAssumption, FS_Subset, FS_CardinalityType DEF CallPost, TypeOK, Tickets
<1>3. /\ xc_func' = t /\ xc_headp' = xc_headp + Cardinality(cpus)
      /\ todo' = [todo EXCEPT ![t] = cpus]
      /\ UNCHANGED <<pri, xc_donep, xc_busy>>
      /\ call' = [call EXCEPT ![t].pc = IF HighPri THEN "send" ELSE "ticket",
                              ![t].where = xc_headp']
  BY DEF CallPost
<1>4. \A cpu \in CPUs : /\ cpu \notin pending
                        /\ serve[cpu].pc \in {"none", "top", "asleep"}
                        /\ HighPri => serve[cpu].pc = "none"
                        /\ ~HighPri => serve[cpu].pc \in {"top", "asleep"}
  BY <1>1 DEF Outstanding, CpuPlaces
<1>5. \A k \in Callers : call[k].pc # "send"
  BY <1>1 DEF Outstanding, TypeOK, Tickets
<1>6. /\ call' \in [Callers -> [pc : CallLabels, cpus : SUBSET CPUs, where : Nat]]
      /\ call'[t].pc = (IF HighPri THEN "send" ELSE "ticket")
      /\ call'[t].cpus = cpus /\ call'[t].where = xc_headp'
      /\ \A k \in Callers \ {t} : call'[k] = call[k]
  <2>1. xc_headp' \in Nat
    BY <1>2, <1>3 DEF TypeOK
  <2>2. PICK label \in CallLabels : label = (IF HighPri THEN "send" ELSE "ticket")
    BY DEF CallLabels
  <2>3. call' = [call EXCEPT ![t].pc = label, ![t].where = xc_headp']
    BY <1>3, <2>2
  <2> QED
    BY <2>1, <2>2, <2>3 DEF TypeOK
<1>7. /\ HighPri => pending' = pending /\ serve' = serve
      /\ ~HighPri => /\ pending' = cpus
                     /\ serve' = [cpu \in CPUs |->
                          IF cpu \in cpus /\ serve[cpu].pc = "asleep"
                          THEN Serve("top", None) ELSE serve[cpu]]
  BY <1>4 DEF CallPost, TypeOK
<1>8. TypeOK'
  BY <1>2, <1>3, <1>6, <1>7 DEF TypeOK, Serve, ServeLabels
<1>9. Outstanding' = cpus
  <2>1. CASE HighPri
    BY <1>2, <1>4, <1>5, <1>6, <1>7, <2>1 DEF Outstanding
  <2>2. CASE ~HighPri
    BY <1>2, <1>4, <1>5, <1>6, <1>7, <2>2, SMTT(30) DEF Outstanding, Serve
  <2> QED
    BY <2>1, <2>2
<1>10. CpuPlaces'
  <2>1. CASE HighPri
    BY <1>2, <1>3, <1>4, <1>5, <1>6, <1>7, <2>1, XcallAssumption DEF CpuPlaces, HighPri
  <2>2. CASE ~HighPri
    BY <1>2, <1>3, <1>4, <1>5, <1>6, <1>7, <2>2, XcallAssumption DEF CpuPlaces, HighPri, Serve
  <2> QED
    BY <2>1, <2>2
<1>11. Tickets'
  BY <1>2, <1>3, <1>6 DEF Tickets, Posted, TypeOK
<1>12. BoxAccounted'
  <2>1. \A cpu \in CPUs : serve'[cpu].pc # "run"
    BY <1>4, <1>7 DEF Serve
  <2>2. \A k \in Callers : todo'[k] = IF k = xc_func' THEN Outstanding' ELSE {}
    BY <1>1, <1>3, <1>9 DEF TypeOK
  <2> QED
    BY <1>1, <1>2, <1>3, <1>9, <2>1, <2>2 DEF BoxAccounted, TypeOK
<1> QED
  BY <1>8, <1>10, <1>11, <1>12

\* The IPIs are sent: the runs move from the caller to the CPUs.
LEMMA CallSendInv == ASSUME Inv, NEW t \in Callers, CallSend(t) PROVE Inv'
<1> USE DEF Inv
<1>1. /\ call[t].pc = "send" /\ HighPri /\ xc_func = t
      /\ \A cpu \in CPUs : serve[cpu].pc = "none"
      /\ \A k \in Callers \ {t} : call[k].pc # "send"
  BY DEF CallSend, CpuPlaces
<1>2. /\ serve' = [cpu \in CPUs |-> IF cpu \in call[t].cpus THEN Serve("ipi", None)
                                                            ELSE serve[cpu]]
      /\ call' = [call EXCEPT ![t].pc = "ticket"]
      /\ UNCHANGED <<pri, xc_headp, xc_donep, xc_func, xc_busy, pending, todo>>
  BY DEF CallSend
<1>3. TypeOK'
  BY <1>2 DEF TypeOK, Serve, ServeLabels, CallLabels
<1>4. Outstanding' = Outstanding
  BY <1>1, <1>2 DEF TypeOK, Outstanding, Serve
<1>5. CpuPlaces'
  BY <1>1, <1>2, <1>4 DEF TypeOK, CpuPlaces, HighPri, Serve
<1>6. Tickets'
  BY <1>1, <1>2 DEF TypeOK, Tickets, Posted
<1>7. BoxAccounted'
  <2>1. \A cpu \in CPUs : serve'[cpu].pc # "run"
    BY <1>1, <1>2 DEF Serve
  <2> QED
    BY <1>2, <1>4, <2>1, SameBox
<1> QED
  BY <1>3, <1>5, <1>6, <1>7

\* cv_broadcast() sends the sleepers back to their loops and changes no ticket.
LEMMA BroadcastKeeps ==
    ASSUME Inv, NEW cond, BroadcastIf(cond)
    PROVE  /\ xc_busy' \in {xc_busy, {}}
           /\ call' \in [Callers -> [pc : CallLabels, cpus : SUBSET CPUs, where : Nat]]
           /\ \A t \in Callers :
                /\ call'[t].cpus = call[t].cpus /\ call'[t].where = call[t].where
                /\ \/ call'[t].pc = call[t].pc
                   \/ xc_busy' = {} /\ call[t].pc = "call_asleep" /\ call'[t].pc = "call"
                   \/ xc_busy' = {} /\ call[t].pc = "wait_asleep" /\ call'[t].pc = "wait"
  BY DEF BroadcastIf, Inv, TypeOK, Tickets, CallLabels

\* What cv_broadcast() leaves alone: no IPIs are sent or taken back by it, so the
\* runs outstanding are decided by the CPUs, and the tickets stay good.
LEMMA BroadcastOutstanding ==
    ASSUME Inv, NEW cond, BroadcastIf(cond), UNCHANGED <<xc_headp, xc_func>>
    PROVE  /\ \A t \in Callers : call'[t].pc = "send" <=> call[t].pc = "send"
           /\ Tickets'
<1>1. \A t \in Callers : call'[t].pc = "send" <=> call[t].pc = "send"
  BY BroadcastKeeps
<1>2. Tickets'
  BY BroadcastKeeps DEF Inv, Tickets, Posted
<1> QED
  BY <1>1, <1>2

\* A CPU takes up a run or passes it on; it stays outstanding.
LEMMA CpuTakeInv ==
    ASSUME Inv, NEW cpu \in CPUs, ThreadTake(cpu) \/ IpiHandler(cpu) \/ IntrRun(cpu)
    PROVE  Inv'
<1> USE DEF Inv
<1>1. /\ UNCHANGED <<pri, xc_headp, xc_donep, xc_func, xc_busy, call, todo>>
      /\ pending' = pending \ {cpu}
      /\ \A t \in Callers : call[t].pc # "send"
      /\ cpu \in pending \/ serve[cpu].pc \in {"ipi", "soft"}
      /\ \/ ~HighPri /\ serve' = [serve EXCEPT ![cpu] = Serve("run", xc_func)]
         \/ HighPri /\ serve' = [serve EXCEPT ![cpu] = Serve("run", xc_func)]
         \/ HighPri /\ serve' = [serve EXCEPT ![cpu] = Serve("soft", None)]
  BY DEF ThreadTake, IpiHandler, IntrRun, CpuPlaces, TypeOK
<1>2. /\ serve' \in [CPUs -> [pc : ServeLabels, func : Callers \cup {None}]]
      /\ \A c \in CPUs \ {cpu} : serve'[c] = serve[c]
      /\ serve'[cpu].pc \in {"soft", "run"}
      /\ serve'[cpu].pc = "soft" => HighPri
      /\ serve'[cpu].pc = "run" => serve'[cpu].func = xc_func
  BY <1>1 DEF TypeOK, Serve, ServeLabels
<1>3. Outstanding' = Outstanding
  BY <1>1, <1>2 DEF Outstanding
<1>4. TypeOK'
  <2>1. /\ UNCHANGED <<pri, xc_headp, xc_donep, xc_func, xc_busy, call, todo>>
        /\ pending' \subseteq CPUs
    BY <1>1 DEF TypeOK
  <2> QED
    BY <1>2, <2>1 DEF TypeOK
<1>5. CpuPlaces'
  <2>1. /\ UNCHANGED <<pri, xc_func, call>> /\ \A t \in Callers : call[t].pc # "send"
        /\ pending' = pending \ {cpu} /\ pending \subseteq CPUs
        /\ HighPri' <=> HighPri
        /\ serve'[cpu].pc = "soft" => HighPri
    BY <1>1, <1>2 DEF HighPri, TypeOK
  <2>2. CASE HighPri
    BY <1>2, <1>3, <2>1, <2>2 DEF CpuPlaces
  <2>3. CASE ~HighPri
    BY <1>2, <1>3, <2>1, <2>3 DEF CpuPlaces
  <2> QED
    BY <2>2, <2>3
<1>6. Tickets'
  BY <1>1 DEF Tickets
<1>7. BoxAccounted'
  BY <1>1, <1>2, <1>3 DEF BoxAccounted
<1> QED
  BY <1>4, <1>5, <1>6, <1>7

\* A thread with nothing to do wakes the sleepers and sleeps itself.
LEMMA ThreadSleepInv == ASSUME Inv, NEW cpu \in CPUs, ThreadSleep(cpu) PROVE Inv'
<1> USE DEF Inv
<1>1. /\ UNCHANGED <<pri, xc_headp, xc_donep, xc_func, pending, todo>>
      /\ serve' = [serve EXCEPT ![cpu] = Serve("asleep", None)]
      /\ serve[cpu].pc = "top" /\ cpu \notin pending
      /\ BroadcastIf(AllDone(xc_donep))
  BY DEF ThreadSleep
<1>2. /\ serve' \in [CPUs -> [pc : ServeLabels, func : Callers \cup {None}]]
      /\ \A c \in CPUs \ {cpu} : serve'[c] = serve[c]
      /\ serve'[cpu].pc = "asleep"
  BY <1>1 DEF TypeOK, Serve, ServeLabels
<1>3. /\ xc_busy' \subseteq Callers
      /\ call' \in [Callers -> [pc : CallLabels, cpus : SUBSET CPUs, where : Nat]]
      /\ \A t \in Callers : /\ call'[t].cpus = call[t].cpus
                            /\ call'[t].pc = "send" <=> call[t].pc = "send"
      /\ Tickets'
  BY <1>1, BroadcastKeeps, BroadcastOutstanding DEF TypeOK
<1>4. ~HighPri
  BY <1>1 DEF CpuPlaces
<1>5. Outstanding' = Outstanding
  BY <1>1, <1>2, <1>3 DEF Outstanding
<1>6. TypeOK'
  BY <1>1, <1>2, <1>3 DEF TypeOK
<1>7. CpuPlaces'
  BY <1>1, <1>2, <1>3, <1>4, <1>5 DEF CpuPlaces, HighPri
<1>8. BoxAccounted'
  BY <1>1, <1>2, <1>5, SameBox
<1> QED
  BY <1>3, <1>6, <1>7, <1>8

\* What a CPU does when the function has returned: one run of the call in the box
\* is no longer outstanding.
LEMMA CpuDone ==
    ASSUME Inv, NEW cpu \in CPUs, ThreadDone(cpu) \/ IntrDone(cpu)
    PROVE  /\ serve[cpu].pc = "run" /\ cpu \in Outstanding /\ xc_func \in Callers
           /\ xc_donep' = xc_donep + 1
           /\ todo' = [todo EXCEPT ![xc_func] = @ \ {cpu}]
           /\ UNCHANGED <<pri, xc_headp, xc_func, pending>>
           /\ \E cond : BroadcastIf(cond)
           /\ serve' = [serve EXCEPT ![cpu] =
                          Serve(IF HighPri THEN "none" ELSE "asleep", None)]
<1> USE DEF Inv
<1>1. serve[cpu].pc = "run" /\ cpu \in Outstanding /\ cpu \notin pending
  BY DEF ThreadDone, IntrDone, Outstanding, CpuPlaces
<1>2. xc_func \in Callers /\ serve[cpu].func = xc_func
  BY <1>1 DEF CpuPlaces, TypeOK, BoxAccounted
<1>3. CASE ThreadDone(cpu)
  BY <1>1, <1>2, <1>3 DEF ThreadDone
<1>4. CASE IntrDone(cpu)
  BY <1>1, <1>2, <1>4 DEF IntrDone
<1> QED
  BY <1>3, <1>4

\* A CPU has run the function: one run less to do, and the box is free after the last.
LEMMA CpuDoneInv ==
    ASSUME Inv, NEW cpu \in CPUs, ThreadDone(cpu) \/ IntrDone(cpu)
    PROVE  Inv'
<1> USE DEF Inv
<1>1. /\ serve[cpu].pc = "run" /\ cpu \in Outstanding /\ xc_func \in Callers
      /\ xc_donep' = xc_donep + 1
      /\ todo' = [todo EXCEPT ![xc_func] = @ \ {cpu}]
      /\ UNCHANGED <<pri, xc_headp, xc_func, pending>>
      /\ serve' = [serve EXCEPT ![cpu] =
                     Serve(IF HighPri THEN "none" ELSE "asleep", None)]
  BY CpuDone
<1>2. PICK cond : BroadcastIf(cond)
  BY CpuDone
<1>3. /\ serve' \in [CPUs -> [pc : ServeLabels, func : Callers \cup {None}]]
      /\ \A c \in CPUs \ {cpu} : serve'[c] = serve[c]
      /\ serve'[cpu].pc = IF HighPri THEN "none" ELSE "asleep"
  <2>1. PICK label \in ServeLabels : label = (IF HighPri THEN "none" ELSE "asleep")
    BY DEF ServeLabels
  <2>2. serve' = [serve EXCEPT ![cpu] = Serve(label, None)]
    BY <1>1, <2>1
  <2> QED
    BY <2>1, <2>2 DEF TypeOK, Serve
<1>4. /\ xc_busy' \subseteq Callers
      /\ call' \in [Callers -> [pc : CallLabels, cpus : SUBSET CPUs, where : Nat]]
      /\ \A t \in Callers : /\ call'[t].cpus = call[t].cpus
                            /\ call'[t].pc = "send" <=> call[t].pc = "send"
      /\ Tickets'
  BY <1>1, <1>2, BroadcastKeeps, BroadcastOutstanding DEF TypeOK
<1>5. \A t \in Callers : call[t].pc # "send"
  BY <1>1 DEF CpuPlaces
<1>6. cpu \notin pending
  BY <1>1 DEF CpuPlaces
<1>7. Outstanding' = Outstanding \ {cpu}
  BY <1>1, <1>3, <1>4, <1>5, <1>6 DEF Outstanding
<1>8. TypeOK'
  <2>1. todo' \in [Callers -> SUBSET CPUs] /\ xc_donep' \in Nat
    BY <1>1 DEF TypeOK
  <2>2. UNCHANGED <<pri, xc_headp, xc_func, pending>>
    BY <1>1
  <2> QED
    BY <1>3, <1>4, <2>1, <2>2 DEF TypeOK
<1>9. CpuPlaces'
  <2>1. /\ UNCHANGED <<pri, pending, xc_func>> /\ xc_func # None
        /\ \A t \in Callers : call'[t].pc # "send"
        /\ HighPri' <=> HighPri
        /\ pending \subseteq CPUs
    BY <1>1, <1>4, <1>5, XcallAssumption DEF HighPri, TypeOK
  <2>2. CASE HighPri
    BY <1>3, <1>6, <2>1, <2>2 DEF CpuPlaces
  <2>3. CASE ~HighPri
    BY <1>3, <1>6, <2>1, <2>3 DEF CpuPlaces
  <2> QED
    BY <2>2, <2>3
<1>10. BoxAccounted'
  <2>1. Cardinality(Outstanding') = Cardinality(Outstanding) - 1
    BY <1>1, <1>7, OutstandingFacts, FS_RemoveElement
  <2>2. xc_headp' - xc_donep' = Cardinality(Outstanding')
    BY <1>1, <2>1, OutstandingFacts DEF TypeOK
  <2>3. \A t \in Callers : todo'[t] = IF t = xc_func' THEN Outstanding' ELSE {}
    BY <1>1, <1>7 DEF TypeOK, BoxAccounted
  <2>4. \A c \in CPUs : serve'[c].pc = "run" => serve'[c].func = xc_func'
    BY <1>1, <1>3 DEF BoxAccounted
  <2> QED
    BY <2>2, <2>3, <2>4 DEF BoxAccounted
<1> QED
  BY <1>4, <1>8, <1>9, <1>10

\* One step of any caller or CPU keeps the invariant.
LEMMA NextInv == ASSUME Inv, [Next]_vars PROVE Inv'
<1>1. ASSUME NEW t \in Callers,
             \/ \E cpus \in Targets : StartCall(t, cpus)
             \/ DropTicket(t) \/ WaitFast(t) \/ CallerStep(t)
      PROVE  Inv'
  BY <1>1, CallerInv, CallPostInv, CallSendInv DEF CallerStep
<1>2. ASSUME NEW cpu \in CPUs, CpuStep(cpu) PROVE Inv'
  BY <1>2, CpuTakeInv, ThreadSleepInv, CpuDoneInv DEF CpuStep
<1>3. CASE UNCHANGED vars
  <2>1. Outstanding' = Outstanding
    BY <1>3 DEF vars, Outstanding
  <2> QED
    BY <1>3, <2>1 DEF vars, Inv, TypeOK, CpuPlaces, HighPri, Tickets, BoxAccounted
<1> QED
  BY <1>1, <1>2, <1>3 DEF Next

\* The inductive invariant holds in every state: callers post into an empty box
\* only, and a CPU never has two runs to do.
THEOREM XcallInv == Spec => []Inv
<1> QED
  BY InitInv, NextInv, PTL DEF Spec

\* No CPU misses a cross call, runs it twice or takes another caller's function
\* for it, and xc_donep never passes xc_headp: xc__highpri_intr() and xc_thread()
\* are right to read the box without looking again, for any number of CPUs.
THEOREM XcallBoxAccounted == Spec => []BoxAccounted
<1>1. Inv => BoxAccounted
  BY DEF Inv
<1> QED
  BY <1>1, XcallInv, PTL

-----------------------------------------------------------------------------
\* The state of every call, as CrossCall sees it
Status == [t \in Callers |-> CallStatus(t)]

\* An invariant step of a caller that leaves the calls' runs alone moves at most
\* the status of its own call.
LEMMA StatusMoves ==
    ASSUME Inv, Inv', NEW t \in Callers, \A k \in Callers \ {t} : call'[k].pc = call[k].pc
    PROVE  /\ Status' = [Status EXCEPT ![t] = CallStatus(t)']
           /\ CallStatus(t)' = CallStatus(t) => Status' = Status
<1>1. \A k \in Callers \ {t} : CallStatus(k)' = CallStatus(k)
  BY DEF CallStatus
<1> QED
  BY <1>1 DEF Status

\* xc_wait() returns only when the call has run wherever it had to.
LEMMA DoneIsDone ==
    ASSUME Inv, NEW t \in Callers, call[t].pc \in Posted, Done(t)
    PROVE  todo[t] = {}
<1>1. CASE xc_func = t
  <2>1. call[t].where = xc_headp
    BY <1>1 DEF Inv, Tickets
  <2>2. xc_headp = xc_donep
    BY <2>1, OutstandingFacts DEF Done, Inv, TypeOK
  <2> QED
    BY <2>2, OutstandingFacts
<1>2. CASE xc_func # t
  BY <1>2 DEF Inv, BoxAccounted
<1> QED
  BY <1>1, <1>2

\* A step of a caller posts its call, returns from xc_wait(), forgets the call, or
\* is none of CrossCall's business.
LEMMA CallerRefines ==
    ASSUME Inv, Inv', NEW t \in Callers,
           \/ \E cpus \in Targets : StartCall(t, cpus)
           \/ DropTicket(t) \/ WaitFast(t) \/ CallerStep(t)
    PROVE  \/ Abstract!Next
           \/ Status' = Status /\ todo' = todo
<1>1. /\ \A k \in Callers \ {t} : call'[k].pc = call[k].pc
      /\ ~CallPost(t) => todo' = todo
  BY DEF Inv, TypeOK, StartCall, DropTicket, WaitFast, CallerStep, CallSleep, CallPost,
         CallSend, WaitSlow
<1>2. /\ Status' = [Status EXCEPT ![t] = CallStatus(t)']
      /\ CallStatus(t)' = CallStatus(t) => Status' = Status
      /\ Status[t] = CallStatus(t)
  BY <1>1, StatusMoves DEF Status
<1>3. call[t].pc \in CallLabels /\ call'[t].pc \in CallLabels
  BY DEF Inv, TypeOK
<1>4. CASE CallPost(t)
  <2>1. /\ call[t].pc = "call" /\ call[t].cpus \in (SUBSET CPUs) \ {{}}
        /\ todo[t] = {}
        /\ todo' = [todo EXCEPT ![t] = call[t].cpus]
        /\ call'[t].pc \in {"send", "ticket"}
    BY <1>4, OutstandingFacts DEF Inv, TypeOK, Tickets, CallPost, Busy
  <2>2. CallStatus(t) = "none" /\ CallStatus(t)' = "posted"
    BY <2>1 DEF CallStatus
  <2>3. Abstract!Post(t, call[t].cpus)
    BY <1>2, <2>1, <2>2 DEF Abstract!Post, Status
  <2> QED
    BY <2>1, <2>3 DEF Abstract!Next
<1>5. CASE DropTicket(t)
  <2>1. call[t].pc \in {"ticket", "waited"} /\ call'[t].pc = "idle" /\ todo' = todo
    BY <1>5 DEF DropTicket, Inv, TypeOK
  <2>2. CallStatus(t) # "none" /\ CallStatus(t)' = "none"
    BY <2>1 DEF CallStatus
  <2>3. Abstract!Forget(t)
    BY <1>2, <2>1, <2>2 DEF Abstract!Forget, Status
  <2> QED
    BY <2>3 DEF Abstract!Next
<1>6. CASE (WaitFast(t) \/ WaitSlow(t)) /\ Done(t)
  <2>1. /\ call[t].pc \in {"ticket", "wait"} /\ call'[t].pc = "waited"
        /\ todo' = todo
    BY <1>6 DEF WaitFast, WaitSlow, Inv, TypeOK
  <2>2. CallStatus(t) = "posted" /\ CallStatus(t)' = "waited"
    BY <2>1 DEF CallStatus
  <2>3. todo[t] = {}
    BY <1>6, <2>1, DoneIsDone DEF Posted
  <2>4. Abstract!Return(t)
    BY <1>2, <2>1, <2>2, <2>3 DEF Abstract!Return, Status
  <2> QED
    BY <2>4 DEF Abstract!Next
<1>7. CASE \/ \E cpus \in Targets : StartCall(t, cpus)
           \/ CallSleep(t) \/ CallSend(t)
           \/ (WaitFast(t) \/ WaitSlow(t)) /\ ~Done(t)
  <2>1. /\ todo' = todo
        /\ \/ call[t].pc \in {"idle", "call"} /\ call'[t].pc \in {"call", "call_asleep"}
           \/ /\ call[t].pc \in {"send", "ticket", "wait"}
              /\ call'[t].pc \in {"ticket", "wait", "wait_asleep"}
    BY <1>7 DEF StartCall, CallSleep, CallSend, WaitFast, WaitSlow, Inv, TypeOK
  <2>2. CallStatus(t)' = CallStatus(t)
    BY <2>1 DEF CallStatus
  <2> QED
    BY <1>2, <2>1, <2>2
<1> QED
  BY <1>4, <1>5, <1>6, <1>7 DEF CallerStep

\* A step of a CPU is a run of somebody's call, or is none of CrossCall's business.
LEMMA CpuRefines ==
    ASSUME Inv, Inv', NEW cpu \in CPUs, CpuStep(cpu)
    PROVE  \/ Abstract!Next
           \/ Status' = Status /\ todo' = todo
<1>1. UNCHANGED call \/ \E cond : BroadcastIf(cond)
  BY CpuDone DEF CpuStep, ThreadTake, ThreadSleep, IpiHandler, IntrRun
<1>2. \A t \in Callers : \/ call'[t].pc = call[t].pc
                         \/ call[t].pc = "call_asleep" /\ call'[t].pc = "call"
                         \/ call[t].pc = "wait_asleep" /\ call'[t].pc = "wait"
  BY <1>1, BroadcastKeeps
<1>3. Status' = Status
  <2>1. \A t \in Callers : CallStatus(t)' = CallStatus(t)
    BY <1>2 DEF CallStatus
  <2> QED
    BY <2>1 DEF Status
<1>4. CASE ThreadDone(cpu) \/ IntrDone(cpu)
  <2>1. /\ xc_func \in Callers /\ cpu \in Outstanding
        /\ todo' = [todo EXCEPT ![xc_func] = @ \ {cpu}]
    BY <1>4, CpuDone
  <2>2. cpu \in todo[xc_func]
    BY <2>1 DEF Inv, BoxAccounted
  <2>3. Abstract!Run(xc_func, cpu)
    BY <1>3, <2>1, <2>2 DEF Abstract!Run, Status
  <2> QED
    BY <2>1, <2>3 DEF Abstract!Next
<1>5. CASE ThreadTake(cpu) \/ ThreadSleep(cpu) \/ IpiHandler(cpu) \/ IntrRun(cpu)
  BY <1>3, <1>5 DEF ThreadTake, ThreadSleep, IpiHandler, IntrRun
<1> QED
  BY <1>4, <1>5 DEF CpuStep

\* The box implements cross calls, as far as safety goes: every call is run once on
\* each CPU it is for, and xc_wait() does not return before the last of these runs,
\* whichever call's wakeup or whichever glance at the counters ends it, and however
\* often the box has been used again since.
THEOREM XcallImplements == Spec => Abstract!Init /\ [][Abstract!Next]_(Abstract!vars)
<1>1. Init => Abstract!Init
  <2> SUFFICES ASSUME Init PROVE Abstract!Init
    OBVIOUS
  <2>1. \A t \in Callers : CallStatus(t) = "none"
    BY DEF Init, CallStatus
  <2> QED
    BY <2>1 DEF Init, Abstract!Init
<1>2. ASSUME Inv, Inv', [Next]_vars PROVE [Abstract!Next]_(Abstract!vars)
  <2>1. Abstract!Next \/ (Status' = Status /\ todo' = todo)
    <3>1. CASE UNCHANGED vars
      BY <3>1 DEF vars, Status, CallStatus
    <3> QED
      BY <1>2, <3>1, CallerRefines, CpuRefines DEF Next
  <2> QED
    BY <2>1 DEF Status, Abstract!vars
<1> QED
  BY <1>1, <1>2, XcallInv, PTL DEF Spec
=============================================================================
