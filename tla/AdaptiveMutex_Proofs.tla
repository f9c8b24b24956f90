------------------------ MODULE AdaptiveMutex_Proofs ------------------------
(***************************************************************************)
(* Proofs about AdaptiveMutex for any number of threads and CPUs.          *)
(*                                                                         *)
(* NoLostWakeup is not inductive: the step that puts a thread to sleep     *)
(* needs what the thread learnt, in this order, under the chain lock (the  *)
(* bit was set, the owner was off its CPU, the bit was still set), which   *)
(* is WaiterKnows; and WaiterKnows needs that an owner which is off its    *)
(* CPU is not between the test and the store of its fast exit (Scheduling).*)
(***************************************************************************)
EXTENDS AdaptiveMutex, TLAPS

\* No action leaves the types.
LEMMA TypeOKStep == Inv /\ [Next]_vars => TypeOK'
<1> SUFFICES ASSUME Inv, [Next]_vars PROVE TypeOK'
  OBVIOUS
<1> USE MutexAssumption DEF Inv, TypeOK, Words, Unowned, At, Goto, Labels
<1>1. ASSUME NEW l \in Lwps, Enter(l) PROVE TypeOK'
  BY <1>1 DEF Enter, Reload
<1>2. ASSUME NEW l \in Lwps, TryEnter(l) PROVE TypeOK'
  BY <1>2 DEF TryEnter, MUTEX_ACQUIRE
<1>3. ASSUME NEW l \in Lwps, Acquire(l) PROVE TypeOK'
  <2>1. CASE mtx_owner = Unowned
    <3>1. /\ mtx_owner' = [lwp |-> l, waiters |-> FALSE]
          /\ \E x \in Labels : Goto(l, x)
          /\ UNCHANGED <<tc_mutex, sleepers, owner, cpu>>
      BY <1>3, <2>1 DEF Acquire, MUTEX_ACQUIRE, Reload
    <3>2. mtx_owner' \in Words
      BY <3>1
    <3>3. QED
      BY <3>1, <3>2
  <2>2. CASE ~(mtx_owner = Unowned)
    BY <1>3, <2>2 DEF Acquire, MUTEX_ACQUIRE, Reload
  <2>3. QED
    BY <2>1, <2>2
<1>4. ASSUME NEW l \in Lwps, CheckOwner(l) PROVE TypeOK'
  BY <1>4 DEF CheckOwner, mutex_oncpu
<1>5. ASSUME NEW l \in Lwps, Spin(l) PROVE TypeOK'
  BY <1>5 DEF Spin, Reload
<1>6. ASSUME NEW l \in Lwps, Lookup(l) PROVE TypeOK'
  BY <1>6 DEF Lookup
<1>7. ASSUME NEW l \in Lwps, SetWaiters(l) PROVE TypeOK'
  <2>1. CASE mtx_owner = owner[l]
    <3>1. /\ mtx_owner' = [mtx_owner EXCEPT !.waiters = TRUE]
          /\ \E x \in Labels : Goto(l, x)
          /\ UNCHANGED <<tc_mutex, sleepers, owner, cpu>>
      BY <1>7, <2>1 DEF SetWaiters, Reload
    <3>2. mtx_owner' \in Words
      BY <3>1
    <3>3. QED
      BY <3>1, <3>2
  <2>2. CASE ~(mtx_owner = owner[l])
    BY <1>7, <2>2 DEF SetWaiters, Reload
  <2>3. QED
    BY <2>1, <2>2
<1>8. ASSUME NEW l \in Lwps, CheckOncpu(l) PROVE TypeOK'
  BY <1>8 DEF CheckOncpu, mutex_oncpu, Reload
<1>9. ASSUME NEW l \in Lwps, CheckWaiters(l) PROVE TypeOK'
  BY <1>9 DEF CheckWaiters, HasWaiters, Reload
<1>10. ASSUME NEW l \in Lwps, Block(l) PROVE TypeOK'
  BY <1>10 DEF Block
<1>11. ASSUME NEW l \in Lwps, Resume(l) PROVE TypeOK'
  BY <1>11 DEF Resume, Reload
<1>12. ASSUME NEW l \in Lwps, ExitTest(l) PROVE TypeOK'
  BY <1>12 DEF ExitTest
<1>13. ASSUME NEW l \in Lwps, ExitStore(l) PROVE TypeOK'
  BY <1>13 DEF ExitStore
<1>14. ASSUME NEW l \in Lwps, ExitLookup(l) PROVE TypeOK'
  BY <1>14 DEF ExitLookup
<1>15. ASSUME NEW l \in Lwps, ExitRelease(l) PROVE TypeOK'
  BY <1>15 DEF ExitRelease
<1>16. ASSUME NEW l \in Lwps, ExitWakeup(l) PROVE TypeOK'
  BY <1>16 DEF ExitWakeup, WakeSet
<1>17. ASSUME NEW l \in Lwps, Dispatch(l) PROVE TypeOK'
  BY <1>17 DEF Dispatch
<1>18. ASSUME NEW l \in Lwps, Preempt(l) PROVE TypeOK'
  BY <1>18 DEF Preempt, Preemptible
<1>19. ASSUME NEW l \in Lwps, BigLockWanted(l) PROVE TypeOK'
  BY <1>19 DEF BigLockWanted
<1>20. ASSUME NEW l \in Lwps, BigLockTaken(l) PROVE TypeOK'
  BY <1>20 DEF BigLockTaken
<1>21. CASE UNCHANGED vars
  BY <1>21 DEF vars
<1>22. QED
    BY <1>1, <1>2, <1>3, <1>4, <1>5, <1>6, <1>7, <1>8, <1>9, <1>10, <1>11,
     <1>12, <1>13, <1>14, <1>15, <1>16, <1>17, <1>18, <1>19, <1>20, <1>21
  DEF Next, MutexStep

\* The lock word names the holder after every action.
LEMMA MutualExclusionStep == Inv /\ [Next]_vars => MutualExclusion'
<1> SUFFICES ASSUME Inv, [Next]_vars PROVE MutualExclusion'
  OBVIOUS
<1> USE MutexAssumption DEF Inv, TypeOK, Words, Unowned, At, Goto,
        MutualExclusion, Holding, Scheduling
<1>1. ASSUME NEW l \in Lwps, Enter(l) PROVE MutualExclusion'
  BY <1>1 DEF Enter, Reload
<1>2. ASSUME NEW l \in Lwps, TryEnter(l) PROVE MutualExclusion'
  BY <1>2 DEF TryEnter, MUTEX_ACQUIRE
<1>3. ASSUME NEW l \in Lwps, Acquire(l) PROVE MutualExclusion'
  BY <1>3 DEF Acquire, MUTEX_ACQUIRE, Reload
<1>4. ASSUME NEW l \in Lwps, CheckOwner(l) PROVE MutualExclusion'
  BY <1>4 DEF CheckOwner, mutex_oncpu
<1>5. ASSUME NEW l \in Lwps, Spin(l) PROVE MutualExclusion'
  BY <1>5 DEF Spin, Reload
<1>6. ASSUME NEW l \in Lwps, Lookup(l) PROVE MutualExclusion'
  BY <1>6 DEF Lookup
<1>7. ASSUME NEW l \in Lwps, SetWaiters(l) PROVE MutualExclusion'
  BY <1>7 DEF SetWaiters, Reload
<1>8. ASSUME NEW l \in Lwps, CheckOncpu(l) PROVE MutualExclusion'
  BY <1>8 DEF CheckOncpu, mutex_oncpu, Reload
<1>9. ASSUME NEW l \in Lwps, CheckWaiters(l) PROVE MutualExclusion'
  BY <1>9 DEF CheckWaiters, HasWaiters, Reload
<1>10. ASSUME NEW l \in Lwps, Block(l) PROVE MutualExclusion'
  BY <1>10 DEF Block
<1>11. ASSUME NEW l \in Lwps, Resume(l) PROVE MutualExclusion'
  BY <1>11 DEF Resume, Reload
<1>12. ASSUME NEW l \in Lwps, ExitTest(l) PROVE MutualExclusion'
  BY <1>12 DEF ExitTest
<1>13. ASSUME NEW l \in Lwps, ExitStore(l) PROVE MutualExclusion'
  BY <1>13 DEF ExitStore
<1>14. ASSUME NEW l \in Lwps, ExitLookup(l) PROVE MutualExclusion'
  BY <1>14 DEF ExitLookup
<1>15. ASSUME NEW l \in Lwps, ExitRelease(l) PROVE MutualExclusion'
  BY <1>15 DEF ExitRelease
<1>16. ASSUME NEW l \in Lwps, ExitWakeup(l) PROVE MutualExclusion'
  BY <1>16 DEF ExitWakeup, WakeSet
<1>17. ASSUME NEW l \in Lwps, Dispatch(l) PROVE MutualExclusion'
  BY <1>17 DEF Dispatch
<1>18. ASSUME NEW l \in Lwps, Preempt(l) PROVE MutualExclusion'
  BY <1>18 DEF Preempt, Preemptible
<1>19. ASSUME NEW l \in Lwps, BigLockWanted(l) PROVE MutualExclusion'
  BY <1>19 DEF BigLockWanted
<1>20. ASSUME NEW l \in Lwps, BigLockTaken(l) PROVE MutualExclusion'
  BY <1>20 DEF BigLockTaken
<1>21. CASE UNCHANGED vars
  BY <1>21 DEF vars
<1>22. QED
    BY <1>1, <1>2, <1>3, <1>4, <1>5, <1>6, <1>7, <1>8, <1>9, <1>10, <1>11,
     <1>12, <1>13, <1>14, <1>15, <1>16, <1>17, <1>18, <1>19, <1>20, <1>21
  DEF Next, MutexStep

\* The chain lock is held between lookup and release.
LEMMA ChainLockStep == Inv /\ [Next]_vars => ChainLock'
<1> SUFFICES ASSUME Inv, [Next]_vars PROVE ChainLock'
  OBVIOUS
<1> USE MutexAssumption DEF Inv, TypeOK, Words, Unowned, At, Goto, ChainLock,
        InChain
<1>1. ASSUME NEW l \in Lwps, Enter(l) PROVE ChainLock'
  BY <1>1 DEF Enter, Reload
<1>2. ASSUME NEW l \in Lwps, TryEnter(l) PROVE ChainLock'
  BY <1>2 DEF TryEnter, MUTEX_ACQUIRE
<1>3. ASSUME NEW l \in Lwps, Acquire(l) PROVE ChainLock'
  BY <1>3 DEF Acquire, MUTEX_ACQUIRE, Reload
<1>4. ASSUME NEW l \in Lwps, CheckOwner(l) PROVE ChainLock'
  BY <1>4 DEF CheckOwner, mutex_oncpu
<1>5. ASSUME NEW l \in Lwps, Spin(l) PROVE ChainLock'
  BY <1>5 DEF Spin, Reload
<1>6. ASSUME NEW l \in Lwps, Lookup(l) PROVE ChainLock'
  BY <1>6 DEF Lookup
<1>7. ASSUME NEW l \in Lwps, SetWaiters(l) PROVE ChainLock'
  BY <1>7 DEF SetWaiters, Reload
<1>8. ASSUME NEW l \in Lwps, CheckOncpu(l) PROVE ChainLock'
  BY <1>8 DEF CheckOncpu, mutex_oncpu, Reload
<1>9. ASSUME NEW l \in Lwps, CheckWaiters(l) PROVE ChainLock'
  BY <1>9 DEF CheckWaiters, HasWaiters, Reload
<1>10. ASSUME NEW l \in Lwps, Block(l) PROVE ChainLock'
  BY <1>10 DEF Block
<1>11. ASSUME NEW l \in Lwps, Resume(l) PROVE ChainLock'
  BY <1>11 DEF Resume, Reload
<1>12. ASSUME NEW l \in Lwps, ExitTest(l) PROVE ChainLock'
  BY <1>12 DEF ExitTest
<1>13. ASSUME NEW l \in Lwps, ExitStore(l) PROVE ChainLock'
  BY <1>13 DEF ExitStore
<1>14. ASSUME NEW l \in Lwps, ExitLookup(l) PROVE ChainLock'
  BY <1>14 DEF ExitLookup
<1>15. ASSUME NEW l \in Lwps, ExitRelease(l) PROVE ChainLock'
  BY <1>15 DEF ExitRelease
<1>16. ASSUME NEW l \in Lwps, ExitWakeup(l) PROVE ChainLock'
  BY <1>16 DEF ExitWakeup, WakeSet
<1>17. ASSUME NEW l \in Lwps, Dispatch(l) PROVE ChainLock'
  BY <1>17 DEF Dispatch
<1>18. ASSUME NEW l \in Lwps, Preempt(l) PROVE ChainLock'
  BY <1>18 DEF Preempt, Preemptible
<1>19. ASSUME NEW l \in Lwps, BigLockWanted(l) PROVE ChainLock'
  BY <1>19 DEF BigLockWanted
<1>20. ASSUME NEW l \in Lwps, BigLockTaken(l) PROVE ChainLock'
  BY <1>20 DEF BigLockTaken
<1>21. CASE UNCHANGED vars
  BY <1>21 DEF vars
<1>22. QED
    BY <1>1, <1>2, <1>3, <1>4, <1>5, <1>6, <1>7, <1>8, <1>9, <1>10, <1>11,
     <1>12, <1>13, <1>14, <1>15, <1>16, <1>17, <1>18, <1>19, <1>20, <1>21
  DEF Next, MutexStep

\* No action strands a sleeper.  The interesting ones: Block(l) puts a
\* thread to sleep on the strength of WaiterKnows; ExitStore(l) wipes the
\* lock word, which no sleeper depends on; ExitTest(l) sees the bit.
LEMMA NoLostWakeupStep == Inv /\ [Next]_vars => NoLostWakeup'
<1> SUFFICES ASSUME Inv, [Next]_vars PROVE NoLostWakeup'
  OBVIOUS
<1> USE MutexAssumption DEF Inv, TypeOK, Words, Unowned, At, Goto,
        NoLostWakeup, MutualExclusion, ChainLock, Holding, InChain,
        WaiterKnows, Scheduling, NoStrayBit
<1>1. ASSUME NEW l \in Lwps, Enter(l) PROVE NoLostWakeup'
  BY <1>1 DEF Enter, Reload
<1>2. ASSUME NEW l \in Lwps, TryEnter(l) PROVE NoLostWakeup'
  BY <1>2 DEF TryEnter, MUTEX_ACQUIRE
<1>3. ASSUME NEW l \in Lwps, Acquire(l) PROVE NoLostWakeup'
  BY <1>3 DEF Acquire, MUTEX_ACQUIRE, Reload
<1>4. ASSUME NEW l \in Lwps, CheckOwner(l) PROVE NoLostWakeup'
  BY <1>4 DEF CheckOwner, mutex_oncpu
<1>5. ASSUME NEW l \in Lwps, Spin(l) PROVE NoLostWakeup'
  BY <1>5 DEF Spin, Reload
<1>6. ASSUME NEW l \in Lwps, Lookup(l) PROVE NoLostWakeup'
  BY <1>6 DEF Lookup
<1>7. ASSUME NEW l \in Lwps, SetWaiters(l) PROVE NoLostWakeup'
  BY <1>7 DEF SetWaiters, Reload
<1>8. ASSUME NEW l \in Lwps, CheckOncpu(l) PROVE NoLostWakeup'
  BY <1>8 DEF CheckOncpu, mutex_oncpu, Reload
<1>9. ASSUME NEW l \in Lwps, CheckWaiters(l) PROVE NoLostWakeup'
  BY <1>9 DEF CheckWaiters, HasWaiters, Reload
<1>10. ASSUME NEW l \in Lwps, Block(l) PROVE NoLostWakeup'
  BY <1>10 DEF Block
<1>11. ASSUME NEW l \in Lwps, Resume(l) PROVE NoLostWakeup'
  BY <1>11 DEF Resume, Reload
<1>12. ASSUME NEW l \in Lwps, ExitTest(l) PROVE NoLostWakeup'
  BY <1>12 DEF ExitTest
<1>13. ASSUME NEW l \in Lwps, ExitStore(l) PROVE NoLostWakeup'
  BY <1>13 DEF ExitStore
<1>14. ASSUME NEW l \in Lwps, ExitLookup(l) PROVE NoLostWakeup'
  BY <1>14 DEF ExitLookup
<1>15. ASSUME NEW l \in Lwps, ExitRelease(l) PROVE NoLostWakeup'
  BY <1>15 DEF ExitRelease
<1>16. ASSUME NEW l \in Lwps, ExitWakeup(l) PROVE NoLostWakeup'
  BY <1>16 DEF ExitWakeup, WakeSet
<1>17. ASSUME NEW l \in Lwps, Dispatch(l) PROVE NoLostWakeup'
  BY <1>17 DEF Dispatch
<1>18. ASSUME NEW l \in Lwps, Preempt(l) PROVE NoLostWakeup'
  BY <1>18 DEF Preempt, Preemptible
<1>19. ASSUME NEW l \in Lwps, BigLockWanted(l) PROVE NoLostWakeup'
  BY <1>19 DEF BigLockWanted
<1>20. ASSUME NEW l \in Lwps, BigLockTaken(l) PROVE NoLostWakeup'
  BY <1>20 DEF BigLockTaken
<1>21. CASE UNCHANGED vars
  BY <1>21 DEF vars
<1>22. QED
    BY <1>1, <1>2, <1>3, <1>4, <1>5, <1>6, <1>7, <1>8, <1>9, <1>10, <1>11,
     <1>12, <1>13, <1>14, <1>15, <1>16, <1>17, <1>18, <1>19, <1>20, <1>21
  DEF Next, MutexStep

\* What a thread learnt under the chain lock stays true until it drops it.
LEMMA WaiterKnowsStep == Inv /\ [Next]_vars => WaiterKnows'
<1> SUFFICES ASSUME Inv, [Next]_vars PROVE WaiterKnows'
  OBVIOUS
<1> USE MutexAssumption DEF Inv, TypeOK, Words, Unowned, At, Goto,
        WaiterKnows, MutualExclusion, ChainLock, Holding, InChain, Scheduling,
        NoStrayBit
<1>1. ASSUME NEW l \in Lwps, Enter(l) PROVE WaiterKnows'
  BY <1>1 DEF Enter, Reload
<1>2. ASSUME NEW l \in Lwps, TryEnter(l) PROVE WaiterKnows'
  BY <1>2 DEF TryEnter, MUTEX_ACQUIRE
<1>3. ASSUME NEW l \in Lwps, Acquire(l) PROVE WaiterKnows'
  BY <1>3 DEF Acquire, MUTEX_ACQUIRE, Reload
<1>4. ASSUME NEW l \in Lwps, CheckOwner(l) PROVE WaiterKnows'
  BY <1>4 DEF CheckOwner, mutex_oncpu
<1>5. ASSUME NEW l \in Lwps, Spin(l) PROVE WaiterKnows'
  BY <1>5 DEF Spin, Reload
<1>6. ASSUME NEW l \in Lwps, Lookup(l) PROVE WaiterKnows'
  BY <1>6 DEF Lookup
<1>7. ASSUME NEW l \in Lwps, SetWaiters(l) PROVE WaiterKnows'
  BY <1>7 DEF SetWaiters, Reload
<1>8. ASSUME NEW l \in Lwps, CheckOncpu(l) PROVE WaiterKnows'
  BY <1>8 DEF CheckOncpu, mutex_oncpu, Reload
<1>9. ASSUME NEW l \in Lwps, CheckWaiters(l) PROVE WaiterKnows'
  BY <1>9 DEF CheckWaiters, HasWaiters, Reload
<1>10. ASSUME NEW l \in Lwps, Block(l) PROVE WaiterKnows'
  BY <1>10 DEF Block
<1>11. ASSUME NEW l \in Lwps, Resume(l) PROVE WaiterKnows'
  BY <1>11 DEF Resume, Reload
<1>12. ASSUME NEW l \in Lwps, ExitTest(l) PROVE WaiterKnows'
  BY <1>12 DEF ExitTest
<1>13. ASSUME NEW l \in Lwps, ExitStore(l) PROVE WaiterKnows'
  BY <1>13 DEF ExitStore
<1>14. ASSUME NEW l \in Lwps, ExitLookup(l) PROVE WaiterKnows'
  BY <1>14 DEF ExitLookup
<1>15. ASSUME NEW l \in Lwps, ExitRelease(l) PROVE WaiterKnows'
  BY <1>15 DEF ExitRelease
<1>16. ASSUME NEW l \in Lwps, ExitWakeup(l) PROVE WaiterKnows'
  BY <1>16 DEF ExitWakeup, WakeSet
<1>17. ASSUME NEW l \in Lwps, Dispatch(l) PROVE WaiterKnows'
  BY <1>17 DEF Dispatch
<1>18. ASSUME NEW l \in Lwps, Preempt(l) PROVE WaiterKnows'
  BY <1>18 DEF Preempt, Preemptible
<1>19. ASSUME NEW l \in Lwps, BigLockWanted(l) PROVE WaiterKnows'
  BY <1>19 DEF BigLockWanted
<1>20. ASSUME NEW l \in Lwps, BigLockTaken(l) PROVE WaiterKnows'
  BY <1>20 DEF BigLockTaken
<1>21. CASE UNCHANGED vars
  BY <1>21 DEF vars
<1>22. QED
    BY <1>1, <1>2, <1>3, <1>4, <1>5, <1>6, <1>7, <1>8, <1>9, <1>10, <1>11,
     <1>12, <1>13, <1>14, <1>15, <1>16, <1>17, <1>18, <1>19, <1>20, <1>21
  DEF Next, MutexStep

\* The fast exit is never preempted between its test and its store, and
\* the sleep queue holds exactly the threads in turnstile_block().
LEMMA SchedulingStep == Inv /\ [Next]_vars => Scheduling'
<1> SUFFICES ASSUME Inv, [Next]_vars PROVE Scheduling'
  OBVIOUS
<1> USE MutexAssumption DEF Inv, TypeOK, Words, Unowned, At, Goto, Scheduling
<1>1. ASSUME NEW l \in Lwps, Enter(l) PROVE Scheduling'
  BY <1>1 DEF Enter, Reload
<1>2. ASSUME NEW l \in Lwps, TryEnter(l) PROVE Scheduling'
  BY <1>2 DEF TryEnter, MUTEX_ACQUIRE
<1>3. ASSUME NEW l \in Lwps, Acquire(l) PROVE Scheduling'
  BY <1>3 DEF Acquire, MUTEX_ACQUIRE, Reload
<1>4. ASSUME NEW l \in Lwps, CheckOwner(l) PROVE Scheduling'
  BY <1>4 DEF CheckOwner, mutex_oncpu
<1>5. ASSUME NEW l \in Lwps, Spin(l) PROVE Scheduling'
  BY <1>5 DEF Spin, Reload
<1>6. ASSUME NEW l \in Lwps, Lookup(l) PROVE Scheduling'
  BY <1>6 DEF Lookup
<1>7. ASSUME NEW l \in Lwps, SetWaiters(l) PROVE Scheduling'
  BY <1>7 DEF SetWaiters, Reload
<1>8. ASSUME NEW l \in Lwps, CheckOncpu(l) PROVE Scheduling'
  BY <1>8 DEF CheckOncpu, mutex_oncpu, Reload
<1>9. ASSUME NEW l \in Lwps, CheckWaiters(l) PROVE Scheduling'
  BY <1>9 DEF CheckWaiters, HasWaiters, Reload
<1>10. ASSUME NEW l \in Lwps, Block(l) PROVE Scheduling'
  BY <1>10 DEF Block
<1>11. ASSUME NEW l \in Lwps, Resume(l) PROVE Scheduling'
  BY <1>11 DEF Resume, Reload
<1>12. ASSUME NEW l \in Lwps, ExitTest(l) PROVE Scheduling'
  BY <1>12 DEF ExitTest
<1>13. ASSUME NEW l \in Lwps, ExitStore(l) PROVE Scheduling'
  BY <1>13 DEF ExitStore
<1>14. ASSUME NEW l \in Lwps, ExitLookup(l) PROVE Scheduling'
  BY <1>14 DEF ExitLookup
<1>15. ASSUME NEW l \in Lwps, ExitRelease(l) PROVE Scheduling'
  BY <1>15 DEF ExitRelease
<1>16. ASSUME NEW l \in Lwps, ExitWakeup(l) PROVE Scheduling'
  BY <1>16 DEF ExitWakeup, WakeSet
<1>17. ASSUME NEW l \in Lwps, Dispatch(l) PROVE Scheduling'
  BY <1>17 DEF Dispatch
<1>18. ASSUME NEW l \in Lwps, Preempt(l) PROVE Scheduling'
  BY <1>18 DEF Preempt, Preemptible
<1>19. ASSUME NEW l \in Lwps, BigLockWanted(l) PROVE Scheduling'
  BY <1>19 DEF BigLockWanted
<1>20. ASSUME NEW l \in Lwps, BigLockTaken(l) PROVE Scheduling'
  BY <1>20 DEF BigLockTaken
<1>21. CASE UNCHANGED vars
  BY <1>21 DEF vars
<1>22. QED
    BY <1>1, <1>2, <1>3, <1>4, <1>5, <1>6, <1>7, <1>8, <1>9, <1>10, <1>11,
     <1>12, <1>13, <1>14, <1>15, <1>16, <1>17, <1>18, <1>19, <1>20, <1>21
  DEF Next, MutexStep

\* A free mutex has no waiters bit.
LEMMA NoStrayBitStep == Inv /\ [Next]_vars => NoStrayBit'
<1> SUFFICES ASSUME Inv, [Next]_vars PROVE NoStrayBit'
  OBVIOUS
<1> USE MutexAssumption DEF Inv, TypeOK, Words, Unowned, At, Goto, NoStrayBit,
        MutualExclusion, ChainLock, WaiterKnows
<1>1. ASSUME NEW l \in Lwps, Enter(l) PROVE NoStrayBit'
  BY <1>1 DEF Enter, Reload
<1>2. ASSUME NEW l \in Lwps, TryEnter(l) PROVE NoStrayBit'
  BY <1>2 DEF TryEnter, MUTEX_ACQUIRE
<1>3. ASSUME NEW l \in Lwps, Acquire(l) PROVE NoStrayBit'
  BY <1>3 DEF Acquire, MUTEX_ACQUIRE, Reload
<1>4. ASSUME NEW l \in Lwps, CheckOwner(l) PROVE NoStrayBit'
  BY <1>4 DEF CheckOwner, mutex_oncpu
<1>5. ASSUME NEW l \in Lwps, Spin(l) PROVE NoStrayBit'
  BY <1>5 DEF Spin, Reload
<1>6. ASSUME NEW l \in Lwps, Lookup(l) PROVE NoStrayBit'
  BY <1>6 DEF Lookup
<1>7. ASSUME NEW l \in Lwps, SetWaiters(l) PROVE NoStrayBit'
  BY <1>7 DEF SetWaiters, Reload
<1>8. ASSUME NEW l \in Lwps, CheckOncpu(l) PROVE NoStrayBit'
  BY <1>8 DEF CheckOncpu, mutex_oncpu, Reload
<1>9. ASSUME NEW l \in Lwps, CheckWaiters(l) PROVE NoStrayBit'
  BY <1>9 DEF CheckWaiters, HasWaiters, Reload
<1>10. ASSUME NEW l \in Lwps, Block(l) PROVE NoStrayBit'
  BY <1>10 DEF Block
<1>11. ASSUME NEW l \in Lwps, Resume(l) PROVE NoStrayBit'
  BY <1>11 DEF Resume, Reload
<1>12. ASSUME NEW l \in Lwps, ExitTest(l) PROVE NoStrayBit'
  BY <1>12 DEF ExitTest
<1>13. ASSUME NEW l \in Lwps, ExitStore(l) PROVE NoStrayBit'
  BY <1>13 DEF ExitStore
<1>14. ASSUME NEW l \in Lwps, ExitLookup(l) PROVE NoStrayBit'
  BY <1>14 DEF ExitLookup
<1>15. ASSUME NEW l \in Lwps, ExitRelease(l) PROVE NoStrayBit'
  BY <1>15 DEF ExitRelease
<1>16. ASSUME NEW l \in Lwps, ExitWakeup(l) PROVE NoStrayBit'
  BY <1>16 DEF ExitWakeup, WakeSet
<1>17. ASSUME NEW l \in Lwps, Dispatch(l) PROVE NoStrayBit'
  BY <1>17 DEF Dispatch
<1>18. ASSUME NEW l \in Lwps, Preempt(l) PROVE NoStrayBit'
  BY <1>18 DEF Preempt, Preemptible
<1>19. ASSUME NEW l \in Lwps, BigLockWanted(l) PROVE NoStrayBit'
  BY <1>19 DEF BigLockWanted
<1>20. ASSUME NEW l \in Lwps, BigLockTaken(l) PROVE NoStrayBit'
  BY <1>20 DEF BigLockTaken
<1>21. CASE UNCHANGED vars
  BY <1>21 DEF vars
<1>22. QED
    BY <1>1, <1>2, <1>3, <1>4, <1>5, <1>6, <1>7, <1>8, <1>9, <1>10, <1>11,
     <1>12, <1>13, <1>14, <1>15, <1>16, <1>17, <1>18, <1>19, <1>20, <1>21
  DEF Next, MutexStep

\* The inductive invariant holds in every reachable state.
THEOREM MutexInv == Spec => []Inv
<1>1. Init => Inv
  BY MutexAssumption
  DEF Init, Inv, TypeOK, Words, Unowned, Labels, MutualExclusion, Holding,
      ChainLock, InChain, NoLostWakeup, WaiterKnows, Scheduling, NoStrayBit
<1>2. Inv /\ [Next]_vars => Inv'
  BY TypeOKStep, MutualExclusionStep, ChainLockStep, NoLostWakeupStep,
     WaiterKnowsStep, SchedulingStep, NoStrayBitStep
  DEF Inv
<1>3. QED
  BY <1>1, <1>2, PTL DEF Spec

\* At most one thread is between mutex_enter() and mutex_exit(), whatever the
\* interleaving of compare and swap, plain store and preemption.
THEOREM MutexMutualExclusion == Spec => []MutualExclusion
<1>1. Inv => MutualExclusion
  BY DEF Inv
<1>2. QED
  BY <1>1, MutexInv, PTL

\* The unlocked release of mutex_exit() never strands a thread that
\* mutex_vector_enter() has put to sleep.
THEOREM MutexNoLostWakeup == Spec => []NoLostWakeup
<1>1. Inv => NoLostWakeup
  BY DEF Inv
<1>2. QED
  BY <1>1, MutexInv, PTL
=============================================================================
