--------------------------- MODULE Condvar_Proofs ---------------------------
(***************************************************************************)
(* Proofs about Condvar, for any threads, whichever of them wait with a    *)
(* timeout or interruptibly, and any number of items: no wakeup is lost,   *)
(* no timeout outlives its sleep, and no signal is slept through.          *)
(***************************************************************************)
EXTENDS Condvar, FiniteSetTheorems, TLAPS

HasMtx == {"get", "enqueued", "signal", "broadcast", "wakeup_one", "wakeup_all", "leave"}

\* Who holds the locks and who is on the queue, by where the threads are.  A queue
\* that a thread has left to be inserted elsewhere is locked and is not empty, so
\* the test of cv_signal() is right; only a thread with a timeout has a callout.
Places ==
    /\ \A l \in Lwps : mtx = l <=> pc[l] \in HasMtx
    /\ \A l \in Lwps : mp = l <=> pc[l] \in {"enqueued", "block"}
    /\ \A l \in Lwps : l \in Waiting <=> pc[l] \in {"enqueued", "block", "asleep"}
    /\ moving # NoLwp => mp = NoLwp /\ moving \notin sleepq /\ sleepq # {}
    /\ \A l \in Lwps \ Timed : callout[l] = "idle"

Inv == TypeOK /\ Places /\ WakeupsCoverItems /\ NoStaleTimeout /\ SignalNotMissed
-----------------------------------------------------------------------------
\* OnTheWay is finite.
LEMMA OnTheWayFinite == IsFiniteSet(OnTheWay) /\ Cardinality(OnTheWay) \in Nat
<1>1. OnTheWay \subseteq Lwps
  BY DEF OnTheWay
<1> QED
  BY <1>1, CondvarAssumption, FS_Subset, FS_CardinalityType

\* A step that brings no items, and loses neither a wakeup nor a broadcast, leaves
\* the items covered.
LEMMA StillCovered ==
    ASSUME TypeOK, WakeupsCoverItems, items' = items, OnTheWay \subseteq OnTheWay',
           BroadcastComing => BroadcastComing', Waiting # {} \/ Waiting' = {}
    PROVE  WakeupsCoverItems'
<1>1. IsFiniteSet(OnTheWay)' /\ Cardinality(OnTheWay)' \in Nat
  <2>1. (OnTheWay)' \subseteq Lwps
    BY DEF OnTheWay
  <2> QED
    BY <2>1, CondvarAssumption, FS_Subset, FS_CardinalityType
<1>2. Cardinality(OnTheWay) <= Cardinality(OnTheWay)'
  BY <1>1, FS_Subset
<1> QED
  BY <1>1, <1>2, OnTheWayFinite DEF WakeupsCoverItems, TypeOK

\* Initially nobody waits.
LEMMA InitInv == Init => Inv
<1> SUFFICES ASSUME Init PROVE Inv
  OBVIOUS
<1>1. Waiting = {}
  BY DEF Init, Waiting
<1>2. TypeOK
  BY CondvarAssumption DEF Init, TypeOK, Labels
<1>3. Places
  BY <1>1, CondvarAssumption DEF Init, Places, HasMtx
<1>4. WakeupsCoverItems /\ NoStaleTimeout /\ SignalNotMissed
  BY <1>1, CondvarAssumption DEF Init, WakeupsCoverItems, NoStaleTimeout, SignalNotMissed
<1> QED
  BY <1>2, <1>3, <1>4 DEF Inv

\* A thread goes from one place to another.
LEMMA GotoMoves ==
    ASSUME TypeOK, NEW l \in Lwps, NEW label \in Labels, Goto(l, label)
    PROVE  /\ pc' \in [Lwps -> Labels] /\ pc'[l] = label
           /\ \A k \in Lwps \ {l} : pc'[k] = pc[k]
  BY DEF TypeOK, Goto

\* The steps of a thread that take or release mtx or go on without it, as far as
\* they neither touch the queue nor take or bring items
LEMMA WalkInv ==
    ASSUME Inv, NEW l \in Lwps,
           \/ GetStart(l) \/ Leave(l) \/ CvUnlock(l) \/ Reenter(l) \/ CheckSignals(l)
    PROVE  Inv'
<1> USE DEF Inv
<1>1. /\ UNCHANGED <<mp, sleepq, moving, callout, pendsig, cancelled, items>>
      /\ pc' \in [Lwps -> Labels]
      /\ \A k \in Lwps \ {l} : pc'[k] = pc[k]
      /\ \/ pc[l] = "idle" /\ mtx = NoLwp /\ pc'[l] = "get" /\ mtx' = l
         \/ pc[l] = "leave" /\ pc'[l] = "idle" /\ mtx' = NoLwp
         \/ pc[l] = "enqueued" /\ pc'[l] = "block" /\ mtx' = NoLwp
         \/ pc[l] = "reenter" /\ mtx = NoLwp /\ pc'[l] \in {"signal", "get"} /\ mtx' = l
         \/ pc[l] = "check" /\ pc'[l] = "reenter" /\ mtx' = mtx
  <2> USE DEF Labels
  <2>1. CASE GetStart(l)
    BY <2>1, GotoMoves DEF GetStart
  <2>2. CASE Leave(l)
    BY <2>2, GotoMoves DEF Leave
  <2>3. CASE CvUnlock(l)
    BY <2>3, GotoMoves DEF CvUnlock
  <2>4. CASE Reenter(l)
    <3>1. PICK label \in {"signal", "get"} : Goto(l, label)
      BY <2>4 DEF Reenter, PassOn
    <3> QED
      BY <2>4, <3>1, GotoMoves DEF Reenter
  <2>5. CASE CheckSignals(l)
    BY <2>5, GotoMoves DEF CheckSignals
  <2> QED
    BY <2>1, <2>2, <2>3, <2>4, <2>5
<1>2. error' \in [Lwps -> BOOLEAN]
  BY DEF TypeOK, GetStart, Leave, CvUnlock, Reenter, CheckSignals
<1>3. TypeOK'
  BY <1>1, <1>2 DEF TypeOK
<1>4. Waiting' = Waiting /\ OnTheWay \subseteq OnTheWay'
      /\ (BroadcastComing => BroadcastComing')
  BY <1>1 DEF Waiting, OnTheWay, BroadcastComing
<1>5. Places'
  <2>1. \A k \in Lwps : k # NoLwp
    BY CondvarAssumption
  <2> QED
    BY <1>1, <1>4, <2>1 DEF Places, HasMtx, TypeOK
<1>6. WakeupsCoverItems'
  BY <1>1, <1>4, StillCovered
<1>7. NoStaleTimeout' /\ SignalNotMissed'
  BY <1>1, CondvarAssumption DEF NoStaleTimeout, SignalNotMissed
<1> QED
  BY <1>3, <1>5, <1>6, <1>7

\* An item is taken by a thread that was on its way to it.
LEMMA TakeInv == ASSUME Inv, NEW l \in Lwps, Take(l) PROVE Inv'
<1> USE DEF Inv
<1>1. /\ UNCHANGED <<mtx, mp, sleepq, moving, callout, pendsig, cancelled, error>>
      /\ pc[l] = "get" /\ pc'[l] = "leave" /\ pc' \in [Lwps -> Labels]
      /\ \A k \in Lwps \ {l} : pc'[k] = pc[k]
      /\ items > 0 /\ items' = items - 1
  BY GotoMoves DEF Take, Labels
<1>2. TypeOK'
  BY <1>1, CondvarAssumption DEF TypeOK
<1>3. Waiting' = Waiting /\ (BroadcastComing => BroadcastComing')
  BY <1>1 DEF Waiting, BroadcastComing
<1>4. Places'
  BY <1>1, <1>3 DEF Places, HasMtx
<1>5. WakeupsCoverItems'
  <2>1. l \in OnTheWay /\ OnTheWay' = OnTheWay \ {l}
    BY <1>1 DEF OnTheWay
  <2>2. Cardinality(OnTheWay)' = Cardinality(OnTheWay) - 1
    BY <2>1, OnTheWayFinite, FS_RemoveElement
  <2> QED
    BY <1>1, <1>3, <2>2, OnTheWayFinite, CondvarAssumption DEF WakeupsCoverItems, TypeOK
<1>6. NoStaleTimeout' /\ SignalNotMissed'
  BY <1>1, CondvarAssumption DEF NoStaleTimeout, SignalNotMissed
<1> QED
  BY <1>2, <1>4, <1>5, <1>6

\* Items are brought by a thread that is about to wake somebody for them.
LEMMA PutInv ==
    ASSUME Inv, NEW l \in Lwps, NEW wake \in {"signal", "broadcast"}, Put(l, wake)
    PROVE  Inv'
<1> USE DEF Inv
<1>1. /\ UNCHANGED <<mp, sleepq, moving, callout, pendsig, cancelled, error>>
      /\ mtx = NoLwp /\ mtx' = l
      /\ pc[l] = "idle" /\ pc'[l] = wake /\ pc' \in [Lwps -> Labels]
      /\ \A k \in Lwps \ {l} : pc'[k] = pc[k]
      /\ items < MaxItems /\ items' = IF wake = "signal" THEN items + 1 ELSE MaxItems
  BY GotoMoves DEF Put, Labels
<1>2. TypeOK'
  BY <1>1, CondvarAssumption DEF TypeOK
<1>3. Waiting' = Waiting /\ (BroadcastComing => BroadcastComing')
  BY <1>1 DEF Waiting, BroadcastComing
<1>4. Places'
  <2>1. \A k \in Lwps : k # NoLwp
    BY CondvarAssumption
  <2> QED
    BY <1>1, <1>3, <2>1 DEF Places, HasMtx
<1>5. WakeupsCoverItems'
  <2>1. CASE wake = "signal"
    <3>1. l \notin OnTheWay /\ OnTheWay' = OnTheWay \cup {l}
      BY <1>1, <2>1 DEF OnTheWay
    <3>2. Cardinality(OnTheWay)' = Cardinality(OnTheWay) + 1
      BY <3>1, OnTheWayFinite, FS_AddElement
    <3> QED
      BY <1>1, <1>3, <2>1, <3>2, OnTheWayFinite, CondvarAssumption
         DEF WakeupsCoverItems, TypeOK
  <2>2. CASE wake = "broadcast"
    BY <1>1, <2>2 DEF WakeupsCoverItems, BroadcastComing
  <2> QED
    BY <2>1, <2>2
<1>6. NoStaleTimeout' /\ SignalNotMissed'
  BY <1>1, CondvarAssumption DEF NoStaleTimeout, SignalNotMissed
<1> QED
  BY <1>2, <1>4, <1>5, <1>6

\* A thread goes onto the queue when there are no items.
LEMMA CvEnterInv == ASSUME Inv, NEW l \in Lwps, CvEnter(l) PROVE Inv'
<1> USE DEF Inv
<1>1. /\ UNCHANGED <<mtx, moving, callout, pendsig, cancelled, items>>
      /\ mp = NoLwp /\ moving = NoLwp /\ mp' = l /\ items = 0
      /\ sleepq' = sleepq \cup {l} /\ error' = [error EXCEPT ![l] = FALSE]
      /\ pc[l] = "get" /\ pc'[l] = "enqueued" /\ pc' \in [Lwps -> Labels]
      /\ \A k \in Lwps \ {l} : pc'[k] = pc[k]
  BY GotoMoves DEF CvEnter, Labels, Enqueue, QueueUnlocked
<1>2. TypeOK'
  BY <1>1 DEF TypeOK
<1>3. Waiting' = Waiting \cup {l}
  BY <1>1 DEF Waiting
<1>4. Places'
  <2>1. \A k \in Lwps : k # NoLwp
    BY CondvarAssumption
  <2> QED
    BY <1>1, <1>3, <2>1 DEF Places, HasMtx
<1>5. WakeupsCoverItems'
  <2>1. Cardinality(OnTheWay)' \in Nat
    <3>1. (OnTheWay)' \subseteq Lwps
      BY DEF OnTheWay
    <3> QED
      BY <3>1, CondvarAssumption, FS_Subset, FS_CardinalityType
  <2> QED
    BY <1>1, <2>1 DEF WakeupsCoverItems
<1>6. NoStaleTimeout' /\ SignalNotMissed'
  BY <1>1, CondvarAssumption DEF NoStaleTimeout, SignalNotMissed
<1> QED
  BY <1>2, <1>4, <1>5, <1>6

\* sleepq_block() does not sleep ...
LEMMA BlockEarlyInv == ASSUME Inv, NEW l \in Lwps, BlockEarly(l) PROVE Inv'
<1> USE DEF Inv
<1>1. /\ UNCHANGED <<mtx, moving, callout, pendsig, items>>
      /\ sleepq' = sleepq \ {l} /\ mp' = NoLwp /\ cancelled' = cancelled \ {l}
      /\ pc[l] = "block" /\ pc'[l] = "check" /\ pc' \in [Lwps -> Labels]
      /\ \A k \in Lwps \ {l} : pc'[k] = pc[k]
  BY GotoMoves DEF BlockEarly, Labels
<1>2. mp = l /\ moving = NoLwp /\ l # NoLwp
  BY <1>1, CondvarAssumption DEF Places
<1>3. error' \in [Lwps -> BOOLEAN]
  BY DEF BlockEarly, TypeOK
<1>4. TypeOK'
  BY <1>1, <1>3 DEF TypeOK
<1>5. /\ Waiting' = Waiting \ {l} /\ OnTheWay \subseteq OnTheWay'
      /\ BroadcastComing => BroadcastComing'
  BY <1>1, <1>2 DEF Waiting, OnTheWay, BroadcastComing
<1>6. Places'
  BY <1>1, <1>2, <1>5, CondvarAssumption DEF Places, HasMtx
<1>7. WakeupsCoverItems'
  BY <1>1, <1>5, StillCovered
<1>8. NoStaleTimeout' /\ SignalNotMissed'
  BY <1>1, CondvarAssumption DEF NoStaleTimeout, SignalNotMissed
<1> QED
  BY <1>4, <1>6, <1>7, <1>8

\* ... or does, having looked for signals under the lock of the queue.
LEMMA BlockSwitchInv == ASSUME Inv, NEW l \in Lwps, BlockSwitch(l) PROVE Inv'
<1> USE DEF Inv
<1>1. /\ UNCHANGED <<mtx, sleepq, moving, pendsig, cancelled, error, items>>
      /\ mp' = NoLwp /\ ~Interrupted(l)
      /\ pc[l] = "block" /\ pc'[l] = "asleep" /\ pc' \in [Lwps -> Labels]
      /\ \A k \in Lwps \ {l} : pc'[k] = pc[k]
  BY GotoMoves DEF BlockSwitch, Labels
<1>2. /\ callout' \in [Lwps -> {"idle", "pending", "running", "fired"}]
      /\ \A k \in Lwps \ {l} : callout'[k] = callout[k]
      /\ l \notin Timed => callout'[l] = callout[l]
  BY DEF BlockSwitch, TypeOK
<1>3. mp = l /\ moving = NoLwp /\ l # NoLwp
  BY <1>1, CondvarAssumption DEF Places
<1>4. TypeOK'
  BY <1>1, <1>2 DEF TypeOK
<1>5. /\ Waiting' = Waiting /\ OnTheWay \subseteq OnTheWay'
      /\ BroadcastComing => BroadcastComing'
  BY <1>1 DEF Waiting, OnTheWay, BroadcastComing
<1>6. Places'
  BY <1>1, <1>2, <1>3, <1>5, CondvarAssumption DEF Places, HasMtx
<1>7. WakeupsCoverItems'
  BY <1>1, <1>5, StillCovered
<1>8. NoStaleTimeout'
  BY <1>1, <1>2 DEF NoStaleTimeout
<1>9. SignalNotMissed'
  BY <1>1, CondvarAssumption DEF SignalNotMissed, Interrupted
<1> QED
  BY <1>4, <1>6, <1>7, <1>8, <1>9

\* callout_halt() has waited for the callout of this sleep.
LEMMA HaltInv == ASSUME Inv, NEW l \in Lwps, Halt(l) PROVE Inv'
<1> USE DEF Inv
<1>1. /\ UNCHANGED <<mtx, mp, sleepq, moving, pendsig, cancelled, items>>
      /\ pc[l] = "woken" /\ pc'[l] = "check" /\ pc' \in [Lwps -> Labels]
      /\ \A k \in Lwps \ {l} : pc'[k] = pc[k]
  BY GotoMoves DEF Halt, Labels
<1>2. callout[l] # "running"
  BY DEF Halt, Halted, Places
<1>3. /\ callout' \in [Lwps -> {"idle", "pending", "running", "fired"}]
      /\ \A k \in Lwps \ {l} : callout'[k] = callout[k]
      /\ callout'[l] = "idle"
  BY <1>2 DEF Halt, TypeOK
<1>4. error' \in [Lwps -> BOOLEAN]
  BY DEF Halt, TypeOK
<1>5. TypeOK'
  BY <1>1, <1>3, <1>4 DEF TypeOK
<1>6. /\ Waiting' = Waiting /\ OnTheWay \subseteq OnTheWay'
      /\ BroadcastComing => BroadcastComing'
  BY <1>1 DEF Waiting, OnTheWay, BroadcastComing
<1>7. Places'
  BY <1>1, <1>3, <1>6 DEF Places, HasMtx
<1>8. WakeupsCoverItems'
  BY <1>1, <1>6, StillCovered
<1>9. NoStaleTimeout'
  BY <1>1, <1>3 DEF NoStaleTimeout
<1>10. SignalNotMissed'
  BY <1>1, CondvarAssumption DEF SignalNotMissed
<1> QED
  BY <1>5, <1>7, <1>8, <1>9, <1>10

\* The test without the queue lock finds the queue empty only if nobody waits: a
\* thread that is moved leaves others behind, and cv_enter() needs mtx.
LEMMA WakeTestInv == ASSUME Inv, NEW l \in Lwps, WakeTest(l) PROVE Inv'
<1> USE DEF Inv
<1>1. PICK label \in {"leave", "wakeup_one", "wakeup_all"} :
        /\ Goto(l, label)
        /\ label = "leave" => sleepq = {}
        /\ pc[l] = "signal" => label # "wakeup_all"
        /\ pc[l] = "broadcast" => label # "wakeup_one"
  BY DEF WakeTest
<1>2. /\ UNCHANGED <<mtx, mp, sleepq, moving, callout, pendsig, cancelled, error, items>>
      /\ pc[l] \in {"signal", "broadcast"} /\ pc'[l] = label /\ pc' \in [Lwps -> Labels]
      /\ \A k \in Lwps \ {l} : pc'[k] = pc[k]
  BY <1>1, GotoMoves DEF WakeTest, Labels
<1>3. TypeOK'
  BY <1>2 DEF TypeOK
<1>4. Waiting' = Waiting
  BY <1>2 DEF Waiting
<1>5. Places'
  BY <1>2, <1>4 DEF Places, HasMtx
<1>6. WakeupsCoverItems'
  <2>1. CASE label = "leave"
    BY <1>1, <1>4, <2>1 DEF Waiting, Places, WakeupsCoverItems
  <2>2. CASE label # "leave"
    <3>1. OnTheWay \subseteq OnTheWay' /\ (BroadcastComing => BroadcastComing')
      BY <1>1, <1>2, <2>2 DEF OnTheWay, BroadcastComing
    <3> QED
      BY <1>2, <1>4, <3>1, StillCovered
  <2> QED
    BY <2>1, <2>2
<1>7. NoStaleTimeout' /\ SignalNotMissed'
  BY <1>2, CondvarAssumption DEF NoStaleTimeout, SignalNotMissed
<1> QED
  BY <1>3, <1>5, <1>6, <1>7

\* When the queue is not locked every thread on it is asleep.
LEMMA SleepersAsleep ==
    ASSUME Inv, QueueUnlocked
    PROVE  Waiting = sleepq /\ \A k \in sleepq : pc[k] = "asleep"
<1>1. Waiting = sleepq
  BY DEF Waiting, QueueUnlocked
<1> QED
  BY <1>1, CondvarAssumption DEF Inv, Places, QueueUnlocked, TypeOK

\* The wakeup passes from the thread that gives it to the one that is woken.
LEMMA WakeupOneInv == ASSUME Inv, NEW l \in Lwps, WakeupOne(l) PROVE Inv'
<1> USE DEF Inv
<1>1. PICK woken \in SUBSET sleepq :
        /\ Cardinality(woken) = IF sleepq = {} THEN 0 ELSE 1
        /\ sleepq' = sleepq \ woken
        /\ pc' = [k \in Lwps |-> IF k = l THEN "leave"
                                 ELSE IF k \in woken THEN "woken" ELSE pc[k]]
  BY DEF WakeupOne
<1>2. /\ UNCHANGED <<mtx, mp, moving, callout, pendsig, cancelled, error, items>>
      /\ pc[l] = "wakeup_one" /\ QueueUnlocked
  BY DEF WakeupOne
<1>3. Waiting = sleepq /\ Waiting' = sleepq \ woken
      /\ \A k \in sleepq : k \in Lwps \ {l} /\ pc[k] = "asleep"
  BY <1>1, <1>2, SleepersAsleep DEF Waiting, QueueUnlocked, TypeOK
<1>4. TypeOK'
  BY <1>1, <1>2 DEF TypeOK, Labels
<1>5. Places'
  BY <1>1, <1>2, <1>3 DEF Places, HasMtx, QueueUnlocked
<1>6. WakeupsCoverItems'
  <2>1. CASE sleepq = {}
    BY <1>3, <2>1 DEF WakeupsCoverItems
  <2>2. CASE sleepq # {}
    <3>1. IsFiniteSet(woken) /\ Cardinality(woken) = 1
      BY <1>1, <2>2, CondvarAssumption, FS_Subset DEF TypeOK
    <3>2. PICK k \in woken : woken = {k}
      BY <3>1, FS_Singleton
    <3>3. /\ l \in OnTheWay /\ k \notin OnTheWay /\ k # l
          /\ OnTheWay' = (OnTheWay \ {l}) \cup {k}
      BY <1>1, <1>2, <1>3, <3>2 DEF OnTheWay
    <3>4. /\ IsFiniteSet(OnTheWay \ {l})
          /\ Cardinality(OnTheWay \ {l}) = Cardinality(OnTheWay) - 1
      BY <3>3, OnTheWayFinite, FS_RemoveElement
    <3>5. Cardinality(OnTheWay)' = Cardinality(OnTheWay \ {l}) + 1
      BY <3>3, <3>4, FS_AddElement
    <3>6. BroadcastComing => BroadcastComing'
      BY <1>1, <1>2, <1>3 DEF BroadcastComing
    <3> QED
      BY <1>2, <1>3, <2>2, <3>4, <3>5, <3>6, OnTheWayFinite DEF WakeupsCoverItems
  <2> QED
    BY <2>1, <2>2
<1>7. NoStaleTimeout' /\ SignalNotMissed'
  BY <1>1, <1>2, <1>3, CondvarAssumption DEF NoStaleTimeout, SignalNotMissed
<1> QED
  BY <1>4, <1>5, <1>6, <1>7

\* Everybody is woken.
LEMMA WakeupAllInv == ASSUME Inv, NEW l \in Lwps, WakeupAll(l) PROVE Inv'
<1> USE DEF Inv
<1>1. /\ UNCHANGED <<mtx, mp, moving, callout, pendsig, cancelled, error, items>>
      /\ pc[l] = "wakeup_all" /\ QueueUnlocked /\ sleepq' = {}
      /\ pc' = [k \in Lwps |-> IF k = l THEN "leave"
                               ELSE IF k \in sleepq THEN "woken" ELSE pc[k]]
  BY DEF WakeupAll
<1>2. Waiting = sleepq /\ Waiting' = {}
      /\ \A k \in sleepq : k \in Lwps \ {l} /\ pc[k] = "asleep"
  BY <1>1, SleepersAsleep DEF Waiting, QueueUnlocked, TypeOK
<1>3. TypeOK'
  BY <1>1 DEF TypeOK, Labels
<1>4. Places'
  BY <1>1, <1>2 DEF Places, HasMtx, QueueUnlocked
<1>5. WakeupsCoverItems'
  BY <1>2 DEF WakeupsCoverItems
<1>6. NoStaleTimeout' /\ SignalNotMissed'
  BY <1>1, <1>2, CondvarAssumption DEF NoStaleTimeout, SignalNotMissed
<1> QED
  BY <1>3, <1>4, <1>5, <1>6

\* A thread whose priority changes still waits, and is not the last to leave.
LEMMA ReinsertInv ==
    ASSUME Inv, ReinsertInsert \/ \E l \in Lwps : ReinsertRemove(l)
    PROVE  Inv'
<1> USE DEF Inv
<1>1. UNCHANGED <<mtx, mp, callout, pendsig, cancelled, error, items, pc>>
  BY DEF ReinsertInsert, ReinsertRemove
<1>2. /\ Waiting' = Waiting /\ sleepq' \subseteq Lwps /\ moving' \in Lwps \cup {NoLwp}
      /\ moving' # NoLwp => mp = NoLwp /\ moving' \notin sleepq' /\ sleepq' # {}
  <2>1. CASE ReinsertInsert
    BY <2>1 DEF ReinsertInsert, Waiting, TypeOK
  <2>2. CASE \E l \in Lwps : ReinsertRemove(l)
    <3>1. PICK l \in Lwps : ReinsertRemove(l)
      BY <2>2
    <3> QED
      BY <3>1, CondvarAssumption
         DEF ReinsertRemove, Waiting, TypeOK, QueueUnlocked, SoleWaiter
  <2> QED
    BY <2>1, <2>2
<1>3. TypeOK'
  BY <1>1, <1>2 DEF TypeOK
<1>4. Places'
  BY <1>1, <1>2 DEF Places
<1>5. WakeupsCoverItems' /\ NoStaleTimeout' /\ SignalNotMissed'
  BY <1>1, <1>2
     DEF WakeupsCoverItems, OnTheWay, BroadcastComing, NoStaleTimeout, SignalNotMissed
<1> QED
  BY <1>3, <1>4, <1>5

\* A timeout, a signal or a _lwp_wakeup() may take one thread off the queue, which
\* makes it one that is on its way.  In that the invariant is kept.
LEMMA RemoveKeeps ==
    ASSUME Inv, NEW l \in Lwps, LwpUnlocked(l),
           NEW woken \in SUBSET (sleepq \cap {l}), Remove(woken),
           UNCHANGED <<mtx, mp, moving, error, items>>
    PROVE  /\ sleepq' \subseteq Lwps /\ pc' \in [Lwps -> Labels]
           /\ \A k \in Lwps : /\ k \in woken => pc[k] = "asleep" /\ pc'[k] = "woken"
                              /\ k \notin woken => pc'[k] = pc[k]
           /\ pc[l] = "asleep" => moving = NoLwp /\ l \in sleepq
           /\ WakeupsCoverItems'
           /\ (\A k \in Lwps \ Timed : callout'[k] = "idle") => Places'
<1> USE DEF Inv
<1>1. /\ sleepq' = sleepq \ woken
      /\ pc' = [k \in Lwps |-> IF k \in woken THEN "woken" ELSE pc[k]]
  BY DEF Remove
<1>2. \A k \in woken : pc[k] = "asleep" /\ moving = NoLwp
  BY SleepersAsleep DEF LwpUnlocked, QueueUnlocked
<1>3. pc[l] = "asleep" => moving = NoLwp /\ l \in sleepq
  BY CondvarAssumption DEF Places, Waiting, LwpUnlocked, QueueUnlocked
<1>4. sleepq' \subseteq Lwps /\ pc' \in [Lwps -> Labels]
  BY <1>1 DEF TypeOK, Labels
<1>5. Waiting' = Waiting \ woken
  BY <1>1, <1>2 DEF Waiting
<1>6. WakeupsCoverItems'
  <2>1. OnTheWay \subseteq OnTheWay' /\ (BroadcastComing => BroadcastComing')
    BY <1>1, <1>2 DEF OnTheWay, BroadcastComing
  <2> QED
    BY <1>5, <2>1, StillCovered
<1>7. (\A k \in Lwps \ Timed : callout'[k] = "idle") => Places'
  BY <1>1, <1>2, <1>5 DEF Places, HasMtx
<1> QED
  BY <1>1, <1>2, <1>3, <1>4, <1>6, <1>7

\* The callout of a sleep begins to run, and ends that sleep only.
LEMMA TimeoutInv ==
    ASSUME Inv, NEW l \in Lwps, CalloutFire(l) \/ SleepqTimeout(l) PROVE Inv'
<1> USE DEF Inv
<1>1. CASE CalloutFire(l)
  <2>1. /\ UNCHANGED <<mtx, mp, sleepq, moving, pendsig, cancelled, error, items, pc>>
        /\ callout' \in [Lwps -> {"idle", "pending", "running", "fired"}]
        /\ callout[l] = "pending"
        /\ \A k \in Lwps \ {l} : callout'[k] = callout[k]
    BY <1>1 DEF CalloutFire, TypeOK
  <2>2. TypeOK'
    BY <2>1 DEF TypeOK
  <2>3. Places'
    BY <2>1 DEF Places, Waiting
  <2> QED
    BY <2>1, <2>2, <2>3
       DEF WakeupsCoverItems, Waiting, OnTheWay, BroadcastComing, NoStaleTimeout, SignalNotMissed
<1>2. CASE SleepqTimeout(l)
  <2> DEFINE woken == sleepq \cap {l}
  <2>1. /\ UNCHANGED <<mtx, mp, moving, pendsig, cancelled, error, items>>
        /\ callout' \in [Lwps -> {"idle", "pending", "running", "fired"}]
        /\ callout[l] = "running" /\ callout'[l] = "fired"
        /\ \A k \in Lwps \ {l} : callout'[k] = callout[k]
        /\ LwpUnlocked(l) /\ Remove(woken)
    BY <1>2 DEF SleepqTimeout, TypeOK
  <2>2. \A k \in Lwps \ Timed : callout'[k] = "idle"
    BY <2>1 DEF Places
  <2>3. /\ sleepq' \subseteq Lwps /\ pc' \in [Lwps -> Labels]
        /\ \A k \in Lwps : /\ k \in woken => pc[k] = "asleep" /\ pc'[k] = "woken"
                           /\ k \notin woken => pc'[k] = pc[k]
        /\ WakeupsCoverItems' /\ Places'
    BY <2>1, <2>2, RemoveKeeps
  <2>4. TypeOK'
    BY <2>1, <2>3 DEF TypeOK
  <2>5. \A k \in Lwps : pc'[k] = pc[k] \/ (pc[k] = "asleep" /\ pc'[k] = "woken")
    BY <2>3
  <2>6. NoStaleTimeout'
    BY <2>1, <2>5 DEF NoStaleTimeout
  <2>7. SignalNotMissed'
    BY <2>1, <2>5, CondvarAssumption DEF SignalNotMissed
  <2> QED
    BY <2>3, <2>4, <2>6, <2>7
<1> QED
  BY <1>1, <1>2

\* A signal or a _lwp_wakeup() that finds the thread asleep ends the sleep.
LEMMA SignalInv ==
    ASSUME Inv, NEW l \in Lwps, SigPost(l) \/ SigTaken(l) \/ LwpWakeup(l) PROVE Inv'
<1> USE DEF Inv
<1>1. CASE SigTaken(l)
  <2>1. /\ UNCHANGED <<mtx, mp, sleepq, moving, callout, cancelled, error, items, pc>>
        /\ pendsig' = pendsig \ {l}
    BY <1>1 DEF SigTaken
  <2>2. TypeOK' /\ Places'
    BY <2>1 DEF TypeOK, Places, Waiting
  <2> QED
    BY <2>1, <2>2
       DEF WakeupsCoverItems, Waiting, OnTheWay, BroadcastComing, NoStaleTimeout, SignalNotMissed
<1>2. CASE SigPost(l) \/ LwpWakeup(l)
  <2> DEFINE woken == sleepq \cap Catching \cap {l}
  <2>1. /\ UNCHANGED <<mtx, mp, moving, callout, error, items>>
        /\ l \in Catching /\ LwpUnlocked(l) /\ Remove(woken)
        /\ pendsig' \cup cancelled' = pendsig \cup cancelled \cup {l}
        /\ pendsig' \subseteq Catching /\ cancelled' \subseteq Catching
    BY <1>2 DEF SigPost, LwpWakeup, Interrupt, TypeOK
  <2>2. \A k \in Lwps \ Timed : callout'[k] = "idle"
    BY <2>1 DEF Places
  <2>3. /\ sleepq' \subseteq Lwps /\ pc' \in [Lwps -> Labels]
        /\ \A k \in Lwps : /\ k \in woken => pc[k] = "asleep" /\ pc'[k] = "woken"
                           /\ k \notin woken => pc'[k] = pc[k]
        /\ pc[l] = "asleep" => l \in sleepq
        /\ WakeupsCoverItems' /\ Places'
    BY <2>1, <2>2, RemoveKeeps
  <2>4. TypeOK'
    BY <2>1, <2>3 DEF TypeOK
  <2>5. \A k \in Lwps : pc'[k] = pc[k] \/ (pc[k] = "asleep" /\ pc'[k] = "woken")
    BY <2>3
  <2>6. NoStaleTimeout'
    BY <2>1, <2>5 DEF NoStaleTimeout
  <2>7. pc'[l] # "asleep"
    BY <2>1, <2>3
  <2>8. SignalNotMissed'
    BY <2>1, <2>5, <2>7, CondvarAssumption DEF SignalNotMissed
  <2> QED
    BY <2>3, <2>4, <2>6, <2>8
<1> QED
  BY <1>1, <1>2

\* Every step keeps the invariant.
LEMMA NextInv == ASSUME Inv, [Next]_vars PROVE Inv'
<1>1. ASSUME NEW l \in Lwps, Step(l) \/ Reenter(l) \/ GetStart(l) PROVE Inv'
  BY <1>1, WalkInv, TakeInv, CvEnterInv, BlockEarlyInv, BlockSwitchInv, HaltInv,
     WakeTestInv, WakeupOneInv, WakeupAllInv DEF Step
<1>2. CASE UNCHANGED vars
  BY <1>2 DEF vars, Inv, TypeOK, Places, WakeupsCoverItems, Waiting, OnTheWay,
              BroadcastComing, NoStaleTimeout, SignalNotMissed
<1> QED
  BY <1>1, <1>2, PutInv, ReinsertInv, TimeoutInv, SignalInv DEF Next

\* The inductive invariant holds in every state.
THEOREM CondvarInv == Spec => []Inv
<1> QED
  BY InitInv, NextInv, PTL DEF Spec

\* No wakeup is lost: while threads wait, as many are on their way as there are
\* items, or a broadcast is coming; a thread that gives up passes its wakeup on in
\* cv_exit(), and cv_signal() may look at the queue without its lock.
THEOREM CondvarWakeups == Spec => []WakeupsCoverItems
<1>1. Inv => WakeupsCoverItems
  BY DEF Inv
<1> QED
  BY <1>1, CondvarInv, PTL

\* A thread that has left sleepq_block() has no callout that could end its next sleep.
THEOREM CondvarNoStaleTimeout == Spec => []NoStaleTimeout
<1>1. Inv => NoStaleTimeout
  BY DEF Inv
<1> QED
  BY <1>1, CondvarInv, PTL

\* A thread that sleeps interruptibly has no signal or _lwp_wakeup() to react to.
THEOREM CondvarSignals == Spec => []SignalNotMissed
<1>1. Inv => SignalNotMissed
  BY DEF Inv
<1> QED
  BY <1>1, CondvarInv, PTL
=============================================================================
