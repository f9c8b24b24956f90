------------------------- MODULE Pserialize_Proofs -------------------------
(***************************************************************************)
(* Proofs about Pserialize, for any number of CPUs and any finite number   *)
(* of objects.  That no reader is left with the old version follows from   *)
(* StaleReaderBlocks: the reader's own CPU keeps the request on the first  *)
(* queue.  TwoPasses and WorkTodoExact need what the queues record.        *)
(***************************************************************************)
EXTENDS Pserialize, FiniteSetTheorems, TLAPS

\* The parts of the invariant about pserialize_switchpoint()'s bookkeeping
\* alone, without the unlocked counter.
Core == QueuedIsWaiting /\ StaleReaderBlocks /\ PassesRecorded /\ TwoPasses

\* What TypeOK says, without the counter.
Types ==
    /\ kcpuset_running \subseteq CPUs
    /\ psz_queue \in [Objects -> {"none", "q0", "q1"}]
    /\ psz_target \in [Objects -> SUBSET CPUs]
    /\ psz_pass \in [Objects -> SUBSET CPUs]
    /\ writer \in [Objects -> {"idle", "published", "copied", "waiting", "free"}]
    /\ cpu_pc \in [CPUs -> {"run", "read", "switch"}]
    /\ stale \in [CPUs -> SUBSET Objects]
    /\ asked \in [Objects -> SUBSET CPUs]
    /\ passes \in [Objects -> [CPUs -> 0..2]]

\* pserialize_init() and pserialize_create() establish the invariant.
LEMMA InitInv == Init => Inv
<1> SUFFICES ASSUME Init PROVE Inv
  OBVIOUS
<1>1. Queued = {}
  BY DEF Init, Queued
<1>2. TypeOK
  BY PszAssumption DEF Init, TypeOK
<1>3. WorkTodoExact
  BY <1>1, FS_EmptySet DEF Init, WorkTodoExact
<1>4. QueuedIsWaiting /\ StaleReaderBlocks /\ PassesRecorded /\ TwoPasses
  BY DEF Init, QueuedIsWaiting, StaleReaderBlocks, PassesRecorded, TwoPasses
<1>5. QED
  BY <1>2, <1>3, <1>4 DEF Inv

\* The writer's and the readers' steps, and the unlocked test of the
\* switchpoint, keep types and bookkeeping.
LEMMA QuietStep ==
    ASSUME Types, Core, WorkTodoExact,
           \/ \E o \in Objects :
                \/ Publish(o) \/ PerformStart(o) \/ PerformInsert(o)
                \/ PerformReturn(o) \/ Free(o)
           \/ \E cpu \in CPUs : CpuStart(cpu) \/ ReadEnter(cpu) \/ ReadExit(cpu) \/ SwitchTest(cpu)
    PROVE  Types' /\ Core'
<1> USE DEF Types, Core, QueuedIsWaiting, StaleReaderBlocks, PassesRecorded,
            TwoPasses, pszVars
<1>1. ASSUME NEW o \in Objects, Publish(o) PROVE Types' /\ Core'
  BY <1>1 DEF Publish
<1>2. ASSUME NEW o \in Objects, PerformStart(o) PROVE Types' /\ Core'
  BY <1>2 DEF PerformStart
<1>3. ASSUME NEW o \in Objects, PerformReturn(o) PROVE Types' /\ Core'
  BY <1>3, PszAssumption DEF PerformReturn, WorkTodoExact
<1>4. ASSUME NEW o \in Objects, Free(o) PROVE Types' /\ Core'
  BY <1>4 DEF Free
<1>5. ASSUME NEW cpu \in CPUs, ReadEnter(cpu) PROVE Types' /\ Core'
  BY <1>5 DEF ReadEnter
<1>6. ASSUME NEW cpu \in CPUs, ReadExit(cpu) PROVE Types' /\ Core'
  BY <1>6 DEF ReadExit
<1>7. ASSUME NEW cpu \in CPUs, SwitchTest(cpu) PROVE Types' /\ Core'
  BY <1>7 DEF SwitchTest
<1>8. ASSUME NEW cpu \in CPUs, CpuStart(cpu) PROVE Types' /\ Core'
  BY <1>8 DEF CpuStart
<1>9. ASSUME NEW o \in Objects, PerformInsert(o) PROVE Types' /\ Core'
  BY <1>9 DEF PerformInsert
<1>10. QED
  BY <1>1, <1>2, <1>3, <1>4, <1>5, <1>6, <1>7, <1>8, <1>9

\* What the scan of the queues does to one object.
LEMMA ScanOne ==
    ASSUME Types, QueuedIsWaiting, NEW cpu \in CPUs, SwitchScan(cpu), NEW o \in Objects
    PROVE  /\ psz_queue'[o] = NextQueue(o, cpu)
           /\ psz_queue[o] = "none" =>
                /\ psz_queue'[o] = "none"
                /\ psz_pass'[o] = psz_pass[o] /\ psz_target'[o] = psz_target[o]
                /\ passes'[o] = passes[o]
           /\ psz_queue[o] # "none" /\ ~Passed(o, cpu) =>
                /\ psz_queue'[o] = psz_queue[o]
                /\ psz_pass'[o] = psz_pass[o] \cup {cpu}
                /\ psz_target'[o] = psz_target[o]
           /\ psz_queue[o] = "q0" /\ Passed(o, cpu) =>
                /\ psz_queue'[o] = "q1" /\ psz_pass'[o] = {}
                /\ psz_target'[o] = psz_target[o]
           /\ psz_queue[o] = "q1" /\ Passed(o, cpu) =>
                /\ psz_queue'[o] = "none" /\ psz_pass'[o] = {} /\ psz_target'[o] = {}
           /\ psz_queue[o] # "none" =>
                \A c \in asked[o] : passes'[o][c] =
                    IF c = cpu /\ passes[o][c] < 2 THEN passes[o][c] + 1 ELSE passes[o][c]
<1>1. /\ psz_queue[o] \in {"none", "q0", "q1"} /\ passes[o] \in [CPUs -> 0..2]
      /\ asked[o] \subseteq CPUs
  BY DEF Types
<1>2. o \in Queued <=> psz_queue[o] # "none"
  BY DEF Queued
<1>3. o \in Finished(cpu) <=> psz_queue[o] = "q1" /\ Passed(o, cpu)
  BY <1>1, <1>2 DEF Finished, NextQueue
<1>4. psz_queue'[o] = NextQueue(o, cpu)
  BY DEF SwitchScan
<1>5. psz_pass'[o] = IF o \notin Queued THEN psz_pass[o]
                     ELSE IF Passed(o, cpu) THEN {} ELSE psz_pass[o] \cup {cpu}
  BY DEF SwitchScan, PassAfter
<1>6. psz_target'[o] = IF o \in Finished(cpu) THEN {} ELSE psz_target[o]
  BY DEF SwitchScan
<1>7. passes'[o] = IF o \in Queued /\ cpu \in asked[o] /\ passes[o][cpu] < 2
                   THEN [passes[o] EXCEPT ![cpu] = @ + 1] ELSE passes[o]
  BY DEF SwitchScan
<1>8. psz_queue[o] # "none" =>
        \A c \in asked[o] : passes'[o][c] =
            IF c = cpu /\ passes[o][c] < 2 THEN passes[o][c] + 1 ELSE passes[o][c]
  BY <1>1, <1>2, <1>7
<1>9. QED
  BY <1>1, <1>2, <1>3, <1>4, <1>5, <1>6, <1>7, <1>8 DEF NextQueue

\* The scan keeps the types.
LEMMA ScanTypes ==
    ASSUME Types, QueuedIsWaiting, NEW cpu \in CPUs, SwitchScan(cpu)
    PROVE  Types'
<1>1. ASSUME NEW o \in Objects
      PROVE  /\ NextQueue(o, cpu) \in {"none", "q0", "q1"}
             /\ psz_pass[o] \in SUBSET CPUs /\ psz_target[o] \in SUBSET CPUs
  BY DEF Types, NextQueue
<1>2. ASSUME NEW o \in Objects
      PROVE  (IF o \in Queued /\ cpu \in asked[o] /\ passes[o][cpu] < 2
              THEN [passes[o] EXCEPT ![cpu] = @ + 1] ELSE passes[o]) \in [CPUs -> 0..2]
  <2>1. passes[o] \in [CPUs -> 0..2]
    BY DEF Types
  <2>2. QED
    BY <2>1
<1>3. psz_queue' \in [Objects -> {"none", "q0", "q1"}]
  BY <1>1 DEF SwitchScan
<1>4. psz_pass' \in [Objects -> SUBSET CPUs] /\ psz_target' \in [Objects -> SUBSET CPUs]
  BY <1>1 DEF SwitchScan, PassAfter
<1>5. passes' \in [Objects -> [CPUs -> 0..2]]
  BY <1>2 DEF SwitchScan
<1>6. UNCHANGED <<writer, stale, asked, kcpuset_running>>
      /\ cpu_pc' \in [CPUs -> {"run", "read", "switch"}]
  BY DEF SwitchScan, Types
<1>7. QED
  BY <1>3, <1>4, <1>5, <1>6 DEF Types

\* The scan keeps the bookkeeping.  A CPU with a stale reader is not the one
\* that scans, and is missing from psz_pass, so its request is not passed on.
LEMMA ScanCore ==
    ASSUME Types, Core, NEW cpu \in CPUs, SwitchScan(cpu)
    PROVE  Core'
<1>0. UNCHANGED <<writer, stale, asked, kcpuset_running>> /\ cpu_pc[cpu] = "switch"
      /\ cpu_pc' = [cpu_pc EXCEPT ![cpu] = "run"]
  BY DEF SwitchScan
<1>1. QueuedIsWaiting'
  <2>1. ASSUME NEW o \in Objects, psz_queue'[o] # "none"
        PROVE  writer'[o] = "waiting" /\ psz_target'[o] = asked'[o]
    BY <2>1, <1>0, ScanOne DEF Core, QueuedIsWaiting, Types
  <2>4. ASSUME NEW o \in Objects, writer'[o] = "copied"
        PROVE  psz_target'[o] = asked'[o] /\ asked'[o] # {} /\ psz_pass'[o] = {}
    BY <2>4, <1>0, ScanOne DEF Core, QueuedIsWaiting, Types
  <2>2. \A c \in CPUs : cpu_pc'[c] = "read" => c \in kcpuset_running'
    BY <1>0 DEF Core, QueuedIsWaiting, Types
  <2>3. QED
    BY <1>0, <2>1, <2>2, <2>4 DEF Core, QueuedIsWaiting
<1>2. StaleReaderBlocks'
  <2>1. ASSUME NEW o \in Objects, NEW c \in CPUs, o \in stale'[c]
        PROVE  /\ cpu_pc'[c] = "read"
               /\ \/ writer'[o] = "published"
                  \/ writer'[o] = "copied" /\ c \in asked'[o]
                  \/ psz_queue'[o] = "q0" /\ c \in asked'[o] \ psz_pass'[o]
    <3>1. o \in stale[c] /\ cpu_pc[c] = "read" /\ c # cpu
      BY <2>1, <1>0 DEF Core, StaleReaderBlocks
    <3>2. cpu_pc'[c] = "read"
      BY <3>1, <1>0 DEF Types
    <3>3. CASE writer[o] = "published" \/ (writer[o] = "copied" /\ c \in asked[o])
      BY <3>2, <3>3, <1>0
    <3>4. CASE psz_queue[o] = "q0" /\ c \in asked[o] \ psz_pass[o]
      <4>1. ~Passed(o, cpu)
        BY <3>1, <3>4 DEF Passed, Core, QueuedIsWaiting
      <4>2. psz_queue'[o] = psz_queue[o] /\ psz_pass'[o] = psz_pass[o] \cup {cpu}
        BY <3>4, <4>1, ScanOne DEF Core
      <4>3. QED
        BY <1>0, <3>1, <3>2, <3>4, <4>2
    <3>5. QED
      BY <3>1, <3>3, <3>4 DEF Core, StaleReaderBlocks
  <2>2. QED
    BY <2>1 DEF StaleReaderBlocks
<1>3. PassesRecorded'
  <2>1. ASSUME NEW o \in Objects, NEW c \in asked'[o]
        PROVE  /\ psz_queue'[o] = "q0" /\ c \in psz_pass'[o] => passes'[o][c] >= 1
               /\ psz_queue'[o] = "q1" =>
                    passes'[o][c] >= (IF c \in psz_pass'[o] THEN 2 ELSE 1)
               /\ psz_queue'[o] = "none" /\ writer'[o] = "waiting" => passes'[o][c] = 2
    <3>0. c \in asked[o] /\ asked[o] \subseteq CPUs
      BY <1>0 DEF Types
    <3>1. /\ psz_queue[o] \in {"none", "q0", "q1"}
          /\ passes[o][c] \in 0..2
          /\ psz_queue[o] = "q0" /\ c \in psz_pass[o] => passes[o][c] >= 1
          /\ psz_queue[o] = "q1" => passes[o][c] >= (IF c \in psz_pass[o] THEN 2 ELSE 1)
          /\ psz_queue[o] = "none" /\ writer[o] = "waiting" => passes[o][c] = 2
          /\ psz_queue[o] # "none" => psz_target[o] = asked[o]
      BY <3>0 DEF Core, Types, PassesRecorded, QueuedIsWaiting
    <3>2. CASE psz_queue[o] = "none"
      BY <1>0, <3>1, <3>2, ScanOne DEF Core
    <3>3. CASE psz_queue[o] # "none" /\ ~Passed(o, cpu)
      <4>1. /\ psz_queue'[o] = psz_queue[o]
            /\ psz_pass'[o] = psz_pass[o] \cup {cpu}
            /\ passes'[o][c] =
                 IF c = cpu /\ passes[o][c] < 2 THEN passes[o][c] + 1 ELSE passes[o][c]
        BY <3>0, <3>3, ScanOne DEF Core
      <4>2. QED
        BY <3>1, <3>3, <4>1
    <3>4. CASE psz_queue[o] # "none" /\ Passed(o, cpu)
      <4>1. c = cpu \/ c \in psz_pass[o]
        BY <3>0, <3>1, <3>4 DEF Passed
      <4>2. /\ psz_queue[o] = "q0" => psz_queue'[o] = "q1" /\ psz_pass'[o] = {}
            /\ psz_queue[o] = "q1" => psz_queue'[o] = "none"
            /\ passes'[o][c] =
                 IF c = cpu /\ passes[o][c] < 2 THEN passes[o][c] + 1 ELSE passes[o][c]
        BY <3>0, <3>4, ScanOne DEF Core
      <4>3. QED
        BY <3>1, <3>4, <4>1, <4>2
    <3>5. QED
      BY <3>2, <3>3, <3>4
  <2>2. QED
    BY <2>1 DEF PassesRecorded
<1>4. TwoPasses'
  <2>1. ASSUME NEW o \in Objects, writer'[o] = "free", NEW c \in asked'[o]
        PROVE  passes'[o][c] = 2
    <3>1. writer[o] = "free" /\ psz_queue[o] = "none"
      BY <2>1, <1>0 DEF Core, QueuedIsWaiting
    <3>2. QED
      BY <1>0, <2>1, <3>1, ScanOne DEF Core, TwoPasses
  <2>2. QED
    BY <2>1 DEF TwoPasses
<1>5. QED
  BY <1>1, <1>2, <1>3, <1>4 DEF Core

\* psz_work_todo counts the queued requests before and after every step.
LEMMA CounterStep ==
    ASSUME Inv, [Next]_vars
    PROVE  psz_work_todo' \in Nat /\ WorkTodoExact'
<1> USE DEF pszVars
<1>0. /\ Types /\ QueuedIsWaiting /\ WorkTodoExact
      /\ IsFiniteSet(Queued) /\ psz_work_todo = Cardinality(Queued)
      /\ psz_work_todo \in Nat
  <2>1. Queued \in SUBSET Objects
    BY DEF Queued
  <2>2. QED
    BY <2>1, FS_Subset, PszAssumption DEF Inv, Types, TypeOK, WorkTodoExact
<1>1. ASSUME UNCHANGED pszVars, UNCHANGED writer
      PROVE  psz_work_todo' \in Nat /\ WorkTodoExact'
  BY <1>0, <1>1 DEF WorkTodoExact, Queued
<1>2. ASSUME NEW o \in Objects, PerformInsert(o)
      PROVE  psz_work_todo' \in Nat /\ WorkTodoExact'
  <2>1. psz_queue[o] = "none"
    BY <1>0, <1>2 DEF PerformInsert, QueuedIsWaiting
  <2>2. Queued' = Queued \cup {o} /\ o \notin Queued
    BY <1>0, <1>2, <2>1 DEF PerformInsert, Queued, Types
  <2>3. psz_work_todo' = Cardinality(Queued')
    BY <1>0, <1>2, <2>2, FS_AddElement DEF PerformInsert
  <2>4. \A p \in Objects :
          writer'[p] # "copied" => (psz_queue'[p] # "none" <=> psz_target'[p] # {})
    BY <1>0, <1>2 DEF PerformInsert, WorkTodoExact, Types, QueuedIsWaiting
  <2>5. QED
    BY <1>0, <1>2, <2>3, <2>4 DEF PerformInsert, WorkTodoExact
<1>3. ASSUME NEW cpu \in CPUs, SwitchScan(cpu)
      PROVE  psz_work_todo' \in Nat /\ WorkTodoExact'
  <2>1. Queued' = Queued \ Finished(cpu)
    <3>1. \A p \in Objects : psz_queue'[p] = NextQueue(p, cpu)
      BY <1>3 DEF SwitchScan
    <3>2. \A p \in Objects : psz_queue[p] = "none" => NextQueue(p, cpu) = "none"
      BY DEF NextQueue
    <3>3. QED
      BY <3>1, <3>2 DEF Queued, Finished
  <2>2. Finished(cpu) \subseteq Queued
    BY DEF Finished
  <2>3. /\ IsFiniteSet(Queued') /\ Cardinality(Queued') \in Nat
        /\ Cardinality(Queued') = Cardinality(Queued) - Cardinality(Finished(cpu))
    <3>1. Queued \cap Finished(cpu) = Finished(cpu)
      BY <2>2
    <3>2. /\ IsFiniteSet(Queued \ Finished(cpu))
          /\ Cardinality(Queued \ Finished(cpu)) =
               Cardinality(Queued) - Cardinality(Queued \cap Finished(cpu))
      BY <1>0, FS_Difference
    <3>3. Cardinality(Queued \ Finished(cpu)) \in Nat
      BY <3>2, FS_CardinalityType
    <3>4. QED
      BY <2>1, <3>1, <3>2, <3>3
  <2>4. psz_work_todo' = Cardinality(Queued')
    BY <1>0, <1>3, <2>3 DEF SwitchScan, WorkLeft
  <2>5. ASSUME NEW p \in Objects, writer'[p] # "copied"
        PROVE  psz_queue'[p] # "none" <=> psz_target'[p] # {}
    <3>1. /\ psz_queue[p] # "none" <=> psz_target[p] # {}
          /\ psz_queue[p] \in {"none", "q0", "q1"}
      BY <1>0, <1>3, <2>5 DEF WorkTodoExact, Types, SwitchScan
    <3>2. QED
      BY <1>0, <1>3, <3>1, ScanOne
  <2>6. QED
    BY <2>3, <2>4, <2>5 DEF WorkTodoExact
<1>4. ASSUME NEW o \in Objects, PerformStart(o)
      PROVE  psz_work_todo' \in Nat /\ WorkTodoExact'
  <2>1. Queued' = Queued
    BY <1>4 DEF PerformStart, Queued
  <2>2. \A p \in Objects :
          writer'[p] # "copied" => (psz_queue'[p] # "none" <=> psz_target'[p] # {})
    BY <1>0, <1>4 DEF PerformStart, WorkTodoExact, Types
  <2>3. QED
    BY <1>0, <1>4, <2>1, <2>2 DEF PerformStart, WorkTodoExact
<1>5. ASSUME UNCHANGED <<psz_queue, psz_target>>, UNCHANGED psz_work_todo,
             \A p \in Objects : writer'[p] # "copied" => writer[p] # "copied"
      PROVE  psz_work_todo' \in Nat /\ WorkTodoExact'
  BY <1>0, <1>5 DEF WorkTodoExact, Queued
<1>6. ASSUME NEW o \in Objects, Publish(o) \/ PerformReturn(o) \/ Free(o)
      PROVE  \A p \in Objects : writer'[p] # "copied" => writer[p] # "copied"
  BY <1>0, <1>6 DEF Publish, PerformReturn, Free, Types
<1>7. QED
  BY <1>1, <1>2, <1>3, <1>4, <1>5, <1>6 DEF Next, vars, Publish, PerformReturn, Free, CpuStart,
     ReadEnter, ReadExit, SwitchTest

\* pserialize(9) keeps its books in order in every reachable state.
THEOREM PserializeInv == Spec => []Inv
<1>1. Inv /\ [Next]_vars => Inv'
  <2> SUFFICES ASSUME Inv, [Next]_vars PROVE Inv'
    OBVIOUS
  <2>1. Types /\ Core /\ WorkTodoExact
    BY DEF Inv, TypeOK, Types, Core
  <2>2. CASE UNCHANGED vars
    BY <2>1, <2>2 DEF vars, Types, Core, QueuedIsWaiting, StaleReaderBlocks,
       PassesRecorded, TwoPasses, Inv, TypeOK, WorkTodoExact, Queued
  <2>3. CASE Next
    <3>1. Types' /\ Core'
      BY <2>1, <2>3, QuietStep, ScanTypes, ScanCore DEF Next, Core
    <3>2. psz_work_todo' \in Nat /\ WorkTodoExact'
      BY CounterStep
    <3>3. QED
      BY <3>1, <3>2 DEF Types, Core, Inv, TypeOK
  <2>4. QED
    BY <2>2, <2>3
<1>2. QED
  BY InitInv, <1>1, PTL DEF Spec

\* When pserialize_perform() has returned no reader, on any CPU, is left with
\* the old version.
THEOREM PserializeOldVersionUnused == Spec => []OldVersionUnused
<1>1. Inv => OldVersionUnused
  BY DEF Inv, StaleReaderBlocks, QueuedIsWaiting, OldVersionUnused
<1>2. QED
  BY PserializeInv, <1>1, PTL

\* "every processor in the system has made at least two passes"
THEOREM PserializeTwoPasses == Spec => []TwoPasses
<1>1. Inv => TwoPasses
  BY DEF Inv
<1>2. QED
  BY PserializeInv, <1>1, PTL

\* The counter that switchpoints read without the lock is exact.
THEOREM PserializeWorkTodoExact == Spec => []WorkTodoExact
<1>1. Inv => WorkTodoExact
  BY DEF Inv
<1>2. QED
  BY PserializeInv, <1>1, PTL
=============================================================================
