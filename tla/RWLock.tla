------------------------------- MODULE RWLock -------------------------------
(***************************************************************************)
(* The reader/writer lock of sys/kern/kern_rwlock.c.  One word holds the   *)
(* writer or the number of readers, and the RW_HAS_WAITERS and             *)
(* RW_WRITE_WANTED bits; a release with waiters hands the lock directly to *)
(* the threads it takes off the turnstile, which then own it before they   *)
(* run again.                                                              *)
(*                                                                         *)
(* A load of the word followed by a compare and swap of the whole word is  *)
(* one step (what was decided on the loaded value holds of the value       *)
(* swapped out), except where something else happens in between.           *)
(***************************************************************************)
EXTENDS Naturals, FiniteSets

CONSTANTS Lwps,       \* the threads that use the lock
          NoLwp,      \* no writer; chain lock free
          Upgraders   \* the threads that call rw_tryupgrade()

ASSUME RWAssumption ==
    NoLwp \notin Lwps /\ IsFiniteSet(Lwps) /\ Upgraders \subseteq Lwps

VARIABLES rw_owner,   \* the lock word: [writer, count, hw, ww]
          tc_mutex,   \* the holder of the turnstile chain lock
          readerq,    \* the threads on TS_READER_Q
          writerq,    \* the threads on TS_WRITER_Q
          pc,         \* where each thread is
          op,         \* RW_READER or RW_WRITER: what it asked for, or holds
          owner       \* a thread's local copy of the word

vars == <<rw_owner, tc_mutex, readerq, writerq, pc, op, owner>>

Word(w, n, hw, ww) == [writer |-> w, count |-> n, hw |-> hw, ww |-> ww]
Unowned == Word(NoLwp, 0, FALSE, FALSE)

\* (owner & RW_THREAD) == 0
IsFree(w) == w.writer = NoLwp /\ w.count = 0

Init ==
    /\ rw_owner = Unowned
    /\ tc_mutex = NoLwp
    /\ readerq = {}
    /\ writerq = {}
    /\ pc = [l \in Lwps |-> "idle"]
    /\ op = [l \in Lwps |-> "reader"]
    /\ owner = [l \in Lwps |-> Unowned]

Goto(l, label) == pc' = [pc EXCEPT ![l] = label]
LoadOwner(l) == owner' = [owner EXCEPT ![l] = rw_owner]
\* The local variables are dead: give them one value.
ForgetOwner(l) == owner' = [owner EXCEPT ![l] = Unowned]
ForgetOp(l) == op' = [op EXCEPT ![l] = "reader"]
Sleepers == readerq \cup writerq

\* Take a set of threads off the turnstile; l goes on to its own label.
Wakeup(l, label, woken) ==
    pc' = [k \in Lwps |-> IF k = l THEN label
                          ELSE IF k \in woken THEN "woken" ELSE pc[k]]

-----------------------------------------------------------------------------
(* rw_vector_enter() *)

\* Mutant of NeedWait: readers walk past a waiting writer.
NeedWaitMut(w, o) == w.writer # NoLwp \/ (o = "writer" /\ w.count > 0)

\* (owner & need_wait) != 0
NeedWait(w, o) ==
    \/ w.writer # NoLwp
    \/ IF o = "reader" THEN w.ww ELSE w.count > 0

\* owner + incr
Plus(w, l, o) ==
    IF o = "reader" THEN [w EXCEPT !.count = @ + 1]
                    ELSE [w EXCEPT !.writer = l]

Enter(l) ==
    /\ pc[l] = "idle"
    /\ \E o \in {"reader", "writer"} : op' = [op EXCEPT ![l] = o]
    /\ Goto(l, "enter")
    /\ UNCHANGED <<rw_owner, tc_mutex, readerq, writerq, owner>>

\* The compare and swap succeeds: the lock is taken and RW_WRITE_WANTED goes.
Acquire(l) ==
    /\ pc[l] = "enter"
    /\ ~NeedWait(rw_owner, op[l])
    /\ rw_owner' = [Plus(rw_owner, l, op[l]) EXCEPT !.ww = FALSE]
    /\ Goto(l, "held")
    /\ UNCHANGED <<tc_mutex, readerq, writerq, op, owner>>

\* Not free: give up spinning (there are waiters, or the writer is off its
\* CPU) and go for the turnstile chain lock.
StopSpinning(l) ==
    /\ pc[l] = "enter"
    /\ NeedWait(rw_owner, op[l])
    /\ Goto(l, "lookup")
    /\ UNCHANGED <<rw_owner, tc_mutex, readerq, writerq, op, owner>>

\* turnstile_lookup(), and rw_owner is loaded again because it may have spun.
Lookup(l) ==
    /\ pc[l] = "lookup"
    /\ tc_mutex = NoLwp
    /\ tc_mutex' = l
    /\ LoadOwner(l)
    /\ Goto(l, "recheck")
    /\ UNCHANGED <<rw_owner, readerq, writerq, op>>

\* Whether a writer without waiters runs on a CPU is up to the scheduler.
RwOncpuAnswers(w) ==
    IF w.writer # NoLwp /\ ~w.hw THEN {TRUE, FALSE} ELSE {FALSE}

\* No need to wait any more, or the owner runs: turnstile_exit(), try again.
Recheck(l) ==
    /\ pc[l] = "recheck"
    /\ \E oncpu \in RwOncpuAnswers(owner[l]) :
         IF ~NeedWait(owner[l], op[l]) \/ oncpu
           THEN tc_mutex' = NoLwp /\ Goto(l, "enter") /\ ForgetOwner(l)
           ELSE Goto(l, "mark") /\ UNCHANGED <<tc_mutex, owner>>
    /\ UNCHANGED <<rw_owner, readerq, writerq, op>>

\* Mutant of SetWait: a writer forgets to announce itself.
SetWaitMut(w, o) == [w EXCEPT !.hw = TRUE]

\* owner | set_wait
SetWait(w, o) == [w EXCEPT !.hw = TRUE, !.ww = @ \/ o = "writer"]

\* Set the waiter bits by compare and swap against the copy.
Mark(l) ==
    /\ pc[l] = "mark"
    /\ IF rw_owner = owner[l]
         THEN /\ rw_owner' = SetWait(rw_owner, op[l])
              /\ Goto(l, "block")
              /\ UNCHANGED tc_mutex
         ELSE /\ tc_mutex' = NoLwp
              /\ Goto(l, "enter")
              /\ UNCHANGED rw_owner
    /\ ForgetOwner(l)
    /\ UNCHANGED <<readerq, writerq, op>>

\* turnstile_block()
Block(l) ==
    /\ pc[l] = "block"
    /\ tc_mutex' = NoLwp
    /\ readerq' = IF op[l] = "reader" THEN readerq \cup {l} ELSE readerq
    /\ writerq' = IF op[l] = "writer" THEN writerq \cup {l} ELSE writerq
    /\ Goto(l, "asleep")
    /\ UNCHANGED <<rw_owner, op, owner>>

\* Mutant of HandedTheLock: a woken writer takes the wakeup for a handoff.
HandedTheLockMut(l) == TRUE

\* op == RW_READER || (rw->rw_owner & RW_THREAD) == curthread
HandedTheLock(l) == op[l] = "reader" \/ rw_owner.writer = l

Resume(l) ==
    /\ pc[l] = "woken"
    /\ Goto(l, IF HandedTheLock(l) THEN "held" ELSE "enter")
    /\ UNCHANGED <<rw_owner, tc_mutex, readerq, writerq, op, owner>>

\* rw_vector_tryenter(): unlike rw_vector_enter() it leaves RW_WRITE_WANTED.
TryEnter(l) ==
    /\ pc[l] = "idle"
    /\ \E o \in {"reader", "writer"} :
         /\ ~NeedWait(rw_owner, o)
         /\ rw_owner' = Plus(rw_owner, l, o)
         /\ op' = [op EXCEPT ![l] = o]
    /\ Goto(l, "held")
    /\ UNCHANGED <<tc_mutex, readerq, writerq, owner>>

-----------------------------------------------------------------------------
(* rw_vector_exit() *)

\* owner - decr
Minus(w) ==
    IF w.writer # NoLwp THEN [w EXCEPT !.writer = NoLwp]
                        ELSE [w EXCEPT !.count = @ - 1]

\* The lock would become unowned and has waiters: it must be handed over.
MustHandOver(w) == IsFree(Minus(w)) /\ w.hw

Exit(l) ==
    /\ pc[l] = "held"
    /\ IF MustHandOver(rw_owner)
         THEN Goto(l, "exit_lookup") /\ UNCHANGED <<rw_owner, op>>
         ELSE Goto(l, "idle") /\ rw_owner' = Minus(rw_owner) /\ ForgetOp(l)
    /\ UNCHANGED <<tc_mutex, readerq, writerq, owner>>

ExitLookup(l) ==
    /\ pc[l] = "exit_lookup"
    /\ tc_mutex = NoLwp
    /\ tc_mutex' = l
    /\ LoadOwner(l)
    /\ Goto(l, "exit_swap")
    /\ UNCHANGED <<rw_owner, readerq, writerq, op>>

\* Mutant of WritersKeepWaiting: the bits for the writers left behind go.
WritersKeepWaitingMut(n) == FALSE

\* Does a handover leave n > 0 writers on the queue?
WritersKeepWaiting(n) == n > 0

\* Give the lock to the longest waiting writer.  Sleep queues are kept by
\* priority, so it may be any of them.
HandToWriter(l) ==
    \E w \in writerq :
        /\ rw_owner' = Word(w, 0, TRUE,
                            WritersKeepWaiting(Cardinality(writerq) - 1))
        /\ writerq' = writerq \ {w}
        /\ Wakeup(l, "idle", {w})
        /\ UNCHANGED readerq

\* Wake all writers and let them fight it out.
WakeAllWriters(l) ==
    /\ rw_owner' = Word(NoLwp, 0, FALSE, TRUE)
    /\ writerq' = {}
    /\ Wakeup(l, "idle", writerq)
    /\ UNCHANGED readerq

\* Give the lock to all blocked readers; l keeps `extra' holds of its own.
HandToReaders(l, label, extra) ==
    LET w == WritersKeepWaiting(Cardinality(writerq)) IN
    /\ rw_owner' = Word(NoLwp, Cardinality(readerq) + extra, w, w)
    /\ readerq' = {}
    /\ Wakeup(l, label, readerq)
    /\ UNCHANGED writerq

\* rw_swap() of the new word and turnstile_wakeup(), under the chain lock.
ExitSwap(l) ==
    /\ pc[l] = "exit_swap"
    /\ \/ readerq # {} /\ op[l] = "reader" /\ HandToWriter(l)
       \/ readerq = {} /\ WakeAllWriters(l)
       \/ readerq # {} /\ op[l] = "writer" /\ HandToReaders(l, "idle", 0)
    /\ tc_mutex' = NoLwp
    /\ ForgetOwner(l)
    /\ ForgetOp(l)

-----------------------------------------------------------------------------
(* rw_downgrade() and rw_tryupgrade() *)

\* No waiters: swap the word for one read hold.  Else keep the copy and get
\* the chain lock.
Downgrade(l) ==
    /\ pc[l] = "held"
    /\ op[l] = "writer"
    /\ IF rw_owner.hw
         THEN LoadOwner(l) /\ Goto(l, "dg_lookup") /\ UNCHANGED <<rw_owner, op>>
         ELSE /\ rw_owner' = Word(NoLwp, 1, FALSE, FALSE)
              /\ op' = [op EXCEPT ![l] = "reader"]
              /\ UNCHANGED <<pc, owner>>
    /\ UNCHANGED <<tc_mutex, readerq, writerq>>

DowngradeLookup(l) ==
    /\ pc[l] = "dg_lookup"
    /\ tc_mutex = NoLwp
    /\ tc_mutex' = l
    /\ Goto(l, "dg_swap")
    /\ UNCHANGED <<rw_owner, readerq, writerq, op, owner>>

\* Compare and swap against the copy; if a waiter bit was set meanwhile, drop
\* the chain lock and go round with the new value.
DowngradeSwap(l) ==
    /\ pc[l] = "dg_swap"
    /\ tc_mutex' = NoLwp
    /\ IF rw_owner = owner[l]
         THEN /\ op' = [op EXCEPT ![l] = "reader"]
              /\ IF readerq = {}
                   THEN /\ rw_owner' = Word(NoLwp, 1, TRUE, TRUE)
                        /\ Goto(l, "held")
                        /\ UNCHANGED <<readerq, writerq>>
                   ELSE HandToReaders(l, "held", 1)
              /\ ForgetOwner(l)
         ELSE /\ LoadOwner(l)
              /\ Goto(l, "dg_lookup")
              /\ UNCHANGED <<rw_owner, readerq, writerq, op>>

\* (owner & RW_THREAD) == RW_READ_INCR
SoleReader(w) == w.count = 1

\* newown = curthread | RW_WRITE_LOCKED | (owner & ~RW_THREAD)
TryUpgrade(l) ==
    /\ l \in Upgraders
    /\ pc[l] = "held"
    /\ op[l] = "reader"
    /\ SoleReader(rw_owner)
    /\ rw_owner' = [rw_owner EXCEPT !.writer = l, !.count = 0]
    /\ op' = [op EXCEPT ![l] = "writer"]
    /\ UNCHANGED <<tc_mutex, readerq, writerq, pc, owner>>

-----------------------------------------------------------------------------
\* Steps a thread inside a lock operation is bound to take.
Step(l) ==
    \/ Acquire(l) \/ StopSpinning(l) \/ Lookup(l) \/ Recheck(l) \/ Mark(l)
    \/ Block(l) \/ Resume(l) \/ ExitLookup(l) \/ ExitSwap(l)
    \/ DowngradeLookup(l) \/ DowngradeSwap(l)

Next ==
    \E l \in Lwps :
        \/ Enter(l) \/ TryEnter(l) \/ Exit(l) \/ Downgrade(l) \/ TryUpgrade(l)
        \/ Step(l)

\* Threads run; a holder releases some day, however often it downgrades and
\* upgrades first (SF).
Fairness == \A l \in Lwps : WF_vars(Step(l)) /\ SF_vars(Exit(l))

Spec == Init /\ [][Next]_vars /\ Fairness

-----------------------------------------------------------------------------
\* Who holds the lock: the threads between enter and exit, a reader from the
\* moment it is taken off the queue, a writer from the moment it is named.
Holding(l) ==
    \/ pc[l] \in {"held", "exit_lookup", "exit_swap", "dg_lookup", "dg_swap"}
    \/ pc[l] = "woken" /\ (op[l] = "reader" \/ rw_owner.writer = l)
ReadHolders == {l \in Lwps : Holding(l) /\ op[l] = "reader"}
WriteHolders == {l \in Lwps : Holding(l) /\ op[l] = "writer"}

\* Readers and writers exclude each other, and the word is exact: it counts
\* every reader, those handed the lock in their sleep included, and names the
\* one writer.
Exclusion ==
    /\ rw_owner.count = Cardinality(ReadHolders)
    /\ WriteHolders = IF rw_owner.writer = NoLwp THEN {} ELSE {rw_owner.writer}
    /\ rw_owner.count = 0 \/ rw_owner.writer = NoLwp

\* A thread sleeps only while the word says so, and while somebody is left to
\* wake it: a holder, or a writer that was woken to take the lock and has
\* not got round to it (it left RW_WRITE_WANTED behind and a reader then
\* went to sleep on a free lock).
SleepersAreRemembered ==
    Sleepers # {} =>
        /\ rw_owner.hw
        /\ writerq # {} => rw_owner.ww /\ ~IsFree(rw_owner)
        /\ \/ ~IsFree(rw_owner)
           \/ \E l \in Lwps : /\ op[l] = "writer"
                              /\ pc[l] \in {"woken", "enter", "lookup",
                                            "recheck", "mark"}

\* The RW_DASSERTs of rw_vector_exit() and rw_downgrade(): the thread that
\* hands the lock over finds somebody to hand it to, with the bits that say
\* so, and rw_swap() overwrites the word it looked at and nothing newer.
HandoverAsserts ==
    \A l \in Lwps :
        /\ pc[l] = "exit_swap" =>
             /\ rw_owner = owner[l]
             /\ Sleepers # {}
             /\ readerq = {} \/ op[l] = "reader" =>
                  writerq # {} /\ rw_owner.ww
        /\ pc[l] = "dg_swap" =>
             /\ Sleepers # {}
             /\ readerq = {} => writerq # {} /\ rw_owner.ww /\ rw_owner.hw

\* All readers that sleep are woken, and as long as writers sleep one of them
\* is woken some day.  Which one the sleep queue decides, by priority: a writer
\* may be passed over by others for ever.
SleepersWake ==
    /\ readerq # {} ~> readerq = {}
    /\ writerq # {} ~> \E l \in Lwps : pc[l] = "woken" /\ op[l] = "writer"
=============================================================================
