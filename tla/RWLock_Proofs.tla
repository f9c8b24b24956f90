---------------------------- MODULE RWLock_Proofs ----------------------------
(***************************************************************************)
(* Proofs about RWLock for any finite set of threads.                      *)
(*                                                                         *)
(* Exclusion is inductive only if a handover does not overwrite what others *)
(* have done to the word since it was looked at, which HandoverAsserts     *)
(* says; and that rests on the two waiter bits being exact (BitsPresent,   *)
(* BitsJustified) for the threads on the turnstile and the one, holding    *)
(* the chain lock, that is on its way to it.                               *)
(***************************************************************************)
EXTENDS RWLock, FiniteSetTheorems, TLAPS

Labels == {"idle", "enter", "lookup", "recheck", "mark", "block", "asleep",
           "woken", "held", "exit_lookup", "exit_swap", "dg_lookup", "dg_swap"}
Words == [writer : Lwps \cup {NoLwp}, count : Nat, hw : BOOLEAN, ww : BOOLEAN]

\* Every variable has its type.
TypeOK ==
    /\ rw_owner \in Words
    /\ tc_mutex \in Lwps \cup {NoLwp}
    /\ readerq \subseteq Lwps
    /\ writerq \subseteq Lwps
    /\ pc \in [Lwps -> Labels]
    /\ op \in [Lwps -> {"reader", "writer"}]
    /\ owner \in [Lwps -> Words]

\* Who holds the turnstile chain lock, and who is on which queue.
Places ==
    \A l \in Lwps :
        /\ tc_mutex = l <=>
             pc[l] \in {"recheck", "mark", "block", "exit_swap", "dg_swap"}
        /\ l \in readerq <=> pc[l] = "asleep" /\ op[l] = "reader"
        /\ l \in writerq <=> pc[l] = "asleep" /\ op[l] = "writer"

\* The threads that sleep, or are about to and have set the bits for it
Waits(l) == pc[l] \in {"asleep", "block"}

\* The bits of a waiting thread are in the word, which is owned if a writer waits.
BitsPresent ==
    \A l \in Lwps : Waits(l) =>
        /\ rw_owner.hw
        /\ op[l] = "writer" => rw_owner.ww /\ ~IsFree(rw_owner)

\* A writer that has been woken or has not slept yet, and does not own the lock.
Contends(l) ==
    /\ op[l] = "writer"
    /\ \/ pc[l] \in {"enter", "lookup", "recheck", "mark"}
       \/ pc[l] = "woken" /\ rw_owner.writer # l

\* RW_HAS_WAITERS is set for somebody; without a writer it comes with
\* RW_WRITE_WANTED, which stops new readers; and RW_WRITE_WANTED is set for a
\* writer that waits or, while no reader has the lock, contends for it.
BitsJustified ==
    /\ rw_owner.hw => \E l \in Lwps : Waits(l)
    /\ rw_owner.hw /\ rw_owner.writer = NoLwp => rw_owner.ww
    /\ rw_owner.ww => \E l \in Lwps :
         \/ Waits(l) /\ op[l] = "writer"
         \/ Contends(l) /\ rw_owner.count = 0

\* What the threads know that have looked at the word and act on it later.
ThreadsKnow ==
    \A l \in Lwps :
        /\ pc[l] = "mark" => NeedWait(owner[l], op[l])
        /\ pc[l] \in {"exit_lookup", "exit_swap"} =>
             rw_owner.hw /\ (rw_owner.writer # NoLwp \/ rw_owner.count = 1)
        /\ pc[l] = "exit_swap" => owner[l] = rw_owner
        /\ pc[l] \in {"dg_lookup", "dg_swap"} => op[l] = "writer" /\ rw_owner.hw

Inv ==
    /\ TypeOK /\ Places /\ Exclusion
    /\ BitsPresent /\ BitsJustified /\ ThreadsKnow
\* Everything but Exclusion, which needs cardinalities
Rest == TypeOK /\ Places /\ BitsPresent /\ BitsJustified /\ ThreadsKnow

-----------------------------------------------------------------------------
\* What Exclusion says of a single holder, or of two.
LEMMA HolderFacts ==
    ASSUME TypeOK, Exclusion
    PROVE  /\ \A l \in Lwps : l \in ReadHolders =>
                rw_owner.count > 0 /\ rw_owner.writer = NoLwp
           /\ \A l \in Lwps : l \in WriteHolders <=> rw_owner.writer = l
           /\ \A l, k \in ReadHolders : rw_owner.count = 1 => l = k
           /\ rw_owner.count = 0 => ReadHolders = {}
           /\ IsFiniteSet(ReadHolders) /\ Cardinality(ReadHolders) = rw_owner.count
<1>1. IsFiniteSet(ReadHolders) /\ Cardinality(ReadHolders) = rw_owner.count
  BY RWAssumption, FS_Subset DEF ReadHolders, Exclusion
<1>2. \A l \in ReadHolders : rw_owner.count # 0
  BY <1>1, FS_EmptySet
<1>3. \A l \in Lwps : l \in WriteHolders <=> rw_owner.writer = l
  BY RWAssumption DEF Exclusion, WriteHolders
<1>4. ASSUME NEW l \in ReadHolders, NEW k \in ReadHolders, rw_owner.count = 1
      PROVE  l = k
  <2>1. PICK x : ReadHolders = {x}
    BY <1>1, <1>4, FS_Singleton
  <2> QED
    BY <2>1
<1>5. rw_owner.count = 0 => ReadHolders = {}
  BY <1>1, FS_EmptySet
<1>6. rw_owner.count \in Nat
  BY DEF TypeOK, Words
<1> QED
  BY <1>1, <1>2, <1>3, <1>4, <1>5, <1>6 DEF Exclusion

\* What Exclusion says of the threads, one or two at a time.
LEMMA SingleHolder ==
    ASSUME TypeOK, Exclusion
    PROVE  /\ \A l \in Lwps : Holding(l) /\ op[l] = "reader" =>
                rw_owner.count > 0 /\ rw_owner.writer = NoLwp
           /\ \A l \in Lwps : Holding(l) /\ op[l] = "writer" <=> rw_owner.writer = l
           /\ \A l, k \in Lwps :
                /\ Holding(l) /\ op[l] = "reader"
                /\ Holding(k) /\ op[k] = "reader"
                => (rw_owner.count = 1 => l = k)
           /\ rw_owner.count = 0 \/ rw_owner.writer = NoLwp
  BY HolderFacts DEF ReadHolders, WriteHolders, Exclusion

-----------------------------------------------------------------------------
(* The lock word, field by field *)

Fields(w, writer, count, hw, ww) ==
    /\ w \in Words
    /\ w.writer = writer /\ w.count = count
    /\ w.hw <=> hw
    /\ w.ww <=> ww

\* owner + incr names the writer or counts a reader, and keeps the bits.
LEMMA PlusFields ==
    ASSUME NEW w \in Words, NEW l \in Lwps
    PROVE  /\ Fields(Plus(w, l, "reader"), w.writer, w.count + 1, w.hw, w.ww)
           /\ Fields(Plus(w, l, "writer"), l, w.count, w.hw, w.ww)
  BY DEF Plus, Words, Fields

\* Taking the lock clears RW_WRITE_WANTED and nothing else.
LEMMA ClearFields ==
    ASSUME NEW w \in Words
    PROVE  Fields([w EXCEPT !.ww = FALSE], w.writer, w.count, w.hw, FALSE)
  BY DEF Words, Fields

\* owner | set_wait
LEMMA SetWaitFields ==
    ASSUME NEW w \in Words, NEW o
    PROVE  Fields(SetWait(w, o), w.writer, w.count, TRUE, w.ww \/ o = "writer")
  BY DEF SetWait, Words, Fields

\* owner - decr, of a word that is held
LEMMA MinusFields ==
    ASSUME NEW w \in Words, w.writer # NoLwp \/ w.count > 0
    PROVE  /\ w.writer # NoLwp => Fields(Minus(w), NoLwp, w.count, w.hw, w.ww)
           /\ w.writer = NoLwp => Fields(Minus(w), NoLwp, w.count - 1, w.hw, w.ww)
  BY DEF Minus, Words, Fields

\* A word that is put together from its parts
LEMMA WordFields ==
    ASSUME NEW l \in Lwps \cup {NoLwp}, NEW n \in Nat,
           NEW h \in BOOLEAN, NEW x \in BOOLEAN
    PROVE  Fields(Word(l, n, h, x), l, n, h, x)
  BY DEF Word, Words, Fields

\* No writer, no readers and no bits
LEMMA UnownedFields == Unowned \in Words
  BY WordFields DEF Unowned, Fields

-----------------------------------------------------------------------------
\* Steps that leave the word alone keep everything but Exclusion.
LEMMA QuietStep ==
    ASSUME Inv, NEW l \in Lwps,
           \/ Enter(l) \/ StopSpinning(l) \/ Lookup(l) \/ Recheck(l) \/ Block(l)
           \/ Resume(l) \/ ExitLookup(l) \/ DowngradeLookup(l)
    PROVE  Rest' /\ rw_owner' = rw_owner
<1> USE RWAssumption, SingleHolder DEF Inv, Rest, TypeOK, Labels, Places, Waits,
        BitsPresent, Contends, BitsJustified, ThreadsKnow, Goto
<1>1. CASE Enter(l)
  BY <1>1 DEF Enter
<1>2. CASE StopSpinning(l)
  BY <1>2 DEF StopSpinning
<1>3. CASE Lookup(l)
  BY <1>3 DEF Lookup, LoadOwner, IsFree
<1>4. CASE Recheck(l)
  BY <1>4, UnownedFields DEF Recheck, ForgetOwner
<1>5. CASE Block(l)
  BY <1>5 DEF Block
<1>6. CASE Resume(l)
  BY <1>6 DEF Resume, HandedTheLock
<1>7. CASE ExitLookup(l)
  BY <1>7 DEF ExitLookup, LoadOwner
<1>8. CASE DowngradeLookup(l)
  BY <1>8 DEF DowngradeLookup
<1> QED
  BY <1>1, <1>2, <1>3, <1>4, <1>5, <1>6, <1>7, <1>8

\* rw_vector_tryenter() and the compare and swap of rw_vector_enter(): the word
\* was free for what the thread asked.
LEMMA Taken ==
    ASSUME Inv, NEW l \in Lwps, TryEnter(l) \/ Acquire(l)
    PROVE  \E o \in {"reader", "writer"}, x \in BOOLEAN :
        /\ pc[l] \in {"idle", "enter"} /\ pc' = [pc EXCEPT ![l] = "held"]
        /\ op' = [op EXCEPT ![l] = o]
        /\ ~NeedWait(rw_owner, o)
        /\ o = "reader" => Fields(rw_owner', rw_owner.writer, rw_owner.count + 1, rw_owner.hw, x)
        /\ o = "writer" => Fields(rw_owner', l, rw_owner.count, rw_owner.hw, x)
        /\ x => rw_owner.ww /\ pc[l] = "idle"
        /\ ~x => ~rw_owner.ww \/ pc[l] = "enter"
        /\ UNCHANGED <<tc_mutex, readerq, writerq, owner>>
<1>1. CASE TryEnter(l)
  <2>1. PICK o \in {"reader", "writer"} :
          /\ ~NeedWait(rw_owner, o)
          /\ rw_owner' = Plus(rw_owner, l, o)
          /\ op' = [op EXCEPT ![l] = o]
    BY <1>1 DEF TryEnter
  <2>2. /\ o = "reader" => Fields(rw_owner', rw_owner.writer, rw_owner.count + 1,
                                  rw_owner.hw, rw_owner.ww)
        /\ o = "writer" => Fields(rw_owner', l, rw_owner.count, rw_owner.hw, rw_owner.ww)
    BY <2>1, PlusFields DEF Inv, TypeOK
  <2>3. rw_owner.ww \in BOOLEAN
    BY DEF Inv, TypeOK, Words
  <2>4. /\ pc[l] = "idle" /\ pc' = [pc EXCEPT ![l] = "held"]
        /\ UNCHANGED <<tc_mutex, readerq, writerq, owner>>
    BY <1>1 DEF TryEnter, Goto
  <2> QED
    BY <2>1, <2>2, <2>3, <2>4
<1>2. CASE Acquire(l)
  <2>1. op[l] \in {"reader", "writer"} /\ op' = [op EXCEPT ![l] = op[l]]
    BY <1>2 DEF Acquire, Inv, TypeOK
  <2> QED
    BY <1>2, <2>1, PlusFields, ClearFields DEF Acquire, Goto, Inv, TypeOK, Fields
<1> QED
  BY <1>1, <1>2

\* Taking the lock keeps everything but Exclusion.
LEMMA TakeStep ==
    ASSUME Inv, NEW l \in Lwps, TryEnter(l) \/ Acquire(l)
    PROVE  Rest'
  BY Taken, RWAssumption, SingleHolder DEF Inv, Rest, TypeOK, Words, Labels,
     Places, Waits, BitsPresent, Contends, BitsJustified, ThreadsKnow, NeedWait,
     IsFree, Fields

\* Setting the waiter bits: if the word is the one that was looked at it is one
\* to wait for.
LEMMA MarkStep == ASSUME Inv, NEW l \in Lwps, Mark(l) PROVE Rest'
<1>1. UNCHANGED <<readerq, writerq, op>> /\ owner' \in [Lwps -> Words]
  BY UnownedFields DEF Mark, ForgetOwner, Inv, TypeOK
<1>2. \A k \in Lwps \ {l} : owner'[k] = owner[k]
  BY DEF Mark, ForgetOwner, Inv, TypeOK
<1>3. CASE rw_owner = owner[l]
  <2>1. /\ rw_owner' = SetWait(rw_owner, op[l])
        /\ pc' = [pc EXCEPT ![l] = "block"] /\ tc_mutex' = tc_mutex
        /\ pc[l] = "mark"
    BY <1>3 DEF Mark, Goto
  <2>2. Fields(rw_owner', rw_owner.writer, rw_owner.count, TRUE,
               rw_owner.ww \/ op[l] = "writer")
    BY <2>1, SetWaitFields DEF Inv, TypeOK, Fields
  <2>3. NeedWait(rw_owner, op[l])
    BY <1>3, <2>1 DEF Inv, ThreadsKnow
  <2>4. /\ pc' = [pc EXCEPT ![l] = "block"] /\ tc_mutex' = tc_mutex
        /\ pc[l] = "mark"
    BY <2>1
  <2> USE <1>1, <1>2, <2>2, <2>3, <2>4, RWAssumption, SingleHolder
      DEF Inv, TypeOK, Words, Places, Waits, Fields
  <2>5. TypeOK' /\ Places'
    BY DEF Labels
  <2>6. BitsPresent'
    BY DEF BitsPresent, NeedWait, IsFree
  <2>7. BitsJustified'
    BY DEF BitsJustified, Contends, NeedWait
  <2>8. ThreadsKnow'
    BY DEF ThreadsKnow
  <2> QED
    BY <2>5, <2>6, <2>7, <2>8 DEF Rest
<1>4. CASE rw_owner # owner[l]
  <2>1. /\ rw_owner' = rw_owner /\ tc_mutex' = NoLwp
        /\ pc' = [pc EXCEPT ![l] = "enter"]
    BY <1>4 DEF Mark, Goto
  <2> QED
    BY <1>1, <1>2, <2>1, RWAssumption DEF Mark, Inv, Rest, TypeOK, Labels,
     Places, Waits, BitsPresent, Contends, BitsJustified, ThreadsKnow
<1> QED
  BY <1>3, <1>4

\* rw_vector_exit() up to the chain lock
LEMMA ExitStep == ASSUME Inv, NEW l \in Lwps, Exit(l) PROVE Rest'
<1> USE RWAssumption, SingleHolder DEF Inv, Rest, TypeOK, Words, Labels,
     Places, Waits, BitsPresent, Contends, BitsJustified, ThreadsKnow, Holding, IsFree, Fields
<1>1. pc[l] = "held" /\ (rw_owner.writer # NoLwp \/ rw_owner.count > 0)
  BY DEF Exit
<1>2. CASE MustHandOver(rw_owner)
  <2>1. rw_owner.hw /\ (rw_owner.writer # NoLwp \/ rw_owner.count = 1)
    BY <1>1, <1>2, MinusFields DEF MustHandOver
  <2> QED
  BY <1>1, <1>2, <2>1 DEF Exit, Goto
<1>3. CASE ~MustHandOver(rw_owner)
  <2>1. /\ pc' = [pc EXCEPT ![l] = "idle"] /\ op' = [op EXCEPT ![l] = "reader"]
        /\ UNCHANGED <<tc_mutex, readerq, writerq, owner>>
        /\ rw_owner' = Minus(rw_owner)
    BY <1>3 DEF Exit, Goto, ForgetOp
  <2>2. rw_owner.hw => rw_owner.writer = NoLwp /\ rw_owner.count > 1
    BY <1>1, <1>3, MinusFields DEF MustHandOver
  <2>3. /\ rw_owner.writer # NoLwp => Fields(rw_owner', NoLwp, rw_owner.count, rw_owner.hw, rw_owner.ww)
        /\ rw_owner.writer = NoLwp => Fields(rw_owner', NoLwp, rw_owner.count - 1, rw_owner.hw, rw_owner.ww)
    BY <1>1, <2>1, MinusFields
  <2>4. pc' = [pc EXCEPT ![l] = "idle"] /\ op' = [op EXCEPT ![l] = "reader"]
        /\ UNCHANGED <<tc_mutex, readerq, writerq, owner>>
    BY <2>1
  <2> QED
    BY <1>1, <2>2, <2>3, <2>4
<1> QED
  BY <1>2, <1>3

\* rw_downgrade() up to the chain lock, and rw_tryupgrade()
LEMMA ConvertStep ==
    ASSUME Inv, NEW l \in Lwps, Downgrade(l) \/ TryUpgrade(l)
    PROVE  Rest'
<1> USE RWAssumption, SingleHolder DEF Inv, Rest, TypeOK, Words, Labels, Places,
        Waits, BitsPresent, Contends, BitsJustified, ThreadsKnow, Holding, IsFree, Fields
<1>1. CASE Downgrade(l) /\ rw_owner.hw
  BY <1>1 DEF Downgrade, LoadOwner, Goto
<1>2. CASE Downgrade(l) /\ ~rw_owner.hw
  <2>1. /\ pc[l] = "held" /\ op[l] = "writer"
        /\ op' = [op EXCEPT ![l] = "reader"]
        /\ UNCHANGED <<tc_mutex, readerq, writerq, pc, owner>>
    BY <1>2 DEF Downgrade
  <2>2. rw_owner' = Word(NoLwp, 1, FALSE, FALSE)
    BY <1>2 DEF Downgrade
  <2>3. Fields(rw_owner', NoLwp, 1, FALSE, FALSE)
    BY <2>2 DEF Word
  <2> QED
    BY <1>2, <2>1, <2>3
<1>3. CASE TryUpgrade(l)
  <2>1. /\ pc[l] = "held" /\ op[l] = "reader" /\ rw_owner.count = 1
        /\ op' = [op EXCEPT ![l] = "writer"]
        /\ UNCHANGED <<tc_mutex, readerq, writerq, pc, owner>>
    BY <1>3 DEF TryUpgrade, SoleReader
  <2>2. Fields(rw_owner', l, 0, rw_owner.hw, rw_owner.ww)
    BY <1>3 DEF TryUpgrade
  <2> QED
    BY <2>1, <2>2
<1> QED
  BY <1>1, <1>2, <1>3

-----------------------------------------------------------------------------
(* Handing the lock over *)

\* What the length of TS_WRITER_Q tells.
LEMMA WriterqCount ==
    ASSUME TypeOK
    PROVE  /\ WritersKeepWaiting(Cardinality(writerq)) =
                IF writerq = {} THEN FALSE ELSE TRUE
           /\ \A w \in writerq : WritersKeepWaiting(Cardinality(writerq) - 1) =
                IF writerq \ {w} = {} THEN FALSE ELSE TRUE
<1>1. IsFiniteSet(writerq)
  BY RWAssumption, FS_Subset DEF TypeOK
<1>2. Cardinality(writerq) \in Nat /\ (Cardinality(writerq) = 0 <=> writerq = {})
  BY <1>1, FS_CardinalityType, FS_EmptySet
<1>3. ASSUME NEW w \in writerq
      PROVE  Cardinality(writerq) - 1 > 0 <=> writerq \ {w} # {}
  <2>1. /\ IsFiniteSet(writerq \ {w})
        /\ Cardinality(writerq \ {w}) = Cardinality(writerq) - 1
    BY <1>1, <1>3, FS_RemoveElement
  <2>2. /\ Cardinality(writerq \ {w}) \in Nat
        /\ Cardinality(writerq \ {w}) = 0 <=> writerq \ {w} = {}
    BY <2>1, FS_CardinalityType, FS_EmptySet
  <2> QED
    BY <1>2, <2>1, <2>2
<1>4. Cardinality(writerq) > 0 <=> writerq # {}
  BY <1>2
<1>5. \A n : WritersKeepWaiting(n) \in BOOLEAN /\ (WritersKeepWaiting(n) <=> n > 0)
  BY DEF WritersKeepWaiting
<1>6. WritersKeepWaiting(Cardinality(writerq)) = IF writerq = {} THEN FALSE ELSE TRUE
  BY <1>4, <1>5
<1>7. ASSUME NEW w \in writerq
      PROVE  WritersKeepWaiting(Cardinality(writerq) - 1) =
                IF writerq \ {w} = {} THEN FALSE ELSE TRUE
  BY <1>3, <1>5
<1> QED
  BY <1>6, <1>7

\* The word and the threads after the lock has been given to the blocked readers
LEMMA ReadersGet ==
    ASSUME TypeOK, NEW l \in Lwps, NEW label, NEW extra \in Nat,
           HandToReaders(l, label, extra)
    PROVE  /\ rw_owner' \in Words /\ rw_owner'.writer = NoLwp
           /\ Cardinality(readerq) \in Nat
           /\ rw_owner'.count = Cardinality(readerq) + extra
           /\ rw_owner'.hw <=> writerq # {}
           /\ rw_owner'.ww <=> writerq # {}
           /\ readerq' = {} /\ writerq' = writerq
           /\ pc' = [k \in Lwps |-> IF k = l THEN label
                                    ELSE IF k \in readerq THEN "woken" ELSE pc[k]]
<1>1. Cardinality(readerq) \in Nat
  BY RWAssumption, FS_Subset, FS_CardinalityType DEF TypeOK
<1>2. rw_owner' = IF writerq # {} THEN Word(NoLwp, Cardinality(readerq) + extra, TRUE, TRUE)
                                  ELSE Word(NoLwp, Cardinality(readerq) + extra, FALSE, FALSE)
  BY WriterqCount DEF HandToReaders
<1>3. /\ readerq' = {} /\ writerq' = writerq
      /\ pc' = [k \in Lwps |-> IF k = l THEN label
                               ELSE IF k \in readerq THEN "woken" ELSE pc[k]]
  BY DEF HandToReaders, Wakeup
<1>4. CASE writerq = {}
  BY <1>1, <1>2, <1>3, <1>4 DEF Word, Words
<1>5. CASE writerq # {}
  BY <1>1, <1>2, <1>3, <1>5 DEF Word, Words
<1> QED
  BY <1>4, <1>5

\* ... and after it has been given to a writer
LEMMA WriterGets ==
    ASSUME TypeOK, NEW l \in Lwps, HandToWriter(l)
    PROVE  \E w \in writerq :
             /\ rw_owner' \in Words /\ rw_owner'.writer = w /\ rw_owner'.count = 0
             /\ rw_owner'.hw /\ (rw_owner'.ww <=> writerq' # {})
             /\ writerq' = writerq \ {w} /\ readerq' = readerq
             /\ pc' = [k \in Lwps |-> IF k = l THEN "idle"
                                      ELSE IF k = w THEN "woken" ELSE pc[k]]
<1>1. PICK w \in writerq :
        /\ rw_owner' = Word(w, 0, TRUE, WritersKeepWaiting(Cardinality(writerq) - 1))
        /\ writerq' = writerq \ {w}
        /\ Wakeup(l, "idle", {w})
        /\ readerq' = readerq
  BY DEF HandToWriter
<1>2. rw_owner' = IF writerq' # {} THEN Word(w, 0, TRUE, TRUE) ELSE Word(w, 0, TRUE, FALSE)
  BY <1>1, WriterqCount
<1>3. pc' = [k \in Lwps |-> IF k = l THEN "idle" ELSE IF k = w THEN "woken" ELSE pc[k]]
  BY <1>1 DEF Wakeup
<1>4. /\ rw_owner' \in Words /\ rw_owner'.writer = w /\ rw_owner'.count = 0
      /\ rw_owner'.hw /\ (rw_owner'.ww <=> writerq' # {})
  <2>1. CASE writerq' = {}
    BY <1>2, <2>1 DEF Word, Words, TypeOK
  <2>2. CASE writerq' # {}
    BY <1>2, <2>2 DEF Word, Words, TypeOK
  <2> QED
    BY <2>1, <2>2
<1> QED
  BY <1>1, <1>3, <1>4

\* The thread that holds the chain lock to hand the lock over finds sleepers,
\* and it is the only holder.
LEMMA HandoverKnows ==
    ASSUME Inv, NEW l \in Lwps, pc[l] \in {"exit_swap", "dg_swap"}
    PROVE  /\ readerq \cup writerq # {}
           /\ op[l] = "reader" => writerq # {}
           /\ writerq # {} => rw_owner.ww
           /\ rw_owner.hw
           /\ \A k \in Lwps \ {l} :
                /\ pc[k] \in {"idle", "enter", "lookup", "asleep", "woken"}
                /\ pc[k] = "woken" => op[k] = "writer"
           /\ op[l] = "reader" => rw_owner.count = 1 /\ rw_owner.writer = NoLwp
           /\ op[l] = "writer" => rw_owner.count = 0 /\ rw_owner.writer = l
<1> USE RWAssumption, SingleHolder DEF Inv, TypeOK, Words, Labels, Places, Waits,
        BitsPresent, BitsJustified, ThreadsKnow, Holding, IsFree
<1>1. Holding(l) /\ op[l] \in {"reader", "writer"} /\ tc_mutex = l
  OBVIOUS
<1>2. rw_owner.hw
  OBVIOUS
<1>3. /\ op[l] = "reader" => rw_owner.count = 1 /\ rw_owner.writer = NoLwp
      /\ op[l] = "writer" => rw_owner.count = 0 /\ rw_owner.writer = l
  BY <1>1
<1>4. ASSUME NEW k \in Lwps \ {l}
      PROVE  /\ pc[k] \in {"idle", "enter", "lookup", "asleep", "woken"}
             /\ pc[k] = "woken" => op[k] = "writer"
  <2>1. ~Holding(k)
    BY <1>1, <1>3
  <2>2. pc[k] \notin {"recheck", "mark", "block"}
    BY <1>1
  <2> QED
    BY <2>1, <2>2
<1>5. readerq \cup writerq # {}
  BY <1>2, <1>4
<1>6. op[l] = "reader" => writerq # {}
  BY <1>2, <1>3, <1>4 DEF Contends
<1>7. writerq # {} => rw_owner.ww
  OBVIOUS
<1> QED
  BY <1>2, <1>3, <1>4, <1>5, <1>6, <1>7

\* rw_vector_exit() with the chain lock: the word is replaced and the threads it
\* now names or counts are woken.
LEMMA ExitSwapStep == ASSUME Inv, NEW l \in Lwps, ExitSwap(l) PROVE Rest'
<1> USE RWAssumption DEF Inv
<1>1. /\ pc[l] = "exit_swap" /\ tc_mutex' = NoLwp
      /\ op' = [op EXCEPT ![l] = "reader"]
      /\ owner' = [owner EXCEPT ![l] = Unowned]
  BY DEF ExitSwap, ForgetOwner, ForgetOp
<1>2. owner' \in [Lwps -> Words]
  BY <1>1, UnownedFields DEF TypeOK
<1> DEFINE Know ==
           /\ readerq \cup writerq # {}
           /\ op[l] = "reader" => writerq # {}
           /\ \A k \in Lwps \ {l} :
                /\ pc[k] \in {"idle", "enter", "lookup", "asleep", "woken"}
                /\ pc[k] = "woken" => op[k] = "writer"
           /\ rw_owner.writer \in {NoLwp, l}
<1>3. Know
  BY <1>1, HandoverKnows DEF TypeOK
<1> USE DEF Rest, TypeOK, Words, Labels, Places, Waits, BitsPresent, Contends,
            BitsJustified, ThreadsKnow, IsFree, Fields
<1>4. ASSUME readerq # {}, op[l] = "reader", HandToWriter(l) PROVE Rest'
  BY <1>1, <1>2, <1>3, <1>4, WriterGets
<1>5. ASSUME readerq = {}, WakeAllWriters(l) PROVE Rest'
  <2>1. rw_owner' = Word(NoLwp, 0, FALSE, TRUE)
    BY <1>5 DEF WakeAllWriters
  <2>2. Fields(rw_owner', NoLwp, 0, FALSE, TRUE)
    BY <2>1 DEF Word
  <2>3. /\ writerq' = {} /\ readerq' = readerq
        /\ pc' = [k \in Lwps |-> IF k = l THEN "idle"
                          ELSE IF k \in writerq THEN "woken" ELSE pc[k]]
    BY <1>5 DEF WakeAllWriters, Wakeup
  <2> QED
    BY <1>1, <1>2, <1>3, <1>5, <2>2, <2>3, SMTT(30)
<1>6. ASSUME readerq # {}, op[l] = "writer", HandToReaders(l, "idle", 0) PROVE Rest'
  <2>1. rw_owner'.count > 0
    BY <1>6, ReadersGet, FS_EmptySet, FS_Subset
  <2> USE <1>1, <1>2, <1>3, <1>6, <2>1, ReadersGet
  <2>2. TypeOK' /\ Places'
    OBVIOUS
  <2>3. BitsPresent'
    OBVIOUS
  <2>4. BitsJustified'
    OBVIOUS
  <2>5. ThreadsKnow'
    OBVIOUS
  <2> QED
    BY <2>2, <2>3, <2>4, <2>5
<1> QED
  BY <1>4, <1>5, <1>6 DEF ExitSwap

\* rw_downgrade() with the chain lock: the word is as it was and the readers get
\* the lock too, or everything stays and the thread goes round.
LEMMA DowngradeSwapStep == ASSUME Inv, NEW l \in Lwps, DowngradeSwap(l) PROVE Rest'
<1> USE RWAssumption DEF Inv
<1>1. pc[l] = "dg_swap" /\ tc_mutex' = NoLwp
  BY DEF DowngradeSwap
<1> DEFINE Know ==
           /\ op[l] = "writer"
           /\ readerq \cup writerq # {}
           /\ \A k \in Lwps \ {l} :
                /\ pc[k] \in {"idle", "enter", "lookup", "asleep", "woken"}
                /\ pc[k] = "woken" => op[k] = "writer"
           /\ rw_owner.writer = l
<1>2. Know
  BY <1>1, HandoverKnows DEF TypeOK, ThreadsKnow
<1>3. CASE rw_owner # owner[l]
  <2>1. /\ owner' = [owner EXCEPT ![l] = rw_owner]
        /\ pc' = [pc EXCEPT ![l] = "dg_lookup"]
        /\ UNCHANGED <<rw_owner, readerq, writerq, op>>
    BY <1>3 DEF DowngradeSwap, LoadOwner, Goto
  <2> QED
    BY <1>1, <2>1 DEF Rest, TypeOK, Labels, Places, Waits, BitsPresent, Contends,
       BitsJustified, ThreadsKnow
<1>4. ASSUME rw_owner = owner[l]
      PROVE  /\ op' = [op EXCEPT ![l] = "reader"]
             /\ owner' \in [Lwps -> Words]
             /\ \A k \in Lwps \ {l} : owner'[k] = owner[k]
  BY <1>4, UnownedFields DEF DowngradeSwap, ForgetOwner, TypeOK
<1>5. ASSUME rw_owner = owner[l], readerq = {} PROVE Rest'
  <2>1. rw_owner' = Word(NoLwp, 1, TRUE, TRUE)
    BY <1>5 DEF DowngradeSwap
  <2>2. Fields(rw_owner', NoLwp, 1, TRUE, TRUE)
    BY <2>1 DEF Word, Words, Fields
  <2>3. pc' = [pc EXCEPT ![l] = "held"] /\ UNCHANGED <<readerq, writerq>>
    BY <1>5 DEF DowngradeSwap, Goto
  <2> QED
    BY <1>1, <1>2, <1>4, <1>5, <2>2, <2>3 DEF Rest, TypeOK, Words, Labels, Places,
       Waits, BitsPresent, Contends, BitsJustified, ThreadsKnow, IsFree, Fields
<1>6. ASSUME rw_owner = owner[l], readerq # {} PROVE Rest'
  <2>1. HandToReaders(l, "held", 1)
    BY <1>6 DEF DowngradeSwap
  <2>2. /\ rw_owner' \in Words /\ rw_owner'.writer = NoLwp /\ rw_owner'.count > 0
        /\ rw_owner'.hw <=> writerq # {}
        /\ rw_owner'.ww <=> writerq # {}
        /\ readerq' = {} /\ writerq' = writerq
        /\ pc' = [k \in Lwps |-> IF k = l THEN "held"
                                 ELSE IF k \in readerq THEN "woken" ELSE pc[k]]
    BY <2>1, ReadersGet
  <2> USE <1>1, <1>2, <1>4, <1>6, <2>2 DEF TypeOK, Words, Places, Waits
  <2>3. TypeOK'
    BY DEF Labels
  <2>4. Places'
    OBVIOUS
  <2>5. BitsPresent'
    BY DEF BitsPresent, IsFree
  <2>6. BitsJustified'
    BY DEF BitsJustified, Contends
  <2>7. ThreadsKnow'
    BY DEF ThreadsKnow
  <2> QED
    BY <2>3, <2>4, <2>5, <2>6, <2>7 DEF Rest
<1> QED
  BY <1>3, <1>5, <1>6

-----------------------------------------------------------------------------
(* Exclusion *)

\* Nobody comes to hold the lock and nobody ceases to.
LEMMA SameHolders ==
    ASSUME Exclusion,
           rw_owner'.writer = rw_owner.writer, rw_owner'.count = rw_owner.count,
           \A k \in Lwps : /\ Holding(k)' <=> Holding(k)
                           /\ Holding(k) => op'[k] = op[k]
    PROVE  Exclusion'
<1>1. ReadHolders' = ReadHolders /\ WriteHolders' = WriteHolders
  BY DEF ReadHolders, WriteHolders
<1> QED
  BY <1>1 DEF Exclusion

\* One thread and no other becomes a reader.
LEMMA ReaderComes ==
    ASSUME TypeOK, Exclusion, NEW l \in Lwps, l \notin ReadHolders, l \notin WriteHolders,
           rw_owner.writer = NoLwp,
           rw_owner'.writer = NoLwp, rw_owner'.count = rw_owner.count + 1,
           Holding(l)', op'[l] = "reader",
           \A k \in Lwps \ {l} : /\ Holding(k)' <=> Holding(k)
                                 /\ Holding(k) => op'[k] = op[k]
    PROVE  Exclusion'
<1>1. ReadHolders' = ReadHolders \cup {l} /\ WriteHolders' = WriteHolders
  BY DEF ReadHolders, WriteHolders
<1>2. Cardinality(ReadHolders') = Cardinality(ReadHolders) + 1
  BY <1>1, HolderFacts, FS_AddElement
<1> QED
  BY <1>1, <1>2, HolderFacts DEF Exclusion

\* One reader and no other ceases to be one.
LEMMA ReaderGoes ==
    ASSUME TypeOK, Exclusion, NEW l \in ReadHolders,
           rw_owner'.writer = NoLwp, rw_owner'.count = rw_owner.count - 1,
           ~Holding(l)',
           \A k \in Lwps \ {l} : /\ Holding(k)' <=> Holding(k)
                                 /\ Holding(k) => op'[k] = op[k]
    PROVE  Exclusion'
<1>1. ReadHolders' = ReadHolders \ {l} /\ WriteHolders' = WriteHolders
  BY DEF ReadHolders, WriteHolders
<1>2. Cardinality(ReadHolders') = Cardinality(ReadHolders) - 1
  BY <1>1, HolderFacts, FS_RemoveElement
<1>3. l \in Lwps
  BY DEF ReadHolders
<1> QED
  BY <1>1, <1>2, <1>3, HolderFacts DEF Exclusion

\* There are no readers, and exactly one writer or none.
LEMMA NoReaders ==
    ASSUME rw_owner'.count = 0,
           \A k \in Lwps : /\ Holding(k)' => op'[k] = "writer"
                           /\ Holding(k)' <=> rw_owner'.writer = k,
           rw_owner'.writer \in Lwps \cup {NoLwp}
    PROVE  Exclusion'
<1>1. ReadHolders' = {}
  BY DEF ReadHolders
<1>2. WriteHolders' = IF rw_owner'.writer = NoLwp THEN {} ELSE {rw_owner'.writer}
  BY RWAssumption DEF WriteHolders
<1> QED
  BY <1>1, <1>2, FS_EmptySet DEF Exclusion

\* The readers are these, and there is no writer.
LEMMA OnlyReaders ==
    ASSUME NEW R \in SUBSET Lwps,
           rw_owner'.count = Cardinality(R), rw_owner'.writer = NoLwp,
           \A k \in Lwps : /\ Holding(k)' => op'[k] = "reader"
                           /\ Holding(k)' <=> k \in R
    PROVE  Exclusion'
<1>1. ReadHolders' = R /\ WriteHolders' = {}
  BY DEF ReadHolders, WriteHolders
<1> QED
  BY <1>1 DEF Exclusion

\* Steps that leave the word alone leave the holders alone.
LEMMA QuietExclusion ==
    ASSUME Inv, NEW l \in Lwps,
           \/ Enter(l) \/ StopSpinning(l) \/ Lookup(l) \/ Recheck(l) \/ Block(l)
           \/ Resume(l) \/ ExitLookup(l) \/ DowngradeLookup(l)
    PROVE  Exclusion'
<1>1. rw_owner' = rw_owner
  BY QuietStep
<1>2. \A k \in Lwps : /\ Holding(k)' <=> Holding(k)
                      /\ Holding(k) => op'[k] = op[k]
  <2> USE DEF Inv, TypeOK, Labels, Goto, Holding
  <2>1. CASE Enter(l)
    BY <2>1 DEF Enter
  <2>2. CASE StopSpinning(l) \/ Lookup(l) \/ Recheck(l) \/ Block(l)
    BY <2>2 DEF StopSpinning, Lookup, Recheck, Block
  <2>3. CASE Resume(l)
    BY <2>3 DEF Resume, HandedTheLock
  <2>4. CASE ExitLookup(l) \/ DowngradeLookup(l)
    BY <2>4 DEF ExitLookup, DowngradeLookup
  <2> QED
    BY <2>1, <2>2, <2>3, <2>4
<1> QED
  BY <1>1, <1>2, SameHolders DEF Inv

\* Taking the lock: the taker is a reader among readers, or the only holder.
LEMMA TakeExclusion ==
    ASSUME Inv, NEW l \in Lwps, TryEnter(l) \/ Acquire(l)
    PROVE  Exclusion'
<1>1. PICK o \in {"reader", "writer"} :
        /\ pc[l] \in {"idle", "enter"} /\ pc' = [pc EXCEPT ![l] = "held"]
        /\ op' = [op EXCEPT ![l] = o]
        /\ ~NeedWait(rw_owner, o)
        /\ o = "reader" => rw_owner'.writer = rw_owner.writer /\ rw_owner'.count = rw_owner.count + 1
        /\ o = "writer" => rw_owner'.writer = l /\ rw_owner'.count = rw_owner.count
  BY Taken DEF Fields
<1> USE RWAssumption, SingleHolder DEF Inv, TypeOK, Words, Labels, Holding
<1>2. CASE o = "reader"
  <2>1. /\ rw_owner.writer = NoLwp
        /\ l \notin ReadHolders /\ l \notin WriteHolders
    BY <1>1, <1>2 DEF NeedWait, ReadHolders, WriteHolders
  <2>2. Holding(l)' /\ op'[l] = "reader"
    BY <1>1, <1>2
  <2>3. \A k \in Lwps \ {l} : /\ Holding(k)' <=> Holding(k)
                              /\ Holding(k) => op'[k] = op[k]
    BY <1>1, <1>2
  <2> QED
    BY <1>1, <1>2, <2>1, <2>2, <2>3, ReaderComes
<1>3. CASE o = "writer"
  <2>1. rw_owner.writer = NoLwp /\ rw_owner.count = 0
    BY <1>1, <1>3 DEF NeedWait
  <2>2. \A k \in Lwps : ~Holding(k)
    BY <2>1
  <2>3. \A k \in Lwps : /\ Holding(k)' => op'[k] = "writer"
                        /\ Holding(k)' <=> rw_owner'.writer = k
    BY <1>1, <1>3, <2>2
  <2> QED
    BY <1>1, <1>3, <2>1, <2>3, NoReaders
<1> QED
  BY <1>2, <1>3

\* Setting the waiter bits changes no holder.
LEMMA MarkExclusion == ASSUME Inv, NEW l \in Lwps, Mark(l) PROVE Exclusion'
<1>1. rw_owner'.writer = rw_owner.writer /\ rw_owner'.count = rw_owner.count
  BY SetWaitFields DEF Mark, Inv, TypeOK, Fields
<1>2. pc[l] = "mark" /\ op' = op /\ \E x \in {"enter", "block"} : pc' = [pc EXCEPT ![l] = x]
  BY DEF Mark, Goto
<1>3. \A k \in Lwps : (Holding(k)' <=> Holding(k)) /\ op'[k] = op[k]
  BY <1>1, <1>2 DEF Holding, Inv, TypeOK
<1> QED
  BY <1>1, <1>3, SameHolders DEF Inv

\* Releasing without a handover takes back what the thread held.
LEMMA ExitExclusion == ASSUME Inv, NEW l \in Lwps, Exit(l) PROVE Exclusion'
<1> USE RWAssumption, SingleHolder DEF Inv, TypeOK, Words, Labels, Holding
<1>1. /\ pc[l] = "held" /\ op[l] \in {"reader", "writer"}
      /\ rw_owner.writer # NoLwp \/ rw_owner.count > 0
  BY DEF Exit
<1>2. CASE MustHandOver(rw_owner)
  <2>1. rw_owner' = rw_owner /\ op' = op /\ pc' = [pc EXCEPT ![l] = "exit_lookup"]
    BY <1>2 DEF Exit, Goto
  <2>2. \A k \in Lwps : (Holding(k)' <=> Holding(k)) /\ op'[k] = op[k]
    BY <1>1, <2>1
  <2> QED
    BY <2>1, <2>2, SameHolders
<1>3. CASE ~MustHandOver(rw_owner)
  <2>1. /\ pc' = [pc EXCEPT ![l] = "idle"] /\ op' = [op EXCEPT ![l] = "reader"]
        /\ rw_owner' = Minus(rw_owner)
    BY <1>3 DEF Exit, Goto, ForgetOp
  <2>2. /\ rw_owner'.writer = NoLwp
        /\ rw_owner.writer # NoLwp => rw_owner'.count = rw_owner.count
        /\ rw_owner.writer = NoLwp => rw_owner'.count = rw_owner.count - 1
    BY <1>1, <2>1, MinusFields DEF Fields
  <2>3. pc' = [pc EXCEPT ![l] = "idle"] /\ op' = [op EXCEPT ![l] = "reader"]
    BY <2>1
  <2>4. CASE op[l] = "reader"
    <3>1. l \in ReadHolders /\ rw_owner.writer = NoLwp
      BY <1>1, <2>4 DEF ReadHolders
    <3>2. ~Holding(l)'
      BY <2>3
    <3>3. \A k \in Lwps \ {l} : /\ Holding(k)' <=> Holding(k)
                                /\ Holding(k) => op'[k] = op[k]
      BY <2>2, <2>3, <3>1
    <3> QED
      BY <2>2, <3>1, <3>2, <3>3, ReaderGoes
  <2>5. CASE op[l] = "writer"
    <3>1. rw_owner.writer = l /\ rw_owner.count = 0
      BY <1>1, <2>5
    <3>2. \A k \in Lwps : ~Holding(k)'
      BY <1>1, <2>2, <2>3, <3>1
    <3> QED
      BY <2>2, <3>1, <3>2, NoReaders
  <2> QED
    BY <1>1, <2>4, <2>5
<1> QED
  BY <1>2, <1>3

\* The only writer becomes the only reader, or the other way round.
LEMMA ConvertExclusion ==
    ASSUME Inv, NEW l \in Lwps, Downgrade(l) \/ TryUpgrade(l)
    PROVE  Exclusion'
<1> USE RWAssumption, SingleHolder DEF Inv, TypeOK, Words, Labels, Holding
<1>1. CASE Downgrade(l) /\ rw_owner.hw
  <2>1. /\ rw_owner' = rw_owner /\ op' = op
        /\ pc[l] = "held" /\ pc' = [pc EXCEPT ![l] = "dg_lookup"]
    BY <1>1 DEF Downgrade, Goto
  <2>2. \A k \in Lwps : (Holding(k)' <=> Holding(k)) /\ op'[k] = op[k]
    BY <2>1
  <2> QED
    BY <2>1, <2>2, SameHolders
<1>2. CASE Downgrade(l) /\ ~rw_owner.hw
  <2>1. /\ pc[l] = "held" /\ op[l] = "writer"
        /\ op' = [op EXCEPT ![l] = "reader"] /\ pc' = pc
    BY <1>2 DEF Downgrade
  <2>2. rw_owner'.writer = NoLwp /\ rw_owner'.count = 1
    BY <1>2 DEF Downgrade, Word
  <2>3. rw_owner.writer = l /\ rw_owner.count = 0
    BY <2>1
  <2>4. \A k \in Lwps : /\ Holding(k)' => op'[k] = "reader"
                        /\ Holding(k)' <=> k \in {l}
    BY <2>1, <2>2, <2>3
  <2>5. Cardinality({l}) = 1
    BY FS_Singleton
  <2> QED
    BY <2>2, <2>4, <2>5, OnlyReaders
<1>3. CASE TryUpgrade(l)
  <2>1. /\ pc[l] = "held" /\ op[l] = "reader" /\ rw_owner.count = 1
        /\ op' = [op EXCEPT ![l] = "writer"] /\ pc' = pc
    BY <1>3 DEF TryUpgrade, SoleReader
  <2>2. rw_owner'.writer = l /\ rw_owner'.count = 0
    BY <1>3 DEF TryUpgrade
  <2>3. \A k \in Lwps \ {l} : ~Holding(k)
    BY <2>1
  <2>4. \A k \in Lwps : /\ Holding(k)' => op'[k] = "writer"
                        /\ Holding(k)' <=> rw_owner'.writer = k
    BY <2>1, <2>2, <2>3
  <2> QED
    BY <2>2, <2>4, NoReaders
<1> QED
  BY <1>1, <1>2, <1>3

\* The holder gives up the lock and those it woke hold it, with it or alone.
LEMMA HandoverExclusion ==
    ASSUME Inv, NEW l \in Lwps, ExitSwap(l) \/ DowngradeSwap(l)
    PROVE  Exclusion'
<1> USE RWAssumption DEF Inv, TypeOK, Labels, Places, Holding
<1>1. /\ pc[l] \in {"exit_swap", "dg_swap"}
      /\ op' = [op EXCEPT ![l] = "reader"] \/ op' = op
  BY DEF ExitSwap, DowngradeSwap, ForgetOp
<1>2. \A k \in Lwps \ {l} : /\ pc[k] \in {"idle", "enter", "lookup", "asleep", "woken"}
                            /\ pc[k] = "woken" => op[k] = "writer"
  BY <1>1, HandoverKnows
<1>3. rw_owner.writer \in {NoLwp, l}
  BY <1>1, HandoverKnows
<1>4. ASSUME ExitSwap(l), HandToWriter(l) PROVE Exclusion'
  <2>1. PICK w \in writerq :
          /\ rw_owner'.writer = w /\ rw_owner'.count = 0
          /\ pc' = [k \in Lwps |-> IF k = l THEN "idle"
                                   ELSE IF k = w THEN "woken" ELSE pc[k]]
    BY <1>4, WriterGets
  <2>2. \A k \in Lwps : /\ Holding(k)' => op'[k] = "writer"
                        /\ Holding(k)' <=> rw_owner'.writer = k
    BY <1>1, <1>2, <2>1
  <2> QED
    BY <2>1, <2>2, NoReaders
<1>5. ASSUME ExitSwap(l), WakeAllWriters(l) PROVE Exclusion'
  <2>1. rw_owner'.writer = NoLwp /\ rw_owner'.count = 0
    BY <1>5 DEF WakeAllWriters, Word
  <2>2. pc' = [k \in Lwps |-> IF k = l THEN "idle"
                              ELSE IF k \in writerq THEN "woken" ELSE pc[k]]
    BY <1>5 DEF WakeAllWriters, Wakeup
  <2>3. \A k \in Lwps : ~Holding(k)'
    BY <1>1, <1>2, <2>1, <2>2
  <2> QED
    BY <2>1, <2>3, NoReaders
<1>6. ASSUME ExitSwap(l), HandToReaders(l, "idle", 0) PROVE Exclusion'
  <2>1. /\ rw_owner'.writer = NoLwp /\ rw_owner'.count = Cardinality(readerq)
        /\ pc' = [k \in Lwps |-> IF k = l THEN "idle"
                                 ELSE IF k \in readerq THEN "woken" ELSE pc[k]]
    BY <1>6, ReadersGet
  <2>2. \A k \in Lwps : /\ Holding(k)' => op'[k] = "reader"
                        /\ Holding(k)' <=> k \in readerq
    BY <1>1, <1>2, <2>1
  <2> QED
    BY <2>1, <2>2, OnlyReaders
<1>7. ASSUME DowngradeSwap(l), rw_owner # owner[l] PROVE Exclusion'
  <2>1. /\ pc[l] = "dg_swap" /\ pc' = [pc EXCEPT ![l] = "dg_lookup"]
        /\ op' = op /\ rw_owner' = rw_owner
    BY <1>7 DEF DowngradeSwap, Goto
  <2>2. \A k \in Lwps : (Holding(k)' <=> Holding(k)) /\ op'[k] = op[k]
    BY <2>1
  <2> QED
    BY <2>1, <2>2, SameHolders
<1>8. ASSUME DowngradeSwap(l), rw_owner = owner[l], readerq = {} PROVE Exclusion'
  <2>1. rw_owner'.writer = NoLwp /\ rw_owner'.count = 1
    BY <1>8 DEF DowngradeSwap, Word
  <2>2. /\ op' = [op EXCEPT ![l] = "reader"]
        /\ pc' = [pc EXCEPT ![l] = "held"]
    BY <1>8 DEF DowngradeSwap, Goto
  <2>3. \A k \in Lwps : /\ Holding(k)' => op'[k] = "reader"
                        /\ Holding(k)' <=> k \in {l}
    BY <1>2, <2>1, <2>2
  <2>4. Cardinality({l}) = 1
    BY FS_Singleton
  <2> QED
    BY <2>1, <2>3, <2>4, OnlyReaders
<1>9. ASSUME DowngradeSwap(l), rw_owner = owner[l], readerq # {} PROVE Exclusion'
  <2>1. HandToReaders(l, "held", 1) /\ op' = [op EXCEPT ![l] = "reader"]
    BY <1>9 DEF DowngradeSwap
  <2>2. /\ rw_owner'.writer = NoLwp /\ rw_owner'.count = Cardinality(readerq) + 1
        /\ pc' = [k \in Lwps |-> IF k = l THEN "held"
                                 ELSE IF k \in readerq THEN "woken" ELSE pc[k]]
    BY <2>1, ReadersGet
  <2>3. \A k \in Lwps : /\ Holding(k)' => op'[k] = "reader"
                        /\ Holding(k)' <=> k \in readerq \cup {l}
    BY <1>2, <2>1, <2>2
  <2>4. Cardinality(readerq \cup {l}) = Cardinality(readerq) + 1
    <3>1. IsFiniteSet(readerq) /\ l \notin readerq
      BY <1>1, FS_Subset
    <3> QED
      BY <3>1, FS_AddElement
  <2> QED
    BY <2>2, <2>3, <2>4, OnlyReaders
<1> QED
  BY <1>4, <1>5, <1>6, <1>7, <1>8, <1>9 DEF ExitSwap

-----------------------------------------------------------------------------
\* A lock that rw_init() has made satisfies the invariant.
LEMMA InitInv == Init => Inv
<1> SUFFICES ASSUME Init PROVE Inv
  OBVIOUS
<1>1. Fields(rw_owner, NoLwp, 0, FALSE, FALSE)
  BY DEF Init, Unowned, Word, Words, Fields
<1>2. pc = [l \in Lwps |-> "idle"] /\ op = [l \in Lwps |-> "reader"]
  BY DEF Init
<1>3. TypeOK
  BY <1>1, UnownedFields DEF Init, TypeOK, Labels, Fields
<1>4. Places
  BY RWAssumption DEF Init, Places
<1>5. ReadHolders = {} /\ WriteHolders = {}
  BY <1>2 DEF ReadHolders, WriteHolders, Holding
<1>6. Exclusion
  BY <1>1, <1>5, FS_EmptySet DEF Exclusion, Fields
<1>7. BitsPresent /\ BitsJustified /\ ThreadsKnow
  BY <1>1, <1>2 DEF BitsPresent, BitsJustified, ThreadsKnow, Waits, Fields
<1> QED
  BY <1>3, <1>4, <1>6, <1>7 DEF Inv

\* Every step preserves the invariant.
LEMMA NextInv == Inv /\ [Next]_vars => Inv'
<1> SUFFICES ASSUME Inv, [Next]_vars PROVE Inv'
  OBVIOUS
<1>1. ASSUME NEW l \in Lwps,
             \/ Enter(l) \/ TryEnter(l) \/ Exit(l) \/ Downgrade(l) \/ TryUpgrade(l)
             \/ Step(l)
      PROVE  Rest' /\ Exclusion'
  <2>1. CASE \/ Enter(l) \/ StopSpinning(l) \/ Lookup(l) \/ Recheck(l) \/ Block(l)
             \/ Resume(l) \/ ExitLookup(l) \/ DowngradeLookup(l)
    BY <2>1, QuietStep, QuietExclusion
  <2>2. CASE TryEnter(l) \/ Acquire(l)
    BY <2>2, TakeStep, TakeExclusion
  <2>3. CASE Mark(l)
    BY <2>3, MarkStep, MarkExclusion
  <2>4. CASE Exit(l)
    BY <2>4, ExitStep, ExitExclusion
  <2>5. CASE Downgrade(l) \/ TryUpgrade(l)
    BY <2>5, ConvertStep, ConvertExclusion
  <2>6. CASE ExitSwap(l) \/ DowngradeSwap(l)
    BY <2>6, ExitSwapStep, DowngradeSwapStep, HandoverExclusion
  <2> QED
    BY <1>1, <2>1, <2>2, <2>3, <2>4, <2>5, <2>6 DEF Step
<1>2. CASE UNCHANGED vars
  <2>1. Exclusion'
    BY <1>2 DEF vars, Inv, Exclusion, ReadHolders, WriteHolders, Holding
  <2> QED
    BY <1>2, <2>1 DEF vars, Inv, TypeOK, Places, BitsPresent, BitsJustified,
       Contends, ThreadsKnow, Waits
<1> QED
  BY <1>1, <1>2 DEF Next, Inv, Rest

\* The inductive invariant of the reader/writer lock.
THEOREM RWLockInv == Spec => []Inv
<1> QED
  BY InitInv, NextInv, PTL DEF Spec

\* Readers and writers exclude each other and the word is exact, for any number
\* of threads, whoever hands the lock to whom.
THEOREM RWLockExclusion == Spec => []Exclusion
<1>1. Inv => Exclusion
  BY DEF Inv
<1> QED
  BY <1>1, RWLockInv, PTL

\* A thread that sleeps on the turnstile is in the waiter bits, and somebody is
\* left to wake it.
THEOREM RWLockSleepers == Spec => []SleepersAreRemembered
<1>1. Inv => SleepersAreRemembered
  <2> SUFFICES ASSUME Inv, Sleepers # {}
               PROVE  /\ rw_owner.hw
                      /\ writerq # {} => rw_owner.ww /\ ~IsFree(rw_owner)
                      /\ \/ ~IsFree(rw_owner)
                         \/ \E l \in Lwps :
                              /\ op[l] = "writer"
                              /\ pc[l] \in {"woken", "enter", "lookup", "recheck", "mark"}
    BY DEF SleepersAreRemembered
  <2> QED
    BY DEF Inv, TypeOK, Places, BitsPresent, BitsJustified, Waits, Contends,
           Sleepers, IsFree
<1> QED
  BY <1>1, RWLockInv, PTL

\* The RW_DASSERTs hold: a handover finds the word it looked at and somebody to
\* hand the lock to.
THEOREM RWLockHandover == Spec => []HandoverAsserts
<1>1. Inv => HandoverAsserts
  BY HandoverKnows DEF Inv, TypeOK, ThreadsKnow, HandoverAsserts, Sleepers
<1> QED
  BY <1>1, RWLockInv, PTL

=============================================================================
