-------------------------------- MODULE Pcq --------------------------------
(***************************************************************************)
(* The lockless queue of sys/kern/subr_pcq.c: many producers, one consumer *)
(* and a ring of nitems slots.  One word holds both indices and is changed *)
(* by compare and swap only; a producer claims a slot before it fills it,  *)
(* so the consumer may find the slot at the head empty.  Each access to    *)
(* the word and to a slot is one step, in the order that the memory        *)
(* barriers of the code keep.                                              *)
(*                                                                         *)
(* The consumer is the one the comments describe: it gets until it finds   *)
(* nothing, and again after every notification that follows a put.         *)
(***************************************************************************)
EXTENDS Naturals, Sequences, FiniteSets

CONSTANTS Producers, Items, Nil,
          pcq_nitems   \* the number of slots

ASSUME PcqAssumption ==
    /\ Nil \notin Items
    /\ pcq_nitems \in Nat \ {0, 1}
    /\ IsFiniteSet(Producers)

Slots == 0..(pcq_nitems - 1)

VARIABLES pcq_pc,     \* the word: [p, c]
          pcq_items,  \* the ring
          prod,       \* [pc, v, item] of each producer in pcq_put()
          cons,       \* [pc, v, item] of the consumer in pcq_get()
          notified,   \* a notification is pending
          got         \* the item that pcq_get() returned last

vars == <<pcq_pc, pcq_items, prod, cons, notified, got>>

Word(p, c) == [p |-> p, c |-> c]
At(label, v, item) == [pc |-> label, v |-> v, item |-> item]
Resting == At("idle", Word(0, 0), Nil)

\* pcq_create()
Init ==
    /\ pcq_pc = Word(0, 0)
    /\ pcq_items = [s \in Slots |-> Nil]
    /\ prod = [t \in Producers |-> Resting]
    /\ cons = Resting
    /\ notified = FALSE
    /\ got = Nil

pcq_advance(i) == IF i + 1 = pcq_nitems THEN 0 ELSE i + 1

-----------------------------------------------------------------------------
(* pcq_put() *)

PutLoad(t, item) ==
    /\ prod[t].pc = "idle"
    /\ prod' = [prod EXCEPT ![t] = At("claim", pcq_pc, item)]
    /\ UNCHANGED <<pcq_pc, pcq_items, cons, notified, got>>

\* Mutant of Full: the last slot is used as well.
FullMut(v) == FALSE

Full(v) == pcq_advance(v.p) = v.c

\* The queue was full when the word was loaded: return false.
PutFull(t) ==
    /\ prod[t].pc = "claim"
    /\ Full(prod[t].v)
    /\ prod' = [prod EXCEPT ![t] = Resting]
    /\ UNCHANGED <<pcq_pc, pcq_items, cons, notified, got>>

\* Compare and swap: slot v.p is ours, or load the word again.
PutClaim(t) ==
    /\ prod[t].pc = "claim"
    /\ ~Full(prod[t].v)
    /\ IF pcq_pc = prod[t].v
         THEN /\ pcq_pc' = [pcq_pc EXCEPT !.p = pcq_advance(@)]
              /\ prod' = [prod EXCEPT ![t].pc = "store"]
         ELSE /\ prod' = [prod EXCEPT ![t].v = pcq_pc]
              /\ UNCHANGED pcq_pc
    /\ UNCHANGED <<pcq_items, cons, notified, got>>

PutStore(t) ==
    /\ prod[t].pc = "store"
    /\ pcq_items' = [pcq_items EXCEPT ![prod[t].v.p] = prod[t].item]
    /\ prod' = [prod EXCEPT ![t] = At("notify", Word(0, 0), Nil)]
    /\ UNCHANGED <<pcq_pc, cons, notified, got>>

\* The caller notifies the consumer (a soft interrupt or a wakeup).
PutNotify(t) ==
    /\ prod[t].pc = "notify"
    /\ notified' = TRUE
    /\ prod' = [prod EXCEPT ![t] = Resting]
    /\ UNCHANGED <<pcq_pc, pcq_items, cons, got>>

-----------------------------------------------------------------------------
(* pcq_get() *)

\* The consumer, notified, begins to get items.
Wakeup ==
    /\ cons.pc = "idle"
    /\ notified
    /\ notified' = FALSE
    /\ cons' = At("load", Word(0, 0), Nil)
    /\ UNCHANGED <<pcq_pc, pcq_items, prod, got>>

Empty(v) == v.p = v.c

\* pcq_get() loads the word: empty, so return NULL; or go on.
GetLoad ==
    /\ cons.pc = "load"
    /\ cons' = IF Empty(pcq_pc) THEN Resting ELSE At("take", pcq_pc, Nil)
    /\ UNCHANGED <<pcq_pc, pcq_items, prod, notified, got>>

\* Raced with a producer that has not filled its slot: return NULL.  Else take
\* the item and clear the slot.
GetTake ==
    /\ cons.pc = "take"
    /\ LET item == pcq_items[cons.v.c]
       IN  /\ cons' = IF item = Nil THEN Resting ELSE At("advance", cons.v, item)
           /\ pcq_items' = [pcq_items EXCEPT ![cons.v.c] = Nil]
    /\ UNCHANGED <<pcq_pc, prod, notified, got>>

\* Mutant of Unchanged: the word is stored without looking at it again.
UnchangedMut == TRUE

\* atomic_cas_32(&pcq->pcq_pc, v, nv) == v
Unchanged == pcq_pc = cons.v

\* Advance the consumer's index by compare and swap; if a producer came between,
\* load the word again.
GetAdvance ==
    /\ cons.pc = "advance"
    /\ IF Unchanged
         THEN /\ pcq_pc' = [cons.v EXCEPT !.c = pcq_advance(@)]
              /\ got' = cons.item
              /\ cons' = At("load", Word(0, 0), Nil)
         ELSE /\ cons' = [cons EXCEPT !.v = pcq_pc]
              /\ UNCHANGED <<pcq_pc, got>>
    /\ UNCHANGED <<pcq_items, prod, notified>>

-----------------------------------------------------------------------------
ProducerStep(t) == PutFull(t) \/ PutClaim(t) \/ PutStore(t) \/ PutNotify(t)
ConsumerStep == Wakeup \/ GetLoad \/ GetTake \/ GetAdvance

Next ==
    \/ \E t \in Producers : ProducerStep(t) \/ \E item \in Items : PutLoad(t, item)
    \/ ConsumerStep

\* Threads inside pcq_put() go on, and the notified consumer runs.
Fairness ==
    (\A t \in Producers : WF_vars(ProducerStep(t))) /\ WF_vars(ConsumerStep)

Spec == Init /\ [][Next]_vars /\ Fairness

-----------------------------------------------------------------------------
\* The producer that has claimed a slot and not filled it yet
Claims(t, s) == prod[t].pc = "store" /\ prod[t].v.p = s

\* The slots in use, from the consumer's index up to the producers'
Count == (pcq_pc.p + pcq_nitems - pcq_pc.c) % pcq_nitems
Slot(i) == (pcq_pc.c + i - 1) % pcq_nitems
InUse == {Slot(i) : i \in 1..Count}

\* Every slot in use is filled, or claimed by one producer that will fill it, or
\* is the one the consumer has just emptied; every other slot is empty.  So no
\* item is ever overwritten, and none is stored where nobody will look.
SlotsAccounted ==
    \A s \in Slots :
        LET claimants == {t \in Producers : Claims(t, s)}
            taken == cons.pc = "advance" /\ s = pcq_pc.c
        IN  /\ s \in InUse =>
                 /\ Cardinality(claimants) <= 1
                 /\ pcq_items[s] = Nil <=> (claimants # {} \/ taken)
                 /\ ~(claimants # {} /\ taken)
            /\ s \notin InUse => pcq_items[s] = Nil /\ claimants = {}

\* The item in a slot that is in use, wherever it is at the moment
ItemAt(s) ==
    IF pcq_items[s] # Nil THEN pcq_items[s]
    ELSE IF cons.pc = "advance" /\ s = pcq_pc.c THEN cons.item
    ELSE prod[CHOOSE t \in Producers : Claims(t, s)].item

Abstract == INSTANCE BoundedQueue
    WITH queue <- [i \in 1..Count |-> ItemAt(Slot(i))], MaxLen <- pcq_nitems - 1

\* pcq_put() and pcq_get() implement a bounded FIFO queue, of one item less than
\* the ring has slots: a put takes effect when it claims its slot, a get when
\* it moves the consumer's index on.
ImplementsQueue == Abstract!Spec

\* Every item that was put is got in the end.
EveryItemIsGot ==
    \A item \in Items : (\E s \in InUse : ItemAt(s) = item) ~> got = item
=============================================================================
