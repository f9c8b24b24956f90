-------------------------- MODULE Lockless_Proofs --------------------------
(***************************************************************************)
(* Proofs about three primitives whose users take no lock in the common    *)
(* case.  Pcq, for any finite set of producers, any items and a ring of    *)
(* any size: every slot is accounted for, and pcq_put() and pcq_get()      *)
(* implement a bounded FIFO queue.  RunOnce, for any threads and objects:  *)
(* one run, whose result every caller gets, and no lost wakeup.            *)
(* Localcount, for any finite set of CPUs: the counts add up, and a drain  *)
(* waits for every reference.                                              *)
(***************************************************************************)
EXTENDS Pcq, RunOnce, Localcount, FiniteSetTheorems, SequenceTheorems,
        WellFoundedInduction, TLAPS

Words == [p : Slots, c : Slots]

\* Every variable has its type; whoever is to store an item or has taken one has it.
TypeOK ==
    /\ pcq_pc \in Words
    /\ pcq_items \in [Slots -> Items \cup {Nil}]
    /\ prod \in [Producers -> [pc : {"idle", "claim", "store", "notify"}, v : Words,
                               item : Items \cup {Nil}]]
    /\ \A t \in Producers : prod[t].pc \in {"claim", "store"} => prod[t].item \in Items
    /\ cons \in [pc : {"idle", "load", "take", "advance"}, v : Words,
                 item : Items \cup {Nil}]
    /\ cons.pc = "advance" => cons.item \in Items
    /\ notified \in BOOLEAN
    /\ got \in Items \cup {Nil}

\* The slots in use, from the consumer's index up to the producers', without the
\* arithmetic modulo the size of the ring
Used(s, w) == IF w.c <= w.p THEN w.c <= s /\ s < w.p ELSE w.c <= s \/ s < w.p

\* Only the consumer moves its own index, and the queue does not become empty
\* while it is at work on the slot there.
ConsumerKnows ==
    cons.pc \in {"take", "advance"} => cons.v.c = pcq_pc.c /\ pcq_pc.p # pcq_pc.c

Claimed(s) == \E t \in Producers : Claims(t, s)
Taken(s) == cons.pc = "advance" /\ s = pcq_pc.c

\* Where the item of each slot is: in the slot, with the producer that has claimed
\* it, or with the consumer.
Accounted ==
    \A s \in Slots :
        /\ Used(s, pcq_pc) => /\ pcq_items[s] = Nil <=> Claimed(s) \/ Taken(s)
                              /\ ~(Claimed(s) /\ Taken(s))
        /\ ~Used(s, pcq_pc) => pcq_items[s] = Nil /\ ~Claimed(s)
        /\ \A t, k \in Producers : Claims(t, s) /\ Claims(k, s) => t = k

Inv == TypeOK /\ ConsumerKnows /\ Accounted
-----------------------------------------------------------------------------
(* The ring *)

\* pcq_advance() stays on the ring.
LEMMA AdvanceType == ASSUME NEW i \in Slots PROVE pcq_advance(i) \in Slots
  BY PcqAssumption DEF Slots, pcq_advance

\* A producer that advances its index takes one slot into use, the one it was at;
\* its test for a full ring keeps the indices apart.
LEMMA AdvanceProducer ==
    ASSUME NEW w \in Words, ~Full(w)
    PROVE  /\ pcq_advance(w.p) # w.c
           /\ ~Used(w.p, w)
           /\ \A s \in Slots :
                Used(s, Word(pcq_advance(w.p), w.c)) <=> Used(s, w) \/ s = w.p
  BY PcqAssumption DEF Words, Slots, Used, Full, pcq_advance, Word

\* A consumer that advances its index takes one slot out of use.
LEMMA AdvanceConsumer ==
    ASSUME NEW w \in Words, w.p # w.c
    PROVE  /\ Used(w.c, w)
           /\ \A s \in Slots :
                Used(s, Word(w.p, pcq_advance(w.c))) <=> Used(s, w) /\ s # w.c
  BY PcqAssumption DEF Words, Slots, Used, pcq_advance, Word

\* The arithmetic modulo the size of the ring, of numbers that are less than twice
\* that size
LEMMA Modulo ==
    ASSUME NEW x \in 0 .. (2 * pcq_nitems - 1)
    PROVE  x % pcq_nitems = IF x < pcq_nitems THEN x ELSE x - pcq_nitems
<1>1. CASE x < pcq_nitems
  BY <1>1, PcqAssumption
<1>2. CASE x >= pcq_nitems
  BY <1>2, PcqAssumption
<1> QED
  BY <1>1, <1>2, PcqAssumption

\* How many slots are in use, and the slot of the i-th item
LEMMA RingFacts ==
    ASSUME pcq_pc \in Words
    PROVE  /\ Count \in 0 .. (pcq_nitems - 1)
           /\ Count = IF pcq_pc.c <= pcq_pc.p THEN pcq_pc.p - pcq_pc.c
                                              ELSE pcq_pc.p + pcq_nitems - pcq_pc.c
           /\ \A i \in 1..pcq_nitems :
                Slot(i) = IF pcq_pc.c + i - 1 < pcq_nitems THEN pcq_pc.c + i - 1
                                                           ELSE pcq_pc.c + i - 1 - pcq_nitems
<1> USE PcqAssumption DEF Words, Slots
<1>1. /\ Count \in 0 .. (pcq_nitems - 1)
      /\ Count = IF pcq_pc.c <= pcq_pc.p THEN pcq_pc.p - pcq_pc.c
                                         ELSE pcq_pc.p + pcq_nitems - pcq_pc.c
  <2>1. pcq_pc.p + pcq_nitems - pcq_pc.c \in 0 .. (2 * pcq_nitems - 1)
    OBVIOUS
  <2> QED
    BY <2>1, Modulo DEF Count
<1>2. ASSUME NEW i \in 1..pcq_nitems
      PROVE  Slot(i) = IF pcq_pc.c + i - 1 < pcq_nitems THEN pcq_pc.c + i - 1
                                                        ELSE pcq_pc.c + i - 1 - pcq_nitems
  <2>1. pcq_pc.c + i - 1 \in 0 .. (2 * pcq_nitems - 1)
    BY <1>2
  <2> QED
    BY <2>1, Modulo DEF Slot
<1> QED
  BY <1>1, <1>2

\* InUse is what Used says.
LEMMA InUseIsUsed ==
    ASSUME pcq_pc \in Words
    PROVE  \A s \in Slots : s \in InUse <=> Used(s, pcq_pc)
<1> USE PcqAssumption DEF Words, Slots
<1>1. ASSUME NEW s \in Slots, s \in InUse PROVE Used(s, pcq_pc)
  <2>1. PICK i \in 1..Count : s = Slot(i)
    BY <1>1 DEF InUse
  <2>2. i \in 1..pcq_nitems
    BY RingFacts
  <2> QED
    BY <2>1, <2>2, RingFacts DEF Used
<1>2. ASSUME NEW s \in Slots, Used(s, pcq_pc) PROVE s \in InUse
  <2> DEFINE i == IF pcq_pc.c <= s THEN s - pcq_pc.c + 1 ELSE s + pcq_nitems - pcq_pc.c + 1
  <2>1. i \in 1..Count /\ i \in 1..pcq_nitems
    BY <1>2, RingFacts DEF Used
  <2>2. Slot(i) = s
    BY <1>2, <2>1, RingFacts DEF Used
  <2> QED
    BY <2>1, <2>2 DEF InUse
<1> QED
  BY <1>1, <1>2

\* The accounting that is proved is the one that the run checks.
LEMMA AccountedIsSlots == Inv => SlotsAccounted
<1> SUFFICES ASSUME Inv, NEW s \in Slots
             PROVE  LET claimants == {t \in Producers : Claims(t, s)}
                        taken == cons.pc = "advance" /\ s = pcq_pc.c
                    IN  /\ s \in InUse =>
                             /\ Cardinality(claimants) <= 1
                             /\ pcq_items[s] = Nil <=> (claimants # {} \/ taken)
                             /\ ~(claimants # {} /\ taken)
                        /\ s \notin InUse => pcq_items[s] = Nil /\ claimants = {}
  BY DEF SlotsAccounted
<1> DEFINE claimants == {t \in Producers : Claims(t, s)}
<1>1. s \in InUse <=> Used(s, pcq_pc)
  BY InUseIsUsed DEF Inv, TypeOK
<1>2. claimants # {} <=> Claimed(s)
  BY DEF Claimed
<1>3. Cardinality(claimants) <= 1
  <2>1. claimants = {} \/ \E t \in Producers : claimants = {t}
    BY DEF Inv, Accounted
  <2> QED
    BY <2>1, FS_EmptySet, FS_Singleton
<1> QED
  BY <1>1, <1>2, <1>3 DEF Inv, Accounted, Taken
-----------------------------------------------------------------------------
(* The inductive invariant *)

ProdRecords == [pc : {"idle", "claim", "store", "notify"}, v : Words, item : Items \cup {Nil}]
ConsRecords == [pc : {"idle", "load", "take", "advance"}, v : Words, item : Items \cup {Nil}]

\* The word of an empty ring has its type.
LEMMA ZeroWord == Word(0, 0) \in Words
  BY PcqAssumption DEF Word, Words, Slots

\* pcq_create() establishes the invariant.
LEMMA InitInv == Init => Inv
<1> SUFFICES ASSUME Init PROVE Inv
  OBVIOUS
<1>1. TypeOK
  BY ZeroWord DEF Init, TypeOK, Resting, At
<1>2. ConsumerKnows
  BY DEF Init, ConsumerKnows, Resting, At
<1>3. \A s \in Slots : ~Used(s, pcq_pc)
  BY PcqAssumption DEF Init, Used, Word, Slots
<1>4. Accounted
  BY <1>3 DEF Init, Accounted, Claimed, Claims, Resting, At
<1> QED
  BY <1>1, <1>2, <1>4 DEF Inv

\* A producer goes on with r, and neither claims nor fills a slot.
QuietMove(t, r) ==
    /\ prod' = [prod EXCEPT ![t] = r]
    /\ prod[t].pc # "store" /\ r.pc # "store"
    /\ r.pc = "claim" => r.item \in Items

\* The steps of a producer that neither claim nor fill a slot
LEMMA ProducerQuiet ==
    ASSUME Inv, NEW t \in Producers,
           \/ \E item \in Items : PutLoad(t, item)
           \/ PutFull(t) \/ PutNotify(t)
           \/ PutClaim(t) /\ pcq_pc # prod[t].v
    PROVE  /\ Inv'
           /\ UNCHANGED <<pcq_pc, pcq_items, cons, got>>
           /\ \A k \in Producers : /\ prod'[k].pc = "store" <=> prod[k].pc = "store"
                                   /\ prod[k].pc = "store" => prod'[k] = prod[k]
<1> USE DEF Inv
<1>1. UNCHANGED <<pcq_pc, pcq_items, cons, got>> /\ notified' \in BOOLEAN
  BY DEF PutLoad, PutFull, PutNotify, PutClaim, TypeOK
<1>2. PICK r \in ProdRecords : QuietMove(t, r)
  <2>1. ASSUME NEW item \in Items, PutLoad(t, item)
        PROVE  \E r \in ProdRecords : QuietMove(t, r)
    <3>1. /\ At("claim", pcq_pc, item) \in ProdRecords
          /\ At("claim", pcq_pc, item).pc = "claim" /\ At("claim", pcq_pc, item).item = item
      BY DEF At, ProdRecords, TypeOK
    <3> QED
      BY <2>1, <3>1 DEF PutLoad, QuietMove
  <2>2. CASE PutFull(t) \/ PutNotify(t)
    <3>1. Resting \in ProdRecords /\ Resting.pc = "idle"
      BY ZeroWord DEF Resting, At, ProdRecords
    <3> QED
      BY <2>2, <3>1 DEF PutFull, PutNotify, QuietMove
  <2>3. CASE PutClaim(t) /\ pcq_pc # prod[t].v
    <3>1. prod[t].pc = "claim" /\ prod' = [prod EXCEPT ![t] = [prod[t] EXCEPT !.v = pcq_pc]]
      BY <2>3 DEF PutClaim
    <3>2. prod[t] \in ProdRecords /\ prod[t].item \in Items /\ pcq_pc \in Words
      BY <3>1 DEF TypeOK, ProdRecords
    <3>3. PICK r : r = [prod[t] EXCEPT !.v = pcq_pc]
      OBVIOUS
    <3>4. r \in ProdRecords /\ r.pc = "claim" /\ r.item \in Items
      BY <3>1, <3>2, <3>3 DEF ProdRecords
    <3>5. QuietMove(t, r)
      BY <3>1, <3>3, <3>4 DEF QuietMove
    <3> QED
      BY <3>4, <3>5
  <2> QED
    BY <2>1, <2>2, <2>3
<1>3. /\ prod' \in [Producers -> ProdRecords]
      /\ \A k \in Producers : /\ prod'[k].pc = "store" <=> prod[k].pc = "store"
                              /\ prod[k].pc = "store" => prod'[k] = prod[k]
                              /\ prod'[k].pc \in {"claim", "store"} => prod'[k].item \in Items
  BY <1>2 DEF TypeOK, ProdRecords, QuietMove
<1>4. TypeOK'
  BY <1>1, <1>3 DEF TypeOK, ProdRecords
<1>5. ConsumerKnows'
  BY <1>1 DEF ConsumerKnows
<1>6. \A k \in Producers, s \in Slots : Claims(k, s)' <=> Claims(k, s)
  BY <1>3 DEF Claims
<1>7. Accounted'
  BY <1>1, <1>6 DEF Accounted, Claimed, Taken
<1> QED
  BY <1>1, <1>3, <1>4, <1>5, <1>7

\* What a successful compare and swap of a producer does
LEMMA ClaimFacts ==
    ASSUME Inv, NEW t \in Producers, PutClaim(t), pcq_pc = prod[t].v
    PROVE  /\ UNCHANGED <<pcq_items, cons, notified, got>>
           /\ ~Full(pcq_pc) /\ pcq_pc' = Word(pcq_advance(pcq_pc.p), pcq_pc.c)
           /\ pcq_pc' \in Words
           /\ prod[t].pc = "claim" /\ prod'[t].pc = "store" /\ prod'[t].v = pcq_pc
           /\ prod'[t].item = prod[t].item /\ prod[t].item \in Items
           /\ prod' \in [Producers -> ProdRecords]
           /\ \A k \in Producers \ {t} : prod'[k] = prod[k]
<1> USE DEF Inv, TypeOK
<1>1. /\ UNCHANGED <<pcq_items, cons, notified, got>>
      /\ prod[t].pc = "claim" /\ ~Full(pcq_pc)
      /\ pcq_pc' = [pcq_pc EXCEPT !.p = pcq_advance(@)]
      /\ prod' = [prod EXCEPT ![t].pc = "store"]
  BY DEF PutClaim
<1>2. pcq_pc' = Word(pcq_advance(pcq_pc.p), pcq_pc.c) /\ pcq_pc' \in Words
  BY <1>1, AdvanceType DEF Words, Word
<1>3. /\ prod'[t].pc = "store" /\ prod'[t].v = pcq_pc
      /\ prod'[t].item = prod[t].item /\ prod[t].item \in Items
      /\ prod' \in [Producers -> ProdRecords]
      /\ \A k \in Producers \ {t} : prod'[k] = prod[k]
  BY <1>1 DEF ProdRecords
<1> QED
  BY <1>1, <1>2, <1>3

\* The slot that is claimed was empty and nobody's.
LEMMA ClaimInv ==
    ASSUME Inv, NEW t \in Producers, PutClaim(t), pcq_pc = prod[t].v PROVE Inv'
<1> USE DEF Inv
<1>1. /\ UNCHANGED <<pcq_items, cons, notified, got>>
      /\ pcq_pc' \in Words /\ pcq_pc'.c = pcq_pc.c /\ pcq_pc'.p # pcq_pc.c
      /\ ~Used(pcq_pc.p, pcq_pc) /\ pcq_pc.p \in Slots
      /\ \A s \in Slots : Used(s, pcq_pc') <=> Used(s, pcq_pc) \/ s = pcq_pc.p
  BY ClaimFacts, AdvanceProducer DEF TypeOK, Word, Words
<1>2. TypeOK'
  BY <1>1, ClaimFacts DEF TypeOK, ProdRecords
<1>3. ConsumerKnows'
  BY <1>1 DEF ConsumerKnows
<1>4. \A k \in Producers, s \in Slots :
        Claims(k, s)' <=> Claims(k, s) \/ (k = t /\ s = pcq_pc.p)
  BY ClaimFacts DEF Claims
<1>5. \A s \in Slots : /\ Taken(s)' <=> Taken(s)
                       /\ Claimed(s)' <=> Claimed(s) \/ s = pcq_pc.p
  BY <1>1, <1>4 DEF Taken, Claimed
<1>6. pcq_items[pcq_pc.p] = Nil /\ ~Claimed(pcq_pc.p) /\ ~Taken(pcq_pc.p)
  BY <1>1 DEF Accounted, Taken, ConsumerKnows
<1>7. Accounted'
  <2> SUFFICES ASSUME NEW s \in Slots
               PROVE  /\ Used(s, pcq_pc') =>
                           /\ pcq_items'[s] = Nil <=> Claimed(s)' \/ Taken(s)'
                           /\ ~(Claimed(s)' /\ Taken(s)')
                      /\ ~Used(s, pcq_pc') => pcq_items'[s] = Nil /\ ~Claimed(s)'
                      /\ \A k, m \in Producers : Claims(k, s)' /\ Claims(m, s)' => k = m
    BY DEF Accounted
  <2>1. CASE s = pcq_pc.p
    BY <1>1, <1>4, <1>5, <1>6, <2>1 DEF Claimed
  <2>2. CASE s # pcq_pc.p
    BY <1>1, <1>4, <1>5, <2>2 DEF Accounted
  <2> QED
    BY <2>1, <2>2
<1> QED
  BY <1>2, <1>3, <1>7

\* What filling the slot does
LEMMA StoreFacts ==
    ASSUME Inv, NEW t \in Producers, PutStore(t)
    PROVE  /\ UNCHANGED <<pcq_pc, cons, notified, got>>
           /\ prod[t].pc = "store" /\ prod'[t].pc = "notify"
           /\ prod[t].item \in Items /\ prod[t].v.p \in Slots
           /\ pcq_items' \in [Slots -> Items \cup {Nil}]
           /\ pcq_items'[prod[t].v.p] = prod[t].item
           /\ \A s \in Slots \ {prod[t].v.p} : pcq_items'[s] = pcq_items[s]
           /\ prod' \in [Producers -> ProdRecords]
           /\ \A k \in Producers \ {t} : prod'[k] = prod[k]
           /\ \A k \in Producers, s \in Slots : Claims(k, s)' <=> Claims(k, s) /\ k # t
<1> USE DEF Inv, TypeOK
<1>1. /\ UNCHANGED <<pcq_pc, cons, notified, got>>
      /\ prod[t].pc = "store"
      /\ pcq_items' = [pcq_items EXCEPT ![prod[t].v.p] = prod[t].item]
      /\ prod' = [prod EXCEPT ![t] = At("notify", Word(0, 0), Nil)]
  BY DEF PutStore
<1>2. prod[t].item \in Items /\ prod[t].v.p \in Slots
  BY <1>1 DEF Words
<1>3. At("notify", Word(0, 0), Nil) \in ProdRecords /\ At("notify", Word(0, 0), Nil).pc = "notify"
  BY ZeroWord DEF At, ProdRecords
<1>4. /\ prod' \in [Producers -> ProdRecords] /\ prod'[t].pc = "notify"
      /\ \A k \in Producers \ {t} : prod'[k] = prod[k]
  BY <1>1, <1>3 DEF ProdRecords
<1>5. /\ pcq_items' \in [Slots -> Items \cup {Nil}]
      /\ pcq_items'[prod[t].v.p] = prod[t].item
      /\ \A s \in Slots \ {prod[t].v.p} : pcq_items'[s] = pcq_items[s]
  BY <1>1, <1>2
<1>6. \A k \in Producers, s \in Slots : Claims(k, s)' <=> Claims(k, s) /\ k # t
  BY <1>4 DEF Claims
<1> QED
  BY <1>1, <1>2, <1>4, <1>5, <1>6

\* The slot is filled by the one producer that has claimed it.
LEMMA StoreInv == ASSUME Inv, NEW t \in Producers, PutStore(t) PROVE Inv'
<1> USE DEF Inv
<1> DEFINE own == prod[t].v.p
<1>1. Claims(t, own) /\ own \in Slots /\ prod[t].item # Nil
  BY StoreFacts, PcqAssumption DEF Claims
<1>2. TypeOK'
  BY StoreFacts DEF TypeOK, ProdRecords
<1>3. ConsumerKnows'
  BY StoreFacts DEF ConsumerKnows
<1>4. \A s \in Slots : Taken(s)' <=> Taken(s)
  BY StoreFacts DEF Taken
<1>5. \A s \in Slots : Claimed(s)' <=> Claimed(s) /\ s # own
  BY <1>1, StoreFacts DEF Claimed, Accounted, Claims
<1>6. Accounted'
  <2> SUFFICES ASSUME NEW s \in Slots
               PROVE  /\ Used(s, pcq_pc') =>
                           /\ pcq_items'[s] = Nil <=> Claimed(s)' \/ Taken(s)'
                           /\ ~(Claimed(s)' /\ Taken(s)')
                      /\ ~Used(s, pcq_pc') => pcq_items'[s] = Nil /\ ~Claimed(s)'
                      /\ \A k, m \in Producers : Claims(k, s)' /\ Claims(m, s)' => k = m
    BY DEF Accounted
  <2>1. CASE s = own
    BY <1>1, <1>4, <1>5, <2>1, StoreFacts DEF Accounted, Claimed
  <2>2. CASE s # own
    BY <1>4, <1>5, <2>2, StoreFacts DEF Accounted
  <2> QED
    BY <2>1, <2>2
<1> QED
  BY <1>2, <1>3, <1>6

\* The consumer is notified and looks whether there is anything to get.
LEMMA LoadInv ==
    ASSUME Inv, Wakeup \/ GetLoad
    PROVE  /\ Inv' /\ UNCHANGED <<pcq_pc, pcq_items, prod, got>>
           /\ cons.pc # "advance" /\ cons'.pc # "advance"
<1> USE DEF Inv
<1>1. /\ UNCHANGED <<pcq_pc, pcq_items, prod, got>> /\ notified' \in BOOLEAN
      /\ cons.pc # "advance" /\ cons'.pc # "advance"
      /\ cons' \in ConsRecords
      /\ cons'.pc = "take" => cons'.v = pcq_pc /\ pcq_pc.p # pcq_pc.c
  <2>1. CASE Wakeup
    BY <2>1, ZeroWord DEF Wakeup, At, ConsRecords, TypeOK
  <2>2. CASE GetLoad /\ Empty(pcq_pc)
    BY <2>2, ZeroWord DEF GetLoad, Resting, At, ConsRecords, TypeOK
  <2>3. CASE GetLoad /\ ~Empty(pcq_pc)
    BY <2>3 DEF GetLoad, Empty, At, ConsRecords, TypeOK
  <2> QED
    BY <2>1, <2>2, <2>3
<1>2. TypeOK'
  BY <1>1 DEF TypeOK, ConsRecords
<1>3. ConsumerKnows'
  BY <1>1 DEF ConsumerKnows
<1>4. Accounted'
  BY <1>1 DEF Accounted, Claimed, Claims, Taken
<1> QED
  BY <1>1, <1>2, <1>3, <1>4

\* What the consumer does at the head of the queue: it takes the item, if the
\* producer has filled the slot.
LEMMA TakeFacts ==
    ASSUME Inv, GetTake
    PROVE  /\ UNCHANGED <<pcq_pc, prod, notified, got>>
           /\ cons.pc = "take" /\ pcq_pc.c \in Slots /\ Used(pcq_pc.c, pcq_pc)
           /\ pcq_items' = [pcq_items EXCEPT ![pcq_pc.c] = Nil]
           /\ cons' \in ConsRecords
           /\ pcq_items[pcq_pc.c] = Nil => cons'.pc = "idle"
           /\ pcq_items[pcq_pc.c] # Nil =>
                /\ cons'.pc = "advance" /\ cons'.v = cons.v
                /\ cons'.item = pcq_items[pcq_pc.c] /\ cons'.item \in Items
<1> USE DEF Inv
<1> DEFINE item == pcq_items[pcq_pc.c]
<1>1. /\ UNCHANGED <<pcq_pc, prod, notified, got>> /\ cons.pc = "take"
      /\ cons.v.c = pcq_pc.c /\ pcq_pc.p # pcq_pc.c
  BY DEF GetTake, ConsumerKnows
<1>2. /\ cons' = IF item = Nil THEN Resting ELSE At("advance", cons.v, item)
      /\ pcq_items' = [pcq_items EXCEPT ![pcq_pc.c] = Nil]
  BY <1>1 DEF GetTake
<1>3. pcq_pc.c \in Slots /\ Used(pcq_pc.c, pcq_pc)
  BY <1>1, AdvanceConsumer DEF TypeOK, Words
<1>4. item \in Items \cup {Nil} /\ cons.v \in Words
  BY <1>3 DEF TypeOK
<1>5. CASE item = Nil
  BY <1>1, <1>2, <1>3, <1>5, ZeroWord DEF Resting, At, ConsRecords
<1>6. CASE item # Nil
  BY <1>1, <1>2, <1>3, <1>4, <1>6 DEF At, ConsRecords
<1> QED
  BY <1>5, <1>6

\* A filled slot at the head is emptied; a claimed one is left to its producer.
LEMMA TakeInv == ASSUME Inv, GetTake PROVE Inv'
<1> USE DEF Inv
<1> DEFINE head == pcq_pc.c
<1>1. /\ pcq_items' \in [Slots -> Items \cup {Nil}] /\ pcq_items'[head] = Nil
      /\ \A s \in Slots \ {head} : pcq_items'[s] = pcq_items[s]
  BY TakeFacts DEF TypeOK
<1>2. TypeOK'
  BY <1>1, TakeFacts DEF TypeOK, ConsRecords
<1>3. ConsumerKnows'
  BY TakeFacts DEF ConsumerKnows
<1>4. /\ \A s \in Slots, t \in Producers : Claims(t, s)' <=> Claims(t, s)
      /\ \A s \in Slots : Claimed(s)' <=> Claimed(s)
  BY TakeFacts DEF Claims, Claimed
<1>5. \A s \in Slots : ~Taken(s) /\ (Taken(s)' <=> s = head /\ pcq_items[head] # Nil)
  BY TakeFacts DEF Taken
<1>6. Accounted'
  <2> SUFFICES ASSUME NEW s \in Slots
               PROVE  /\ Used(s, pcq_pc') =>
                           /\ pcq_items'[s] = Nil <=> Claimed(s)' \/ Taken(s)'
                           /\ ~(Claimed(s)' /\ Taken(s)')
                      /\ ~Used(s, pcq_pc') => pcq_items'[s] = Nil /\ ~Claimed(s)'
                      /\ \A k, m \in Producers : Claims(k, s)' /\ Claims(m, s)' => k = m
    BY DEF Accounted
  <2>1. CASE s = head
    BY <1>1, <1>4, <1>5, <2>1, TakeFacts DEF Accounted
  <2>2. CASE s # head
    BY <1>1, <1>4, <1>5, <2>2, TakeFacts DEF Accounted
  <2> QED
    BY <2>1, <2>2
<1> QED
  BY <1>2, <1>3, <1>6

\* What a successful compare and swap of the consumer does
LEMMA AdvanceFacts ==
    ASSUME Inv, GetAdvance, Unchanged
    PROVE  /\ UNCHANGED <<pcq_items, prod, notified>>
           /\ cons.pc = "advance" /\ pcq_pc.p # pcq_pc.c
           /\ pcq_pc' = Word(pcq_pc.p, pcq_advance(pcq_pc.c)) /\ pcq_pc' \in Words
           /\ got' = cons.item /\ cons.item \in Items
           /\ cons' \in ConsRecords /\ cons'.pc = "load"
<1> USE DEF Inv
<1>1. /\ UNCHANGED <<pcq_items, prod, notified>> /\ cons.pc = "advance" /\ pcq_pc = cons.v
      /\ pcq_pc' = [cons.v EXCEPT !.c = pcq_advance(@)]
      /\ got' = cons.item /\ cons' = At("load", Word(0, 0), Nil)
  BY DEF GetAdvance, Unchanged
<1>2. pcq_pc.p # pcq_pc.c /\ cons.item \in Items
  BY <1>1 DEF ConsumerKnows, TypeOK
<1>3. pcq_pc' = Word(pcq_pc.p, pcq_advance(pcq_pc.c)) /\ pcq_pc' \in Words
  BY <1>1, AdvanceType DEF TypeOK, Words, Word
<1>4. cons' \in ConsRecords /\ cons'.pc = "load"
  BY <1>1, ZeroWord DEF At, ConsRecords
<1> QED
  BY <1>1, <1>2, <1>3, <1>4

\* The slot that goes out of use is empty: the consumer has its item.
LEMMA AdvanceInv == ASSUME Inv, GetAdvance PROVE Inv'
<1> USE DEF Inv
<1>1. CASE Unchanged
  <2> DEFINE head == pcq_pc.c
  <2>1. /\ Used(head, pcq_pc) /\ head \in Slots /\ Taken(head)
        /\ \A s \in Slots : Used(s, pcq_pc') <=> Used(s, pcq_pc) /\ s # head
    BY <1>1, AdvanceFacts, AdvanceConsumer DEF TypeOK, Words, Taken
  <2>2. TypeOK'
    BY <1>1, AdvanceFacts DEF TypeOK, ConsRecords
  <2>3. ConsumerKnows'
    BY <1>1, AdvanceFacts DEF ConsumerKnows
  <2>4. /\ \A s \in Slots, t \in Producers : Claims(t, s)' <=> Claims(t, s)
        /\ \A s \in Slots : Claimed(s)' <=> Claimed(s)
    BY <1>1, AdvanceFacts DEF Claims, Claimed
  <2>5. \A s \in Slots : ~Taken(s)' /\ (Taken(s) => s = head)
    BY <1>1, AdvanceFacts DEF Taken
  <2>6. pcq_items' = pcq_items
    BY <1>1, AdvanceFacts
  <2>7. Accounted'
    BY <2>1, <2>4, <2>5, <2>6 DEF Accounted
  <2> QED
    BY <2>2, <2>3, <2>7
<1>2. CASE ~Unchanged
  <2>1. /\ UNCHANGED <<pcq_pc, pcq_items, prod, notified, got>>
        /\ cons.pc = "advance" /\ cons' = [cons EXCEPT !.v = pcq_pc]
    BY <1>2 DEF GetAdvance
  <2>2. /\ cons' \in ConsRecords /\ cons'.pc = "advance" /\ cons'.v = pcq_pc
        /\ cons'.item \in Items
    BY <2>1 DEF TypeOK, ConsRecords
  <2>3. TypeOK'
    BY <2>1, <2>2 DEF TypeOK, ConsRecords
  <2>4. ConsumerKnows'
    BY <2>1, <2>2 DEF ConsumerKnows
  <2>5. Accounted'
    BY <2>1, <2>2 DEF Accounted, Claimed, Claims, Taken
  <2> QED
    BY <2>3, <2>4, <2>5
<1> QED
  BY <1>1, <1>2

\* Every step keeps the invariant.
LEMMA NextInv == ASSUME Inv, [Next]_vars PROVE Inv'
<1>1. ASSUME NEW t \in Producers, ProducerStep(t) \/ \E item \in Items : PutLoad(t, item)
      PROVE  Inv'
  BY <1>1, ProducerQuiet, ClaimInv, StoreInv DEF ProducerStep
<1>2. CASE ConsumerStep
  BY <1>2, LoadInv, TakeInv, AdvanceInv DEF ConsumerStep
<1>3. CASE UNCHANGED vars
  BY <1>3 DEF vars, Inv, TypeOK, ConsumerKnows, Accounted, Claimed, Claims, Taken
<1> QED
  BY <1>1, <1>2, <1>3 DEF Next

\* The inductive invariant holds in every state.
THEOREM PcqInv == Spec => []Inv
<1> QED
  BY InitInv, NextInv, PTL DEF Spec

\* Every slot in use is filled, or claimed by one producer, or just emptied by the
\* consumer, and every other slot is empty: no item is overwritten or lost.
THEOREM PcqSlotsAccounted == Spec => []SlotsAccounted
<1> QED
  BY PcqInv, AccountedIsSlots, PTL
-----------------------------------------------------------------------------
(* The refinement *)

\* The queue that BoundedQueue sees
Queue == [i \in 1..Count |-> ItemAt(Slot(i))]

\* Where the slots of the queue's items are, and where the items themselves
Located ==
    /\ Count \in 0 .. (pcq_nitems - 1)
    /\ Count = IF pcq_pc.c <= pcq_pc.p THEN pcq_pc.p - pcq_pc.c
                                       ELSE pcq_pc.p + pcq_nitems - pcq_pc.c
    /\ \A i \in 1..pcq_nitems :
         Slot(i) = IF pcq_pc.c + i - 1 < pcq_nitems THEN pcq_pc.c + i - 1
                                                    ELSE pcq_pc.c + i - 1 - pcq_nitems
    /\ \A i \in 1..Count : Slot(i) \in Slots /\ Used(Slot(i), pcq_pc)
    /\ \A s \in Slots : Used(s, pcq_pc) =>
         /\ ItemAt(s) \in Items
         /\ pcq_items[s] # Nil => ItemAt(s) = pcq_items[s]
         /\ Taken(s) => ItemAt(s) = cons.item
         /\ \A t \in Producers : Claims(t, s) => ItemAt(s) = prod[t].item
    /\ Queue \in Seq(Items) /\ Len(Queue) = Count

\* An item is where the accounting says.
LEMMA InvLocates == Inv => Located
<1> SUFFICES ASSUME Inv PROVE Located
  OBVIOUS
<1> USE PcqAssumption DEF Inv
<1>1. /\ Count \in 0 .. (pcq_nitems - 1)
      /\ Count = IF pcq_pc.c <= pcq_pc.p THEN pcq_pc.p - pcq_pc.c
                                         ELSE pcq_pc.p + pcq_nitems - pcq_pc.c
      /\ \A i \in 1..pcq_nitems :
           Slot(i) = IF pcq_pc.c + i - 1 < pcq_nitems THEN pcq_pc.c + i - 1
                                                      ELSE pcq_pc.c + i - 1 - pcq_nitems
  BY RingFacts DEF TypeOK
<1>2. ASSUME NEW i \in 1..Count PROVE Slot(i) \in Slots /\ Used(Slot(i), pcq_pc)
  <2>1. i \in 1..pcq_nitems
    BY <1>1
  <2>2. pcq_pc.c \in 0 .. (pcq_nitems - 1)
    BY DEF TypeOK, Words, Slots
  <2>3. Slot(i) = IF pcq_pc.c + i - 1 < pcq_nitems THEN pcq_pc.c + i - 1
                                                   ELSE pcq_pc.c + i - 1 - pcq_nitems
    BY <1>1, <2>1
  <2>4. Slot(i) \in Slots
    BY <2>1, <2>2, <2>3 DEF Slots
  <2> QED
    BY <2>4, InUseIsUsed DEF InUse, TypeOK
<1>3. ASSUME NEW s \in Slots, Used(s, pcq_pc)
      PROVE  /\ ItemAt(s) \in Items
             /\ pcq_items[s] # Nil => ItemAt(s) = pcq_items[s]
             /\ Taken(s) => ItemAt(s) = cons.item
             /\ \A t \in Producers : Claims(t, s) => ItemAt(s) = prod[t].item
  <2>1. CASE pcq_items[s] # Nil
    BY <1>3, <2>1 DEF Accounted, Claimed, ItemAt, TypeOK
  <2>2. CASE pcq_items[s] = Nil /\ Taken(s)
    BY <1>3, <2>2 DEF Accounted, Claimed, Taken, ItemAt, TypeOK
  <2>3. CASE pcq_items[s] = Nil /\ Claimed(s)
    <3>1. PICK t \in Producers : Claims(t, s)
      BY <2>3 DEF Claimed
    <3>2. \A k \in Producers : Claims(k, s) => k = t
      BY <3>1 DEF Accounted
    <3>3. (CHOOSE k \in Producers : Claims(k, s)) = t
      BY <3>1, <3>2
    <3>4. ~Taken(s)
      BY <1>3, <2>3 DEF Accounted
    <3>5. ItemAt(s) = prod[t].item
      BY <2>3, <3>3, <3>4 DEF ItemAt, Taken
    <3>6. prod[t].item \in Items
      BY <3>1 DEF Claims, TypeOK
    <3> QED
      BY <2>3, <3>2, <3>4, <3>5, <3>6
  <2> QED
    BY <1>3, <2>1, <2>2, <2>3 DEF Accounted
<1>4. Queue \in Seq(Items) /\ Len(Queue) = Count
  <2>1. \A i \in 1..Count : ItemAt(Slot(i)) \in Items
    BY <1>2, <1>3
  <2>2. Count \in Nat
    BY <1>1
  <2>3. Queue \in Seq(Items)
    BY <2>1, <2>2, IsASeq DEF Queue
  <2>4. DOMAIN Queue = 1..Count /\ DOMAIN Queue = 1..Len(Queue) /\ Len(Queue) \in Nat
    BY <2>3, LenProperties DEF Queue
  <2> QED
    BY <2>2, <2>3, <2>4
<1> QED
  BY <1>1, <1>2, <1>3, <1>4 DEF Located

\* A step that leaves the word alone and each item somewhere leaves the queue as
\* it is.
LEMMA SameQueue ==
    ASSUME Located, pcq_pc' = pcq_pc,
           \A s \in Slots : Used(s, pcq_pc) => ItemAt(s)' = ItemAt(s)
    PROVE  Queue' = Queue
<1>1. Count' = Count
  BY DEF Count
<1>2. \A i \in 1..Count : ItemAt(Slot(i))' = ItemAt(Slot(i))
  <2> SUFFICES ASSUME NEW i \in 1..Count PROVE ItemAt(Slot(i))' = ItemAt(Slot(i))
    OBVIOUS
  <2>1. PICK s \in Slots : s = Slot(i) /\ s = Slot(i)' /\ Used(s, pcq_pc)
    BY DEF Slot, Located
  <2>2. ItemAt(Slot(i))' = ItemAt(s)'
    BY <2>1 DEF ItemAt, Claims
  <2> QED
    BY <2>1, <2>2
<1> QED
  BY <1>1, <1>2 DEF Queue

\* The same equation between values of two states, one slot at a time
LEMMA ItemAtSlot ==
    ASSUME NEW i, NEW s, s = Slot(i)'
    PROVE  ItemAt(Slot(i))' = ItemAt(s)'
  BY DEF ItemAt, Claims

\* The items of the slots that stay in use stay the same when a producer claims.
LEMMA ClaimItems ==
    ASSUME Inv, Located, Located', NEW t \in Producers, PutClaim(t), pcq_pc = prod[t].v
    PROVE  /\ \A s \in Slots : Used(s, pcq_pc) => ItemAt(s)' = ItemAt(s)
           /\ \A s \in Slots : s = pcq_pc.p => ItemAt(s)' = prod[t].item
<1> USE DEF Inv
<1>1. /\ UNCHANGED <<pcq_items, cons>> /\ pcq_pc.p \in Slots
      /\ pcq_pc'.c = pcq_pc.c
      /\ ~Used(pcq_pc.p, pcq_pc)
      /\ \A s \in Slots : Used(s, pcq_pc') <=> Used(s, pcq_pc) \/ s = pcq_pc.p
  BY ClaimFacts, AdvanceProducer DEF TypeOK, Word, Words
<1>2. ASSUME NEW s \in Slots, Used(s, pcq_pc) PROVE ItemAt(s)' = ItemAt(s)
  <2>1. Used(s, pcq_pc') /\ (Taken(s)' <=> Taken(s))
    BY <1>1, <1>2 DEF Taken
  <2>2. CASE pcq_items[s] # Nil
    BY <1>1, <1>2, <2>1, <2>2 DEF Located
  <2>3. CASE Taken(s)
    BY <1>1, <1>2, <2>1, <2>3 DEF Located
  <2>4. CASE Claimed(s)
    <3>1. PICK k \in Producers : Claims(k, s)
      BY <2>4 DEF Claimed
    <3>2. k # t /\ prod'[k] = prod[k] /\ Claims(k, s)'
      BY <3>1, ClaimFacts DEF Claims
    <3>3. ItemAt(s) = prod[k].item
      BY <1>2, <3>1 DEF Located
    <3>4. ItemAt(s)' = prod'[k].item
      BY <2>1, <3>2 DEF Located
    <3> QED
      BY <3>2, <3>3, <3>4
  <2> QED
    BY <1>2, <2>2, <2>3, <2>4 DEF Accounted
<1>3. ASSUME NEW s \in Slots, s = pcq_pc.p PROVE ItemAt(s)' = prod[t].item
  <2>1. Claims(t, s)' /\ Used(s, pcq_pc') /\ prod'[t].item = prod[t].item
    BY <1>1, <1>3, ClaimFacts DEF Claims
  <2> QED
    BY <2>1 DEF Located
<1> QED
  BY <1>2, <1>3

\* A put takes effect when the producer claims its slot.
LEMMA ClaimRefines ==
    ASSUME Inv, Located, Located', NEW t \in Producers, PutClaim(t), pcq_pc = prod[t].v
    PROVE  /\ prod[t].item \in Items /\ got' = got
           /\ Len(Queue) < pcq_nitems - 1
           /\ Queue' = Append(Queue, prod[t].item)
<1> USE PcqAssumption DEF Inv
<1> DEFINE item == prod[t].item
           old == pcq_pc.p
<1>1. item \in Items /\ got' = got /\ old \in Slots
  BY ClaimFacts DEF TypeOK, Words
<1>2. /\ pcq_pc.c \in 0 .. (pcq_nitems - 1) /\ old \in 0 .. (pcq_nitems - 1)
      /\ pcq_pc'.c = pcq_pc.c
      /\ pcq_pc'.p = IF old + 1 = pcq_nitems THEN 0 ELSE old + 1
      /\ pcq_pc'.p # pcq_pc.c
  BY ClaimFacts, AdvanceProducer DEF TypeOK, Words, Slots, Word, pcq_advance
<1>3. /\ Count' = Count + 1 /\ Count < pcq_nitems - 1
      /\ Count \in Nat /\ Count' \in Nat
  <2>1. /\ Count \in 0 .. (pcq_nitems - 1)
        /\ Count = IF pcq_pc.c <= old THEN old - pcq_pc.c ELSE old + pcq_nitems - pcq_pc.c
    BY DEF Located
  <2>2. /\ Count' \in 0 .. (pcq_nitems - 1)
        /\ Count' = IF pcq_pc'.c <= pcq_pc'.p THEN pcq_pc'.p - pcq_pc'.c
                                             ELSE pcq_pc'.p + pcq_nitems - pcq_pc'.c
    BY DEF Located
  <2> QED
    BY <1>2, <2>1, <2>2
<1>4. \A i \in 1..pcq_nitems : Slot(i)' = Slot(i)
  BY <1>2 DEF Slot
<1>5. Slot(Count + 1) = old /\ Count + 1 \in 1..pcq_nitems
  <2>1. Count = IF pcq_pc.c <= old THEN old - pcq_pc.c ELSE old + pcq_nitems - pcq_pc.c
    BY DEF Located
  <2>2. PICK i \in 1..pcq_nitems : i = Count + 1
    BY <1>3
  <2>3. Slot(i) = IF pcq_pc.c + i - 1 < pcq_nitems THEN pcq_pc.c + i - 1
                                                   ELSE pcq_pc.c + i - 1 - pcq_nitems
    BY DEF Located
  <2>4. Slot(i) = old
    BY <1>2, <1>3, <2>1, <2>2, <2>3
  <2> QED
    BY <2>2, <2>4
<1>6. /\ Queue \in Seq(Items) /\ Len(Queue) = Count
      /\ Queue' \in Seq(Items) /\ Len(Queue') = Count + 1
  BY <1>3 DEF Located
<1>7. \A i \in 1..Count : Queue'[i] = Queue[i]
  <2> SUFFICES ASSUME NEW i \in 1..Count PROVE Queue'[i] = Queue[i]
    OBVIOUS
  <2>1. PICK s \in Slots : s = Slot(i) /\ Used(s, pcq_pc)
    BY DEF Located
  <2>2. s = Slot(i)' /\ i \in 1..Count'
    <3>1. i \in 1..pcq_nitems /\ i \in 1..Count'
      BY <1>3
    <3> QED
      BY <1>4, <2>1, <3>1
  <2>3. ItemAt(Slot(i))' = ItemAt(s)'
    BY <2>2, ItemAtSlot
  <2>4. ItemAt(s)' = ItemAt(s)
    BY <2>1, ClaimItems
  <2> QED
    BY <2>1, <2>2, <2>3, <2>4 DEF Queue
<1>8. Queue'[Count + 1] = item
  <2>1. PICK i \in 1..Count' : i = Count + 1
    BY <1>3 DEF Located
  <2>2. i \in 1..pcq_nitems /\ Slot(i)' = old
    BY <1>4, <1>5, <2>1
  <2>3. PICK s \in Slots : s = old
    BY <1>1
  <2>4. ItemAt(Slot(i))' = ItemAt(s)'
    BY <2>2, <2>3, ItemAtSlot
  <2>5. ItemAt(s)' = item
    BY <2>3, ClaimItems
  <2> QED
    BY <2>1, <2>4, <2>5 DEF Queue
<1>9. Queue' = Append(Queue, item)
  <2>1. /\ Append(Queue, item) \in Seq(Items) /\ Len(Append(Queue, item)) = Count + 1
        /\ \A i \in 1..Count : Append(Queue, item)[i] = Queue[i]
        /\ Append(Queue, item)[Count + 1] = item
    BY <1>1, <1>6, AppendProperties
  <2>2. \A i \in 1..(Count + 1) : i \in 1..Count \/ i = Count + 1
    BY <1>3
  <2>3. \A i \in 1..(Count + 1) : Queue'[i] = Append(Queue, item)[i]
    BY <1>7, <1>8, <2>1, <2>2
  <2> QED
    BY <1>6, <2>1, <2>3, SeqEqual
<1> QED
  BY <1>1, <1>3, <1>6, <1>9

\* A get takes effect when the consumer moves its index on.
LEMMA AdvanceRefines ==
    ASSUME Inv, Located, Located', GetAdvance, Unchanged
    PROVE  /\ Queue # << >> /\ got' = Head(Queue) /\ Queue' = Tail(Queue)
<1> USE PcqAssumption DEF Inv
<1>1. /\ pcq_pc.c \in 0 .. (pcq_nitems - 1) /\ pcq_pc.p \in 0 .. (pcq_nitems - 1)
      /\ pcq_pc'.p = pcq_pc.p /\ pcq_pc.p # pcq_pc.c
      /\ pcq_pc'.c = IF pcq_pc.c + 1 = pcq_nitems THEN 0 ELSE pcq_pc.c + 1
  BY AdvanceFacts DEF TypeOK, Words, Slots, Word, pcq_advance
<1>2. Count \in Nat \ {0} /\ Count' = Count - 1 /\ Count < pcq_nitems
  <2>1. /\ Count \in 0 .. (pcq_nitems - 1)
        /\ Count = IF pcq_pc.c <= pcq_pc.p THEN pcq_pc.p - pcq_pc.c
                                           ELSE pcq_pc.p + pcq_nitems - pcq_pc.c
    BY DEF Located
  <2>2. Count' = IF pcq_pc'.c <= pcq_pc'.p THEN pcq_pc'.p - pcq_pc'.c
                                           ELSE pcq_pc'.p + pcq_nitems - pcq_pc'.c
    BY DEF Located
  <2> QED
    BY <1>1, <2>1, <2>2
<1>3. Slot(1) = pcq_pc.c
  BY <1>1 DEF Located
<1>4. \A i \in 1..(Count - 1) : Slot(i)' = Slot(i + 1)
  <2> SUFFICES ASSUME NEW i \in 1..(Count - 1) PROVE Slot(i)' = Slot(i + 1)
    OBVIOUS
  <2>1. i \in 1..pcq_nitems /\ i + 1 \in 1..pcq_nitems
    BY <1>2
  <2>2. Slot(i + 1) = IF pcq_pc.c + i < pcq_nitems THEN pcq_pc.c + i
                                                   ELSE pcq_pc.c + i - pcq_nitems
    <3>1. PICK k \in 1..pcq_nitems : k = i + 1
      BY <2>1
    <3>2. Slot(k) = IF pcq_pc.c + k - 1 < pcq_nitems THEN pcq_pc.c + k - 1
                                                     ELSE pcq_pc.c + k - 1 - pcq_nitems
      BY DEF Located
    <3> QED
      BY <1>1, <2>1, <3>1, <3>2
  <2>3. Slot(i)' = IF pcq_pc'.c + i - 1 < pcq_nitems THEN pcq_pc'.c + i - 1
                                                     ELSE pcq_pc'.c + i - 1 - pcq_nitems
    BY <2>1 DEF Located
  <2> QED
    BY <1>1, <1>2, <2>1, <2>2, <2>3
<1>5. /\ Queue \in Seq(Items) /\ Len(Queue) = Count /\ Queue # << >>
      /\ Queue' \in Seq(Items) /\ Len(Queue') = Count - 1
  <2>1. Queue \in Seq(Items) /\ Len(Queue) = Count
    BY DEF Located
  <2>2. Queue' \in Seq(Items) /\ Len(Queue') = Count - 1
    BY <1>2 DEF Located
  <2> QED
    BY <1>2, <2>1, <2>2, EmptySeq
<1>6. Head(Queue) = got'
  <2>1. pcq_pc.c \in Slots /\ Used(pcq_pc.c, pcq_pc) /\ Taken(pcq_pc.c)
    BY AdvanceFacts, AdvanceConsumer DEF TypeOK, Words, Taken
  <2>2. ItemAt(pcq_pc.c) = cons.item
    BY <2>1 DEF Located
  <2>3. Queue[1] = cons.item
    BY <1>2, <1>3, <2>2 DEF Queue
  <2> QED
    BY <1>5, <2>3, AdvanceFacts
<1>7. \A i \in 1..(Count - 1) : Queue'[i] = Queue[i + 1]
  <2> SUFFICES ASSUME NEW i \in 1..(Count - 1) PROVE Queue'[i] = Queue[i + 1]
    OBVIOUS
  <2>1. i + 1 \in 1..Count /\ i \in 1..Count'
    BY <1>2
  <2>2. PICK s \in Slots : s = Slot(i + 1) /\ Used(s, pcq_pc)
    BY <2>1 DEF Located
  <2>3. s = Slot(i)' /\ Used(s, pcq_pc')
    BY <1>4, <2>1, <2>2 DEF Located
  <2>4. ItemAt(Slot(i))' = ItemAt(s)'
    BY <2>3, ItemAtSlot
  <2>5. ItemAt(s)' = ItemAt(s)
    <3>1. /\ pcq_items' = pcq_items /\ prod' = prod
          /\ \A k \in Producers : Claims(k, s)' <=> Claims(k, s)
      BY AdvanceFacts DEF Claims
    <3>2. ~Taken(s)
      <4>1. s # pcq_pc.c
        BY <2>3, AdvanceFacts, AdvanceConsumer DEF TypeOK
      <4> QED
        BY <4>1 DEF Taken
    <3>3. CASE pcq_items[s] # Nil
      BY <2>2, <2>3, <3>1, <3>3 DEF Located
    <3>4. CASE Claimed(s)
      <4>1. PICK k \in Producers : Claims(k, s)
        BY <3>4 DEF Claimed
      <4>2. ItemAt(s) = prod[k].item
        BY <2>2, <4>1 DEF Located
      <4>3. ItemAt(s)' = prod'[k].item
        BY <2>3, <3>1, <4>1 DEF Located
      <4> QED
        BY <3>1, <4>2, <4>3
    <3> QED
      BY <2>2, <3>2, <3>3, <3>4 DEF Accounted
  <2> QED
    BY <2>1, <2>2, <2>4, <2>5 DEF Queue
<1>8. Queue' = Tail(Queue)
  <2>1. /\ Tail(Queue) \in Seq(Items) /\ Len(Tail(Queue)) = Count - 1
        /\ \A i \in 1..(Count - 1) : Tail(Queue)[i] = Queue[i + 1]
    BY <1>5, HeadTailProperties
  <2> QED
    BY <1>5, <1>7, <2>1, SeqEqual
<1> QED
  BY <1>5, <1>6, <1>8

\* A step that claims, fills, empties and frees no slot leaves every item where it is.
LEMMA QuietRefines ==
    ASSUME Inv, Located, Located', UNCHANGED <<pcq_pc, pcq_items>>,
           cons'.pc = "advance" <=> cons.pc = "advance",
           cons.pc = "advance" => cons'.item = cons.item,
           \A k \in Producers : /\ prod'[k].pc = "store" <=> prod[k].pc = "store"
                                /\ prod[k].pc = "store" => prod'[k] = prod[k]
    PROVE  Queue' = Queue
<1> USE DEF Inv
<1>1. ASSUME NEW s \in Slots, Used(s, pcq_pc) PROVE ItemAt(s)' = ItemAt(s)
  <2>1. Used(s, pcq_pc') /\ pcq_items'[s] = pcq_items[s]
    BY <1>1
  <2>2. CASE pcq_items[s] # Nil
    BY <1>1, <2>1, <2>2 DEF Located
  <2>3. CASE Taken(s)
    <3>1. Taken(s)' /\ cons'.item = cons.item
      BY <2>3 DEF Taken
    <3> QED
      BY <1>1, <2>1, <2>3, <3>1 DEF Located
  <2>4. CASE Claimed(s)
    <3>1. PICK k \in Producers : Claims(k, s)
      BY <2>4 DEF Claimed
    <3>2. prod'[k] = prod[k] /\ Claims(k, s)'
      BY <3>1 DEF Claims
    <3>3. ItemAt(s) = prod[k].item
      BY <1>1, <3>1 DEF Located
    <3>4. ItemAt(s)' = prod'[k].item
      BY <2>1, <3>2 DEF Located
    <3> QED
      BY <3>2, <3>3, <3>4
  <2> QED
    BY <1>1, <2>2, <2>3, <2>4 DEF Accounted
<1> QED
  BY <1>1, SameQueue

\* The producer that fills its slot moves its item there.
LEMMA StoreRefines ==
    ASSUME Inv, Located, Located', NEW t \in Producers, PutStore(t)
    PROVE  Queue' = Queue /\ got' = got
<1> USE DEF Inv
<1> DEFINE own == prod[t].v.p
<1>1. /\ UNCHANGED <<pcq_pc, cons, got>> /\ own \in Slots
      /\ Claims(t, own) /\ prod[t].item # Nil /\ pcq_items'[own] = prod[t].item
  BY StoreFacts, PcqAssumption DEF Claims
<1>2. ASSUME NEW s \in Slots, Used(s, pcq_pc) PROVE ItemAt(s)' = ItemAt(s)
  <2>1. Used(s, pcq_pc') /\ (Taken(s)' <=> Taken(s))
    BY <1>1, <1>2 DEF Taken
  <2>2. CASE s = own
    <3>1. ItemAt(s) = prod[t].item
      BY <1>1, <1>2, <2>2 DEF Located
    <3>2. ItemAt(s)' = pcq_items'[s]
      BY <1>1, <2>1, <2>2 DEF Located
    <3> QED
      BY <1>1, <2>2, <3>1, <3>2
  <2>3. CASE s # own
    <3>1. pcq_items'[s] = pcq_items[s]
      BY <2>3, StoreFacts
    <3>2. CASE pcq_items[s] # Nil
      BY <1>2, <2>1, <3>1, <3>2 DEF Located
    <3>3. CASE Taken(s)
      BY <1>1, <1>2, <2>1, <3>3 DEF Located
    <3>4. CASE Claimed(s)
      <4>1. PICK k \in Producers : Claims(k, s)
        BY <3>4 DEF Claimed
      <4>2. k # t
        BY <2>3, <4>1 DEF Claims
      <4>3. prod'[k] = prod[k] /\ Claims(k, s)'
        BY <4>1, <4>2, StoreFacts
      <4>4. ItemAt(s) = prod[k].item
        BY <1>2, <4>1 DEF Located
      <4>5. ItemAt(s)' = prod'[k].item
        BY <2>1, <4>3 DEF Located
      <4> QED
        BY <4>3, <4>4, <4>5
    <3> QED
      BY <1>2, <3>2, <3>3, <3>4 DEF Accounted
  <2> QED
    BY <2>2, <2>3
<1> QED
  BY <1>1, <1>2, SameQueue

\* The consumer that takes the item at the head has it, and the queue still does.
LEMMA TakeRefines ==
    ASSUME Inv, Located, Located', GetTake
    PROVE  Queue' = Queue /\ got' = got
<1> USE DEF Inv
<1> DEFINE head == pcq_pc.c
<1>1. /\ UNCHANGED <<pcq_pc, prod, got>> /\ head \in Slots /\ cons.pc = "take"
      /\ \A s \in Slots \ {head} : pcq_items'[s] = pcq_items[s]
      /\ \A s \in Slots, k \in Producers : Claims(k, s)' <=> Claims(k, s)
  BY TakeFacts DEF TypeOK, Claims
<1>2. ASSUME NEW s \in Slots, Used(s, pcq_pc) PROVE ItemAt(s)' = ItemAt(s)
  <2>1. Used(s, pcq_pc') /\ ~Taken(s)
    BY <1>1, <1>2 DEF Taken
  <2>2. CASE s = head /\ pcq_items[s] # Nil
    <3>1. ItemAt(s) = pcq_items[s]
      BY <1>2, <2>2 DEF Located
    <3>2. Taken(s)' /\ cons'.item = pcq_items[s]
      BY <1>1, <2>2, TakeFacts DEF Taken
    <3>3. ItemAt(s)' = cons'.item
      BY <2>1, <3>2 DEF Located
    <3> QED
      BY <3>1, <3>2, <3>3
  <2>3. CASE s # head /\ pcq_items[s] # Nil
    BY <1>1, <1>2, <2>1, <2>3 DEF Located
  <2>4. CASE Claimed(s)
    <3>1. PICK k \in Producers : Claims(k, s)
      BY <2>4 DEF Claimed
    <3>2. prod'[k] = prod[k] /\ Claims(k, s)'
      BY <1>1, <3>1
    <3>3. ItemAt(s) = prod[k].item
      BY <1>2, <3>1 DEF Located
    <3>4. ItemAt(s)' = prod'[k].item
      BY <2>1, <3>2 DEF Located
    <3> QED
      BY <3>2, <3>3, <3>4
  <2> QED
    BY <1>2, <2>1, <2>2, <2>3, <2>4 DEF Accounted
<1> QED
  BY <1>1, <1>2, SameQueue

\* A ring that pcq_create() has just made is the empty queue.
LEMMA InitRefines == ASSUME Init, Located PROVE Abstract!Init
<1>1. Count = 0 /\ got = Nil
  BY DEF Init, Located, Word
<1>2. Queue = << >>
  BY <1>1, EmptySeq DEF Located
<1> QED
  BY <1>1, <1>2 DEF Abstract!Init, Queue

\* Every step is a put, a get, or none as far as the queue can tell.
LEMMA StepRefines ==
    ASSUME Inv, Inv', Located, Located', [Next]_vars
    PROVE  [Abstract!Next]_(<<[i \in 1..Count |-> ItemAt(Slot(i))], got>>)
<1> DEFINE Goal == [Abstract!Next]_(<<[i \in 1..Count |-> ItemAt(Slot(i))], got>>)
<1>0. ASSUME Queue' = Queue, got' = got PROVE Goal
  BY <1>0 DEF Queue
<1>1. ASSUME NEW t \in Producers,
             \/ \E item \in Items : PutLoad(t, item)
             \/ PutFull(t) \/ PutNotify(t)
             \/ PutClaim(t) /\ pcq_pc # prod[t].v
      PROVE  Goal
  BY <1>0, <1>1, ProducerQuiet, QuietRefines
<1>2. ASSUME NEW t \in Producers, PutClaim(t), pcq_pc = prod[t].v PROVE Goal
  <2>1. PICK item \in Items : /\ Len(Queue) < pcq_nitems - 1 /\ got' = got
                              /\ Queue' = Append(Queue, item)
    BY <1>2, ClaimRefines
  <2>2. Abstract!Put(item)
    BY <2>1 DEF Abstract!Put, Queue
  <2> QED
    BY <2>2 DEF Abstract!Next
<1>3. ASSUME NEW t \in Producers, PutStore(t) PROVE Goal
  BY <1>0, <1>3, StoreRefines
<1>4. CASE Wakeup \/ GetLoad
  <2>1. UNCHANGED <<pcq_pc, pcq_items, prod, got>> /\ cons.pc # "advance" /\ cons'.pc # "advance"
    BY <1>4, LoadInv
  <2> QED
    BY <1>0, <2>1, QuietRefines
<1>5. CASE GetTake
  BY <1>0, <1>5, TakeRefines
<1>6. CASE GetAdvance /\ Unchanged
  <2>1. Queue # << >> /\ got' = Head(Queue) /\ Queue' = Tail(Queue)
    BY <1>6, AdvanceRefines
  <2>2. Abstract!Get
    BY <2>1 DEF Abstract!Get, Queue
  <2> QED
    BY <2>2 DEF Abstract!Next
<1>7. CASE GetAdvance /\ ~Unchanged
  <2>1. /\ UNCHANGED <<pcq_pc, pcq_items, prod, got>>
        /\ cons.pc = "advance" /\ cons' = [cons EXCEPT !.v = pcq_pc]
    BY <1>7 DEF GetAdvance
  <2>2. cons'.pc = "advance" /\ cons'.item = cons.item
    BY <2>1 DEF Inv, TypeOK
  <2> QED
    BY <1>0, <2>1, <2>2, QuietRefines
<1>8. CASE UNCHANGED vars
  <2>1. /\ UNCHANGED <<pcq_pc, pcq_items, got>> /\ cons' = cons /\ prod' = prod
    BY <1>8 DEF vars
  <2> QED
    BY <1>0, <2>1, QuietRefines
<1> QED
  BY <1>1, <1>2, <1>3, <1>4, <1>5, <1>6, <1>7, <1>8
  DEF Next, ProducerStep, ConsumerStep

\* pcq_put() and pcq_get() implement a bounded FIFO queue of one item less than the
\* ring has slots, whatever the producers and the consumer do in between: no item
\* is lost, duplicated or got out of order.
THEOREM PcqImplementsQueue == Spec => ImplementsQueue
<1>1. Init => Abstract!Init
  BY InitInv, InvLocates, InitRefines
<1>2. Inv /\ Inv' /\ Located /\ Located' /\ [Next]_vars
        => [Abstract!Next]_(<<[i \in 1..Count |-> ItemAt(Slot(i))], got>>)
  BY StepRefines
<1> QED
  BY <1>1, <1>2, PcqInv, InvLocates, PTL DEF Spec, ImplementsQueue, Abstract!Spec
-----------------------------------------------------------------------------
(* RUN_ONCE(9).  RunsOnce alone is not inductive, because Done(l) rewrites the *)
(* program counter of every sleeper and a sleeper must be known to be asleep.  *)

\* Every action of RunOnce keeps the types.
LEMMA OnceTypeStep == OnceInv /\ [OnceNext]_onceVars => OnceTypeOK'
<1> SUFFICES ASSUME OnceInv, [OnceNext]_onceVars PROVE OnceTypeOK'
  OBVIOUS
<1> USE DEF OnceInv, OnceTypeOK, Statuses, Labels, Goto
<1>1. ASSUME NEW l \in Lwps, FastPath(l) PROVE OnceTypeOK'
  BY <1>1 DEF FastPath
<1>2. ASSUME NEW l \in Lwps, TakeMutex(l) PROVE OnceTypeOK'
  BY <1>2 DEF TakeMutex
<1>3. ASSUME NEW l \in Lwps, Test(l) PROVE OnceTypeOK'
  BY <1>3 DEF Test, MayClaim
<1>4. ASSUME NEW l \in Lwps, RunFn(l) PROVE OnceTypeOK'
  BY <1>4 DEF RunFn
<1>5. ASSUME NEW l \in Lwps, Done(l) PROVE OnceTypeOK'
  BY <1>5 DEF Done, Woken
<1>6. ASSUME NEW l \in Lwps, Loop(l) PROVE OnceTypeOK'
  BY <1>6 DEF Loop, MustWait
<1>7. ASSUME NEW l \in Lwps, Return(l) PROVE OnceTypeOK'
  BY <1>7 DEF Return
<1>8. CASE UNCHANGED onceVars
  BY <1>8 DEF onceVars
<1>9. QED
  BY <1>1, <1>2, <1>3, <1>4, <1>5, <1>6, <1>7, <1>8 DEF OnceNext, Step

\* Every action keeps o_status and the threads inside fn() in agreement.
LEMMA OnceRunsStep == OnceInv /\ [OnceNext]_onceVars => RunsOnce'
<1> SUFFICES ASSUME OnceInv, [OnceNext]_onceVars PROVE RunsOnce'
  OBVIOUS
<1> USE DEF OnceInv, OnceTypeOK, RunsOnce, Initialising,
            SleepersAreOwedABroadcast, Goto
<1>1. ASSUME NEW l \in Lwps, FastPath(l) PROVE RunsOnce'
  BY <1>1 DEF FastPath
<1>2. ASSUME NEW l \in Lwps, TakeMutex(l) PROVE RunsOnce'
  BY <1>2 DEF TakeMutex
<1>3. ASSUME NEW l \in Lwps, Test(l) PROVE RunsOnce'
  BY <1>3 DEF Test, MayClaim
<1>4. ASSUME NEW l \in Lwps, RunFn(l) PROVE RunsOnce'
  BY <1>4 DEF RunFn
<1>5. ASSUME NEW l \in Lwps, Done(l) PROVE RunsOnce'
  BY <1>5 DEF Done, Woken
<1>6. ASSUME NEW l \in Lwps, Loop(l) PROVE RunsOnce'
  BY <1>6 DEF Loop, MustWait
<1>7. ASSUME NEW l \in Lwps, Return(l) PROVE RunsOnce'
  BY <1>7 DEF Return
<1>8. CASE UNCHANGED onceVars
  BY <1>8 DEF onceVars
<1>9. QED
  BY <1>1, <1>2, <1>3, <1>4, <1>5, <1>6, <1>7, <1>8 DEF OnceNext, Step

\* No action leaves a thread asleep on an object that is done.
LEMMA OnceSleepersStep ==
    OnceInv /\ [OnceNext]_onceVars => SleepersAreOwedABroadcast'
<1> SUFFICES ASSUME OnceInv, [OnceNext]_onceVars PROVE SleepersAreOwedABroadcast'
  OBVIOUS
<1> USE DEF OnceInv, OnceTypeOK, SleepersAreOwedABroadcast, PlaceMatchesStatus,
            RunsOnce, Initialising, Statuses, Goto
<1>1. ASSUME NEW l \in Lwps, FastPath(l) PROVE SleepersAreOwedABroadcast'
  BY <1>1 DEF FastPath
<1>2. ASSUME NEW l \in Lwps, TakeMutex(l) PROVE SleepersAreOwedABroadcast'
  BY <1>2 DEF TakeMutex
<1>3. ASSUME NEW l \in Lwps, Test(l) PROVE SleepersAreOwedABroadcast'
  BY <1>3 DEF Test, MayClaim
<1>4. ASSUME NEW l \in Lwps, RunFn(l) PROVE SleepersAreOwedABroadcast'
  BY <1>4 DEF RunFn
<1>5. ASSUME NEW l \in Lwps, Done(l) PROVE SleepersAreOwedABroadcast'
  BY <1>5 DEF Done, Woken
<1>6. ASSUME NEW l \in Lwps, Loop(l) PROVE SleepersAreOwedABroadcast'
  BY <1>6 DEF Loop, MustWait
<1>7. ASSUME NEW l \in Lwps, Return(l) PROVE SleepersAreOwedABroadcast'
  BY <1>7 DEF Return
<1>8. CASE UNCHANGED onceVars
  BY <1>8 DEF onceVars
<1>9. QED
  BY <1>1, <1>2, <1>3, <1>4, <1>5, <1>6, <1>7, <1>8 DEF OnceNext, Step

\* Every action keeps the threads' places and o_status in agreement.
LEMMA OncePlaceStep == OnceInv /\ [OnceNext]_onceVars => PlaceMatchesStatus'
<1> SUFFICES ASSUME OnceInv, [OnceNext]_onceVars PROVE PlaceMatchesStatus'
  OBVIOUS
<1> USE DEF OnceInv, OnceTypeOK, PlaceMatchesStatus, RunsOnce,
            Initialising, SleepersAreOwedABroadcast, Statuses, Goto
<1>1. ASSUME NEW l \in Lwps, FastPath(l) PROVE PlaceMatchesStatus'
  BY <1>1 DEF FastPath
<1>2. ASSUME NEW l \in Lwps, TakeMutex(l) PROVE PlaceMatchesStatus'
  BY <1>2 DEF TakeMutex
<1>3. ASSUME NEW l \in Lwps, Test(l) PROVE PlaceMatchesStatus'
  BY <1>3 DEF Test, MayClaim
<1>4. ASSUME NEW l \in Lwps, RunFn(l) PROVE PlaceMatchesStatus'
  BY <1>4 DEF RunFn
<1>5. ASSUME NEW l \in Lwps, Done(l) PROVE PlaceMatchesStatus'
  BY <1>5 DEF Done, Woken
<1>6. ASSUME NEW l \in Lwps, Loop(l) PROVE PlaceMatchesStatus'
  BY <1>6 DEF Loop, MustWait
<1>7. ASSUME NEW l \in Lwps, Return(l) PROVE PlaceMatchesStatus'
  BY <1>7 DEF Return
<1>8. CASE UNCHANGED onceVars
  BY <1>8 DEF onceVars
<1>9. QED
  BY <1>1, <1>2, <1>3, <1>4, <1>5, <1>6, <1>7, <1>8 DEF OnceNext, Step

\* The four parts together are an invariant of _run_once().
THEOREM RunOnceInv == OnceSpec => []OnceInv
<1>1. OnceInit => OnceInv
  BY DEF OnceInit, OnceInv, OnceTypeOK, RunsOnce, Initialising,
         SleepersAreOwedABroadcast, PlaceMatchesStatus, Statuses, Labels
<1>2. OnceInv /\ [OnceNext]_onceVars => OnceInv'
  BY OnceTypeStep, OnceRunsStep, OnceSleepersStep, OncePlaceStep DEF OnceInv
<1>3. QED
  BY <1>1, <1>2, PTL DEF OnceSpec

\* The initialisation function of every object runs once, however the callers
\* of _run_once() interleave.
THEOREM RunOnceRunsOnce == OnceSpec => []RunsOnce
<1>1. OnceInv => RunsOnce
  BY DEF OnceInv
<1>2. QED
  BY <1>1, RunOnceInv, PTL

\* No caller of _run_once() sleeps on oncecv after its object was marked done.
THEOREM RunOnceSleepers == OnceSpec => []SleepersAreOwedABroadcast
<1>1. OnceInv => SleepersAreOwedABroadcast
  BY DEF OnceInv
<1>2. QED
  BY <1>1, RunOnceInv, PTL

\* Every call returns the final o_error of its object.
THEOREM RunOnceResultStable == OnceSpec => ResultStable
<1>1. ASSUME OnceInv, [OnceNext]_onceVars, NEW l \in Lwps
      PROVE  ReturnsFinalError(l)
  <2> SUFFICES ASSUME pc[l] = "return", pc'[l] = "idle"
               PROVE  o_status[o[l]] = "DONE" /\ o_error'[o[l]] = rv'[l]
    BY DEF ReturnsFinalError
  <2> USE DEF OnceInv, OnceTypeOK, Goto
  <2>1. PICK k \in Lwps : Return(k)
    BY <1>1 DEF OnceNext, Step, onceVars, FastPath, TakeMutex, Test,
                RunFn, Done, Loop
  <2>2. k = l
    BY <1>1, <2>1 DEF Return
  <2>3. QED
    BY <1>1, <2>1, <2>2 DEF Return, PlaceMatchesStatus
<1>2. OnceInv /\ [OnceNext]_onceVars
        => [\A l \in Lwps : ReturnsFinalError(l)]_onceVars
  BY <1>1
<1>3. QED
  BY <1>2, RunOnceInv, PTL DEF OnceSpec, ResultStable
-----------------------------------------------------------------------------
(* Sums over finite sets.  The provers cannot apply an induction theorem, whose  *)
(* parameter is an operator; a smallest counterexample does as well.             *)

\* Induction over the subsets of a finite set, in the form of a smallest one:
\* a set of subsets that is not empty has a member with no other below it.
LEMMA SmallestSet ==
    ASSUME NEW S, IsFiniteSet(S), NEW F \in SUBSET (SUBSET S), F # {}
    PROVE  \E T \in F : \A U \in F : U \subseteq T => U = T
<1> DEFINE R == StrictSubsetOrdering(S)
<1>1. IsWellFoundedOn(R, SUBSET S)
  BY FS_StrictSubsetOrderingWellFounded, FS_FiniteSubsetsOfFinite
<1>2. PICK T \in F : \A U \in F : ~ (<<U, T>> \in R)
  <2> HIDE DEF R
  <2> QED  BY <1>1, WFMin
<1>3. ASSUME NEW U \in F, U \subseteq T PROVE U = T
  BY <1>2, <1>3 DEF StrictSubsetOrdering
<1> QED  BY <1>3

\* MapThenSumSet() adds up an arbitrary element and the rest.  Its table of partial
\* sums is a recursive function: for these definitions, any g with SumTable.
Chosen(s) == CHOOSE x \in s : TRUE

SumTable(g, f, S) ==
    g = [s \in SUBSET S |-> IF s = {} THEN 0 ELSE f[Chosen(s)] + g[s \ {Chosen(s)}]]

\* The element it chooses is one.
LEMMA ChosenIn == ASSUME NEW s, s # {} PROVE Chosen(s) \in s
  BY DEF Chosen

\* The recursion equation of a table
LEMMA TableEntry ==
    ASSUME NEW f, NEW S, NEW g, SumTable(g, f, S), NEW s \in SUBSET S
    PROVE  g[s] = IF s = {} THEN 0 ELSE f[Chosen(s)] + g[s \ {Chosen(s)}]
  BY DEF SumTable

\* Its entry for the empty set
LEMMA TableEmpty ==
    ASSUME NEW f, NEW S, NEW g, SumTable(g, f, S)
    PROVE  g[{}] = 0
<1>1. {} \in SUBSET S  OBVIOUS
<1> QED  BY <1>1, TableEntry

\* Its entry for another set
LEMMA TableStep ==
    ASSUME NEW f, NEW S, NEW g, SumTable(g, f, S), NEW s \in SUBSET S, s # {}
    PROVE  g[s] = f[Chosen(s)] + g[s \ {Chosen(s)}]
  BY TableEntry

\* There is at most one table for a function.
LEMMA TableUnique ==
    ASSUME NEW f, NEW S, IsFiniteSet(S), NEW g, NEW h,
           SumTable(g, f, S), SumTable(h, f, S)
    PROVE  g = h
<1>1. ASSUME NEW s \in SUBSET S, g[s] # h[s] PROVE FALSE
  <2> DEFINE F == {t \in SUBSET S : g[t] # h[t]}
  <2>1. F # {} /\ F \in SUBSET (SUBSET S)  BY <1>1
  <2>2. PICK t \in F : \A u \in F : u \subseteq t => u = t
    <3> HIDE DEF F
    <3> QED  BY <2>1, SmallestSet
  <2>3. t # {}  BY TableEmpty
  <2>4. g[t \ {Chosen(t)}] = h[t \ {Chosen(t)}]
    BY <2>2, <2>3, ChosenIn
  <2> QED  BY <2>3, <2>4, TableEntry
<1>2. \E G : g = [s \in SUBSET S |-> G[s]]  BY DEF SumTable
<1> QED  BY <1>1 DEF SumTable

\* A table, restricted to the subsets of a subset, is that subset's table.
LEMMA TableOfSubset ==
    ASSUME NEW f, NEW S, NEW g, SumTable(g, f, S), NEW T \in SUBSET S
    PROVE  SumTable([s \in SUBSET T |-> g[s]], f, T)
<1> DEFINE h == [s \in SUBSET T |-> g[s]]
<1>1. ASSUME NEW s \in SUBSET T
      PROVE  h[s] = IF s = {} THEN 0 ELSE f[Chosen(s)] + h[s \ {Chosen(s)}]
  BY TableEntry
<1> QED  BY <1>1 DEF SumTable

\* There is a table: if not for S, then not for some smallest subset T, and T's can
\* be put together from those of its own subsets.
LEMMA TableExists ==
    ASSUME NEW f, NEW S, IsFiniteSet(S)
    PROVE  \E g : SumTable(g, f, S)
<1> DEFINE F == {T \in SUBSET S : ~ \E g : SumTable(g, f, T)}
<1>1. SUFFICES ASSUME F # {} PROVE FALSE
  OBVIOUS
<1>2. PICK T \in F : \A U \in F : U \subseteq T => U = T
  <2>1. F \in SUBSET (SUBSET S)  OBVIOUS
  <2> HIDE DEF F
  <2> QED  BY <1>1, <2>1, SmallestSet
<1> DEFINE G(U) == CHOOSE g : SumTable(g, f, U)
<1>3. ASSUME NEW U \in SUBSET T, U # T PROVE SumTable(G(U), f, U)
  <2>1. \E g : SumTable(g, f, U)  BY <1>2, <1>3
  <2> QED  BY <2>1
<1> HIDE DEF G
<1> DEFINE V(s) == IF s = {} THEN 0
                   ELSE f[Chosen(s)] + G(s \ {Chosen(s)})[s \ {Chosen(s)}]
           h == [s \in SUBSET T |-> V(s)]
<1>4. ASSUME NEW s \in SUBSET T, s # T PROVE h[s] = G(s)[s]
  <2>1. CASE s = {}
    BY <1>3, <1>4, <2>1, TableEntry
  <2>2. CASE s # {}
    <3> DEFINE r == s \ {Chosen(s)}
    <3>1. r \in SUBSET s /\ r # s /\ r \in SUBSET T /\ r # T
      BY <1>4, <2>2, ChosenIn
    <3>2. SumTable([u \in SUBSET r |-> G(s)[u]], f, r)
      BY <1>3, <1>4, <3>1, TableOfSubset
    <3>3. [u \in SUBSET r |-> G(s)[u]] = G(r)
      <4>1. IsFiniteSet(r)  BY <3>1, FS_Subset
      <4>2. SumTable(G(r), f, r)  BY <1>3, <3>1
      <4> HIDE DEF r
      <4> QED  BY <3>2, <4>1, <4>2, TableUnique
    <3>4. G(s)[r] = G(r)[r]
      <4> HIDE DEF r
      <4>1. [u \in SUBSET r |-> G(s)[u]][r] = G(s)[r]  OBVIOUS
      <4> QED  BY <3>3, <4>1
    <3>5. G(s)[s] = f[Chosen(s)] + G(s)[r]
      BY <1>3, <1>4, <2>2, TableEntry
    <3> QED  BY <2>2, <3>4, <3>5
  <2> QED  BY <2>1, <2>2
<1>5. ASSUME NEW s \in SUBSET T
      PROVE  h[s] = IF s = {} THEN 0 ELSE f[Chosen(s)] + h[s \ {Chosen(s)}]
  <2>1. CASE s = {}  BY <2>1
  <2>2. CASE s # {}
    <3>1. s \ {Chosen(s)} \in SUBSET T /\ s \ {Chosen(s)} # T
      BY <2>2, ChosenIn
    <3>2. h[s \ {Chosen(s)}] = G(s \ {Chosen(s)})[s \ {Chosen(s)}]
      BY <1>4, <3>1
    <3>3. h[s] = V(s)  OBVIOUS
    <3> HIDE DEF h
    <3> QED  BY <2>2, <3>2, <3>3
  <2> QED  BY <2>1, <2>2
<1>6. SumTable(h, f, T)
  BY <1>5 DEF SumTable
<1> QED  BY <1>2, <1>6

\* What a table says of sums: the order of the elements does not matter.
SumLaws(g, f, S) ==
    /\ g[{}] = 0
    /\ \A s \in SUBSET S : g[s] \in Int
    /\ \A s \in SUBSET S : \A x \in s : g[s] = f[x] + g[s \ {x}]

\* Tables obey the laws.
LEMMA TableLaws ==
    ASSUME NEW S, IsFiniteSet(S), NEW f \in [S -> Int],
           NEW g, SumTable(g, f, S)
    PROVE  SumLaws(g, f, S)
<1>1. ASSUME NEW s \in SUBSET S, g[s] \notin Int PROVE FALSE
  <2> DEFINE F == {t \in SUBSET S : g[t] \notin Int}
  <2>1. F # {} /\ F \in SUBSET (SUBSET S)  BY <1>1
  <2>2. PICK t \in F : \A u \in F : u \subseteq t => u = t
    <3> HIDE DEF F
    <3> QED  BY <2>1, SmallestSet
  <2>3. t # {}  BY TableEmpty
  <2>4. g[t \ {Chosen(t)}] \in Int /\ Chosen(t) \in S
    BY <2>2, <2>3, ChosenIn
  <2>5. g[t] = f[Chosen(t)] + g[t \ {Chosen(t)}]
    BY <2>3, TableEntry
  <2> QED  BY <2>4, <2>5
<1>2. ASSUME NEW s \in SUBSET S, NEW x \in s, g[s] # f[x] + g[s \ {x}] PROVE FALSE
  <2> DEFINE Off(t) == \E y \in t : g[t] # f[y] + g[t \ {y}]
             F == {t \in SUBSET S : Off(t)}
  <2>1. F # {} /\ F \in SUBSET (SUBSET S)  BY <1>2
  <2>2. PICK t \in F : \A u \in F : u \subseteq t => u = t
    <3> HIDE DEF F
    <3> QED  BY <2>1, SmallestSet
  <2>3. PICK y \in t : g[t] # f[y] + g[t \ {y}]
    OBVIOUS
  <2>4. PICK z : z = Chosen(t)  OBVIOUS
  <2>5. z \in t /\ g[t] = f[z] + g[t \ {z}]
    BY <2>3, <2>4, ChosenIn, TableEntry
  <2>6. z # y  BY <2>3, <2>5
  <2>7. PICK u : u = (t \ {y}) \ {z}  OBVIOUS
  <2>8. (t \ {z}) \ {y} = u  BY <2>7
  <2>9. g[t \ {z}] = f[y] + g[u]
    <3>1. t \ {z} \in SUBSET S /\ t \ {z} \subseteq t /\ t \ {z} # t /\ y \in t \ {z}
      BY <2>5, <2>6
    <3>2. ~Off(t \ {z})  BY <2>2, <3>1
    <3> QED  BY <2>8, <3>1, <3>2
  <2>10. g[t \ {y}] = f[z] + g[u]
    <3>1. t \ {y} \in SUBSET S /\ t \ {y} \subseteq t /\ t \ {y} # t /\ z \in t \ {y}
      BY <2>5, <2>6
    <3>2. ~Off(t \ {y})  BY <2>2, <3>1
    <3> QED  BY <2>7, <3>1, <3>2
  <2>11. g[u] \in Int /\ f[y] \in Int /\ f[z] \in Int
    BY <1>1, <2>5, <2>7
  <2> QED  BY <2>3, <2>5, <2>9, <2>10, <2>11
<1> QED  BY <1>1, <1>2, TableEmpty DEF SumLaws

\* The sum of a function over a finite set
Sum(f, S) == (CHOOSE g : SumTable(g, f, S))[S]

\* It is the last entry of a table that obeys the laws.
LEMMA SumHasLaws ==
    ASSUME NEW S, IsFiniteSet(S), NEW f \in [S -> Int]
    PROVE  \E g : SumLaws(g, f, S) /\ Sum(f, S) = g[S]
<1>1. PICK g : g = CHOOSE h : SumTable(h, f, S)  OBVIOUS
<1>2. SumTable(g, f, S)  BY <1>1, TableExists
<1> QED  BY <1>1, <1>2, TableLaws DEF Sum

\* Functions that differ in one place have sums that differ by as much.
LEMMA LawsUpdate ==
    ASSUME NEW S, IsFiniteSet(S), NEW f \in [S -> Int], NEW e \in [S -> Int],
           NEW x \in S, \A y \in S : y # x => e[y] = f[y],
           NEW g, SumLaws(g, f, S), NEW h, SumLaws(h, e, S)
    PROVE  h[S] = g[S] - f[x] + e[x]
<1> USE DEF SumLaws
<1>1. ASSUME NEW s \in SUBSET S, x \notin s, h[s] # g[s] PROVE FALSE
  <2> DEFINE F == {t \in SUBSET S : x \notin t /\ h[t] # g[t]}
  <2>1. F # {} /\ F \in SUBSET (SUBSET S)  BY <1>1
  <2>2. PICK t \in F : \A u \in F : u \subseteq t => u = t
    <3> HIDE DEF F, SumLaws
    <3> QED  BY <2>1, SmallestSet
  <2>3. PICK y : y \in t  OBVIOUS
  <2>4. y \in S /\ y # x /\ t \in SUBSET S /\ x \notin t /\ h[t] # g[t]
    BY <2>3
  <2>5. h[t \ {y}] = g[t \ {y}]
    BY <2>2, <2>3
  <2>6. e[y] = f[y]  BY <2>4
  <2>7. h[t] = e[y] + h[t \ {y}] /\ g[t] = f[y] + g[t \ {y}]
    BY <2>3, <2>4
  <2> QED  BY <2>4, <2>5, <2>6, <2>7
<1>2. h[S \ {x}] = g[S \ {x}]  BY <1>1
<1>3. S \in SUBSET S /\ S \ {x} \in SUBSET S  OBVIOUS
<1>4. h[S] = e[x] + h[S \ {x}] /\ g[S] = f[x] + g[S \ {x}] /\ g[S \ {x}] \in Int
  BY <1>3
<1>5. f[x] \in Int /\ e[x] \in Int  OBVIOUS
<1> QED  BY <1>2, <1>4, <1>5

\* The same of a function that is updated in one place
LEMMA SumUpdate ==
    ASSUME NEW S, IsFiniteSet(S), NEW f \in [S -> Int], NEW x \in S, NEW v \in Int
    PROVE  Sum([f EXCEPT ![x] = v], S) = Sum(f, S) - f[x] + v /\ Sum(f, S) \in Int
<1>1. PICK g : SumLaws(g, f, S) /\ Sum(f, S) = g[S]  BY SumHasLaws
<1>2. PICK e : e = [f EXCEPT ![x] = v]  OBVIOUS
<1>3. e \in [S -> Int] /\ e[x] = v /\ \A y \in S : y # x => e[y] = f[y]
  BY <1>2
<1>4. PICK h : SumLaws(h, e, S) /\ Sum(e, S) = h[S]  BY <1>3, SumHasLaws
<1>5. h[S] = g[S] - f[x] + e[x]
  BY <1>1, <1>3, <1>4, LawsUpdate
<1>6. g[S] \in Int  BY <1>1 DEF SumLaws
<1> QED  BY <1>1, <1>2, <1>3, <1>4, <1>5, <1>6

\* The sum of zeros
LEMMA SumZero ==
    ASSUME NEW S, IsFiniteSet(S), NEW f \in [S -> Int], \A x \in S : f[x] = 0
    PROVE  Sum(f, S) = 0
<1>1. PICK g : SumLaws(g, f, S) /\ Sum(f, S) = g[S]  BY SumHasLaws
<1>2. SUFFICES ASSUME NEW s \in SUBSET S, g[s] # 0 PROVE FALSE
  BY <1>1
<1> DEFINE F == {t \in SUBSET S : g[t] # 0}
<1>3. F # {} /\ F \in SUBSET (SUBSET S)  BY <1>2
<1>4. PICK t \in F : \A u \in F : u \subseteq t => u = t
  <2> HIDE DEF F
  <2> QED  BY <1>3, SmallestSet
<1>5. PICK x : x \in t  BY <1>1 DEF SumLaws
<1>6. x \in S /\ g[t \ {x}] = 0 /\ f[x] = 0  BY <1>4, <1>5
<1>7. g[t] = f[x] + g[t \ {x}]  BY <1>1, <1>5 DEF SumLaws
<1> QED  BY <1>6, <1>7

\* The sum of the CPUs' counts is such a sum.
LEMMA LocalSumIs ==
    LocalSum = Sum(lc_percpu, CPUs) /\ LocalSum' = Sum(lc_percpu', CPUs)
  BY DEF LocalSum, MapThenSumSet, MapThenFoldSet, SumTable, Sum, Chosen

-----------------------------------------------------------------------------
(* localcount(9) *)

\* The types of localcount(9)'s state
LcTypeOK ==
    /\ lc_percpu \in [CPUs -> Int] /\ total \in Int
    /\ lc_totalp \in {"null", "total", "dead"}
    /\ refs \in Nat /\ slow \in Nat
    /\ fast \in SUBSET CPUs /\ asked \in SUBSET CPUs
    /\ drainer \in {"idle", "xc", "check", "asleep", "drained"}

\* lc_totalp says where the drainer is.
Phases ==
    /\ lc_totalp = "null" <=> drainer = "idle"
    /\ lc_totalp = "dead" <=> drainer = "drained"
    /\ drainer # "xc" => asked = {}
    /\ drainer = "idle" => slow = 0
    /\ drainer \in {"idle", "drained"} => total = 0

\* A CPU that has counted keeps a count of zero: no release is between its look
\* at lc_totalp and its decrement there.
Counted ==
    drainer # "idle" =>
        fast \subseteq asked /\ \A cpu \in CPUs \ asked : lc_percpu[cpu] = 0

\* Every release under way has a reference of its own.
Held == refs >= Cardinality(fast) + slow

\* CountsAddUp needs the rest: what a release changes depends on whether its CPU has
\* counted, and DrainWaits needs that the counts left behind are zero.
LcInv == LcTypeOK /\ Phases /\ Counted /\ Held /\ CountsAddUp

\* The size of the set of CPUs with a release under way
LEMMA FastCount ==
    ASSUME LcTypeOK
    PROVE  /\ Cardinality(fast) \in Nat /\ (Cardinality(fast) = 0 <=> fast = {})
           /\ \A cpu : Cardinality(fast \cup {cpu}) =
                 IF cpu \in fast THEN Cardinality(fast) ELSE Cardinality(fast) + 1
           /\ \A cpu : Cardinality(fast \ {cpu}) =
                 IF cpu \in fast THEN Cardinality(fast) - 1 ELSE Cardinality(fast)
<1>1. IsFiniteSet(fast)  BY LocalcountAssumption, FS_Subset DEF LcTypeOK
<1> QED  BY <1>1, FS_CardinalityType, FS_EmptySet, FS_AddElement, FS_RemoveElement

\* What localcount_adjust() and localcount_xc() do to the sum of the counts
LEMMA LocalSumUpdate ==
    ASSUME LcTypeOK, NEW cpu \in CPUs, NEW v \in Int,
           lc_percpu' = [lc_percpu EXCEPT ![cpu] = v]
    PROVE  LocalSum \in Int /\ LocalSum' = LocalSum - lc_percpu[cpu] + v
<1>1. LocalSum = Sum(lc_percpu, CPUs)  BY LocalSumIs
<1>2. LocalSum' = Sum(lc_percpu', CPUs)  BY LocalSumIs
<1>3. PICK f : f = lc_percpu  OBVIOUS
<1>4. f \in [CPUs -> Int]  BY <1>3 DEF LcTypeOK
<1>5. Sum([f EXCEPT ![cpu] = v], CPUs) = Sum(f, CPUs) - f[cpu] + v /\ Sum(f, CPUs) \in Int
  BY <1>4, SumUpdate, LocalcountAssumption
<1> QED  BY <1>1, <1>2, <1>3, <1>5

\* Once every CPU has counted there is nothing left in the CPUs' counts.
LEMMA LocalSumZero ==
    ASSUME LcTypeOK, \A cpu \in CPUs : lc_percpu[cpu] = 0
    PROVE  LocalSum = 0
  BY LocalSumIs, SumZero, LocalcountAssumption DEF LcTypeOK

\* localcount_init() establishes the invariant.
LEMMA LcInitInv == LcInit => LcInv
<1> SUFFICES ASSUME LcInit PROVE LcInv
  OBVIOUS
<1>1. LcTypeOK /\ Phases /\ Counted
  BY DEF LcInit, LcTypeOK, Phases, Counted
<1>2. Held
  BY FS_EmptySet DEF LcInit, Held
<1>3. \A cpu \in CPUs : lc_percpu[cpu] = 0  BY DEF LcInit
<1>4. CountsAddUp
  BY <1>1, <1>3, LocalSumZero DEF LcInit, CountsAddUp
<1> QED  BY <1>1, <1>2, <1>4 DEF LcInv

\* localcount_acquire() preserves it: nobody is draining.
LEMMA AcquireInv == ASSUME LcInv, NEW cpu \in CPUs, Acquire(cpu) PROVE LcInv'
<1> USE DEF LcInv
<1>1. /\ lc_totalp = "null" /\ lc_percpu' = [lc_percpu EXCEPT ![cpu] = @ + 1]
      /\ refs' = refs + 1
      /\ UNCHANGED <<lc_totalp, total, fast, slow, asked, drainer>>
  BY DEF Acquire, Adjust
<1>2. drainer = "idle" /\ lc_percpu[cpu] + 1 \in Int /\ lc_percpu[cpu] \in Int
  BY <1>1 DEF Phases, LcTypeOK
<1>3. LcTypeOK' /\ Phases' /\ Counted'
  BY <1>1, <1>2 DEF LcTypeOK, Phases, Counted
<1>4. Held'
  BY <1>1, FastCount DEF Held, LcTypeOK
<1>5. LocalSum \in Int /\ LocalSum' = LocalSum - lc_percpu[cpu] + (lc_percpu[cpu] + 1)
  BY <1>1, <1>2, LocalSumUpdate
<1>6. CountsAddUp'
  BY <1>1, <1>2, <1>5 DEF CountsAddUp, LcTypeOK
<1> QED  BY <1>3, <1>4, <1>6

\* localcount_release() up to its look at lc_totalp: the CPU is not asked yet if the
\* pointer is null, since then nobody is draining.
LEMMA ReleaseTestInv ==
    ASSUME LcInv, NEW cpu \in CPUs, ReleaseTest(cpu) PROVE LcInv'
<1> USE DEF LcInv
<1>1. /\ refs > Cardinality(fast) + slow /\ cpu \notin fast
      /\ UNCHANGED <<lc_percpu, lc_totalp, total, refs, asked, drainer>>
  BY DEF ReleaseTest
<1>2. LocalSum' = LocalSum
  BY <1>1, LocalSumIs
<1>3. CountsAddUp'
  BY <1>1, <1>2 DEF CountsAddUp
<1>4. CASE lc_totalp = "null"
  <2>1. fast' = fast \cup {cpu} /\ slow' = slow /\ drainer = "idle"
    BY <1>4 DEF ReleaseTest, Phases
  <2>2. LcTypeOK' /\ Phases' /\ Counted'
    BY <1>1, <2>1 DEF LcTypeOK, Phases, Counted
  <2>3. Held'
    BY <1>1, <2>1, FastCount DEF Held, LcTypeOK
  <2> QED  BY <1>3, <2>2, <2>3
<1>5. CASE lc_totalp # "null"
  <2>1. fast' = fast /\ slow' = slow + 1 /\ drainer # "idle"
    BY <1>5 DEF ReleaseTest, Phases
  <2>2. LcTypeOK' /\ Phases' /\ Counted'
    BY <1>1, <2>1 DEF LcTypeOK, Phases, Counted
  <2>3. Held'
    BY <1>1, <2>1, FastCount DEF Held, LcTypeOK
  <2> QED  BY <1>3, <2>2, <2>3
<1> QED  BY <1>4, <1>5

\* The decrement of the CPU's own count: that CPU has not counted yet.
LEMMA ReleaseFastInv ==
    ASSUME LcInv, NEW cpu \in CPUs, ReleaseFast(cpu) PROVE LcInv'
<1> USE DEF LcInv
<1>1. /\ cpu \in fast /\ lc_percpu' = [lc_percpu EXCEPT ![cpu] = @ + -1]
      /\ fast' = fast \ {cpu} /\ refs' = refs - 1
      /\ UNCHANGED <<lc_totalp, total, slow, asked, drainer>>
  BY DEF ReleaseFast, Adjust
<1>2. lc_percpu[cpu] + -1 \in Int /\ lc_percpu[cpu] \in Int
  BY DEF LcTypeOK
<1>3. refs >= 1 /\ Held'
  BY <1>1, FastCount DEF Held, LcTypeOK
<1>4. LcTypeOK' /\ Phases'
  BY <1>1, <1>2, <1>3 DEF LcTypeOK, Phases
<1>5. drainer # "idle" => cpu \in asked
  BY <1>1 DEF Counted
<1>6. Counted'
  BY <1>1, <1>5 DEF Counted, LcTypeOK
<1>7. LocalSum \in Int /\ LocalSum' = LocalSum - lc_percpu[cpu] + (lc_percpu[cpu] + -1)
  BY <1>1, <1>2, LocalSumUpdate
<1>8. drainer \notin {"check", "asleep"}
  BY <1>5 DEF Phases
<1>9. CountsAddUp'
  BY <1>1, <1>2, <1>7, <1>8 DEF CountsAddUp, LcTypeOK
<1> QED  BY <1>3, <1>4, <1>6, <1>9

\* The decrement of the total: there is a total, because this reference is left.
LEMMA ReleaseSlowInv == ASSUME LcInv, ReleaseSlow PROVE LcInv'
<1> USE DEF LcInv
<1>1. /\ slow > 0 /\ total' = total - 1 /\ slow' = slow - 1 /\ refs' = refs - 1
      /\ drainer' \in {drainer, "check"} /\ (drainer' # drainer => drainer = "asleep")
      /\ UNCHANGED <<lc_percpu, lc_totalp, fast, asked>>
  BY DEF ReleaseSlow
<1>2. refs >= 1 /\ Held'
  BY <1>1, FastCount DEF Held, LcTypeOK
<1>3. LocalSum' = LocalSum /\ LocalSum \in Int
  <2>1. PICK cpu : cpu \in CPUs  BY LocalcountAssumption
  <2>2. lc_percpu[cpu] \in Int /\ lc_percpu' = [lc_percpu EXCEPT ![cpu] = lc_percpu[cpu]]
    BY <1>1, <2>1 DEF LcTypeOK
  <2>3. LocalSum \in Int  BY <2>1, <2>2, LocalSumUpdate
  <2> QED  BY <1>1, <2>3, LocalSumIs
<1>4. drainer # "drained"
  <2>1. SUFFICES ASSUME drainer = "drained" PROVE FALSE
    OBVIOUS
  <2>2. \A cpu \in CPUs : lc_percpu[cpu] = 0
    BY <2>1 DEF Phases, Counted
  <2>3. refs = 0
    BY <2>1, <2>2, LocalSumZero DEF Phases, CountsAddUp
  <2> QED  BY <1>2, <2>3
<1>5. drainer # "idle"
  BY <1>1 DEF Phases
<1>6. LcTypeOK' /\ Phases' /\ Counted'
  BY <1>1, <1>2, <1>4, <1>5 DEF LcTypeOK, Phases, Counted
<1>7. CountsAddUp'
  BY <1>1, <1>3, <1>6 DEF CountsAddUp, LcTypeOK
<1> QED  BY <1>2, <1>6, <1>7

\* localcount_drain() up to the cross call
LEMMA DrainStartInv == ASSUME LcInv, DrainStart PROVE LcInv'
<1> USE DEF LcInv
<1>1. /\ drainer = "idle" /\ lc_totalp' = "total" /\ total' = 0 /\ total = 0
      /\ asked' = CPUs /\ drainer' = "xc"
      /\ UNCHANGED <<lc_percpu, refs, fast, slow>>
  BY DEF DrainStart, Phases
<1>2. LocalSum' = LocalSum  BY <1>1, LocalSumIs
<1>3. LcTypeOK' /\ Phases' /\ Counted'
  BY <1>1 DEF LcTypeOK, Phases, Counted
<1>4. Held' /\ CountsAddUp'
  BY <1>1, <1>2 DEF Held, CountsAddUp
<1> QED  BY <1>3, <1>4

\* localcount_xc(): the count moves to the total; no release is under way on this
\* CPU, because the cross call runs in a thread.
LEMMA CountUpInv == ASSUME LcInv, NEW cpu \in CPUs, CountUp(cpu) PROVE LcInv'
<1> USE DEF LcInv
<1>1. /\ cpu \in asked /\ cpu \notin fast /\ total' = total + lc_percpu[cpu]
      /\ lc_percpu' = [lc_percpu EXCEPT ![cpu] = 0] /\ asked' = asked \ {cpu}
      /\ UNCHANGED <<lc_totalp, refs, fast, slow, drainer>>
  BY DEF CountUp, MayRun
<1>2. drainer = "xc" /\ lc_percpu[cpu] \in Int
  BY <1>1 DEF Phases, LcTypeOK
<1>3. LcTypeOK' /\ Phases' /\ Counted'
  BY <1>1, <1>2 DEF LcTypeOK, Phases, Counted
<1>4. LocalSum \in Int /\ LocalSum' = LocalSum - lc_percpu[cpu] + 0
  <2>1. 0 \in Int  OBVIOUS
  <2> QED  BY <1>1, <2>1, LocalSumUpdate
<1>5. Held'
  BY <1>1 DEF Held
<1>6. total \in Int /\ refs \in Int  BY DEF LcTypeOK
<1>7. CountsAddUp'
  BY <1>1, <1>2, <1>4, <1>6 DEF CountsAddUp
<1> QED  BY <1>3, <1>5, <1>7

\* The end of the cross call, and a turn of the loop around cv_wait()
LEMMA DrainInv == ASSUME LcInv, DrainCounted \/ DrainCheck PROVE LcInv'
<1> USE DEF LcInv
<1>1. /\ UNCHANGED <<lc_percpu, total, refs, fast, slow, asked>>
      /\ drainer \in {"xc", "check"} /\ asked = {}
  BY DEF DrainCounted, DrainCheck, Phases
<1>2. LocalSum' = LocalSum  BY <1>1, LocalSumIs
<1>3. /\ drainer' \in {"check", "asleep", "drained"}
      /\ lc_totalp' = IF drainer' = "drained" THEN "dead" ELSE lc_totalp
      /\ drainer' = "drained" => total = 0
  BY DEF DrainCounted, DrainCheck, Remaining
<1>4. LcTypeOK' /\ Phases' /\ Counted'
  BY <1>1, <1>3 DEF LcTypeOK, Phases, Counted
<1>5. \A cpu \in CPUs : lc_percpu[cpu] = 0
  BY <1>1 DEF Counted
<1>6. Held' /\ CountsAddUp'
  BY <1>1, <1>2, <1>5 DEF Held, CountsAddUp
<1> QED  BY <1>4, <1>6

\* What the drained state says: nothing is left.
LEMMA NothingLeft == LcInv => DrainWaits
<1> SUFFICES ASSUME LcInv, drainer = "drained" PROVE refs = 0 /\ fast = {} /\ slow = 0
  BY DEF DrainWaits
<1> USE DEF LcInv
<1>1. \A cpu \in CPUs : lc_percpu[cpu] = 0
  BY DEF Phases, Counted
<1>2. refs = 0
  BY <1>1, LocalSumZero DEF Phases, CountsAddUp
<1> QED  BY <1>2, FastCount DEF Held, LcTypeOK

\* localcount_fini() and localcount_init(): nothing is left behind.
LEMMA RenewInv == ASSUME LcInv, Renew PROVE LcInv'
<1> USE DEF LcInv
<1>1. /\ lc_percpu' = [cpu \in CPUs |-> 0] /\ lc_totalp' = "null" /\ total' = 0
      /\ drainer' = "idle" /\ asked = {}
      /\ UNCHANGED <<refs, fast, slow, asked>>
      /\ refs = 0 /\ slow = 0
  BY NothingLeft DEF Renew, DrainWaits, Phases
<1>2. LcTypeOK' /\ Phases' /\ Counted'
  BY <1>1 DEF LcTypeOK, Phases, Counted
<1>3. LocalSum' = 0
  BY <1>1, LocalSumIs, SumZero, LocalcountAssumption
<1>4. Held' /\ CountsAddUp'
  BY <1>1, <1>3 DEF Held, CountsAddUp
<1> QED  BY <1>2, <1>4

\* Every step preserves the invariant.
LEMMA LcNextInv == LcInv /\ [LcNext]_lcVars => LcInv'
<1> SUFFICES ASSUME LcInv, [LcNext]_lcVars PROVE LcInv'
  OBVIOUS
<1>1. CASE UNCHANGED lcVars
  <2>1. LocalSum' = LocalSum  BY <1>1, LocalSumIs DEF lcVars
  <2> QED
    BY <1>1, <2>1 DEF lcVars, LcInv, LcTypeOK, Phases, Counted, Held, CountsAddUp
<1>2. CASE \E cpu \in CPUs :
             Acquire(cpu) \/ ReleaseTest(cpu) \/ ReleaseFast(cpu) \/ CountUp(cpu)
  BY <1>2, AcquireInv, ReleaseTestInv, ReleaseFastInv, CountUpInv
<1>3. CASE ReleaseSlow \/ DrainStart \/ DrainCounted \/ DrainCheck \/ Renew
  BY <1>3, ReleaseSlowInv, DrainStartInv, DrainInv, RenewInv
<1> QED  BY <1>1, <1>2, <1>3 DEF LcNext

\* The inductive invariant of localcount(9), for any finite set of CPUs.
THEOREM LcInductive == LcSpec => []LcInv
  BY LcInitInv, LcNextInv, PTL DEF LcSpec

\* Wherever references are acquired and released, the CPUs' counts and the total add
\* up to their number, and all of them are in the total when every CPU has counted.
THEOREM LcCountsAddUp == LcSpec => []CountsAddUp
<1>1. LcInv => CountsAddUp  BY DEF LcInv
<1> QED  BY <1>1, LcInductive, PTL

\* localcount_drain() returns only when there is no reference left and no release that
\* would still use lc_totalp.
THEOREM LcDrainWaits == LcSpec => []DrainWaits
  BY NothingLeft, LcInductive, PTL
=============================================================================
