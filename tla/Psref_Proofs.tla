---------------------------- MODULE Psref_Proofs ----------------------------
(***************************************************************************)
(* Proofs about Psref and about IfnetRefs, which uses it, for any number of *)
(* CPUs and references.                                                     *)
(*                                                                         *)
(* Psref: DestroyWaits is not inductive.  The CPUs answer one after the    *)
(* other, so what matters is that an answer stays true until the last one  *)
(* is in.                                                                  *)
(*                                                                         *)
(* IfnetRefs: interfaces keep the contract of psref_acquire().  They       *)
(* implement the safety part of Psref, whose theorems then hold of them.   *)
(***************************************************************************)
EXTENDS IfnetRefs, TLAPS

-----------------------------------------------------------------------------
(* Passive references *)


\* psref_target_init() establishes the invariant.
LEMMA InitInv == Init => Inv
BY DEF Init, Inv, TypeOK, AnsweredNoStaysNo, DestroyWaits

\* The users' side of subr_psref.c: psref_acquire(), psref_copy() and the two
\* halves of psref_release() keep the invariant.
LEMMA UserStep ==
    ASSUME Inv, NEW cpu \in CPUs, NEW r \in Psrefs,
           \/ Acquire(cpu, r) \/ ReleaseRemove(cpu, r) \/ ReleaseNotify(cpu, r)
           \/ \E to \in Psrefs : Copy(cpu, r, to)
    PROVE  Inv'
<1> USE DEF Inv, TypeOK, AnsweredNoStaysNo, DestroyWaits
<1>1. CASE Acquire(cpu, r)
  BY <1>1 DEF Acquire, Record, Unused
<1>2. CASE ReleaseRemove(cpu, r)
  BY <1>2 DEF ReleaseRemove
<1>3. CASE ReleaseNotify(cpu, r)
  BY <1>3 DEF ReleaseNotify, Ask
<1>4. ASSUME NEW to \in Psrefs, Copy(cpu, r, to) PROVE Inv'
  BY <1>4 DEF Copy, Record, Unused
<1>5. QED
  BY <1>1, <1>2, <1>3, <1>4

\* psreffed_p_xc() on one CPU keeps the invariant: ret stays FALSE only if the
\* CPU has no entry.
LEMMA AnswerStep == ASSUME Inv, NEW cpu \in CPUs, Answer(cpu) PROVE Inv'
<1> USE DEF Inv, TypeOK, AnsweredNoStaysNo, DestroyWaits, Answer, Verdict
<1>1. TypeOK' /\ DestroyWaits'
  OBVIOUS
<1>2. ASSUME destroyer' = "asking", ~ret', NEW c \in CPUs \ asked'
      PROVE  pcpu_head'[c] = {}
  <2>1. ~ret /\ ~PsrefHeld(cpu)
    BY <1>2
  <2>2. CASE c = cpu
    BY <2>1, <2>2 DEF PsrefHeld
  <2>3. CASE c # cpu
    BY <1>2, <2>1, <2>3
  <2>4. QED
    BY <2>2, <2>3
<1>3. QED
  BY <1>1, <1>2

\* The steps of psref_target_destroy() itself keep the invariant; Decide needs
\* all of it, because asked is empty then.
LEMMA DestroyStep ==
    Inv /\ (DestroyStart \/ Decide \/ Sleep \/ Timeout \/ Renew) => Inv'
<1> SUFFICES ASSUME Inv, DestroyStart \/ Decide \/ Sleep \/ Timeout \/ Renew
             PROVE  Inv'
  OBVIOUS
<1> USE DEF Inv, TypeOK, AnsweredNoStaysNo, DestroyWaits
<1>1. CASE DestroyStart
  BY <1>1 DEF DestroyStart, Ask
<1>2. CASE Decide
  BY <1>2 DEF Decide
<1>3. CASE Sleep
  BY <1>3 DEF Sleep
<1>4. CASE Timeout
  BY <1>4 DEF Timeout, TimesOut, Ask
<1>5. CASE Renew
  BY <1>5 DEF Renew
<1>6. QED
  BY <1>1, <1>2, <1>3, <1>4, <1>5

\* Every step of references and of the drain keeps the invariant.
LEMMA NextInv == Inv /\ [Next]_vars => Inv'
<1> SUFFICES ASSUME Inv, [Next]_vars PROVE Inv'
  OBVIOUS
<1>1. CASE UNCHANGED vars
  BY <1>1 DEF vars, Inv, TypeOK, AnsweredNoStaysNo, DestroyWaits
<1>2. CASE Next
  BY <1>2, UserStep, AnswerStep, DestroyStep DEF Next
<1>3. QED
  BY <1>1, <1>2

\* The invariant of subr_psref.c's drain protocol holds in every reachable
\* state, for any set of CPUs and references.
THEOREM PsrefInv == Spec => []Inv
BY InitInv, NextInv, PTL DEF Spec

\* psref_target_destroy() returns only when no CPU has a reference.
THEOREM PsrefDestroyWaits == Spec => []DestroyWaits
<1>1. Inv => DestroyWaits
  BY DEF Inv
<1>2. QED
  BY PsrefInv, <1>1, PTL

-----------------------------------------------------------------------------
(* Interfaces *)

IfInv == IfTypeOK /\ FoundHoldsPerform

\* Before if_getindex() no lookup can have found the interface.
LEMMA IfInitInv == IfInit => IfInv
  BY DEF IfInit, Init, IfInv, IfTypeOK, FoundHoldsPerform, Tables

\* What the users of references do leaves psref_target_destroy() where it is,
\* or wakes it: it never begins or ends there.
LEMMA ReferenceKeepsIdle ==
    ASSUME NEW cpu \in CPUs, Reference(cpu)
    PROVE  UNCHANGED ifVars /\ (destroyer' = "idle" <=> destroyer = "idle")
  BY DEF Reference, ReleaseRemove, ReleaseNotify, Ask, Copy, Record, ifVars

\* A step of a lookup preserves the invariant: one that begins after the
\* interface has left both tables does not find it, and one that ends no longer
\* holds up pserialize_perform().
LEMMA LookupInv ==
    ASSUME IfInv, NEW cpu \in CPUs,
           \/ ReadEnter(cpu) \/ Find(cpu) \/ ReadExit(cpu)
           \/ \E r \in Psrefs : AcquireFound(cpu, r)
    PROVE  IfInv'
<1> USE DEF IfInv, IfTypeOK, FoundHoldsPerform, Tables
<1>1. CASE ReadEnter(cpu)
  BY <1>1 DEF ReadEnter, refVars
<1>2. CASE Find(cpu)
  BY <1>2 DEF Find, refVars
<1>3. CASE ReadExit(cpu)
  BY <1>3 DEF ReadExit, refVars
<1>4. ASSUME NEW r \in Psrefs, AcquireFound(cpu, r) PROVE IfInv'
  BY <1>4 DEF AcquireFound, Record
<1> QED
  BY <1>1, <1>2, <1>3, <1>4

\* A step of if_initialize(), if_register() or if_detach() does: at Perform a
\* lookup that has the interface is waited for, so at Destroy there is none.
LEMMA DetachInv ==
    ASSUME IfInv, GetIndex \/ Register \/ Unlink \/ Perform \/ Destroy \/ Reattach
    PROVE  IfInv'
<1> USE DEF IfInv, IfTypeOK, FoundHoldsPerform, Tables
<1>1. CASE GetIndex
  BY <1>1 DEF GetIndex, refVars
<1>2. CASE Register
  BY <1>2 DEF Register, refVars
<1>3. CASE Unlink
  BY <1>3 DEF Unlink, refVars
<1>4. CASE Perform
  BY <1>4 DEF Perform, Unlinked, refVars
<1>5. CASE Destroy
  BY <1>5 DEF Destroy, DestroyStart, Ask
<1>6. CASE Reattach
  BY <1>6 DEF Reattach, Renew
<1> QED
  BY <1>1, <1>2, <1>3, <1>4, <1>5, <1>6

\* Every step preserves the invariant.
LEMMA IfNextInv == IfInv /\ [IfNext]_allVars => IfInv'
<1> SUFFICES ASSUME IfInv, [IfNext]_allVars PROVE IfInv'
  OBVIOUS
<1>1. ASSUME NEW cpu \in CPUs, Reference(cpu) PROVE IfInv'
  BY <1>1, ReferenceKeepsIdle DEF IfInv, IfTypeOK, FoundHoldsPerform, ifVars
<1>2. ASSUME NEW cpu \in CPUs, AnswerXcall(cpu) PROVE IfInv'
  BY <1>2 DEF AnswerXcall, Answer, IfInv, IfTypeOK, FoundHoldsPerform, ifVars
<1>3. CASE Destroyer
  BY <1>3 DEF Destroyer, Decide, Sleep, Timeout, TimesOut, Ask, IfInv, IfTypeOK,
              FoundHoldsPerform, ifVars
<1>4. CASE UNCHANGED allVars
  BY <1>4 DEF allVars, refVars, ifVars, IfInv, IfTypeOK, FoundHoldsPerform
<1> QED
  BY <1>1, <1>2, <1>3, <1>4, LookupInv, DetachInv DEF IfNext

\* The inductive invariant of interfaces: whoever has found the interface in a
\* table is waited for by if_detach() before it destroys the references.
THEOREM IfnetInv == IfSpec => []IfInv
<1> QED
  BY IfInitInv, IfNextInv, PTL DEF IfSpec

\* Every step of interfaces is a step of Psref or leaves its variables alone.
LEMMA IfStepSimulation ==
    ASSUME IfInv, [IfNext]_allVars
    PROVE  [Next]_vars
<1>1. ASSUME NEW cpu \in CPUs, NEW r \in Psrefs, AcquireFound(cpu, r)
      PROVE  Acquire(cpu, r)
  BY <1>1 DEF AcquireFound, Acquire, IfInv, FoundHoldsPerform
<1>2. ASSUME NEW cpu \in CPUs, Reference(cpu) PROVE Next
  BY <1>2 DEF Reference, Next
<1>3. ASSUME NEW cpu \in CPUs, ReadEnter(cpu) \/ Find(cpu) \/ ReadExit(cpu)
      PROVE  UNCHANGED vars
  BY <1>3 DEF ReadEnter, Find, ReadExit, refVars, vars
<1>4. CASE GetIndex \/ Register \/ Unlink \/ Perform
  BY <1>4 DEF GetIndex, Register, Unlink, Perform, refVars, vars
<1>5. CASE Destroy \/ Reattach \/ Destroyer
  BY <1>5 DEF Destroy, Reattach, Destroyer, Next
<1>6. ASSUME NEW cpu \in CPUs, AnswerXcall(cpu) PROVE Next
  BY <1>6 DEF AnswerXcall, Next
<1>7. CASE UNCHANGED allVars
  BY <1>7 DEF allVars, refVars, vars
<1> QED
  BY <1>1, <1>2, <1>3, <1>4, <1>5, <1>6, <1>7 DEF IfNext, Next

\* Interfaces implement Psref: no lookup calls psref_acquire() once if_detach()
\* has called psref_target_destroy().
THEOREM IfnetImplementsPsref == IfSpec => ImplementsPsref
<1>1. IfInit => Init
  BY DEF IfInit
<1> QED
  BY <1>1, IfnetInv, IfStepSimulation, PTL DEF IfSpec, ImplementsPsref

\* So the interface is not referenced on any CPU when if_detach() goes on to
\* free what hangs off it, although its lookups never test prt_draining.
THEOREM IfnetDestroyWaits == IfSpec => []DestroyWaits
<1>1. Inv => DestroyWaits
  BY DEF Inv
<1> QED
  BY <1>1, IfnetImplementsPsref, InitInv, NextInv, PTL DEF ImplementsPsref
=============================================================================
