----------------------------- MODULE IfnetRefs -----------------------------
(***************************************************************************)
(* Network interfaces (sys/net/if.c), the main users of passive references *)
(* and of passive serialization together.  psref_acquire() must not be     *)
(* called once psref_target_destroy() has begun, and takes no lock that    *)
(* could tell: a lookup acquires inside a pserialize read section, and     *)
(* if_detach() removes the interface from the tables, waits for the read   *)
(* sections and only then destroys the target.  Psref.tla takes that       *)
(* contract as the guard of Acquire; here it is a consequence.             *)
(*                                                                         *)
(* Of pserialize_perform() only what Pserialize.tla shows is used: it      *)
(* returns when every CPU that was in a read section has left it.  One     *)
(* interface is followed.  Lookups that skip a deactivated interface, and  *)
(* the ones that do not (if_attachdomain(), ifconf()), find it here while  *)
(* it is in the table they read.                                           *)
(***************************************************************************)
EXTENDS Psref

VARIABLES visible,   \* the tables that hold the interface
          reader,    \* the read section of each CPU; there preemption and
                     \* soft interrupts are off, so that there is one at most
          detach,    \* where the interface is in its life
          waitFor    \* the CPUs pserialize_perform() waits for

Tables == {"ifindex2ifnet", "ifnet_pslist"}

refVars == <<pcpu_head, releasing, prt_draining, destroyer, asked, ret>>
ifVars  == <<visible, reader, detach, waitFor>>
allVars == <<refVars, ifVars>>

\* if_initialize() before if_getindex()
IfInit ==
    /\ Init
    /\ visible = {}
    /\ reader = [cpu \in CPUs |-> "out"]
    /\ detach = "initialize"
    /\ waitFor = {}

-----------------------------------------------------------------------------
(* Lookups: if_get(), if_get_byindex(), if_get_bylla(), if_acquire() *)

\* pserialize_read_enter()
ReadEnter(cpu) ==
    /\ reader[cpu] = "out"
    /\ reader' = [reader EXCEPT ![cpu] = "in"]
    /\ UNCHANGED <<refVars, visible, detach, waitFor>>

\* The interface is in the table; the caller has a struct psref for it.
Find(cpu) ==
    /\ reader[cpu] = "in" /\ visible # {}
    /\ \E r \in Psrefs : Unused(cpu, r)
    /\ reader' = [reader EXCEPT ![cpu] = "found"]
    /\ UNCHANGED <<refVars, visible, detach, waitFor>>

\* psref_acquire(), whatever has become of the interface since
AcquireFound(cpu, r) ==
    /\ reader[cpu] = "found"
    /\ Record(cpu, r)
    /\ reader' = [reader EXCEPT ![cpu] = "got"]
    /\ UNCHANGED <<visible, detach, waitFor>>

\* pserialize_read_exit(), with a reference or without
ReadExit(cpu) ==
    /\ reader[cpu] \in {"in", "got"}
    /\ reader' = [reader EXCEPT ![cpu] = "out"]
    /\ waitFor' = waitFor \ {cpu}
    /\ UNCHANGED <<refVars, visible, detach>>

\* psref_copy() and if_put() need no read section, but can be in one.
Reference(cpu) ==
    /\ reader[cpu] # "found"
    /\ \/ \E r \in Psrefs : ReleaseRemove(cpu, r) \/ ReleaseNotify(cpu, r)
       \/ \E from, to \in Psrefs : Copy(cpu, from, to)
    /\ UNCHANGED ifVars

-----------------------------------------------------------------------------
(* if_initialize(), if_register() and if_detach() *)

\* if_getindex(): lookups by index find the interface before it is registered.
GetIndex ==
    /\ detach = "initialize"
    /\ visible' = {"ifindex2ifnet"} /\ detach' = "register"
    /\ UNCHANGED <<refVars, reader, waitFor>>

Register ==
    /\ detach = "register"
    /\ visible' = Tables /\ detach' = "attached"
    /\ UNCHANGED <<refVars, reader, waitFor>>

\* if_detach() removes the interface from one table after the other, while
\* lookups go on.
Unlink ==
    /\ detach = "attached" /\ visible # {}
    /\ visible' = IF "ifindex2ifnet" \in visible THEN {"ifnet_pslist"} ELSE {}
    /\ UNCHANGED <<refVars, reader, detach, waitFor>>

\* Mutant of Unlinked: pserialize_perform() comes before the last removal.
UnlinkedMut == "ifindex2ifnet" \notin visible

Unlinked == visible = {}

\* pserialize_perform(ifnet_psz) is called ...
Perform ==
    /\ detach = "attached" /\ Unlinked
    /\ detach' = "performing"
    /\ waitFor' = {cpu \in CPUs : reader[cpu] # "out"}
    /\ UNCHANGED <<refVars, visible, reader>>

\* ... returns, the addresses and routes are purged, and
\* psref_target_destroy() is called.
Destroy ==
    /\ detach = "performing" /\ waitFor = {}
    /\ detach' = "destroying"
    /\ DestroyStart
    /\ UNCHANGED <<visible, reader, waitFor>>

\* if_detach() returns, and the driver may attach another interface.
Reattach ==
    /\ Renew
    /\ detach' = "initialize"
    /\ UNCHANGED <<visible, reader, waitFor>>

\* The cross call is a soft interrupt: it waits for the end of a read section.
AnswerXcall(cpu) == reader[cpu] = "out" /\ Answer(cpu) /\ UNCHANGED ifVars

Destroyer == (Decide \/ Sleep \/ Timeout) /\ UNCHANGED ifVars

-----------------------------------------------------------------------------
IfNext ==
    \/ \E cpu \in CPUs :
         \/ ReadEnter(cpu) \/ Find(cpu) \/ ReadExit(cpu) \/ Reference(cpu)
         \/ \E r \in Psrefs : AcquireFound(cpu, r)
         \/ AnswerXcall(cpu)
    \/ GetIndex \/ Register \/ Unlink \/ Perform \/ Destroy \/ Reattach
    \/ Destroyer

\* As for Psref, the destroyer makes progress and the clock ticks.  A read
\* section ends, and a pending soft interrupt runs as soon as it has.
IfSpec ==
    /\ IfInit /\ [][IfNext]_allVars
    /\ WF_allVars(Destroyer)
    /\ \A cpu \in CPUs :
         /\ WF_allVars(\E r \in Psrefs : AcquireFound(cpu, r))
         /\ WF_allVars(ReadExit(cpu)) /\ SF_allVars(AnswerXcall(cpu))

-----------------------------------------------------------------------------
\* Every variable of this module has its type.
IfTypeOK ==
    /\ visible \subseteq Tables
    /\ reader \in [CPUs -> {"out", "in", "found", "got"}]
    /\ detach \in {"initialize", "register", "attached", "performing", "destroying"}
    /\ waitFor \subseteq CPUs

\* Interfaces use passive references as psref(9) demands: every step is one
\* that Psref.tla allows, so no psref_acquire() comes after the call of
\* psref_target_destroy(), not even by a lookup that found the interface before
\* it was removed, and what is proved of Psref holds here.
ImplementsPsref == Init /\ [][Next]_vars

\* The inductive invariant behind ImplementsPsref: a lookup that still has the
\* interface in its hands holds up pserialize_perform().
FoundHoldsPerform ==
    /\ destroyer # "idle" <=> detach = "destroying"
    /\ detach \in {"performing", "destroying"} => visible = {}
    /\ \A cpu \in CPUs : reader[cpu] = "found" =>
         /\ detach # "destroying"
         /\ detach = "performing" => cpu \in waitFor
=============================================================================
