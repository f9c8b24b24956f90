---------------------------- MODULE MC_Lockless ----------------------------
(* The queue of subr_pcq.c, the counts of subr_localcount.c and RUN_ONCE of *)
(* subr_once.c, which share nothing, in one run: a behaviour is one of one  *)
(* of the three modules, as `part' says, and the variables of the others    *)
(* stand still.                                                             *)
(*                                                                          *)
(* Pcq: three slots, so that the ring wraps around and fills up with two    *)
(* items.  Localcount: three CPUs and four references, so that one CPU's    *)
(* count can be negative while another's is not.  RunOnce: three threads    *)
(* and two objects, for an initialiser, a sleeper on each object and        *)
(* spurious wakeups by the other object's broadcast.                        *)
EXTENDS Pcq, Localcount, RunOnce

CONSTANTS t1, t2, i1, i2, cpu0, cpu1, cpu2, oa, ob

VARIABLE part     \* "queue", "counts" or "once"

partVars == <<vars, lcVars, onceVars, part>>

\* o is not read before it is set, and is fixed where RunOnce stands still.
PartInit ==
    /\ Init /\ LcInit /\ OnceInit
    /\ part \in {"queue", "counts", "once"}
    /\ part # "once" => o = [l \in Lwps |-> oa]

PartNext ==
    \/ part = "queue" /\ Next /\ UNCHANGED <<lcVars, onceVars, part>>
    \/ part = "counts" /\ LcNext /\ UNCHANGED <<vars, onceVars, part>>
    \/ part = "once" /\ OnceNext /\ UNCHANGED <<vars, lcVars, part>>

\* None of the fair actions is enabled in the initial states, so the fairness
\* of one module asks nothing of the others' behaviours.
PartSpec ==
    PartInit /\ [][PartNext]_partVars /\ Fairness /\ LcFairness /\ OnceFairness
=============================================================================
