------------------------------ MODULE RunOnce ------------------------------
(***************************************************************************)
(* RUN_ONCE(9): one-time initialisation (sys/kern/subr_once.c and the      *)
(* lock-free fast path of sys/sys/once.h).  Every once_t of the kernel     *)
(* shares one mutex (oncemtx) and one condition variable (oncecv); the     *)
(* initialisation function runs with the mutex dropped.                    *)
(***************************************************************************)
EXTENDS Naturals, FiniteSets

CONSTANTS Lwps,       \* the threads that call RUN_ONCE
          Onces,      \* the once_t objects
          Errors,     \* the values an initialisation function may return
          NoLwp       \* oncemtx is not held

ASSUME OnceAssumption == NoLwp \notin Lwps /\ Errors # {}

VARIABLES o_status,   \* [Onces -> ONCE_VIRGIN, ONCE_RUNNING or ONCE_DONE]
          o_error,    \* [Onces -> Errors \cup {0}]
          oncemtx,    \* the holder of oncemtx
          oncecv,     \* the threads asleep on oncecv
          pc,         \* where each thread is
          o,          \* the once_t each thread's current call is about
          rv          \* what each thread's last call returned

onceVars == <<o_status, o_error, oncemtx, oncecv, pc, o, rv>>

Statuses == {"VIRGIN", "RUNNING", "DONE"}

\* static initialisation by ONCE_DECL, and once_init()
OnceInit ==
    /\ o_status = [c \in Onces |-> "VIRGIN"]
    /\ o_error = [c \in Onces |-> 0]
    /\ oncemtx = NoLwp
    /\ oncecv = {}
    /\ pc = [l \in Lwps |-> "idle"]
    /\ o \in [Lwps -> Onces]
    /\ rv = [l \in Lwps |-> 0]

Goto(l, label) == pc' = [pc EXCEPT ![l] = label]

-----------------------------------------------------------------------------
\* RUN_ONCE(): the unlocked test of o_status.
FastPath(l) ==
    /\ pc[l] = "idle"
    /\ \E c \in Onces :
         /\ o' = [o EXCEPT ![l] = c]
         /\ Goto(l, IF o_status[c] = "DONE" THEN "return" ELSE "enter")
    /\ UNCHANGED <<o_status, o_error, oncemtx, oncecv, rv>>

\* mutex_enter(&oncemtx), on entry and when cv_wait() takes it again.
TakeMutex(l) ==
    /\ pc[l] \in {"enter", "woken"}
    /\ oncemtx = NoLwp
    /\ oncemtx' = l
    /\ Goto(l, IF pc[l] = "enter" THEN "test" ELSE "waited")
    /\ UNCHANGED <<o_status, o_error, oncecv, o, rv>>

\* Mutant of MayClaim: a second caller may run fn() while the first is in it.
MayClaimMut(c) == o_status[c] # "DONE"

\* if (o->o_status == ONCE_VIRGIN)
MayClaim(c) == o_status[c] = "VIRGIN"

\* The first caller claims the initialisation and drops the mutex to run it.
Test(l) ==
    /\ pc[l] = "test"
    /\ IF MayClaim(o[l])
         THEN /\ o_status' = [o_status EXCEPT ![o[l]] = "RUNNING"]
              /\ oncemtx' = NoLwp
              /\ Goto(l, "fn")
         ELSE /\ Goto(l, "loop")
              /\ UNCHANGED <<o_status, oncemtx>>
    /\ UNCHANGED <<o_error, oncecv, o, rv>>

\* fn() returns and its result is stored, with oncemtx not held.
RunFn(l) ==
    /\ pc[l] = "fn"
    /\ \E e \in Errors : o_error' = [o_error EXCEPT ![o[l]] = e]
    /\ Goto(l, "done")
    /\ UNCHANGED <<o_status, oncemtx, oncecv, o, rv>>

\* Mutant of Woken: cv_signal() where cv_broadcast() is needed.
WokenMut == IF oncecv = {} THEN {} ELSE {CHOOSE k \in oncecv : TRUE}

\* cv_broadcast(&oncecv): everyone asleep, whichever object they wait for.
Woken == oncecv

\* The initialiser takes oncemtx again, marks the object and wakes the sleepers.
Done(l) ==
    /\ pc[l] = "done"
    /\ oncemtx = NoLwp
    /\ oncemtx' = l
    /\ o_status' = [o_status EXCEPT ![o[l]] = "DONE"]
    /\ oncecv' = oncecv \ Woken
    /\ pc' = [k \in Lwps |-> IF k = l THEN "loop"
                             ELSE IF k \in Woken THEN "woken" ELSE pc[k]]
    /\ UNCHANGED <<o_error, o, rv>>

\* Mutant of MustWait: `if' for `while', so that a caller does not look again
\* after cv_wait().
MustWaitMut(l) == pc[l] = "loop" /\ o_status[o[l]] # "DONE"

\* while (o->o_status != ONCE_DONE)
MustWait(l) == o_status[o[l]] # "DONE"

\* The loop, reached from above or after cv_wait(): cv_wait() as long as the
\* object is not done; then mutex_exit().
Loop(l) ==
    /\ pc[l] \in {"loop", "waited"}
    /\ oncemtx' = NoLwp
    /\ IF MustWait(l)
         THEN oncecv' = oncecv \cup {l} /\ Goto(l, "asleep")
         ELSE oncecv' = oncecv /\ Goto(l, "return")
    /\ UNCHANGED <<o_status, o_error, o, rv>>

\* return o->o_error, read without oncemtx
Return(l) ==
    /\ pc[l] = "return"
    /\ rv' = [rv EXCEPT ![l] = o_error[o[l]]]
    /\ Goto(l, "idle")
    /\ UNCHANGED <<o_status, o_error, oncemtx, oncecv, o>>

Step(l) ==
    \/ TakeMutex(l) \/ Test(l) \/ RunFn(l) \/ Done(l) \/ Loop(l) \/ Return(l)

OnceNext == \E l \in Lwps : FastPath(l) \/ Step(l)

\* A thread inside a call keeps running; calling RUN_ONCE is its own choice.
OnceFairness == \A l \in Lwps : WF_onceVars(Step(l))

OnceSpec == OnceInit /\ [][OnceNext]_onceVars /\ OnceFairness

-----------------------------------------------------------------------------
Labels == {"idle", "enter", "test", "fn", "done", "loop", "asleep", "woken",
           "waited", "return"}

\* Every variable has its type.
OnceTypeOK ==
    /\ o_status \in [Onces -> Statuses]
    /\ o_error \in [Onces -> Errors \cup {0}]
    /\ oncemtx \in Lwps \cup {NoLwp}
    /\ oncecv \subseteq Lwps
    /\ pc \in [Lwps -> Labels]
    /\ o \in [Lwps -> Onces]
    /\ rv \in [Lwps -> Errors \cup {0}]

\* Thread l has claimed c and not yet marked it done.
Initialising(l, c) == o[l] = c /\ pc[l] \in {"fn", "done"}

\* The initialisation function of an object runs once: while it runs exactly
\* one thread is inside it, and neither before nor after is there one
\* (subr_once.c drops oncemtx around fn()).
RunsOnce ==
    \A c \in Onces :
        /\ o_status[c] = "RUNNING" <=> \E l \in Lwps : Initialising(l, c)
        /\ \A k, l \in Lwps :
             Initialising(k, c) /\ Initialising(l, c) => k = l

\* In this step l's call, if it returns, returns the final o_error.
ReturnsFinalError(l) ==
    pc[l] = "return" /\ pc'[l] = "idle" =>
        o_status[o[l]] = "DONE" /\ o_error'[o[l]] = rv'[l]

\* Every caller returns what the one run of fn() returned, however it got
\* there: no call ends before o_error is final (once.h's unlocked fast path
\* and the unlocked read at the end of _run_once()).
ResultStable == [][\A l \in Lwps : ReturnsFinalError(l)]_onceVars

\* A caller that sleeps on oncecv is owed a broadcast: its own object or
\* another thread's run of fn() is still in progress.
SleepersAreOwedABroadcast ==
    \A l \in oncecv : pc[l] = "asleep" /\ o_status[o[l]] = "RUNNING"

\* What a thread's place in _run_once() says about its object; with the three
\* invariants above it is inductive.
PlaceMatchesStatus ==
    \A l \in Lwps :
        /\ pc[l] \in {"loop", "asleep", "woken", "waited"} => o_status[o[l]] # "VIRGIN"
        /\ pc[l] = "return" => o_status[o[l]] = "DONE"

\* The inductive invariant that Lockless_Proofs proves.
OnceInv == OnceTypeOK /\ RunsOnce /\ SleepersAreOwedABroadcast /\ PlaceMatchesStatus

\* Every call returns: no caller is left asleep once fn() has returned.
CallsReturn == \A l \in Lwps : pc[l] = "enter" ~> pc[l] = "idle"
=============================================================================
