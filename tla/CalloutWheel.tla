---------------------------- MODULE CalloutWheel ----------------------------
(***************************************************************************)
(* The hierarchical timing wheel of one CPU (sys/kern/kern_timeout.c):     *)
(* four wheels of WheelSize buckets, indexed by successive digits of the   *)
(* expiry time.  Times are C ints that wrap around.  Callouts do not       *)
(* interact in the wheel, so this module follows a single one; Callout.tla *)
(* is about the threads around it.                                         *)
(***************************************************************************)
EXTENDS Integers

CONSTANTS WheelSize   \* WHEELSIZE, 2^WHEELBITS in the kernel

ASSUME WheelAssumption ==
    WheelSize \in Nat /\ WheelSize > 1 /\ WheelSize % 2 = 0

VARIABLES cc_ticks,   \* the CPU's tick count, as an unsigned number
          c_time,     \* when the callout is to be called, likewise
          place,      \* where it is: OffWheel, Todo or Bucket(wheel, index)
          placed      \* history, of a callout in a bucket: "right", "later" (it
                      \* was scheduled again and left there), or "wrong" (it was
                      \* due when it was put there)

wheelVars == <<cc_ticks, c_time, place, placed>>

\* 1 << (wheel*WHEELBITS): for how many ticks a bucket of the wheel stands
Span(wheel) ==
    CASE wheel = 0 -> 1
      [] wheel = 1 -> WheelSize
      [] wheel = 2 -> WheelSize * WheelSize
      [] wheel = 3 -> WheelSize * WheelSize * WheelSize

\* An int has 4 * WHEELBITS bits, so that four digits are all of it.
IntSize == Span(3) * WheelSize
IntMax == IntSize \div 2 - 1

\* Arithmetic on ints, and an unsigned number read as an int.
Trunc(x) == x % IntSize
ToInt(x) == IF x > IntMax THEN x - IntSize ELSE x
Diff(x, y) == ToInt(Trunc(x - y))

\* Off the wheels: idle, and on the worklist cc_todo.
OffWheel == <<-1, 0>>
Todo == <<-2, 0>>
Bucket(wheel, index) == <<wheel, index>>
InWheel == place \notin {OffWheel, Todo}

WheelInit == cc_ticks = 0 /\ c_time = 0 /\ place = OffWheel /\ placed = "no"

\* MASKWHEEL(wheel, time)
MaskWheel(wheel, time) == (time \div Span(wheel)) % WheelSize

\* The wheel that BUCKET(cc, rel, abs) picks
WheelFor(rel) ==
    IF rel <= Span(1) THEN 0
    ELSE IF rel <= Span(2) THEN 1
    ELSE IF rel <= Span(3) THEN 2
    ELSE 3

-----------------------------------------------------------------------------
\* c->c_time - old_time < 0
MovedEarlier(old, new) == Diff(new, old) < 0

\* callout_schedule_locked(): onto the worklist, or, if it is pending already
\* and not moved earlier, left in place to be looked at again later.
ScheduleLocked(to_ticks) ==
    /\ c_time' = Trunc(cc_ticks + to_ticks)
    /\ place' = IF place = OffWheel \/ MovedEarlier(c_time, c_time')
                THEN Todo ELSE place
    /\ placed' = CASE place' = Todo -> "no" [] placed = "right" -> "later"
                   [] OTHER -> placed
    /\ UNCHANGED cc_ticks

\* callout_stop() and callout_halt() take it off whatever list it is on.  The
\* c_time of an idle callout is never read; zero keeps such states the same.
Stop ==
    /\ place # OffWheel
    /\ place' = OffWheel /\ placed' = "no"
    /\ c_time' = 0
    /\ UNCHANGED cc_ticks

\* Mutant of MovedBuckets: a wheel is turned when its own digit is zero.
MovedBucketsMut(ticks) ==
    {Bucket(0, MaskWheel(0, ticks))} \cup
    {Bucket(w, MaskWheel(w, ticks)) : w \in {v \in 1..3 : MaskWheel(v, ticks) = 0}}

\* The buckets that MOVEBUCKET() empties at this tick: the one of wheel 0, and
\* of each further wheel when all digits below it are zero.
MovedBuckets(ticks) ==
    {Bucket(w, MaskWheel(w, ticks)) :
        w \in {v \in 0..3 : \A u \in 0..3 : u < v => MaskWheel(u, ticks) = 0}}

\* callout_hardclock()
HardClock ==
    /\ cc_ticks' = Trunc(cc_ticks + 1)
    /\ place' = IF place \in MovedBuckets(cc_ticks') THEN Todo ELSE place
    /\ placed' = IF place' = Todo THEN "no" ELSE placed
    /\ UNCHANGED c_time

\* if (c->c_time > ticks), on ints
Future == ToInt(c_time) > ToInt(cc_ticks)

\* callout_softclock() takes the callout off the worklist: if it is not due,
\* into the right bucket ...
SoftClockRequeue ==
    /\ place = Todo
    /\ Future
    /\ LET wheel == WheelFor(Diff(c_time, cc_ticks))
       IN  place' = Bucket(wheel, MaskWheel(wheel, c_time))
    /\ placed' = IF Diff(c_time, cc_ticks) > 0 THEN "right" ELSE "wrong"
    /\ UNCHANGED <<cc_ticks, c_time>>

\* ... else it is called.
SoftClockFire ==
    /\ place = Todo
    /\ ~Future
    /\ place' = OffWheel /\ placed' = "no"
    /\ c_time' = 0
    /\ UNCHANGED cc_ticks

WheelNext ==
    \/ \E to_ticks \in 0..IntMax : ScheduleLocked(to_ticks)
    \/ Stop \/ HardClock \/ SoftClockRequeue \/ SoftClockFire

WheelSpec == WheelInit /\ [][WheelNext]_wheelVars

-----------------------------------------------------------------------------
\* No callout is overtaken by the clock: one that sits in a bucket is still in
\* the future, so the tick at which it is due (at the latest) has put it on
\* the worklist, wherever the boundaries between the wheels fall and however
\* late the soft interrupt is.  A callout that was due is put into a bucket
\* only where the tick count passes from the largest int to the smallest, and
\* the comparison in callout_softclock() is not that of the header comment.
NeverOvertaken == InWheel /\ placed # "wrong" => Diff(c_time, cc_ticks) > 0

\* callout_hardclock() takes a callout out of wheel w when there is less than
\* the time of one bucket to go: from wheel 0 exactly when it is due, from the
\* others so that callout_softclock() will put it on a lower wheel.
LeavesBucketInTime ==
    [][InWheel /\ placed = "right" /\ place' = Todo /\ cc_ticks' # cc_ticks
         => Diff(c_time, cc_ticks') \in 0 .. Span(place[1]) - 1]_wheelVars
=============================================================================
