---------------------------- MODULE BoundedQueue ----------------------------
(* What a producer/consumer queue promises: a FIFO queue of bounded length.  *)
EXTENDS Naturals, Sequences

CONSTANTS Items, Nil, MaxLen

VARIABLES queue,  \* the items that were put and not yet got, oldest first
          got     \* the item got last

Init == queue = << >> /\ got = Nil

Put(item) ==
    /\ Len(queue) < MaxLen
    /\ queue' = Append(queue, item)
    /\ UNCHANGED got

Get ==
    /\ queue # << >>
    /\ got' = Head(queue)
    /\ queue' = Tail(queue)

Next == (\E item \in Items : Put(item)) \/ Get

Spec == Init /\ [][Next]_<<queue, got>>
=============================================================================
