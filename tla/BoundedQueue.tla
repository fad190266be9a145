---------------------------- MODULE BoundedQueue ----------------------------
(***************************************************************************)
(* What both queues of common/mpmc_queue.h promise to the threads of a     *)
(* pipeline: a first-in first-out queue of at most Size items on which a   *)
(* push and a pop each take effect at one instant.  A push waits for room, *)
(* a pop waits for an item.  AtomicMpmcQueue and LockedMpmcQueue are shown *)
(* to implement this specification.                                        *)
(***************************************************************************)
EXTENDS Naturals, Sequences

CONSTANTS Threads,  \* the threads that call push and pop
          Size      \* the capacity given to the constructor

VARIABLES queue,    \* the items in the queue, oldest first
          pushed,   \* pushed[t]: how many items thread t has pushed
          got       \* got[t]: the items returned to thread t's pops, in order

vars == <<queue, pushed, got>>

\* Items are told apart by who pushed them and when: thread t's n-th item.
Item(t, n) == <<t, n>>

Init == /\ queue = <<>>
        /\ pushed = [t \in Threads |-> 0]
        /\ got = [t \in Threads |-> <<>>]

Push(t) == /\ Len(queue) < Size
           /\ queue' = Append(queue, Item(t, pushed[t] + 1))
           /\ pushed' = [pushed EXCEPT ![t] = @ + 1]
           /\ UNCHANGED got

Pop(t) == /\ queue # <<>>
          /\ queue' = Tail(queue)
          /\ got' = [got EXCEPT ![t] = Append(@, Head(queue))]
          /\ UNCHANGED pushed

Next == \E t \in Threads : Push(t) \/ Pop(t)

Spec == Init /\ [][Next]_vars

=============================================================================
