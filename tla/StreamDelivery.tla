--------------------------- MODULE StreamDelivery ---------------------------
(***************************************************************************)
(* What a parallel pipeline promises to the user's last operation: it is   *)
(* given each value the sequential execution would give it, once, and in   *)
(* the same order when the execution is ordered; and the stream ends only  *)
(* when all of them have been given.                                       *)
(***************************************************************************)
EXTENDS Naturals, Sequences

VARIABLES expected,  \* what the sequential execution consumes, in order
          ordered,   \* whether the execution preserves the order
          consumed,  \* what the last operation has been given
          ended      \* the stage that calls it has returned

vars == <<expected, ordered, consumed, ended>>

\* The positions of expected that have not been delivered: values are distinct.
Pending == {k \in DOMAIN expected :
              \A j \in DOMAIN consumed : consumed[j] # expected[k]}

Init == consumed = <<>> /\ ended = FALSE

Deliver == /\ ~ended
           /\ \E k \in Pending :
                /\ ordered => k = Len(consumed) + 1
                /\ consumed' = Append(consumed, expected[k])
           /\ UNCHANGED <<expected, ordered, ended>>

End == /\ ~ended
       /\ Pending = {}
       /\ ended' = TRUE
       /\ UNCHANGED <<expected, ordered, consumed>>

Spec == Init /\ [][Deliver \/ End]_vars

=============================================================================
