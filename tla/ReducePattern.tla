---------------------------- MODULE ReducePattern ----------------------------
(***************************************************************************)
(* reduce_t of common/reduce_pattern.h, the object behind the stream       *)
(* reduction stage of every back end: a buffer of items and the number of  *)
(* items still to be skipped before the next window starts.  A value is    *)
(* the sequence of stream elements it was computed from, so reducing a     *)
(* window concatenates its values.                                         *)
(***************************************************************************)
EXTENDS Integers, Sequences, SequencesExt

EmptyReduce == [items |-> <<>>, remaining |-> 0]

\* add_item: skip the item or append it to the buffer.
AddItem(r, v) == IF r.remaining > 0
                 THEN [r EXCEPT !.remaining = @ - 1]
                 ELSE [r EXCEPT !.items = Append(@, v)]

\* reduction_needed, for a window of w items.
ReductionNeeded(r, w) == r.items # <<>> /\ Len(r.items) >= w

\* The value reduce_window returns: the whole buffer is reduced.
WindowValue(r) == FlattenSeq(r.items)

\* What reduce_window leaves behind for windows of w items that start off apart.
NextWindow(r, w, off) ==
  IF off > w THEN [items |-> <<>>, remaining |-> off - w]
             ELSE [r EXCEPT !.items = SubSeq(@, off + 1, Len(@))]

=============================================================================
