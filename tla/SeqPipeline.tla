----------------------------- MODULE SeqPipeline -----------------------------
(***************************************************************************)
(* sequential_execution::pipeline: the generated elements go through the   *)
(* stages one at a time, each to the end of the pipeline before the next   *)
(* is generated.  No stage reorders anything, so the sequence of values a  *)
(* stage hands on depends only on the sequence it is given, and what the   *)
(* last stage consumes is computed here stage by stage.  It is the         *)
(* reference for the parallel back ends.                                   *)
(*                                                                         *)
(* A stage is a record with a field kind.  The user's operations are       *)
(* abstracted to what the coordination can tell apart: a value is the      *)
(* sequence of the elements it derives from, a filter keeps the values     *)
(* whose first element is in keep, a transformation or an iteration        *)
(* returns a value for a value.                                            *)
(***************************************************************************)
EXTENDS ReducePattern

\* A stream reduction is given a value: after that, at most one window is reduced.
Feed(st, v, stage) ==
  LET r == AddItem(st.r, v)
  IN IF ReductionNeeded(r, stage.window)
     THEN [r |-> NextWindow(r, stage.window, stage.offset),
           outs |-> Append(st.outs, WindowValue(r))]
     ELSE [st EXCEPT !.r = r]

FeedAll(r, s, stage) ==
  FoldLeft(LAMBDA st, v : Feed(st, v, stage), [r |-> r, outs |-> <<>>], s)

\* The reduction object a pipeline starts with.  The object is the user's: it may
\* have been given stage.before values by an earlier pipeline, here the numbers
\* down from 0, and keeps what these have left in it.
InitialReduce(stage) ==
  FeedAll(EmptyReduce, [k \in 1 .. stage.before |-> <<1 - k>>], stage).r

SeqReduce(s, stage) == FeedAll(InitialReduce(stage), s, stage).outs

SeqFilter(s, keep) ==
  FlattenSeq([k \in DOMAIN s |-> IF s[k][1] \in keep THEN <<s[k]>> ELSE <<>>])

\* What a stage hands on when it is given the values of s.
SeqStage(s, stage, keep) ==
  CASE stage.kind = "filter" -> SeqFilter(s, keep)
    [] stage.kind = "reduce" -> SeqReduce(s, stage)
    [] OTHER -> s

\* Farms and contexts apply what they hold to one item at a time, here without
\* replicas and threads; a context can hold a farm.
Held(stage) == IF stage.kind \in {"farm", "context"} THEN stage.inner ELSE <<stage>>
Unfolded(stages) == FlattenSeq([k \in DOMAIN stages |-> Held(stages[k])])

\* What the last stage of a pipeline consumes for a stream of n elements.
SeqPipelineOutput(stages, n, keep) ==
  FoldLeft(LAMBDA s, stage : SeqStage(s, stage, keep),
           [k \in 1 .. n |-> <<k>>], Unfolded(Unfolded(stages)))

=============================================================================
