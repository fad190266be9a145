---------------------------- MODULE MCOmpPipeline ----------------------------
(***************************************************************************)
(* Instances of OmpPipeline for TLC: pipelines with teams large enough for *)
(* all tasks, and with teams of one or two threads.                        *)
(***************************************************************************)
EXTENDS OmpPipeline

Plain == [kind |-> "stage"]
FarmWith(n, inner) == [kind |-> "farm", n |-> n, inner |-> inner]
Farm(n) == FarmWith(n, <<Plain>>)
Context(inner) == [kind |-> "context", sequential |-> FALSE, inner |-> inner]
SequentialContext(inner) == [kind |-> "context", sequential |-> TRUE, inner |-> inner]
Keep == [kind |-> "filter"]
ReduceBy(w, off) == [kind |-> "reduce", window |-> w, offset |-> off, before |-> 0]
RepeatUntil == [kind |-> "iterate"]
Sink == [kind |-> "consume"]
FarmSinkOf(n) == [kind |-> "farm_sink", n |-> n]

Run(stages, ordered, size, length, threads, in_order) ==
  [stages |-> stages, ordered |-> ordered, size |-> size, length |-> length,
   team |-> [threads |-> threads, in_order |-> in_order]]

\* A thread for each task: the queues may be of any size.
LargeTeams ==
  { Run(<<Farm(2), Plain, Sink>>, TRUE, 1, 3, 5, FALSE),
    Run(<<Keep, Farm(2), Sink>>, TRUE, 1, 3, 6, FALSE),
    Run(<<Keep, Farm(2), Sink>>, FALSE, 1, 3, 5, FALSE),
    Run(<<Farm(2), Keep, Sink>>, FALSE, 1, 3, 5, FALSE),
    Run(<<ReduceBy(2, 1), Farm(2), Sink>>, TRUE, 1, 4, 5, FALSE),
    Run(<<Farm(2), RepeatUntil, Sink>>, TRUE, 4, 3, 5, FALSE),
    Run(<<Farm(2), FarmSinkOf(2)>>, TRUE, 1, 3, 5, FALSE) }

\* Tasks that begin in order, and queues with room for the stream.
SmallTeams ==
  { Run(<<Farm(2), Plain, Sink>>, TRUE, 4, 3, 2, TRUE),
    Run(<<Keep, Farm(2), Sink>>, TRUE, 4, 3, 3, TRUE),
    Run(<<Keep, RepeatUntil, Sink>>, FALSE, 4, 3, 2, TRUE),
    Run(<<ReduceBy(2, 2), Farm(2), FarmSinkOf(2)>>, FALSE, 5, 4, 1, TRUE) }

\* Teams that may not finish: too few threads, or a filter behind a farm.
StuckTeams ==
  { Run(<<Farm(2), Plain, Sink>>, TRUE, 1, 3, 3, TRUE),
    Run(<<Farm(2), Sink>>, FALSE, 4, 3, 2, FALSE),
    Run(<<Farm(2), Keep, Sink>>, TRUE, 2, 3, 6, FALSE) }

\* Tasks that create tasks: a thread for each of them, and a thread less.
NestedTasks ==
  { Run(<<FarmWith(2, <<Plain, Plain>>), Sink>>, TRUE, 1, 2, 6, FALSE),
    Run(<<FarmWith(2, <<Plain, Plain>>), Sink>>, FALSE, 1, 2, 5, FALSE),
    Run(<<FarmWith(1, <<Keep>>), Sink>>, TRUE, 1, 3, 5, FALSE),
    Run(<<Context(<<Farm(2)>>), Plain, Sink>>, TRUE, 1, 3, 6, FALSE),
    Run(<<Context(<<Plain, Farm(2)>>), Sink>>, TRUE, 1, 2, 5, FALSE),
    Run(<<Context(<<Keep>>), Plain, Sink>>, TRUE, 1, 3, 6, FALSE),
    Run(<<Context(<<FarmWith(2, <<Plain, Plain>>)>>), Sink>>, TRUE, 1, 2, 7, FALSE),
    Run(<<SequentialContext(<<Plain, Keep>>), Farm(2), Sink>>, FALSE, 1, 3, 5, FALSE) }

OmpPipelines == LargeTeams \cup SmallTeams \cup StuckTeams \cup NestedTasks

\* Four values, of which the last three can arrive before the first.
FilterBehindFarm == { Run(<<Farm(2), Keep, Sink>>, TRUE, 1, 4, 6, FALSE) }

=============================================================================
