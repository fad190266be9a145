--------------------------- MODULE MCNativePipeline ---------------------------
(***************************************************************************)
(* Instances of NativePipeline for TLC.                                    *)
(***************************************************************************)
EXTENDS StreamAccount

Plain == [kind |-> "stage"]
FarmWith(n, inner) == [kind |-> "farm", n |-> n, inner |-> inner]
Farm(n) == FarmWith(n, <<Plain>>)
Context(inner) == [kind |-> "context", sequential |-> FALSE, inner |-> inner]
SequentialContext(inner) == [kind |-> "context", sequential |-> TRUE, inner |-> inner]
Keep == [kind |-> "filter"]
ReduceAgain(w, off, n) == [kind |-> "reduce", window |-> w, offset |-> off, before |-> n]
ReduceBy(w, off) == ReduceAgain(w, off, 0)
RepeatUntil == [kind |-> "iterate"]
Consumer == [kind |-> "consume"]
FarmConsumer(n) == [kind |-> "farm_sink", n |-> n]

Run(stages, ordered, size, length) ==
  [stages |-> stages, ordered |-> ordered, size |-> size, length |-> length]

\* Ordered executions: values overtake one another in the farms, with the
\* smallest queues.
OrderedPipelines ==
  { Run(<<Farm(2), Farm(2), Consumer>>, TRUE, 1, 3),
    Run(<<Farm(3), Consumer>>, TRUE, 2, 3),
    Run(<<Farm(2), Keep, Consumer>>, TRUE, 1, 3),
    Run(<<Keep, Farm(2), Consumer>>, TRUE, 1, 3),
    Run(<<ReduceBy(2, 1), Farm(2), Consumer>>, TRUE, 1, 4),
    Run(<<ReduceBy(1, 2), Plain, Consumer>>, TRUE, 1, 5),
    Run(<<ReduceAgain(3, 2, 4), Farm(2), Consumer>>, TRUE, 1, 4),
    Run(<<ReduceAgain(1, 3, 2), Plain, Consumer>>, TRUE, 1, 5),
    Run(<<Farm(2), RepeatUntil, Consumer>>, TRUE, 4, 2),
    Run(<<Farm(2), FarmConsumer(2)>>, TRUE, 1, 3),
    Run(<<Farm(2), Farm(2), FarmConsumer(2)>>, TRUE, 1, 2),
    Run(<<Farm(2), Keep, Consumer>>, TRUE, 1, 0) }

\* Unordered executions.
UnorderedPipelines ==
  { Run(<<Farm(2), Plain, Consumer>>, FALSE, 1, 3),
    Run(<<Farm(2), FarmConsumer(2)>>, FALSE, 1, 3),
    Run(<<RepeatUntil, Farm(2), Consumer>>, FALSE, 4, 2),
    Run(<<ReduceBy(2, 2), Plain, Consumer>>, FALSE, 1, 4) }

\* Patterns that hold patterns: farms of pipelines; contexts of farms, pipelines,
\* filters and iterations; sequential contexts.
NestedPipelines ==
  { Run(<<FarmWith(2, <<Plain, Plain>>), Consumer>>, TRUE, 1, 3),
    Run(<<FarmWith(2, <<Plain, Plain>>), Plain, Consumer>>, FALSE, 1, 2),
    Run(<<FarmWith(1, <<Keep, Plain>>), Consumer>>, TRUE, 1, 3),
    Run(<<Context(<<Farm(2)>>), Farm(2), Consumer>>, TRUE, 1, 2),
    Run(<<Context(<<Plain, Farm(2)>>), Consumer>>, TRUE, 1, 3),
    Run(<<Context(<<FarmWith(2, <<Plain, Plain>>), Plain>>), Consumer>>, TRUE, 1, 2),
    Run(<<Context(<<Keep>>), Plain, Consumer>>, TRUE, 1, 3),
    Run(<<Context(<<RepeatUntil>>), Farm(2), Consumer>>, FALSE, 4, 2),
    Run(<<SequentialContext(<<Plain>>), Farm(2), Consumer>>, TRUE, 1, 3),
    Run(<<Farm(2), SequentialContext(<<Plain, Keep>>), Consumer>>, FALSE, 1, 2) }

\* Filters one behind the other, in front of farms and behind a context: orders are
\* given anew behind each.
FilterPipelines ==
  { Run(<<Keep, Plain, Keep, Consumer>>, TRUE, 1, 3),
    Run(<<Keep, Farm(2), FarmConsumer(2)>>, TRUE, 1, 2),
    Run(<<Context(<<Farm(2), Plain>>), Keep, Consumer>>, TRUE, 1, 2) }

\* A filter in an unordered execution: its queue goes straight to the next stage.
UnorderedFilter == { Run(<<Keep, Consumer>>, FALSE, 2, 3) }

\* An iteration whose input queue has room for the whole stream.
ShortQueueIteration == { Run(<<RepeatUntil, Consumer>>, TRUE, 3, 3) }

\* Not in any run, they fail: farms of patterns that end the output themselves,
\* once in every replica, and a filter that leaves gaps in the orders.
FailingNests ==
  { Run(<<FarmWith(2, <<Keep>>), Consumer>>, TRUE, 4, 3),
    Run(<<FarmWith(2, <<RepeatUntil>>), Consumer>>, TRUE, 4, 3),
    Run(<<SequentialContext(<<Keep>>), Consumer>>, TRUE, 1, 3) }


NativePipelines ==
  OrderedPipelines \cup UnorderedPipelines \cup NestedPipelines \cup FilterPipelines

=============================================================================
