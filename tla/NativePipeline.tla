---------------------------- MODULE NativePipeline ----------------------------
(***************************************************************************)
(* parallel_execution_native::pipeline and its do_pipeline overloads: the  *)
(* threads of PipelineThreads, connected by mpmc_queues.                   *)
(*                                                                         *)
(* An item on a queue is the code's pair of an optional value and an       *)
(* order; the value is the sequence of generated elements it derives from, *)
(* empty when the optional is.  The queues are those of BoundedQueue,      *)
(* which both implementations of mpmc_queue are shown to implement: push   *)
(* waits for room, pop for an item, each takes effect at once.             *)
(*                                                                         *)
(* What a thread does between two queue operations touches only variables  *)
(* of its own, so it is one step with the pop before it.  The pushes and   *)
(* the calls of the user's consumer it leads to are kept in out, and each  *)
(* is a step of its own, in order, before anything else of that thread.    *)
(***************************************************************************)
EXTENDS PipelineThreads

CONSTANTS Pipelines,  \* the pipelines to run: see IsPipeline
          MaxRounds   \* bound on the repetitions of an iteration

VARIABLES
  conf,          \* the threads, the stream and the results of user predicates
  queue,         \* queue[q]: the queues between the threads
  pc,            \* pc[th]: where thread th is in its loop
  out,           \* out[th]: the pushes and consumer calls th has still to make
  produced,      \* how many elements the generator has returned
  held,          \* held[th]: elements, current and order of an ordering loop
  reducer,       \* reducer[th]: the reduce_t of a reduction
  done_threads,  \* done_threads[f]: the counter of farm f
  consumed       \* history: what the user's last operation has been given

vars == <<conf, queue, pc, out, produced, held, reducer, done_threads, consumed>>

-----------------------------------------------------------------------------
(* Threads, queues and items. *)

ASSUME PipelinesAssumption == \A p \in Pipelines : IsPipeline(p)
ASSUME MaxRoundsAssumption == MaxRounds \in Nat

Threads == DOMAIN conf.role
kind(th) == conf.role[th].kind
stage(th) == conf.role[th].stage
input_queue(th) == conf.role[th].in
output_queue(th) == conf.role[th].out
helpers(th) == conf.role[th].helpers

\* The threads that run a pattern held by another, and those of them that only
\* wait for the threads they have created.
IsHost(th) == kind(th) \in {"replica", "context"}
OnlyWaits(th) == IsHost(th) /\ input_queue(th) = User

\* The farm a replica belongs to.
FarmOf(th) == Front(th)

\* The queue of a farm: its replicas pop from it, or the first threads they create.
FarmInput(th) ==
  CHOOSE q \in {input_queue(h) : h \in helpers(th) \cup {th}} : q # User /\ Len(q) < Len(th)

Item(v, o) == [value |-> v, order |-> o, rounds |-> 0]
NoValue == <<>>
End == Item(NoValue, -1)
Empty(item) == item.value = NoValue

\* Pushes go to a queue, calls of the consumer to User.
Msg(to, item) == [to |-> to, item |-> item]

-----------------------------------------------------------------------------

\* Pipeline p before it runs; the results of its user's predicates are arbitrary.
InitFor(p) ==
  LET roles == Roles(p)
      Kinds == {s.kind : s \in ToSet(Unfolded(Unfolded(p.stages)))}
  IN /\ \E keep \in IF "filter" \in Kinds THEN SUBSET (1 .. p.length)
                                           ELSE {1 .. p.length} :
        \E need \in IF "iterate" \in Kinds THEN [1 .. p.length -> 1 .. MaxRounds]
                                           ELSE {<<>>} :
          conf = [role |-> [id \in {r.id : r \in roles} |-> CHOOSE r \in roles : r.id = id],
                  ordered |-> p.ordered, size |-> p.size,
                  length |-> p.length, keep |-> keep, need |-> need,
                  expected |-> SeqPipelineOutput(p.stages, p.length, keep)]
     /\ queue = [q \in (UNION {{input_queue(th), output_queue(th)} : th \in Threads}) \ {User} |-> <<>>]
     /\ pc = [th \in Threads |-> IF OnlyWaits(th) THEN "join" ELSE "loop"]
     /\ out = [th \in Threads |-> <<>>]
     /\ produced = 0
     /\ held = [th \in Threads |-> [elements |-> <<>>, current |-> 0, order |-> 0]]
     /\ reducer = [th \in Threads |-> IF kind(th) = "reduce" THEN InitialReduce(stage(th))
                                                             ELSE EmptyReduce]
     /\ done_threads = [f \in {FarmOf(th) : th \in {t \in Threads : kind(t) = "replica"}} |-> 0]
     /\ consumed = <<>>

Init == \E p \in Pipelines : InitFor(p)

\* The next operation of thread th is the pop at the head of its loop and the
\* item it gets is item.
Pops(th, item) == /\ pc[th] = "loop"
                  /\ out[th] = <<>>
                  /\ queue[input_queue(th)] # <<>>
                  /\ item = Head(queue[input_queue(th)])
                  /\ queue' = [queue EXCEPT ![input_queue(th)] = Tail(@)]

Then(th, l, msgs) == /\ pc' = [pc EXCEPT ![th] = l]
                     /\ out' = [out EXCEPT ![th] = msgs]

\* Faulty variant: the queue grows instead of making the push wait.
PushUnbounded(th) ==
  /\ out[th] # <<>>
  /\ LET m == Head(out[th])
     IN m.to # User /\ queue' = [queue EXCEPT ![m.to] = Append(@, m.item)]
  /\ out' = [out EXCEPT ![th] = Tail(@)]
  /\ UNCHANGED <<conf, pc, produced, held, reducer, done_threads, consumed>>

\* A push of th: it waits for room in the queue.
Push(th) ==
  /\ out[th] # <<>>
  /\ LET m == Head(out[th])
     IN /\ m.to # User
        /\ Len(queue[m.to]) < conf.size
        /\ queue' = [queue EXCEPT ![m.to] = Append(@, m.item)]
  /\ out' = [out EXCEPT ![th] = Tail(@)]
  /\ UNCHANGED <<conf, pc, produced, held, reducer, done_threads, consumed>>

\* A call of the user's last operation by th.
Consume(th) ==
  /\ out[th] # <<>>
  /\ Head(out[th]).to = User
  /\ consumed' = Append(consumed, Head(out[th]).item.value)
  /\ out' = [out EXCEPT ![th] = Tail(@)]
  /\ UNCHANGED <<conf, queue, pc, produced, held, reducer, done_threads>>

-----------------------------------------------------------------------------
(* Generator and plain stages. *)

\* The generator returns an element, or an empty optional, which is pushed too
\* and ends the loop.
Generate(th) ==
  /\ kind(th) = "generate"
  /\ pc[th] = "loop" /\ out[th] = <<>>
  /\ \/ /\ produced < conf.length
        /\ produced' = produced + 1
        /\ Then(th, "loop", <<Msg(output_queue(th), Item(<<produced + 1>>, produced))>>)
     \/ /\ produced = conf.length
        /\ Then(th, "last", <<Msg(output_queue(th), Item(NoValue, produced))>>)
        /\ UNCHANGED produced
  /\ UNCHANGED <<conf, queue, held, reducer, done_threads, consumed>>

\* A stage hands on the transformed value under the same order, and ends with
\* an end marker.
Stage(th) ==
  /\ kind(th) = "stage"
  /\ \E item \in ToSet(queue[input_queue(th)]) :
       /\ Pops(th, item)
       /\ \/ ~Empty(item) /\ Then(th, "loop", <<Msg(output_queue(th), item)>>)
          \/ Empty(item) /\ Then(th, "last", <<Msg(output_queue(th), End)>>)
  /\ UNCHANGED <<conf, produced, held, reducer, done_threads, consumed>>

-----------------------------------------------------------------------------
(* Farms. *)

\* A sequential context runs all that it holds, and hands on nothing for an item
\* that a filter among it does not keep.
IsSequential(th) == kind(th) = "context" /\ stage(th).sequential
Passes(th, item) ==
  IsSequential(th) =>
    SeqPipelineOutput(stage(th).inner, 1, IF item.value[1] \in conf.keep THEN {1} ELSE {}) # <<>>

\* A replica or a context runs the loop of the stage it holds, or of the last of
\* them; at an empty item it leaves the loop.  A sequential context then ends the
\* output.
HostWork(th) ==
  /\ IsHost(th) /\ pc[th] = "loop"
  /\ \E item \in ToSet(queue[input_queue(th)]) :
       /\ Pops(th, item)
       /\ \/ /\ ~Empty(item)
             /\ Then(th, "loop", IF Passes(th, item)
                                 THEN <<Msg(output_queue(th), item)>> ELSE <<>>)
          \/ /\ Empty(item)
             /\ Then(th, "join", IF IsSequential(th)
                                 THEN <<Msg(output_queue(th), End)>> ELSE <<>>)
  /\ UNCHANGED <<conf, produced, held, reducer, done_threads, consumed>>

Finished(th) == pc[th] = "last" /\ out[th] = <<>>

\* The threads that run the rest of what it holds have been joined.
Joined(th) == /\ pc[th] = "join" /\ out[th] = <<>>
              /\ \A h \in helpers(th) : Finished(h)

\* done_threads++
FarmCount(th) ==
  /\ kind(th) = "replica" /\ Joined(th)
  /\ done_threads' = [done_threads EXCEPT ![FarmOf(th)] = @ + 1]
  /\ pc' = [pc EXCEPT ![th] = "test"]
  /\ UNCHANGED <<conf, queue, out, produced, held, reducer, consumed>>

\* A replica ends the output, or puts an end marker back for the next replica
\* in the queue of the farm.
EndOutput(th) == Then(th, "last", <<Msg(output_queue(th), End)>>)
PutBack(th) == Then(th, "last", <<Msg(FarmInput(th), Item(NoValue, 0))>>)

\* Faulty variant: the first replica to leave ends the output.
FarmEndFirst(th) ==
  /\ pc[th] = "test"
  /\ \/ done_threads[FarmOf(th)] = 1 /\ EndOutput(th)
     \/ done_threads[FarmOf(th)] # 1 /\ PutBack(th)
  /\ UNCHANGED <<conf, queue, produced, held, reducer, done_threads, consumed>>

\* Faulty variant: every replica ends the output.
FarmEndAll(th) ==
  /\ pc[th] = "test"
  /\ Then(th, "last", <<Msg(output_queue(th), End), Msg(FarmInput(th), Item(NoValue, 0))>>)
  /\ UNCHANGED <<conf, queue, produced, held, reducer, done_threads, consumed>>

\* The counter is read again: the last replica to leave ends the output, the
\* others put an end marker back.
FarmEnd(th) ==
  /\ pc[th] = "test"
  /\ \/ done_threads[FarmOf(th)] = stage(th).n /\ EndOutput(th)
     \/ done_threads[FarmOf(th)] # stage(th).n /\ PutBack(th)
  /\ UNCHANGED <<conf, queue, produced, held, reducer, done_threads, consumed>>

\* A context ends its output when what it runs is done, whether or not that has
\* ended it already.
ContextEnd(th) ==
  /\ kind(th) = "context" /\ Joined(th)
  /\ EndOutput(th)
  /\ UNCHANGED <<conf, queue, produced, held, reducer, done_threads, consumed>>

\* Faulty variant: the empty item is not put back for the other replicas.
FarmSinkKeepsEnd(th) ==
  /\ kind(th) = "farm_sink"
  /\ \E item \in ToSet(queue[input_queue(th)]) :
       /\ Pops(th, item)
       /\ \/ ~Empty(item) /\ Then(th, "loop", <<Msg(User, item)>>)
          \/ Empty(item) /\ Then(th, "last", <<>>)
  /\ UNCHANGED <<conf, produced, held, reducer, done_threads, consumed>>

\* A farm that ends the pipeline: each replica calls the user's operation, and
\* puts the empty item it ends with back for the others.
FarmSink(th) ==
  /\ kind(th) = "farm_sink"
  /\ \E item \in ToSet(queue[input_queue(th)]) :
       /\ Pops(th, item)
       /\ \/ ~Empty(item) /\ Then(th, "loop", <<Msg(User, item)>>)
          \/ Empty(item) /\ Then(th, "last", <<Msg(input_queue(th), item)>>)
  /\ UNCHANGED <<conf, produced, held, reducer, done_threads, consumed>>

-----------------------------------------------------------------------------
(* Ordering loops: the ordered consumer and the ordering thread of a filter. *)

Positions(h) == {k \in DOMAIN h.elements : h.elements[k].order = h.current}

\* Faulty variant: what is released stays among the elements.
ReleaseOneKeeps(h) ==
  IF Positions(h) = {} THEN [given |-> <<>>, held |-> h]
  ELSE LET k == CHOOSE k \in Positions(h) : \A j \in Positions(h) : k <= j
       IN [given |-> <<h.elements[k]>>, held |-> [h EXCEPT !.current = @ + 1]]

\* One look for the current order among the elements: what it releases, and
\* what is left.
ReleaseOne(h) ==
  IF Positions(h) = {} THEN [given |-> <<>>, held |-> h]
  ELSE LET k == CHOOSE k \in Positions(h) : \A j \in Positions(h) : k <= j
       IN [given |-> <<h.elements[k]>>,
           held |-> [h EXCEPT !.elements = RemoveAt(@, k), !.current = @ + 1]]

\* Faulty variant: items are released in the order of their arrival.
ReleaseOnArrival(h, item) ==
  [given |-> <<item>>, held |-> [h EXCEPT !.current = @ + 1]]

\* The body of the loop for an item: release it if it is the current one, else
\* keep it; then look once among the elements.
ReleaseWith(h, item) ==
  IF item.order = h.current
  THEN LET r == ReleaseOne([h EXCEPT !.current = @ + 1])
       IN [r EXCEPT !.given = <<item>> \o @]
  ELSE ReleaseOne([h EXCEPT !.elements = Append(@, item)])

\* The items of given that carry a value, renumbered from order n.
Renumbered(given, n) ==
  LET kept == FlattenSeq([k \in DOMAIN given |-> IF Empty(given[k]) THEN <<>> ELSE <<given[k]>>])
  IN [k \in DOMAIN kept |-> [kept[k] EXCEPT !.order = n + k - 1]]

Calls(given) == [k \in DOMAIN given |-> Msg(User, given[k])]

\* Hand over what the consumer (the ordering thread of a filter) releases.
Release(th, r, l) ==
  LET kept == Renumbered(r.given, r.held.order)
  IN \/ /\ kind(th) = "consume"
        /\ Then(th, l, Calls(r.given))
        /\ held' = [held EXCEPT ![th] = r.held]
     \/ /\ kind(th) = "reorder"
        /\ Then(th, l, [k \in DOMAIN kept |-> Msg(output_queue(th), kept[k])])
        /\ held' = [held EXCEPT ![th] = [r.held EXCEPT !.order = @ + Len(kept)]]

OrderingLoop(th) == kind(th) = "reorder" \/ (kind(th) = "consume" /\ conf.ordered)

\* A rejected value is an empty item too: only order -1 ends the ordering thread.
EndsOrdering(th, item) == Empty(item) /\ (kind(th) = "reorder" => item.order = -1)

\* One item: it is released at once or kept.
Order(th) ==
  /\ OrderingLoop(th)
  /\ \E item \in ToSet(queue[input_queue(th)]) :
       /\ Pops(th, item)
       /\ \/ ~EndsOrdering(th, item) /\ Release(th, ReleaseWith(held[th], item), "loop")
          \/ EndsOrdering(th, item) /\ Then(th, "drain", <<>>) /\ UNCHANGED held
  /\ UNCHANGED <<conf, produced, reducer, done_threads, consumed>>

\* After the end marker: the kept elements are released in turn.  While none has
\* the current order the code spins.
Drain(th) ==
  /\ pc[th] = "drain" /\ out[th] = <<>>
  /\ held[th].elements # <<>>
  /\ Positions(held[th]) # {}
  /\ Release(th, ReleaseOne(held[th]), "drain")
  /\ UNCHANGED <<conf, queue, produced, reducer, done_threads, consumed>>

\* Nothing is kept any more: the ordering thread passes the end marker on.
DrainEnd(th) ==
  /\ pc[th] = "drain" /\ out[th] = <<>>
  /\ held[th].elements = <<>>
  /\ Then(th, "last", IF kind(th) = "reorder" THEN <<Msg(output_queue(th), End)>> ELSE <<>>)
  /\ UNCHANGED <<conf, queue, produced, held, reducer, done_threads, consumed>>

\* The unordered consumer.
ConsumeUnordered(th) ==
  /\ kind(th) = "consume" /\ ~conf.ordered
  /\ \E item \in ToSet(queue[input_queue(th)]) :
       /\ Pops(th, item)
       /\ \/ ~Empty(item) /\ Then(th, "loop", <<Msg(User, item)>>)
          \/ Empty(item) /\ Then(th, "last", <<>>)
  /\ UNCHANGED <<conf, produced, held, reducer, done_threads, consumed>>

-----------------------------------------------------------------------------
(* Filters, reductions and iterations. *)

\* Faulty variant: a value that is not kept is dropped, order and all.
FilterDrops(th) ==
  /\ kind(th) = "filter"
  /\ \E item \in ToSet(queue[input_queue(th)]) :
       /\ Pops(th, item)
       /\ \/ /\ ~Empty(item) /\ item.value[1] \in conf.keep
             /\ Then(th, "loop", <<Msg(output_queue(th), item)>>)
          \/ /\ ~Empty(item) /\ item.value[1] \notin conf.keep
             /\ Then(th, "loop", <<>>)
          \/ /\ Empty(item)
             /\ Then(th, "last", <<Msg(output_queue(th), End)>>)
  /\ UNCHANGED <<conf, produced, held, reducer, done_threads, consumed>>

\* A value that is not kept is passed on as an empty item with its order.
Filter(th) ==
  /\ kind(th) = "filter"
  /\ \E item \in ToSet(queue[input_queue(th)]) :
       /\ Pops(th, item)
       /\ \/ /\ ~Empty(item) /\ item.value[1] \in conf.keep
             /\ Then(th, "loop", <<Msg(output_queue(th), item)>>)
          \/ /\ ~Empty(item) /\ item.value[1] \notin conf.keep
             /\ Then(th, "loop", <<Msg(output_queue(th), Item(NoValue, item.order))>>)
          \/ /\ Empty(item)
             /\ Then(th, "last", <<Msg(output_queue(th), End)>>)
  /\ UNCHANGED <<conf, produced, held, reducer, done_threads, consumed>>

\* The loop adds an item, pops the next one, and only then tests for a full
\* window: a step starts with the test for the item popped before.
Reduce(th) ==
  LET r == reducer[th]
      full == ReductionNeeded(r, stage(th).window)
      rest == IF full THEN NextWindow(r, stage(th).window, stage(th).offset) ELSE r
      red == IF full THEN <<Msg(output_queue(th), Item(WindowValue(r), held[th].order))>> ELSE <<>>
  IN
  /\ kind(th) = "reduce"
  /\ \E item \in ToSet(queue[input_queue(th)]) :
       /\ Pops(th, item)
       /\ \/ /\ ~Empty(item)
             /\ reducer' = [reducer EXCEPT ![th] = AddItem(rest, item.value)]
             /\ Then(th, "loop", red)
          \/ /\ Empty(item)
             /\ reducer' = [reducer EXCEPT ![th] = rest]
             /\ Then(th, "last", Append(red, Msg(output_queue(th), End)))
  /\ held' = [held EXCEPT ![th].order = @ + Len(red)]
  /\ UNCHANGED <<conf, produced, done_threads, consumed>>

\* One application of the operation: the result leaves when the predicate holds,
\* else it goes back to the iteration's own input queue.
Iterated(th, item) ==
  LET new == [item EXCEPT !.rounds = @ + 1]
  IN IF new.rounds = conf.need[new.value[1]]
     THEN Msg(output_queue(th), [new EXCEPT !.rounds = 0]) ELSE Msg(input_queue(th), new)

Iterate(th) ==
  /\ kind(th) = "iterate"
  /\ \E item \in ToSet(queue[input_queue(th)]) :
       /\ Pops(th, item)
       /\ \/ ~Empty(item) /\ Then(th, "loop", <<Iterated(th, item)>>)
          \/ Empty(item) /\ Then(th, "again", <<>>)
  /\ UNCHANGED <<conf, produced, held, reducer, done_threads, consumed>>

\* Faulty variant: the output is ended with the values of the last round in the queue.
IterateEndsAtOnce(th) ==
  /\ pc[th] = "again" /\ out[th] = <<>>
  /\ EndOutput(th)
  /\ UNCHANGED <<conf, queue, produced, held, reducer, done_threads, consumed>>

\* After the end marker: input_queue.empty() is tested before each pop, and when
\* it holds the output is ended.
IterateTest(th) ==
  /\ pc[th] = "again" /\ out[th] = <<>>
  /\ \/ queue[input_queue(th)] # <<>> /\ Then(th, "again_pop", <<>>)
     \/ queue[input_queue(th)] = <<>> /\ EndOutput(th)
  /\ UNCHANGED <<conf, queue, produced, held, reducer, done_threads, consumed>>

\* The pop, when another replica may have emptied the queue.  An empty item here
\* would be dereferenced: see NoEndLeft.
IterateAgain(th) ==
  /\ pc[th] = "again_pop"
  /\ \E item \in ToSet(queue[input_queue(th)]) :
       /\ item = Head(queue[input_queue(th)]) /\ ~Empty(item)
       /\ queue' = [queue EXCEPT ![input_queue(th)] = Tail(@)]
       /\ Then(th, "again", <<Iterated(th, item)>>)
  /\ UNCHANGED <<conf, produced, held, reducer, done_threads, consumed>>

-----------------------------------------------------------------------------

Step(th) == \/ Push(th) \/ Consume(th)
            \/ Generate(th) \/ Stage(th)
            \/ HostWork(th) \/ FarmCount(th) \/ FarmEnd(th) \/ ContextEnd(th)
            \/ FarmSink(th)
            \/ Order(th) \/ Drain(th) \/ DrainEnd(th) \/ ConsumeUnordered(th)
            \/ Filter(th) \/ Reduce(th)
            \/ Iterate(th) \/ IterateTest(th) \/ IterateAgain(th)

AllDone == \A th \in Threads : Finished(th)

\* pipeline() returns when it has joined every thread.
Return == AllDone /\ UNCHANGED vars

Next == (\E th \in Threads : Step(th)) \/ Return

\* The scheduler does not leave every thread idle while one of them can move.
Spec == Init /\ [][Next]_vars /\ WF_vars(Next)

-----------------------------------------------------------------------------
(* Type invariant. *)

ItemType(item) == /\ item.value \in Seq(Int)
                  /\ item.order \in -1 .. conf.length
                  /\ item.rounds \in 0 .. MaxRounds

TypeOK == /\ \A q \in DOMAIN queue :
               /\ Len(queue[q]) <= conf.size
               /\ \A k \in DOMAIN queue[q] : ItemType(queue[q][k])
          /\ \A th \in Threads :
               /\ pc[th] \in {"loop", "join", "test", "drain", "again", "again_pop", "last"}
               /\ held[th].current \in 0 .. conf.length
               /\ reducer[th].remaining \in Nat
               /\ kind(th) = "replica" => done_threads[FarmOf(th)] \in 0 .. stage(th).n
               /\ \A k \in DOMAIN out[th] : /\ out[th][k].to \in {User} \cup DOMAIN queue
                                            /\ ItemType(out[th][k].item)
          /\ produced \in 0 .. conf.length

-----------------------------------------------------------------------------
(* Properties. *)

SinkThreads == {th \in Threads : kind(th) \in {"consume", "farm_sink"}}
OneConsumer == \E th \in Threads : kind(th) = "consume"

\* The pipeline delivers what the sequential execution delivers: nothing lost,
\* repeated or made up by farms, filters, reductions and iterations whose threads
\* interleave as they like; in the same order if the execution is ordered and
\* one thread consumes; and it ends only after the last value.
SD == INSTANCE StreamDelivery
        WITH expected <- conf.expected,
             ordered <- conf.ordered /\ OneConsumer,
             ended <- \A th \in SinkThreads : Finished(th)
DeliversStream == SD!Spec

\* An empty item that the reader of its queue takes for the end of the stream.
Readers(q) == {th \in Threads : input_queue(th) = q}
IsMarker(q, item) ==
  Empty(item) /\ ((\E th \in Readers(q) : kind(th) = "reorder") => item.order = -1)
Markers(q) == {k \in DOMAIN queue[q] : IsMarker(q, queue[q][k])}

\* The end marker is behind every value: none follows it in a queue, and the
\* threads that feed the queue have none left to push.  (An iteration puts its
\* own values behind the marker in its input queue.)
EndIsLastOn(q) ==
  (Markers(q) # {} /\ \A th \in Readers(q) : kind(th) # "iterate") =>
    /\ \A m \in Markers(q), k \in DOMAIN queue[q] : Empty(queue[q][k]) \/ k < m
    /\ \A th \in Threads : output_queue(th) = q =>
         \A k \in DOMAIN out[th] : out[th][k].to = q => Empty(out[th][k].item)

EndIsLast == \A q \in DOMAIN queue : EndIsLastOn(q)

\* The replicas of the farm at q that have taken the end marker: they, or the
\* first thread they created, have left the loop and not put it back.
Holding(q) ==
  {th \in Threads :
     /\ kind(th) = "replica" /\ FarmInput(th) = q /\ ~Finished(th)
     /\ \E h \in Readers(q) \cap (helpers(th) \cup {th}) : pc[h] # "loop"}

\* The threads that may end their output more than once: the host of a pattern that
\* ends it too, a sequential context, and a filter that hands on an empty item for
\* each value it rejects to a stage that takes it for the end.
MayEndTwice(th) == \/ OnlyWaits(th) \/ IsSequential(th)
                   \/ kind(th) = "filter" /\ ~conf.ordered

\* The edges of the pipeline that are not behind such a thread.
EndedOnce(q) == \A th \in Threads : MayEndTwice(th) => output_queue(th)[1] > q[1]

\* There is one end marker on each such edge of the pipeline: in the queue, or with a
\* replica that is about to count itself out, or to put the marker back.  It is
\* what makes the two reads of done_threads by different replicas agree on who
\* is the last.
OneEndMarker ==
  \A q \in DOMAIN queue :
    EndedOnce(q) => Cardinality(Markers(q)) + Cardinality(Holding(q)) <= 1

\* An iteration that is past the end marker finds no other empty item in its
\* queue: it dereferences what it pops without looking.
NoEndLeft ==
  \A th \in Threads :
    (pc[th] \in {"again", "again_pop"} /\ EndedOnce(input_queue(th))) =>
      \A k \in DOMAIN queue[input_queue(th)] : ~Empty(queue[input_queue(th)][k])

\* A thread takes no more values: an iteration does so until it ends its output.
HasLeft(th) == IF kind(th) = "iterate" THEN pc[th] = "last" ELSE pc[th] # "loop"

\* Nothing of the stream is left at q: no value in the queue, none that a thread has
\* still to push there, and no thread that could.
RunDry(q) ==
  /\ \A k \in DOMAIN queue[q] : Empty(queue[q][k])
  /\ \A th \in Threads :
       /\ \A k \in DOMAIN out[th] : out[th][k].to = q => Empty(out[th][k].item)
       /\ output_queue(th) = q => pc[th] = "last"

\* When a thread has left its loop nothing is left in front of it.  (The replicas of a
\* farm of iterations hand values to each other.)
NothingLeftOn(q) ==
  (/\ \A r, s \in Readers(q) : kind(r) = "iterate" => r = s
   /\ \E r \in Readers(q) : HasLeft(r)) => RunDry(q)

\* So when pipeline() returns, no value has been lost on the way: the end of the
\* stream overtakes nothing, neither in a queue nor in the hands of a slow thread.
NothingLeft == \A q \in DOMAIN queue : EndedOnce(q) => NothingLeftOn(q)

\* After the end marker an ordering loop always finds the next order among the
\* elements it has kept: it never spins for ever.
DrainFindsNext ==
  \A th \in Threads :
    (pc[th] = "drain" /\ held[th].elements # <<>>) => Positions(held[th]) # {}

\* pipeline() returns: every thread leaves its loop, however small the queues.
Terminates == <>AllDone

=============================================================================
