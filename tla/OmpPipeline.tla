----------------------------- MODULE OmpPipeline -----------------------------
(***************************************************************************)
(* parallel_execution_omp::pipeline and its do_pipeline overloads.  What   *)
(* is a thread in the native back end is a task here, and a team of as     *)
(* many threads as the concurrency degree runs the tasks.  A task keeps    *)
(* its thread to its end, also while it waits in a push or a pop: with     *)
(* fewer threads than tasks some tasks do not begin.  The thread that      *)
(* calls pipeline creates the tasks, runs the consumer itself, and         *)
(* executes tasks only when it is done with that and waits for them.  The  *)
(* task of a context or a replica creates those of the pattern it holds,   *)
(* and executes one of them at a time while it waits for them.             *)
(*                                                                         *)
(* The loops of the tasks are those of NativePipeline statement for        *)
(* statement, and are taken from there, with what EndMarkers says of them, *)
(* except the filter's: its ordering loop pops once more after the end     *)
(* marker, and in an unordered execution it has no ordering loop and drops *)
(* what it does not keep.                                                  *)
(***************************************************************************)
EXTENDS EndMarkers

VARIABLES
  team,     \* the team's threads, and whether tasks begin in creation order
  started,  \* the tasks that have begun
  inside    \* those of them that began on the thread of a waiting task

omp_vars == <<vars, team, started, inside>>

IsTeam(t) == t.threads \in Nat \ {0} /\ t.in_order \in BOOLEAN

\* Nested tasks are created when those that create them have begun: the order is
\* that of the pipeline if there are none.
IsFlat(p) == \A r \in Roles(p) : r.helpers = {}

ASSUME TeamsAssumption ==
  \A p \in Pipelines :
    IsTeam(p.team) /\ (p.team.in_order => IsFlat(p))

-----------------------------------------------------------------------------
(* Tasks and the team. *)

Tasks == Threads

\* The order in which do_pipeline creates the tasks.
CreatedBefore(t, u) == \/ t[1] < u[1]
                       \/ t[1] = u[1] /\ Len(t) = 2 /\ t[2] < u[2]

\* The tasks that task h itself has created: what it holds but what they hold.
Created(h) == helpers(h) \ UNION {helpers(g) : g \in helpers(h)}

\* The task that creates t has begun; most are created at once.
IsCreated(t) == \A h \in Tasks : t \in helpers(h) => h \in started

\* The tasks that are executed and the consumer, which is no task: the thread that
\* creates the tasks runs it.
Running == {t \in started : ~Finished(t)}

\* The threads they occupy.
BusyThreads == Cardinality(Running \ inside)

OmpInit == \E p \in Pipelines :
          /\ InitFor(p)
          /\ team = p.team
          /\ started = {r.id : r \in {r \in Roles(p) : r.kind = "consume"}}
          /\ inside = {}

\* Faulty variant: a thread of the team takes every task.
BeginAtOnce(t) ==
  /\ t \notin started /\ IsCreated(t)
  /\ started' = started \cup {t}
  /\ UNCHANGED <<vars, team, inside>>

\* A thread of the team that has nothing to do takes a task.
Begin(t) ==
  /\ t \notin started /\ IsCreated(t)
  /\ BusyThreads < team.threads
  /\ team.in_order => \A u \in Tasks : CreatedBefore(u, t) => u \in started
  /\ started' = started \cup {t}
  /\ UNCHANGED <<vars, team, inside>>

\* A task that waits for the tasks it has created takes one of them.
BeginInside(t) ==
  /\ t \notin started
  /\ \E h \in started : /\ t \in Created(h) /\ pc[h] = "join"
                       /\ Created(h) \cap inside \cap Running = {}
  /\ started' = started \cup {t}
  /\ inside' = inside \cup {t}
  /\ UNCHANGED <<vars, team>>

-----------------------------------------------------------------------------
(* The loops the two back ends share. *)

GeneratorTask(t) == Generate(t)
TransformerTask(t) == Stage(t)
InnerTask(t) == HostWork(t)
FarmTaskCount(t) == FarmCount(t)

\* Faulty variant: the empty item is not put back for the other tasks of the farm.
FarmTaskEndKeepsMarker(t) ==
  /\ pc[t] = "test"
  /\ \/ done_threads[FarmOf(t)] = stage(t).n /\ EndOutput(t)
     \/ done_threads[FarmOf(t)] # stage(t).n /\ Then(t, "last", <<>>)
  /\ UNCHANGED <<conf, queue, produced, held, reducer, done_threads, consumed>>

\* Faulty variant: every task of the farm ends the output.
FarmTaskEndAlways(t) == FarmEndAll(t)

FarmTaskEnd(t) == FarmEnd(t)
ContextTaskEnd(t) == ContextEnd(t)
FarmSinkTask(t) == FarmSink(t)
ReduceTask(t) == Reduce(t)
IterationTask(t) == Iterate(t) \/ IterateTest(t) \/ IterateAgain(t)

\* Faulty variant: the ordering task of the filter takes any empty item for the end.
ReorderTaskEndsEarly(t) ==
  /\ OrderingLoop(t)
  /\ \E item \in ToSet(queue[input_queue(t)]) :
       /\ Pops(t, item)
       /\ \/ ~Empty(item) /\ Release(t, ReleaseWith(held[t], item), "loop")
          \/ Empty(item) /\ Then(t, "drain", <<>>) /\ UNCHANGED held
  /\ UNCHANGED <<conf, produced, reducer, done_threads, consumed>>

ReorderTask(t) == Order(t)

\* The consumer calls the user's operation, and after the end marker hands over
\* the elements it has kept.
Consumer(t) ==
  \/ Consume(t)
  \/ ConsumeUnordered(t)
  \/ /\ kind(t) = "consume"
     /\ Drain(t) \/ DrainEnd(t)

-----------------------------------------------------------------------------
(* The filter. *)

\* An ordered filter hands on an empty item for a value it does not keep.
FilterOrdered(t) == conf.ordered /\ Filter(t)

\* Faulty variant: an unordered filter does the same, with nobody to reorder.
FilterUnorderedKeepsEmpty(t) == ~conf.ordered /\ Filter(t)

\* An unordered filter hands on what it keeps and nothing else.
FilterUnordered(t) ==
  /\ ~conf.ordered
  /\ kind(t) = "filter"
  /\ \E item \in ToSet(queue[input_queue(t)]) :
       /\ Pops(t, item)
       /\ \/ /\ ~Empty(item)
             /\ Then(t, "loop", IF item.value[1] \in conf.keep
                                THEN <<Msg(output_queue(t), item)>> ELSE <<>>)
          \/ /\ Empty(item)
             /\ EndOutput(t)
  /\ UNCHANGED <<conf, produced, held, reducer, done_threads, consumed>>

\* The ordering loop of the filter after the end marker.  Each round ends with a
\* pop, so every round but the first begins with what that pop got.
DrainFilter(t) ==
  LET in == input_queue(t)
      popped == IF pc[t] = "drain" THEN End ELSE Head(queue[in])
  IN
  /\ kind(t) = "reorder"
  /\ pc[t] \in {"drain", "drain_pop"} /\ out[t] = <<>>
  /\ IF pc[t] = "drain" THEN UNCHANGED queue
     ELSE queue[in] # <<>> /\ queue' = [queue EXCEPT ![in] = Tail(@)]
  /\ \/ /\ held[t].elements # <<>>
        /\ Release(t, ReleaseOne(held[t]), "drain_pop")
     \/ /\ held[t].elements = <<>>
        /\ Then(t, "last", <<Msg(output_queue(t), popped)>>)
        /\ UNCHANGED held
  /\ UNCHANGED <<conf, produced, reducer, done_threads, consumed>>

-----------------------------------------------------------------------------

TaskStep(t) ==
  /\ t \in started
  /\ \/ Push(t) \/ GeneratorTask(t) \/ TransformerTask(t) \/ InnerTask(t)
     \/ FarmTaskCount(t) \/ FarmTaskEnd(t) \/ ContextTaskEnd(t) \/ FarmSinkTask(t)
     \/ ReorderTask(t) \/ Consumer(t) \/ ReduceTask(t) \/ IterationTask(t)
     \/ FilterOrdered(t) \/ FilterUnordered(t) \/ DrainFilter(t)
  /\ UNCHANGED <<team, started, inside>>

AllTasksDone == \A t \in Tasks : t \in started /\ Finished(t)

\* The taskwait of pipeline is over.
OmpReturn == AllTasksDone /\ UNCHANGED omp_vars

OmpNext == (\E t \in Tasks : Begin(t) \/ BeginInside(t) \/ TaskStep(t)) \/ OmpReturn

\* The team does not idle while a task can begin or go on.
OmpSpec == OmpInit /\ [][OmpNext]_omp_vars /\ WF_omp_vars(OmpNext)

-----------------------------------------------------------------------------
(* Type invariant. *)

\* The queues are never longer than their size nor the team than its threads,
\* and only tasks that have begun have done anything.
OmpTypeOK ==
  /\ \A q \in DOMAIN queue :
       /\ Len(queue[q]) <= conf.size
       /\ \A k \in DOMAIN queue[q] : ItemType(queue[q][k])
  /\ \A t \in Tasks :
       /\ pc[t] \in {"loop", "join", "test", "drain", "drain_pop", "again", "again_pop", "last"}
       /\ held[t].current \in 0 .. conf.length
       /\ \A k \in DOMAIN out[t] : ItemType(out[t][k].item)
       /\ t \notin started => pc[t] = (IF OnlyWaits(t) THEN "join" ELSE "loop")
                            /\ out[t] = <<>>
  /\ \A f \in DOMAIN done_threads :
       done_threads[f] <= Cardinality({t \in Tasks : FarmOf(t) = f})
  /\ inside \subseteq started /\ started \subseteq Tasks
  /\ BusyThreads <= team.threads
  /\ produced \in 0 .. conf.length

-----------------------------------------------------------------------------
(* The end of an ordered filter. *)

\* Between a filter and its ordering task the end marker is the last item there is:
\* once the ordering task has it, its queue is empty and stays so, and the pops that
\* DrainFilter makes then never return.
FilterEnds(t) ==
  LET q == input_queue(t) IN
  kind(t) = "reorder" =>
    /\ \A w \in Writers(q) :
         /\ pc[w] \in {"loop", "last"} /\ Len(out[w]) <= 1
         /\ \A k \in DOMAIN out[w] : IsEndMsg(out[w][k]) <=> pc[w] = "last"
         /\ ~Finished(w) => Markers(q) = {} /\ pc[t] = "loop"
    /\ Markers(q) \subseteq {Len(queue[q])}
    /\ pc[t] # "loop" => queue[q] = <<>>

OmpIInv == IInv /\ \A t \in Threads : FilterEnds(t)

-----------------------------------------------------------------------------
(* Properties. *)

\* DeliversStream: whatever the team, and also when it cannot finish, what the
\* user's last operation has been given is what the sequential execution gives it,
\* in its order if the execution is ordered; and the stream ends only behind it all.
\*
\* OneEndMarker: one end marker at most on each edge of the pipeline, however late
\* the tasks of a farm begin: one that begins after the others have left finds the
\* marker they put back, and the last of them ends the output once.

\* Every task and the consumer have a thread of their own.
ThreadForEach == Cardinality(Tasks) <= team.threads

\* Tasks begin in the order of the pipeline, one at a time if need be, the
\* consumer has a thread, and every queue has room for the whole stream.
RoomForStream ==
  /\ team.in_order
  /\ team.threads >= IF OneConsumer THEN 2 ELSE 1
  /\ conf.size > conf.length

\* No ordered filter gets its values out of order.
NoneOvertaken ==
  \A t, u \in Tasks :
    (kind(t) = "replica" /\ stage(t).n > 1 /\ kind(u) = "reorder")
      => u[1] < t[1]

\* pipeline returns if the team is large enough, or, with tasks that begin in the
\* order they are created, if the queues are: then a team of two is enough.
OmpTerminates ==
  (NoneOvertaken /\ (ThreadForEach \/ RoomForStream)) => <>AllTasksDone

\* Every value an ordered filter keeps reaches the user's last operation, also
\* when the filter is behind a farm.
KeptValuesArrive == ThreadForEach => <>(Len(consumed) = Len(conf.expected))

=============================================================================
