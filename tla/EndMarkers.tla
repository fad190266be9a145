------------------------------ MODULE EndMarkers ------------------------------
(***************************************************************************)
(* How the end of the stream travels through the pipeline of               *)
(* NativePipeline: what an inductive invariant has to say about the end    *)
(* markers, edge by edge.                                                  *)
(***************************************************************************)
EXTENDS NativePipeline

Queues == DOMAIN queue
Writers(q) == {th \in Threads : output_queue(th) = q}
IsReplica(th) == kind(th) = "replica"
Replicas(f) == {th \in Threads : IsReplica(th) /\ FarmOf(th) = f}
IsFarmInput(q) == \E th \in Threads : IsReplica(th) /\ FarmInput(th) = q
Crew(th) == helpers(th) \cup {th}

-----------------------------------------------------------------------------
(* How the threads are connected: this is what Roles makes of a pipeline. *)

\* Every thread that pops has a queue to pop from, every thread that pushes one to
\* push to, and not the same.
Connected ==
  /\ User \notin Queues
  /\ \A q \in Queues : q[1] \in Nat
  /\ \A th \in Threads :
       /\ kind(th) \in SimpleKinds \cup
            {"generate", "replica", "context", "reorder", "consume", "farm_sink"}
       /\ helpers(th) \subseteq Threads
       /\ input_queue(th) = User <=> kind(th) = "generate" \/ OnlyWaits(th)
       /\ output_queue(th) = User <=> kind(th) \in {"consume", "farm_sink"}
       /\ input_queue(th) # User => input_queue(th) \in Queues
       /\ output_queue(th) # User => output_queue(th) \in Queues
       /\ input_queue(th) # User => input_queue(th) # output_queue(th)
       /\ kind(th) = "reduce" => /\ stage(th).window \in Nat \ {0}
                                 /\ stage(th).offset \in Nat \ {0}

\* The queue of an ordering thread is that of one filter.
FilterQueues ==
  /\ \A th \in Threads : kind(th) = "reorder" =>
       /\ \A r \in Readers(input_queue(th)) : kind(r) = "reorder"
       /\ \A w \in Writers(input_queue(th)) : kind(w) = "filter"
       /\ \A v, w \in Writers(input_queue(th)) : v = w
       /\ ~IsFarmInput(input_queue(th))
  /\ conf.ordered => \A th \in Threads : kind(th) = "filter" =>
       \E r \in Readers(output_queue(th)) : kind(r) = "reorder"

\* A queue is fed by one thread or by the replicas of one farm.
OneWriter ==
  \A q \in Queues : EndedOnce(q) =>
    \A v, w \in Writers(q) : v = w \/ (IsReplica(v) /\ IsReplica(w) /\ FarmOf(v) = FarmOf(w))

\* Each replica of a farm has a thread of its own that pops from the queue of the
\* farm, and no other thread does.
FarmQueues ==
  \A th \in Threads : IsReplica(th) =>
    /\ FarmInput(th) \in Queues
    /\ FarmInput(th) # output_queue(th)
    /\ \E r \in Crew(th) : input_queue(r) = FarmInput(th)
    /\ \A r \in Readers(FarmInput(th)) :
         /\ kind(r) # "farm_sink"
         /\ \E t \in Replicas(FarmOf(th)) : r \in Crew(t) /\ FarmInput(t) = FarmInput(th)
    /\ \A t \in Threads : (IsReplica(t) /\ t # th) => Crew(t) \cap Crew(th) = {}
    /\ \A t \in Replicas(FarmOf(th)) : FarmInput(t) = FarmInput(th)
    /\ EndedOnce(output_queue(th)) => EndedOnce(FarmInput(th))
    /\ IsFiniteSet(Replicas(FarmOf(th)))
    /\ Cardinality(Replicas(FarmOf(th))) = stage(th).n
    /\ stage(th).n \in Nat
    /\ FarmOf(th) \in DOMAIN done_threads

Wired == Connected /\ FilterQueues /\ OneWriter /\ FarmQueues

-----------------------------------------------------------------------------
(* Types. *)

Items == [value : Seq(Int), order : Int, rounds : Int]
Values == Seq(Int) \ {<<>>}
Labels == {"loop", "join", "test", "drain", "drain_pop", "again", "again_pop", "last"}

Typed ==
  /\ conf.size \in Nat /\ conf.length \in Nat
  /\ queue \in [Queues -> Seq(Items)]
  /\ pc \in [Threads -> Labels]
  /\ out \in [Threads -> Seq([to : {User} \cup Queues, item : Items])]
  /\ produced \in Nat
  /\ held \in [Threads -> [elements : Seq(Items), current : Int, order : Nat]]
  /\ reducer \in [Threads -> [items : Seq(Values), remaining : Int]]
  /\ done_threads \in [DOMAIN done_threads -> Nat]

\* Only some threads come to some places of their loop; the host of a pattern is
\* done when the threads it created are.
PlaceOf(th) ==
  /\ pc[th] = "join" => IsHost(th)
  /\ pc[th] = "test" => IsReplica(th)
  /\ pc[th] \in {"test", "again_pop"} => out[th] = <<>>
  /\ pc[th] \in {"drain", "drain_pop"} => kind(th) \in {"consume", "reorder"}
  /\ pc[th] \in {"again", "again_pop"} => kind(th) = "iterate"
  /\ OnlyWaits(th) => pc[th] # "loop"
  /\ (IsHost(th) /\ pc[th] \in {"test", "last"}) => \A h \in helpers(th) : Finished(h)

InPlace == \A th \in Threads : PlaceOf(th)

-----------------------------------------------------------------------------
(* Messages. *)

IsEndMsg(m) == m.to # User /\ IsMarker(m.to, m.item)

\* What a thread has still to push: values go to its output, or back to the input
\* of an iteration; empty items to its output, or back to the queue of its farm.
\* An end marker is the last, and comes when the loop is left.
OutgoingOf(th) ==
  \A k \in DOMAIN out[th] :
    LET m == out[th][k] IN
    /\ (~Empty(m.item) /\ m.to # User) =>
         /\ m.item.order >= 0
         /\ m.to = output_queue(th) \/ (kind(th) = "iterate" /\ m.to = input_queue(th))
    /\ (Empty(m.item) /\ m.to # User) =>
         \/ m.to = output_queue(th)
         \/ kind(th) = "farm_sink" /\ m.to = input_queue(th)
         \/ IsReplica(th) /\ m.to = FarmInput(th)
    /\ (IsEndMsg(m) /\ EndedOnce(m.to)) => k = Len(out[th]) /\ pc[th] = "last"
    /\ (pc[th] = "last" /\ ~Empty(m.item) /\ m.to # User) =>
         \E l \in DOMAIN out[th] : l > k /\ out[th][l].to = m.to /\ IsEndMsg(out[th][l])

Outgoing == \A th \in Threads : OutgoingOf(th)

\* Values have orders from 0.
Orders == \A q \in Queues : \A k \in DOMAIN queue[q] :
            ~Empty(queue[q][k]) => queue[q][k].order >= 0

-----------------------------------------------------------------------------
(* End markers. *)

\* The threads that have an end marker for q: about to push it, taken from it and
\* not yet put back, or taken from it for good.
Pending(q) == {th \in Threads : \E k \in DOMAIN out[th] : out[th][k].to = q /\ IsEndMsg(out[th][k])}
Kept(q) == {th \in Readers(q) : ~IsFarmInput(q) /\ kind(th) # "farm_sink" /\ pc[th] # "loop"}
Have(q) == Pending(q) \cup Holding(q) \cup Kept(q)

\* Of an edge there is one end marker, and none before its writers have left their
\* loops.
OneMarker(q) ==
  /\ \A k, l \in Markers(q) : k = l
  /\ Markers(q) # {} => Have(q) = {}
  /\ \A t, u \in Have(q) : t = u
  /\ (Markers(q) # {} \/ Have(q) # {}) => \A w \in Writers(q) : pc[w] = "last"

ValuesBefore(q) ==
  (\A th \in Readers(q) : kind(th) # "iterate") =>
    \A m \in Markers(q), k \in DOMAIN queue[q] : Empty(queue[q][k]) \/ k < m

\* The counter of a farm counts the replicas that have left.
Counted ==
  \A th \in Threads : IsReplica(th) =>
    done_threads[FarmOf(th)] = Cardinality({t \in Replicas(FarmOf(th)) : pc[t] \in {"test", "last"}})

EdgesEnded == \A q \in Queues : EndedOnce(q) => OneMarker(q) /\ ValuesBefore(q)

IInv == /\ Wired /\ Typed /\ InPlace /\ Outgoing /\ Orders /\ Counted /\ EdgesEnded
        /\ NothingLeft

=============================================================================
