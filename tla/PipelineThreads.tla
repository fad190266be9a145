--------------------------- MODULE PipelineThreads ---------------------------
(***************************************************************************)
(* The threads that the do_pipeline overloads create for a pipeline, and   *)
(* the queues between them: one thread per generator, stage, filter,       *)
(* reduction or iteration, one per replica of a farm and one per context;  *)
(* an ordered filter has a second one, behind a queue of its own.          *)
(*                                                                         *)
(* The threads and queues of a pattern are named by the path to it in the  *)
(* pipeline.  A replica, like a context, runs the pattern it holds from    *)
(* the queue of the farm to the queue behind it: it creates threads for    *)
(* the stages but the last, which it runs itself if it is a plain one.     *)
(***************************************************************************)
EXTENDS SeqPipeline, FiniteSets

\* What a thread does (kind, and the stage it does it for), the queue it pops
\* from and the queue it pushes to, and the threads it created and joins.
Role(id, kind, stage, in, out, helpers) ==
  [id |-> id, kind |-> kind, stage |-> stage, in |-> in, out |-> out, helpers |-> helpers]

\* No queue: the threads that call the user's last operation push to none.
User == <<>>

\* The places of a sequence of stages: what stands there, under which path, and
\* the queues before and behind it.  A filter of an unordered execution has its
\* own queue, which the next stage pops from; if the next is the queue behind the
\* pattern, nobody does.
Places(stages, path, in, out, ordered) ==
  [j \in DOMAIN stages |->
     [stage |-> stages[j], path |-> Append(path, j), ordered |-> ordered,
      in |-> IF j = 1 THEN in ELSE Append(path, j),
      out |-> CASE j < Len(stages) -> Append(path, j + 1)
                [] j = Len(stages) /\ stages[j].kind = "filter" /\ ~ordered -> Append(path, 0)
                [] OTHER -> out]]

\* The threads of a pattern that holds no other.
SimpleThreads(p) ==
  CASE p.stage.kind = "filter" /\ p.ordered ->
         {Role(Append(p.path, 1), "filter", p.stage, p.in, Append(p.path, 0), {}),
          Role(Append(p.path, 2), "reorder", p.stage, Append(p.path, 0), p.out, {})}
    [] p.stage.kind = "farm_sink" ->
         {Role(Append(p.path, w), "farm_sink", p.stage, p.in, User, {}) : w \in 1 .. p.stage.n}
    [] OTHER -> {Role(p.path, p.stage.kind, p.stage, p.in, p.out, {})}

\* The places of the pattern held at p, those of them that get threads, and the
\* host, which runs the last stage itself or only waits for the threads created.
InnerPlaces(p) == Places(p.stage.inner, p.path, p.in, p.out, p.ordered)
Works(p) == Last(p.stage.inner).kind = "stage"
Delegated(p) == ToSet(IF Works(p) THEN Front(InnerPlaces(p)) ELSE InnerPlaces(p))

Host(kind, p, created) ==
  created \cup {Role(p.path, kind, p.stage, IF Works(p) THEN Last(InnerPlaces(p)).in ELSE User,
                     p.out, {r.id : r \in created})}

FarmThreads(p) ==
  IF p.stage.kind = "farm"
  THEN UNION {LET replica == [p EXCEPT !.path = Append(@, w)]
              IN Host("replica", replica, UNION {SimpleThreads(q) : q \in Delegated(replica)})
                : w \in 1 .. p.stage.n}
  ELSE SimpleThreads(p)

ContextThreads(p) ==
  CASE p.stage.kind = "context" /\ p.stage.sequential ->
         {Role(p.path, "context", p.stage, p.in, p.out, {})}
    [] p.stage.kind = "context" /\ ~p.stage.sequential ->
         Host("context", p, UNION {FarmThreads(q) : q \in Delegated(p)})
    [] OTHER -> FarmThreads(p)

\* The threads of a pipeline; the generator feeds the first stage.
Generator == <<0>>

Roles(p) ==
  {Role(Generator, "generate", [kind |-> "generate"], User, <<1>>, {})} \cup
  UNION {ContextThreads(q) : q \in ToSet(Places(p.stages, <<>>, <<1>>, User, p.ordered))}

-----------------------------------------------------------------------------
(* A pipeline, and the patterns that can be nested in it. *)

\* A pattern that holds no other and hands something on.
SimpleKinds == {"stage", "filter", "reduce", "iterate"}

IsSimple(s) ==
  /\ s.kind \in SimpleKinds
  /\ s.kind = "reduce" => s.window \in Nat \ {0} /\ s.offset \in Nat \ {0} /\ s.before \in Nat

IsSeq(s) == s # <<>> /\ s \in Seq(ToSet(s))

IsFarm(s) == /\ s.kind = "farm" /\ s.n \in Nat \ {0}
             /\ IsSeq(s.inner)
             /\ \A k \in DOMAIN s.inner : IsSimple(s.inner[k])

\* Of the patterns in a sequential context only those without a state are modelled.
IsContext(s) ==
  /\ s.kind = "context" /\ s.sequential \in BOOLEAN
  /\ IsSeq(s.inner)
  /\ \A k \in DOMAIN s.inner :
       IF s.sequential THEN s.inner[k].kind \in {"stage", "filter"}
                       ELSE IsSimple(s.inner[k]) \/ IsFarm(s.inner[k])

IsSink(s) == s.kind = "consume" \/ (s.kind = "farm_sink" /\ s.n \in Nat \ {0})

IsStage(s) == IsSimple(s) \/ IsFarm(s) \/ IsContext(s)

IsPipeline(p) == /\ p.ordered \in BOOLEAN
                 /\ p.size \in Nat \ {0}    \* queue_size_
                 /\ p.length \in Nat        \* elements in the stream
                 /\ IsSeq(p.stages)
                 /\ \A k \in DOMAIN p.stages :
                      IF k < Len(p.stages) THEN IsStage(p.stages[k]) ELSE IsSink(p.stages[k])

=============================================================================
