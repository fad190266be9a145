----------------------------- MODULE StreamAccount -----------------------------
(***************************************************************************)
(* Where each element of the stream is: what an inductive invariant has to *)
(* say about the items of NativePipeline to show that a pipeline loses,    *)
(* repeats and reorders nothing.                                           *)
(***************************************************************************)
EXTENDS EndMarkers

-----------------------------------------------------------------------------
(* Pipelines in which every item stands for one generated element and all items *)
(* take the same way: without reductions, with filters only between the stages  *)
(* of an ordered pipeline, and with hosts that work themselves.                 *)

PlainFarm(s) == s.kind = "farm" /\ \A k \in DOMAIN s.inner : s.inner[k].kind = "stage"

PlainContext(s) ==
  /\ s.kind = "context" /\ ~s.sequential
  /\ Last(s.inner).kind = "stage"
  /\ \A k \in DOMAIN s.inner : s.inner[k].kind \in {"stage", "iterate"} \/ PlainFarm(s.inner[k])

Regular(p) ==
  \A k \in DOMAIN p.stages :
    LET s == p.stages[k] IN
    \/ s.kind \in {"stage", "iterate", "consume", "farm_sink"} \/ (s.kind = "filter" /\ p.ordered)
    \/ PlainFarm(s) \/ PlainContext(s)

-----------------------------------------------------------------------------
(* What the threads of such a pipeline have in common. *)

IsReorder(th) == kind(th) = "reorder"
CallsUser(th) == output_queue(th) = User

\* The end of a filter: all queues with a smaller first number are in front of it.
Behind(x, q) == output_queue(x)[1] <= q[1]

\* Every way passes each ordering thread of a filter, and only it does.
Filters ==
  \A x \in Threads : IsReorder(x) =>
    /\ input_queue(x) # User /\ ~Behind(x, input_queue(x))
    /\ \A th \in Threads \ {x} :
         /\ (input_queue(th) # User /\ output_queue(th) # User) =>
              (Behind(x, input_queue(th)) <=> Behind(x, output_queue(th)))
         /\ (input_queue(th) = User) => ~Behind(x, output_queue(th))
         /\ (output_queue(th) = User) => Behind(x, input_queue(th))

\* With a queue, the queues its writers pop from.
Upstream(W) ==
  \A th \in Threads : (output_queue(th) \in W /\ input_queue(th) # User) => input_queue(th) \in W

\* All queues lead to the end; those in front of an ordering thread lead to it.
Leads ==
  \A W \in SUBSET Queues : Upstream(W) =>
    /\ (\A th \in Threads : CallsUser(th) => input_queue(th) \in W) => W = Queues
    /\ \A x \in Threads : (IsReorder(x) /\ input_queue(x) \in W) =>
         \A q \in Queues : Behind(x, q) \/ q \in W

Chosen == IF \E x \in Threads : IsReorder(x) THEN conf.keep ELSE 1 .. conf.length

Rank(e) == Cardinality({y \in conf.keep : y < e})

\* The order of the item for element e, before the filters and behind one.
Number(late, e) == IF late THEN Rank(e) ELSE e - 1

\* s is the sequence of the elements in Chosen.
Enumerates(s) ==
  LET late == \E x \in Threads : IsReorder(x) IN
  /\ \A k \in DOMAIN s : \E e \in Chosen : s[k] = <<e>> /\ Number(late, e) = k - 1
  /\ \A e \in Chosen : \E k \in DOMAIN s : s[k] = <<e>>

Straight ==
  /\ conf.keep \subseteq 1 .. conf.length
  /\ \A th \in Threads :
       /\ kind(th) # "reduce" /\ ~OnlyWaits(th) /\ ~IsSequential(th)
       /\ kind(th) \in {"filter", "reorder"} => conf.ordered
  /\ \E th, x \in Threads : kind(th) = "generate" /\ CallsUser(x)
  /\ \A th, x \in Threads : (kind(th) = "consume" /\ CallsUser(x)) => th = x
  /\ \A r, s \in Threads : (kind(r) = "iterate" /\ input_queue(r) = input_queue(s)) => r = s
  /\ Filters /\ Leads
  /\ conf.expected \in Seq(Seq(Int)) /\ Enumerates(conf.expected)

-----------------------------------------------------------------------------
(* Items. *)

\* The element an item stands for: its value, or what a filter has rejected.
Element(item) == IF Empty(item) THEN item.order + 1 ELSE item.value[1]

\* The queue q is behind a filter.
Late(q) == \E x \in Threads : IsReorder(x) /\ Behind(x, q)

\* q is the queue between a filter and its ordering thread: of what the filter has
\* rejected only the orders are left.
Sieved(q) == \E x \in Readers(q) : IsReorder(x)

\* An item for one of the first n elements, as it is in queue q or behind it.
InSeries(n, q, item) ==
  LET e == Element(item) IN
  /\ e \in 1 .. n
  /\ item.order = Number(Late(q), e)
  /\ IF Empty(item)
     THEN ~Late(q) /\ e \notin conf.keep /\ \E x \in Threads : IsReorder(x)
     ELSE item.value = <<e>> /\ (Late(q) \/ Sieved(q) => e \in conf.keep)

\* The elements in a sequence of items, and that none is there twice.
Stands(s) == {Element(s[k]) : k \in DOMAIN s}
OnceIn(s) == \A k, l \in DOMAIN s : Element(s[k]) = Element(s[l]) => k = l

\* The items that stand for an element: in a queue, in the hands of a thread.
OnQueue(q) == {k \in DOMAIN queue[q] : ~IsMarker(q, queue[q][k])}
InHand(th) == {k \in DOMAIN out[th] : ~IsEndMsg(out[th][k])}

Source(th, m) == IF m.to = User THEN input_queue(th) ELSE m.to

Numbered ==
  /\ \A q \in Queues : \A k \in OnQueue(q) : InSeries(produced, q, queue[q][k])
  /\ \A th \in Threads : \A k \in InHand(th) :
       InSeries(produced, Source(th, out[th][k]), out[th][k].item)
  /\ \A th \in Threads : \A k \in DOMAIN held[th].elements :
       InSeries(produced, input_queue(th), held[th].elements[k])
  /\ consumed \in Seq(Seq(Int))
  /\ \A k \in DOMAIN consumed : \E e \in Chosen \cap 1 .. produced : consumed[k] = <<e>>

-----------------------------------------------------------------------------
(* Places. *)

Spots == ({"queue"} \X Queues) \cup ({"hand", "kept"} \X Threads) \cup {<<"user", User>>}

Queued(q) == {Element(queue[q][k]) : k \in OnQueue(q)}
Handed(th) == {Element(out[th][k].item) : k \in InHand(th)}
KeptBack(th) == Stands(held[th].elements)
Delivered == {consumed[k][1] : k \in DOMAIN consumed}

Contents(place) ==
  CASE place[1] = "queue" -> Queued(place[2])
    [] place[1] = "hand" -> Handed(place[2])
    [] place[1] = "kept" -> KeptBack(place[2])
    [] OTHER -> Delivered

QueuedOnce(q) ==
  \A k, l \in OnQueue(q) : Element(queue[q][k]) = Element(queue[q][l]) => k = l
HandedOnce(th) ==
  \A k, l \in InHand(th) : Element(out[th][k].item) = Element(out[th][l].item) => k = l

Separate == \A p, r \in Spots : p # r => Contents(p) \cap Contents(r) = {}

\* No element is twice in one place, or in two.
Once ==
  /\ \A q \in Queues : QueuedOnce(q)
  /\ \A th \in Threads : HandedOnce(th) /\ OnceIn(held[th].elements)
  /\ \A k, l \in DOMAIN consumed : consumed[k] = consumed[l] => k = l
  /\ Separate

\* Every element that is to be consumed is somewhere.
Somewhere == \A e \in Chosen : e <= produced => \E p \in Spots : e \in Contents(p)

\* The orders an ordering loop gives and releases.
ReleasedBy(th) ==
  /\ held[th].current \in Nat
  /\ held[th].elements # <<>> => OrderingLoop(th) /\ pc[th] # "last"
  /\ OrderingLoop(th) => held[th].current <= Number(Late(input_queue(th)), produced + 1)
  /\ IsReorder(th) =>
       held[th].order = IF Late(input_queue(th)) THEN held[th].current
                                                 ELSE Rank(held[th].current + 1)
  /\ (kind(th) = "consume" /\ conf.ordered) =>
       /\ Len(consumed) + Len(out[th]) = held[th].current
       /\ \A k \in DOMAIN consumed : Number(Late(input_queue(th)), consumed[k][1]) = k - 1
       /\ \A k \in DOMAIN out[th] : out[th][k].item.order = Len(consumed) + k - 1

Released == \A th \in Threads : ReleasedBy(th)

\* The generator stops at the end of the stream; a thread that calls the user's
\* operation has done so when it leaves its loop.
EndsOf(th) ==
  /\ (kind(th) = "generate" /\ pc[th] = "last") => produced = conf.length
  /\ \A k \in DOMAIN out[th] : out[th][k].to = User => CallsUser(th) /\ pc[th] # "last"
  /\ pc[th] = "drain" => OrderingLoop(th)

Ends == produced <= conf.length /\ \A th \in Threads : EndsOf(th)

Account == Numbered /\ Once /\ Somewhere /\ Released /\ Ends

-----------------------------------------------------------------------------
(* Ordering loops. *)

\* Queue q is in front of the thread x of an ordering loop: the consumer, or the
\* ordering thread of a filter.
InFront(x, q) == ~IsReorder(x) \/ ~Behind(x, q)

\* So is the thread th, or it is x.
LeadsTo(x, th) == input_queue(th) = User \/ InFront(x, input_queue(th))

\* The places in front of x, and what it has in its queue and among those it keeps.
Before(x) ==
  {p \in Spots : \/ p[1] = "queue" /\ InFront(x, p[2])
                 \/ p[1] = "hand" /\ p[2] # x /\ LeadsTo(x, p[2])
                 \/ p[1] = "kept" /\ LeadsTo(x, p[2])}

\* The elements x has still to release.
Expected(x) == UNION {Contents(p) : p \in Before(x)}

\* An ordering loop has released the orders below its current one, and no others: all
\* the rest is in front of it.
PassedBy(x) ==
  LET late == Late(input_queue(x)) IN
  \A e \in 1 .. produced : (late => e \in conf.keep) =>
    (e \in Expected(x) <=> held[x].current <= Number(late, e))

Passed == \A x \in Threads : OrderingLoop(x) => PassedBy(x)

-----------------------------------------------------------------------------

\* In a straight pipeline no element is lost, repeated or misnumbered on the way, and
\* what an ordering loop waits for is in front of it or among what it has kept.
Accounted == Straight => Account /\ Passed

=============================================================================
