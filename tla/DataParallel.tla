----------------------------- MODULE DataParallel -----------------------------
(***************************************************************************)
(* The data-parallel patterns of the back ends that divide the input       *)
(* themselves: map, reduce, map_reduce and stencil.  A call divides the    *)
(* positions of the input into as many chunks as its concurrency degree,   *)
(* hands all but the last to threads (native) or tasks (OpenMP, TBB),      *)
(* processes the last, which takes the remainder, itself, waits, and       *)
(* combines the partial results.                                           *)
(*                                                                         *)
(* Elements are told apart by their position.  Combining is concatenation, *)
(* associative and with a neutral identity but not commutative: what is    *)
(* equal under it is equal under every such operation.                     *)
(***************************************************************************)
EXTENDS Integers, Sequences, SequencesExt

CONSTANTS Calls,   \* the functions to call: see ChunkedCalls
          Sizes,   \* the lengths of the input
          Degrees  \* the concurrency degrees

ASSUME SizesAssumption == Sizes \subseteq Nat
ASSUME DegreesAssumption == Degrees \subseteq Nat \ {0}

VARIABLES
  conf,             \* the function, sequence_size and concurrency_degree_
  pc,               \* the caller: "launch", "own" (its own chunk) or "returned"
  launched,         \* how many chunks have been handed out
  work,             \* work[i]: "none", "running" or "done"
  done,             \* done[i]: how many elements of chunk i have been processed
  out,              \* out[k]: what position k of the output holds, 0 at first
  partial_results,  \* partial_results[i]: the combination of chunk i
  result,           \* what reduce or map_reduce returns
  handled           \* history: how often element k has been processed

vars == <<conf, pc, launched, work, done, out, partial_results, result, handled>>

-----------------------------------------------------------------------------
(* The functions. *)

NativeMap == [backend |-> "native", pattern |-> "map"]
NativeReduce == [backend |-> "native", pattern |-> "reduce"]
NativeMapReduce == [backend |-> "native", pattern |-> "map_reduce"]
NativeStencil == [backend |-> "native", pattern |-> "stencil"]
OmpReduce == [backend |-> "omp", pattern |-> "reduce"]
OmpMapReduce == [backend |-> "omp", pattern |-> "map_reduce"]
OmpStencil == [backend |-> "omp", pattern |-> "stencil"]
TbbMapReduce == [backend |-> "tbb", pattern |-> "map_reduce"]
TbbStencil == [backend |-> "tbb", pattern |-> "stencil"]

ChunkedCalls == {NativeMap, NativeReduce, NativeMapReduce, NativeStencil,
                 OmpReduce, OmpMapReduce, OmpStencil, TbbMapReduce, TbbStencil}

ASSUME CallsAssumption == Calls \subseteq ChunkedCalls

\* map and stencil write each position of the output; the others combine.
Elementwise == conf.call.pattern \in {"map", "stencil"}

Positions == 0 .. conf.size - 1
Chunks == 0 .. conf.degree - 1
Main == conf.degree - 1

chunk_size == conf.size \div conf.degree
delta(i) == chunk_size * i

\* Faulty variant: the chunks are rounded up.
ChunkLenUp(i) == IF i = Main THEN conf.size - delta(i)
                 ELSE IF conf.size % conf.degree = 0 THEN chunk_size ELSE chunk_size + 1

\* The last chunk takes what the division leaves.
ChunkLen(i) == IF i = Main THEN conf.size - delta(i) ELSE chunk_size

\* What the output holds for element k: its position, counted from one.
Image(k) == k + 1

Identity == <<>>

\* sequential_execution::reduce
SeqReduce(identity, s) == FoldLeft(LAMBDA x, y : x \o y, identity, s)

\* The elements of chunk i, and of the whole input.
Elements(first, length) == [j \in 1 .. length |-> <<Image(first + j - 1)>>]

-----------------------------------------------------------------------------

Init ==
  \E c \in Calls, n \in Sizes, d \in Degrees :
    /\ conf = [call |-> c, size |-> n, degree |-> d]
    /\ pc = "launch"
    /\ launched = 0
    /\ work = [i \in 0 .. d - 1 |-> "none"]
    /\ done = [i \in 0 .. d - 1 |-> 0]
    /\ out = [k \in 0 .. n - 1 |-> 0]
    /\ partial_results = [i \in 0 .. d - 1 |-> Identity]
    /\ result = Identity
    /\ handled = [k \in 0 .. n - 1 |-> 0]

\* The caller hands out the next chunk.
Launch ==
  /\ pc = "launch"
  /\ launched < Main
  /\ work' = [work EXCEPT ![launched] = "running"]
  /\ launched' = launched + 1
  /\ UNCHANGED <<conf, pc, done, out, partial_results, result, handled>>

\* The caller turns to the last chunk.
OwnChunk ==
  /\ pc = "launch"
  /\ launched = Main
  /\ pc' = "own"
  /\ work' = [work EXCEPT ![Main] = "running"]
  /\ UNCHANGED <<conf, launched, done, out, partial_results, result, handled>>

\* Faulty variant: the loop goes one element too far.
ElementOneMore(i) ==
  LET k == delta(i) + done[i] IN
  /\ work[i] = "running"
  /\ done[i] <= ChunkLen(i)
  /\ done' = [done EXCEPT ![i] = @ + 1]
  /\ handled' = [handled EXCEPT ![k] = @ + 1]
  /\ out' = IF Elementwise THEN [out EXCEPT ![k] = Image(k)] ELSE out
  /\ UNCHANGED <<conf, pc, launched, work, partial_results, result>>

\* The next element of chunk i is processed.
Element(i) ==
  LET k == delta(i) + done[i] IN
  /\ work[i] = "running"
  /\ done[i] < ChunkLen(i)
  /\ done' = [done EXCEPT ![i] = @ + 1]
  /\ handled' = [handled EXCEPT ![k] = @ + 1]
  /\ out' = IF Elementwise THEN [out EXCEPT ![k] = Image(k)] ELSE out
  /\ UNCHANGED <<conf, pc, launched, work, partial_results, result>>

\* Chunk i has been processed; its combination is stored.
ChunkEnd(i) ==
  /\ work[i] = "running"
  /\ done[i] = ChunkLen(i)
  /\ work' = [work EXCEPT ![i] = "done"]
  /\ partial_results' =
       IF Elementwise THEN partial_results
       ELSE [partial_results EXCEPT ![i] =
               SeqReduce(Identity, Elements(delta(i), ChunkLen(i)))]
  /\ UNCHANGED <<conf, pc, launched, done, out, result, handled>>

\* reduce starts from the first partial result, map_reduce from the identity.
Combined ==
  CASE conf.call.pattern = "reduce" ->
         SeqReduce(partial_results[0], [i \in 1 .. Main |-> partial_results[i]])
    [] conf.call.pattern = "map_reduce" ->
         SeqReduce(Identity, [i \in 1 .. conf.degree |-> partial_results[i - 1]])
    [] OTHER -> Identity

\* Faulty variant: the caller combines when its own chunk is done.
ReturnNoWait ==
  /\ pc = "own"
  /\ work[Main] = "done"
  /\ pc' = "returned"
  /\ result' = Combined
  /\ UNCHANGED <<conf, launched, work, done, out, partial_results, handled>>

\* Faulty variant: the caller does not notice that the input is shorter than the
\* degree, and waits for chunks of one element.
ReturnWaitsForElements ==
  /\ pc = "own"
  /\ \A i \in Chunks : work[i] = "done" /\ done[i] > 0
  /\ pc' = "returned"
  /\ result' = Combined
  /\ UNCHANGED <<conf, launched, work, done, out, partial_results, handled>>

\* The caller waits for the chunks it has handed out, combines and returns.
Return ==
  /\ pc = "own"
  /\ \A i \in Chunks : work[i] = "done"
  /\ pc' = "returned"
  /\ result' = Combined
  /\ UNCHANGED <<conf, launched, work, done, out, partial_results, handled>>

Returned == pc = "returned" /\ UNCHANGED vars

Next == \/ Launch \/ OwnChunk \/ Return \/ Returned
        \/ \E i \in Chunks : Element(i) \/ ChunkEnd(i)

Spec == Init /\ [][Next]_vars

\* Threads, and the team that runs the tasks, keep running.
FairSpec == Spec /\ WF_vars(Next)

-----------------------------------------------------------------------------
(* Type invariant. *)

\* A chunk is never processed past its end, nor the input past its.
TypeOK ==
  /\ conf \in [call : Calls, size : Sizes, degree : Degrees]
  /\ pc \in {"launch", "own", "returned"}
  /\ launched \in 0 .. Main
  /\ work \in [Chunks -> {"none", "running", "done"}]
  /\ done \in [Chunks -> Nat]
  /\ \A i \in Chunks : done[i] <= ChunkLen(i) /\ delta(i) + ChunkLen(i) <= conf.size
  /\ out \in [Positions -> 0 .. conf.size]
  /\ handled \in [Positions -> Nat]

(* The parts of the inductive invariant. *)

\* Element k is in the part of its chunk that has been processed.
Processed(k) == \E i \in Chunks : delta(i) <= k /\ k < delta(i) + done[i]

\* What has been processed has been processed once, and nothing else has.
HandledOnce == \A k \in Positions : handled[k] = IF Processed(k) THEN 1 ELSE 0

\* map and stencil have written what they have processed.
WrittenWhenProcessed ==
  Elementwise => \A k \in Positions : Processed(k) => out[k] = Image(k)

\* A finished chunk has been processed to its end; the call returns after all are.
ChunksFinished ==
  \A i \in Chunks : /\ work[i] = "done" => done[i] = ChunkLen(i)
                    /\ pc = "returned" => work[i] = "done"

\* The partial result of a finished chunk is the combination of its elements, and
\* the call returns the combination of all of them.
ResultsCombined ==
  /\ DOMAIN partial_results = Chunks
  /\ ~Elementwise =>
       \A i \in Chunks : work[i] = "done" =>
         partial_results[i] = SeqReduce(Identity, Elements(delta(i), ChunkLen(i)))
  /\ pc = "returned" => result = Combined

IInv == TypeOK /\ HandledOnce /\ WrittenWhenProcessed /\ ChunksFinished /\ ResultsCombined

-----------------------------------------------------------------------------
(* Properties. *)

\* The chunks neither overlap nor leave a gap: no element is processed twice, and
\* when the call returns each has been processed, whatever the degree and however
\* the chunks interleave.
EachElementOnce ==
  \A k \in Positions : /\ handled[k] <= 1
                       /\ pc = "returned" => handled[k] = 1

\* The call returns what sequential_execution does: the whole output is written,
\* and the partial results of all chunks are in the result, in the input's order.
SameAsSequential ==
  pc = "returned" =>
    IF Elementwise THEN \A k \in Positions : out[k] = Image(k)
    ELSE result = SeqReduce(Identity, Elements(0, conf.size))

\* The call returns, also when the input is shorter than the degree.
Terminates == <>(pc = "returned")

=============================================================================
